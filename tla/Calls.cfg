SPECIFICATION Spec
CONSTANTS
    SMS_SLOTS = 0
    MaxRings = 0
    PROBE_NONCES = 4
    Followed = {}
    Dialled = {"out"}
    Callers = {"in"}
    MaxKeys = 1
    MaxRx = 1
    MaxTroubles = 1
INVARIANTS Awaited
PROPERTIES NoFalseEnd Converges
CHECK_DEADLOCK FALSE
