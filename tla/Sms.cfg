SPECIFICATION Spec
CONSTANTS
    SMS_SLOTS = 2
    MaxRings = 0
    PROBE_NONCES = 4
    MAX_ATTEMPTS = 2
    Followed <- MCFollowed
    Arriving <- MCArriving
    Texts <- MCTexts
    Parts <- MCParts
    MaxRx = 1
    MaxTroubles = 1
INVARIANTS NothingLost SendsTrue
PROPERTIES Finishes
CHECK_DEADLOCK FALSE
