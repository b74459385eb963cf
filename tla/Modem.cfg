SPECIFICATION Spec
CONSTANTS
    SMS_SLOTS = 1
    MaxRings = 0
    PROBE_NONCES = 4
    Followed <- Settings
    Requests = {1, 2}
    Sends = {2}
    MaxWaiting = 1
    MaxOns = 2
    MaxTroubles = 1
PROPERTIES KeepsPromise OnlyConfigured AllAnswered Reconfigures
CHECK_DEADLOCK FALSE
