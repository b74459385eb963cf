CONSTANTS
    BYTES_PER_ROW = 2
    HEIGHT = 1
    CHUNK = 1
    Requests <- MCRequests
    Slots <- MCSlots
    MaxRequests = 3
    MaxOutstanding = 1
    MaxOthers = 1
    MaxFaults = 1
SPECIFICATION FairSpec
INVARIANTS HardwareRules RoundRobin
PROPERTIES KeepsPromise AllAnswered
CHECK_DEADLOCK FALSE
