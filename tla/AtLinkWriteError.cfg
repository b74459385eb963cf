CONSTANTS
    Commands = {plain, message}
    Payloads = {message}
    NoCommand = none
    PROBE_NONCES = 8
    Kinds = {"write"}
    MaxFaults = 1
    Allowed <- MCAllowed
SPECIFICATION FairSpec
PROPERTIES WriteErrorHeals
CHECK_DEADLOCK FALSE
