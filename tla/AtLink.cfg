CONSTANTS
    Commands = {plain, message}
    Payloads = {message}
    NoCommand = none
    PROBE_NONCES = 8
    Kinds = {"loss", "late", "write", "restart", "power"}
    MaxFaults = 2
    Allowed <- MCAllowed
SPECIFICATION FairSpec
INVARIANTS OneReply Drained OwnAnswer Truthful
PROPERTIES InOrder KeepsPromise Resyncs Answered
CHECK_DEADLOCK FALSE
