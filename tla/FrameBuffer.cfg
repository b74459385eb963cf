CONSTANTS
    BYTES_PER_ROW = 2
    HEIGHT = 2
    MaxDraws = 2
    MaxFailures = 1
    MaxInvalidates = 1
SPECIFICATION FairSpec
INVARIANTS CommittedIsShown NothingMissed Tight
PROPERTIES Converges
CHECK_DEADLOCK FALSE
