CONSTANTS
    BYTES_PER_ROW = 2
    HEIGHT = 1
    TermImages <- MCTermImages
    BootImage <- MCBootImage
    LockImage <- MCLockImage
    ByeImage <- MCByeImage
    MaxStrokes = 3
    MaxSilent = 1
    MaxDrawFailures = 1
    MaxOffFailures = 1
SPECIFICATION FairSpec
INVARIANTS KernelInvariants LeftShowing
PROPERTIES Sleeps ShowsLast GoesDark
CHECK_DEADLOCK FALSE
