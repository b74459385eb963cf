CONSTANTS
    BYTES_PER_ROW = 2
    HEIGHT = 1
    TermImages <- MCTermImages
    BootImage <- MCBootImage
    LockImage <- MCLockImage
    ByeImage <- MCByeImage
    MaxStrokes = 2
    MaxSilent = 0
    MaxDrawFailures = 0
    MaxOffFailures = 0
SPECIFICATION Spec
INVARIANTS AsleepIsDark
CHECK_DEADLOCK FALSE
