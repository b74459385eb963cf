SPECIFICATION HandsetSpec
CONSTANTS
    Plain <- MCPlain
    SymLayer <- MCSymLayer
    Upper <- MCUpper
    AltKeys <- MCAltKeys
    Visible <- MCVisible
    Password <- MCPassword
    Numbers <- MCNumbers
    Chats <- MCChats
    Thread <- MCThread
    Scripts <- Sessions
    MaxAhead = 2
    Params = 1
    FifoCap = 2
    OnUsb = FALSE
    Rows = 2
    HistoryMax = 2
    MaxVolume = 1
    MaxBody = 2
INVARIANTS KeysTrue LockedIsQuiet CallsClosed
PROPERTIES ToldTrue AllTaken
CHECK_DEADLOCK FALSE
