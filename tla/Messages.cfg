SPECIFICATION Spec
CONSTANTS
    MAX_UD = 16
    OwnNumber <- MCOwn
    SMS_SLOTS = 2
    Scenarios <- MCScenarios
INVARIANTS TextsTrue RepliesTrue
CHECK_DEADLOCK FALSE
