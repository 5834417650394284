\* The values of a live event cannot be fetched.
SPECIFICATION Spec
CONSTANTS
    MaxLog = 2
    MaxOpens = 2
    Shared = FALSE
    LiveReadsFail = TRUE
INVARIANTS CursorIsSound
CHECK_DEADLOCK FALSE
