\* An old response is cancelled while its replacement is on its way.
SPECIFICATION Spec
CONSTANTS
    MaxLog = 2
    MaxOpens = 2
    Shared = FALSE
    LiveReadsFail = FALSE
INVARIANTS RespondersAreListed
CHECK_DEADLOCK FALSE
