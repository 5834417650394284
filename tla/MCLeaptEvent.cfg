\* A repair outlasts its response; its replacement delivers meanwhile.
SPECIFICATION Spec
CONSTANTS
    MaxLog = 5
    MaxOpens = 2
    Shared = FALSE
    LiveReadsFail = FALSE
INVARIANTS NothingIsLeapt
CHECK_DEADLOCK FALSE
