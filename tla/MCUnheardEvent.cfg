\* An event between the read of the replay and the registration.
SPECIFICATION FairSpec
CONSTANTS
    MaxLog = 2
    MaxOpens = 1
    Shared = FALSE
    LiveReadsFail = FALSE
PROPERTIES EverythingArrives
CHECK_DEADLOCK FALSE
