SPECIFICATION Spec
CONSTANTS
    Participants = {a}
    Routes = {"mailbox"}
    MaxLog = 4
    MaxServers = 1
    MaxClaims = 2
    MaxRejoins = 1
PROPERTY OneClaimPerLane
CHECK_DEADLOCK FALSE
