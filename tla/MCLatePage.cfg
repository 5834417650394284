SPECIFICATION Spec
CONSTANTS
    a = a
    b = b
    q1 = q1
    q2 = q2
    Participants = {a}
    Routes = {"mailbox"}
    Requests = {q1, q2}
    PageLimit = 1
    MaxLog = 6
    MaxServers = 1
    MaxEvictions = 0
SYMMETRY Slots
CONSTRAINT FollowsOneLog
INVARIANT NoDebtIsLost
CHECK_DEADLOCK FALSE
