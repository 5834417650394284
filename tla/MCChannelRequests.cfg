SPECIFICATION Spec
CONSTANTS
    a = a
    b = b
    q1 = q1
    q2 = q2
    Participants = {a}
    Routes = {"mailbox"}
    Requests = {q1, q2}
    PageLimit = 1
    MaxLog = 4
    MaxServers = 2
    MaxEvictions = 1
SYMMETRY Slots
INVARIANTS TypeOK RelationshipFollowsLog NoDebtIsLost
CHECK_DEADLOCK FALSE
