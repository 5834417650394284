SPECIFICATION Spec
CONSTANTS
    a = a
    b = b
    q1 = q1
    q2 = q2
    Participants = {a}
    Routes = {"mailbox"}
    Requests = {q1, q2}
    PageLimit = 5
    MaxLog = 3
    MaxServers = 1
    MaxEvictions = 0
INVARIANT LeaveEndsRelationship
CHECK_DEADLOCK FALSE
