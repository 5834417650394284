SPECIFICATION FairSpec
CONSTANTS
    a = a
    b = b
    q1 = q1
    q2 = q2
    Participants = {a}
    Routes = {"mailbox"}
    Requests = {q1, q2}
    PageLimit = 5
    MaxLog = 2
    MaxServers = 1
    MaxEvictions = 1
PROPERTY ProjectionCatchesUp
CHECK_DEADLOCK FALSE
