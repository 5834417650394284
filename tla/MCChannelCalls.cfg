SPECIFICATION FairSpec
CONSTANTS
    Calls = {callA}
    Timed = {callA}
    Providers = {1, 2}
    Requests = {q1, q2}
    MaxClaims = 2
    MaxDisturbances = 3
INVARIANTS TypeOK NoCallIsForgotten FenceHolds
PROPERTIES SettlementsEndCalls CallsEnd
CHECK_DEADLOCK FALSE
