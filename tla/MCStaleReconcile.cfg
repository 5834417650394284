SPECIFICATION Spec
CONSTANTS
    Calls = {callA, callB}
    Timed = {callA}
    Providers = {1}
    Requests = {q1, q2}
    MaxClaims = 1
    MaxDisturbances = 1
INVARIANT NoCallIsForgotten
CHECK_DEADLOCK FALSE
