SPECIFICATION Spec
CONSTANTS
    Calls = {callA}
    Timed = {callA}
    Providers = {1}
    Requests = {q1, q2}
    MaxClaims = 1
    MaxDisturbances = 0
INVARIANT TimeoutSparesAnswered
CHECK_DEADLOCK FALSE
