\* Two requests: an edit that compiles while the mission is retired.
SPECIFICATION Spec
CONSTANTS
    Charters = {x, y}
    Scheduled = {y}
    First = x
    Keys = {k1}
    Requests = {u1, u2}
    MaxTime = 1
    MaxRuns = 1
    Until = 3
    MaxRevisions = 2
    MaxDisturbances = 0
PROPERTIES RetireIsPermanent
