\* By hand: two admissions that read the count before one of them raises it.
SPECIFICATION Spec
CONSTANTS
    Charters = {x}
    Scheduled = {x}
    First = x
    Keys = {k1}
    Requests = {u1}
    MaxTime = 1
    MaxRuns = 1
    Until = 3
    MaxRevisions = 1
    MaxDisturbances = 0
INVARIANTS RunsWithinMax
