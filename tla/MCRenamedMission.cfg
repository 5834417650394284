\* By hand: an edit that keeps the charter.
SPECIFICATION Spec
CONSTANTS
    Charters = {x}
    Scheduled = {}
    First = x
    Keys = {k1}
    Requests = {u1}
    MaxTime = 1
    MaxRuns = 1
    Until = 3
    MaxRevisions = 2
    MaxDisturbances = 0
INVARIANTS LiveSubjectKeepsAuthority
