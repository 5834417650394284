\* By hand: the retirement of an authority whose run's admission is open.
SPECIFICATION Spec
CONSTANTS
    Charters = {x}
    Scheduled = {}
    First = x
    Keys = {k1}
    Requests = {u1, u2}
    MaxTime = 1
    MaxRuns = 1
    Until = 3
    MaxRevisions = 1
    MaxDisturbances = 0
PROPERTIES RetireAfterClose
