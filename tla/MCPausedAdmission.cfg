\* By hand: a pause while an admission awaits.
SPECIFICATION Spec
CONSTANTS
    Charters = {x}
    Scheduled = {x}
    First = x
    Keys = {k1}
    Requests = {u1}
    MaxTime = 1
    MaxRuns = 1
    Until = 3
    MaxRevisions = 1
    MaxDisturbances = 0
PROPERTIES PauseStopsAdmission
