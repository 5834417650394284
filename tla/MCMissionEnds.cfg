\* By hand: a mission whose time is over with runs to spare.
SPECIFICATION PunctualSpec
CONSTANTS
    Charters = {x}
    Scheduled = {x}
    First = x
    Keys = {k1}
    Requests = {u1}
    MaxTime = 2
    MaxRuns = 2
    Until = 2
    MaxRevisions = 1
    MaxDisturbances = 0
PROPERTIES MissionEnds
