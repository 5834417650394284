\* One request beside the alarm, one failure or restart, a scheduled charter that an
\* edit brings and one that runs on demand.
SPECIFICATION FairSpec
CONSTANTS
    Charters = {x, y}
    Scheduled = {y}
    First = x
    Keys = {k1}
    Requests = {u1}
    MaxTime = 1
    MaxRuns = 1
    Until = 2
    MaxRevisions = 2
    MaxDisturbances = 1
INVARIANTS TypeOK OneActiveRun RecordedSessionsClose ReceiptOutlivesRun InterruptionsAreOwed
PROPERTIES OutcomeIsFinal LedgerSettles
