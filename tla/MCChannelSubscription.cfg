\* Two events beside the one that announces the client, one replacement.
\* The client may stop: the bound on its calls is reached.
SPECIFICATION FairSpec
CONSTANTS
    MaxLog = 3
    MaxOpens = 2
    Shared = FALSE
    LiveReadsFail = FALSE
INVARIANTS TypeOK CursorIsSound
PROPERTIES ReplacementCatchesUp LiveEventsReveal Reconnects
CHECK_DEADLOCK FALSE
