SPECIFICATION FairSpec
CONSTANTS
    Participants = {a}
    Routes = {"direct", "mailbox"}
    MaxLog = 4
    MaxServers = 2
    MaxClaims = 2
    MaxRejoins = 1
INVARIANTS TypeOK LeasedRowsAreHeld
PROPERTIES InOrder ClaimsAreNew DebtsAreSettled
CHECK_DEADLOCK FALSE
