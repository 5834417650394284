SPECIFICATION FairSpec
CONSTANTS
    model = model
    eval = eval
    t1 = t1
    none = none
    NoTurn = none
    Effects <- ClaimEffects
    Kind <- ClaimKind
    Turn <- ClaimTurn
    Position <- ClaimPosition
    Parallel = {}
    Workers = {1, 2}
    DeferredEval = {eval}
    Settle = {}
    ClaimLimit = 2
    AttemptCap = 2
    Gated = {eval}
    Rerouted = {}
    GenerationLimit = 2
    ClockLimit = 2
INVARIANTS TypeOK ExclusiveClaim LeaseHasClaim NoStrandedDeferral
PROPERTY LeaseEnds

CHECK_DEADLOCK FALSE
