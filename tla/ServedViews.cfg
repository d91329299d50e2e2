SPECIFICATION ServedSpec
CONSTANTS
    w1 = w1
    w2 = w2
    w3 = w3
    Workers = {w1, w2, w3}
    ResponseLimit = 2
    None = None
    Stale = Stale
    Loads <- MCLoads
    Projections <- MCProjections
    MaxTime = 3
    Freshness = 2
    NoView = NoView
INVARIANTS AnsweredOnce DisclosedUnderCapability ChangesAreSameOrigin ViewsAreCurrent
PROPERTY EveryRequestEnds
CHECK_DEADLOCK FALSE
