SPECIFICATION Spec
CONSTANTS
    Threads = {w1, w2}
    Addresses = {a1}
    Identities = {i1, i2}
    Global = 2
    PerAddress = 3
    PerIdentity = 1
    PerPair = 2
    MaximumBuckets = 4
    Window = 2
    Second = 2
    MaxClock = 3
    NoCall = NoCall
    NoRefusal = NoRefusal
SYMMETRY RateSymmetry
INVARIANTS
    KeyLimitsHold
    EvictionSuffices
    RetryAfterHonest
