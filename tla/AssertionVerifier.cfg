SPECIFICATION VerifierSpec
CONSTANTS
    Jtis = {j1, j2}
    Threads = {t1, t2}
    Ttl = 2
    Skew = 1
    MaximumLifetime = 3
    Offset <- Behind
    MaxClock = 4
    MaxAccepts = 2
    NoAssertion = NoAssertion
    NoCall = NoCall
    Kid = "k1"
    PublicKeys <- MCPublicKeys
    VerificationRequirements <- MCRequirements
    ValidTokens <- MCTokens
    Capabilities <- MCCapabilities
    ClaimSets <- MCClaimSets
    KeyFiles <- MCKeyFiles
PROPERTIES UniqueUntilExpiry TakenAsSigned
SYMMETRY Symmetry
