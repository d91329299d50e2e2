SPECIFICATION GovernanceSpec
CONSTANTS
    i1 = i1
    i2 = i2
    o1 = o1
    r1 = r1
    r2 = r2
    Integrations = {i1, i2}
    Offers = {o1}
    Requirements = {r1, r2}
    OfferOf <- MCOfferOf
    RequirementOf <- MCRequirementOf
    Seeded = i1
    Actors = {a1, a2}
    ExecuteRequests = {q1, q2}
    MaxDecisions = 3
    MaxCalls = 2
SYMMETRY GovernanceSymmetry
INVARIANTS
    TrailExplainsStatus
    ActsUnderApproval
