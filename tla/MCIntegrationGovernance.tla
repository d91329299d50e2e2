---------------------- MODULE MCIntegrationGovernance ----------------------
(* Two integrations that share an offer and not a requirement.               *)
EXTENDS IntegrationGovernance, TLC

CONSTANTS i1, i2, o1, r1, r2

MCOfferOf == i1 :> o1 @@ i2 :> o1
MCRequirementOf == i1 :> r1 @@ i2 :> r2
GovernanceSymmetry == Permutations(Actors) \cup Permutations(ExecuteRequests)

=============================================================================
