----------------------------- MODULE MCAuthStore -----------------------------
(* The identity store with few accounts, tokens and requests in flight.       *)
EXTENDS AuthStore, TLC

AuthSymmetry == Permutations(Ids) \cup Permutations(Emails)
                  \cup Permutations(Tokens) \cup Permutations(Requests)

=============================================================================
