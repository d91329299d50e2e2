------------------------- MODULE MCLoginRateLimiter -------------------------
(* The rate limiter with few addresses and identities.                       *)
EXTENDS LoginRateLimiter, TLC

RateSymmetry == Permutations(Threads) \cup Permutations(Addresses)
                  \cup Permutations(Identities)

=============================================================================
