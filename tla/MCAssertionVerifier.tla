------------------------ MODULE MCAssertionVerifier ------------------------
(***************************************************************************)
(* AssertionVerifier on a small instance: the verifier's clock is behind   *)
(* by as much as the skew allows, and the verifier knows one of two keys.  *)
(***************************************************************************)
EXTENDS AssertionVerifier, TLC

Behind == -Skew

Symmetry == Permutations(Threads) \cup Permutations(Jtis)

MCPublicKeys == "k1" :> "ed1"
MCRequirements == [audience |-> "reference", purpose |-> "read", capability |-> "a.b.c"]
MCTokens == {"subject", "reference", "other", "read", "request"}
MCCapabilities == {"a.b.c", "a.b.d"}

Asked ==
    [subject |-> "subject", audience |-> "reference", capabilities |-> <<"a.b.d", "a.b.c">>,
     purpose |-> "read", requestId |-> "request"]

\* What the verifier asks for, the claims for another audience, and claims that are
\* not signed.
MCClaimSets ==
    {Asked, [Asked EXCEPT !.audience = "other"], [Asked EXCEPT !.capabilities = <<"a">>]}

KeyFile(key) == [regular |-> TRUE, strict |-> TRUE, key |-> key]
MCKeyFiles == {KeyFile("ed1"), KeyFile("ed2"), [KeyFile("ed1") EXCEPT !.strict = FALSE]}
=============================================================================
