-------------------------- MODULE AssertionVerifier --------------------------
(***************************************************************************)
(* Signed internal assertions: sisterd signs one for each read it makes of *)
(* a subsystem (signedReadFromLoopbackSubsystem in apps/sisterd/main.cpp), *)
(* and AssertionVerifier::verify (apps/sisterd/identity/                   *)
(* internal_assertion.cpp) decides whether to take it.                     *)
(*                                                                         *)
(* Several threads call verify() on one verifier.  A call reads the clock  *)
(* once, when it begins, checks the assertion, and only then takes the     *)
(* mutex, forgets the identifiers that have expired by its own reading of  *)
(* the clock, and looks its identifier up.  Time passes and other calls    *)
(* move in between.  An assertion may be presented any number of times.    *)
(*                                                                         *)
(* The signer reads its key's file for every assertion, and the file may   *)
(* be replaced at any time.  Its clock and the verifier's differ by a      *)
(* constant.                                                               *)
(***************************************************************************)
EXTENDS InternalAssertion

CONSTANTS Jtis,             \* assertion identifiers: randomAssertionId() never repeats one
          Threads,          \* threads of the verifier
          Ttl,              \* internalIdentityTtlSeconds
          Skew,             \* VerificationRequirements::clockSkew
          MaximumLifetime,  \* VerificationRequirements::maximumLifetime
          Offset,           \* the verifier's clock minus the signer's
          MaxClock,         \* bound on the signer's clock
          MaxAccepts,       \* bound on how often one assertion is accepted
          NoAssertion, NoCall

ASSUME AssertionAssumption ==
    /\ Ttl \in Nat \ {0} /\ Skew \in Nat /\ MaximumLifetime \in Nat
    /\ Ttl <= MaximumLifetime
    /\ Offset \in Int /\ MaxClock \in Nat /\ MaxAccepts \in Nat

\* What was signed, when, and with which key.
Assertions == [issuedAt : Nat, expiresAt : Nat, claims : ClaimSets, key : Ed25519]
Verifications == [jti : Jtis, now : Int, text : {"whole", "altered"}, result : {"checked", "accepted", "replayed", "refused"}]

ASSUME SentinelAssumption == NoAssertion \notin Assertions /\ NoCall \notin Verifications

VARIABLES
    clock,          \* the signer's clock, in seconds
    keyFile,        \* the file of the signer's private key
    assertions,     \* the assertion signed under each identifier
    verifications,          \* the call each thread is in, or its last one
    seen,           \* the identifiers in seenJtis_
    accepted        \* how often each assertion was accepted

verifierVars == <<clock, keyFile, assertions, verifications, seen, accepted>>

VerifierInit ==
    /\ clock = 0
    /\ keyFile \in KeyFiles
    /\ assertions = [j \in Jtis |-> NoAssertion]
    /\ verifications = [t \in Threads |-> NoCall]
    /\ seen = {}
    /\ accepted = [j \in Jtis |-> 0]

Now == clock + Offset

Signed(j) == assertions[j] # NoAssertion

-----------------------------------------------------------------------------
Tick ==
    /\ clock < MaxClock
    /\ clock' = clock + 1
    /\ UNCHANGED <<keyFile, assertions, verifications, seen, accepted>>

\* The key is exchanged, or its file loses its rights or its contents.
ReplaceKeyFile(file) ==
    /\ file # keyFile
    /\ keyFile' = file
    /\ UNCHANGED <<clock, assertions, verifications, seen, accepted>>

\* signedReadFromLoopbackSubsystem and AssertionSigner::sign, which throw when the key
\* or a claim is not acceptable.
Sign(j, claims) ==
    /\ ~Signed(j)
    /\ KeyUsable(keyFile) /\ ClaimsValid(claims)
    /\ assertions' = [assertions EXCEPT ![j] =
           [issuedAt |-> clock, expiresAt |-> clock + Ttl, claims |-> claims, key |-> keyFile.key]]
    /\ UNCHANGED <<clock, keyFile, verifications, seen, accepted>>

\* Mutant: the clocks are taken to agree.
InTimeExactly(a, now) ==
    /\ a.issuedAt <= now
    /\ a.expiresAt > now
    /\ a.expiresAt - a.issuedAt <= MaximumLifetime

\* Not issued in the future, not expired, not too long-lived.
InTime(a, now) ==
    /\ a.issuedAt <= now + Skew
    /\ a.expiresAt > now - Skew
    /\ a.expiresAt - a.issuedAt <= MaximumLifetime

TextAfter(how) == IF how = "none" THEN "whole" ELSE "altered"

\* Of all texts that can be presented, by what they are made of, those that verify()
\* lets through to the clocks.
Fitting ==
    {made \in ClaimSets \X Ed25519 \X Alterations : Fits(Altered(Compact(made[1], made[2]), made[3]))}

\* The text that a call is given.
Presented(j, how) == <<assertions[j].claims, assertions[j].key, how>>

\* verify() up to the mutex.
CheckAssertion(t, j, how) ==
    /\ Signed(j)
    /\ verifications[t] # NoCall => verifications[t].result # "checked"
    /\ verifications' = [verifications EXCEPT ![t] =
           [jti |-> j, now |-> Now, text |-> TextAfter(how),
            result |-> IF Presented(j, how) \in Fitting /\ InTime(assertions[j], Now)
                       THEN "checked" ELSE "refused"]]
    /\ UNCHANGED <<clock, keyFile, assertions, seen, accepted>>

\* Mutant: identifiers are forgotten as soon as their assertion has expired.
KeptWithoutSkew(now) == {j \in seen : assertions[j].expiresAt > now}

\* The identifiers that survive the pruning of a call that began at `now'.
Kept(now) == {j \in seen : assertions[j].expiresAt > now - Skew}

ResultOf(known) == IF known THEN "replayed" ELSE "accepted"

\* verify() under the mutex.
RecordAssertion(t) ==
    /\ verifications[t] # NoCall /\ verifications[t].result = "checked"
    /\ LET j == verifications[t].jti
           kept == Kept(verifications[t].now)
       IN /\ j \notin kept => accepted[j] < MaxAccepts
          /\ seen' = kept \cup {j}
          /\ verifications' = [verifications EXCEPT ![t].result = ResultOf(j \in kept)]
          /\ accepted' = IF j \in kept THEN accepted ELSE [accepted EXCEPT ![j] = @ + 1]
    /\ UNCHANGED <<clock, keyFile, assertions>>

VerifierNext ==
    \/ Tick
    \/ \E file \in KeyFiles : ReplaceKeyFile(file)
    \/ \E j \in Jtis, claims \in ClaimSets : Sign(j, claims)
    \/ \E t \in Threads, j \in Jtis, how \in Alterations : CheckAssertion(t, j, how)
    \/ \E t \in Threads : RecordAssertion(t)

VerifierSpec == VerifierInit /\ [][VerifierNext]_verifierVars

-----------------------------------------------------------------------------
(***************************************************************************)
(* Properties.                                                             *)
(***************************************************************************)
\* All state has its type.
VerifierTypeOK ==
    /\ clock \in 0..MaxClock
    /\ keyFile \in KeyFiles
    /\ assertions \in [Jtis -> Assertions \cup {NoAssertion}]
    /\ verifications \in [Threads -> Verifications \cup {NoCall}]
    /\ seen \subseteq Jtis
    /\ accepted \in [Jtis -> Nat]

\* Until it has expired for every clock the skew allows, an assertion is
\* accepted at most once, whichever threads verify it and however long each
\* takes between reading the clock and taking the mutex.
UniqueUntilExpiry ==
    [][\A j \in Jtis : accepted[j] > 0 /\ accepted'[j] # accepted[j] =>
           Now >= assertions[j].expiresAt + Skew]_verifierVars

\* The reader takes what the writer wrote, and nothing else.  An assertion for this
\* verifier, signed with the key it knows, is not refused when it is presented as it
\* was signed within its life by the signer's clock, though the verifier's clock be
\* off by up to the skew and the signer's key file have been replaced since; and what
\* passes the checks is a whole assertion for this verifier under that key.
TakenAsSigned ==
    [][\A t \in Threads : verifications'[t] # verifications[t] =>
           LET a == assertions[verifications'[t].jti]
               meant == verifications'[t].text = "whole" /\ Meets(a.claims) /\ a.key = PublicKeys[Kid]
           IN  /\ verifications'[t].result = "refused" /\ meant => clock < a.issuedAt \/ clock >= a.expiresAt
               /\ verifications'[t].result = "checked" => meant]_verifierVars
=============================================================================
