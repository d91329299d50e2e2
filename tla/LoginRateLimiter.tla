--------------------------- MODULE LoginRateLimiter ---------------------------
(***************************************************************************)
(* The login rate limiter (apps/sisterd/security/login_rate_limiter.cpp)   *)
(* as the workers call it: each reads the steady clock, and takes the      *)
(* mutex some time later, so calls reach the buckets out of order.         *)
(*                                                                         *)
(* A bucket is its sequence of time stamps; the map holds exactly the      *)
(* buckets that are not empty, and lastAccess is the last stamp.  The      *)
(* counters for the log are left out.  `admitted', `evicted', `lag' and    *)
(* `refusal' are history: what was admitted under each key, the keys that  *)
(* lost their bucket, the longest delay between reading the clock and      *)
(* taking the mutex, and the last refusal, until somebody is admitted      *)
(* under its key.                                                          *)
(***************************************************************************)
EXTENDS Integers, Sequences, FiniteSets

CONSTANTS Threads, Addresses, Identities,
          Global, PerAddress, PerIdentity, PerPair,     \* Limits
          MaximumBuckets, Window,
          Second,           \* clock units in a second
          MaxClock,         \* bound on the clock
          NoCall, NoRefusal

\* What the constructor insists on.
ASSUME LimitsAssumption ==
    /\ {Global, PerAddress, PerIdentity, PerPair} \subseteq Nat \ {0}
    /\ MaximumBuckets \in Nat /\ MaximumBuckets >= 4
    /\ Window \in Nat \ {0}
    /\ Second \in Nat \ {0}
    /\ MaxClock \in Nat

GlobalKey == <<"global">>
Keys == {GlobalKey} \cup ({"address"} \X Addresses) \cup ({"identity"} \X Identities)
          \cup ({"pair"} \X Addresses \X Identities)

Limit(key) == CASE key[1] = "global" -> Global
                [] key[1] = "address" -> PerAddress
                [] key[1] = "identity" -> PerIdentity
                [] key[1] = "pair" -> PerPair

Calls == [now : Nat, address : Addresses, identity : Identities]

ASSUME CallAssumption == NoCall \notin Calls

\* The keys of a call, in the order they are looked up.
KeysOf(call) == << GlobalKey,
                   <<"address", call.address>>,
                   <<"identity", call.identity>>,
                   <<"pair", call.address, call.identity>> >>

KeySet(call) == {KeysOf(call)[n] : n \in 1..4}

VARIABLES clock, calls, buckets, admitted, evicted, lag, refusal

vars == <<clock, calls, buckets, admitted, evicted, lag, refusal>>

Init ==
    /\ clock = 0
    /\ calls = [t \in Threads |-> NoCall]
    /\ buckets = [k \in Keys |-> <<>>]
    /\ admitted = [k \in Keys |-> <<>>]
    /\ evicted = {}
    /\ lag = 0
    /\ refusal = NoRefusal

-----------------------------------------------------------------------------
(***************************************************************************)
(* Pruning.                                                                *)
(***************************************************************************)

\* How many attempts are popped: the front ones, up to the first that lives.
Expired(attempts, cutoff) ==
    CHOOSE n \in 0..Len(attempts) :
        /\ \A i \in 1..n : attempts[i] <= cutoff
        /\ n < Len(attempts) => attempts[n + 1] > cutoff

\* Mutant: a bucket forgets one living attempt.
UnexpiredOffByOne(attempts, cutoff) ==
    SubSeq(attempts, Expired(attempts, cutoff) + 2, Len(attempts))

Unexpired(attempts, cutoff) ==
    SubSeq(attempts, Expired(attempts, cutoff) + 1, Len(attempts))

Pruned(now) == [k \in Keys |-> Unexpired(buckets[k], now - Window)]

\* pruneExpired()
PruneExpired ==
    /\ buckets' = Pruned(clock)
    /\ UNCHANGED <<clock, calls, admitted, evicted, lag, refusal>>

-----------------------------------------------------------------------------
(***************************************************************************)
(* Capacity.                                                               *)
(***************************************************************************)
Present(bs) == {k \in Keys : bs[k] # <<>>}
LastAccess(attempts) == attempts[Len(attempts)]

Missing(bs, call) == KeySet(call) \ Present(bs)

\* How many rounds the loop of ensureCapacityUnlocked() makes, if positive.
Excess(bs, call) ==
    Cardinality(Present(bs)) + Cardinality(Missing(bs, call)) - MaximumBuckets

\* Mutant: buckets of pairs are never evicted.
EvictableNoPair(bs, call) ==
    Present(bs) \ ({GlobalKey} \cup KeySet(call) \cup ({"pair"} \X Addresses \X Identities))

Evictable(bs, call) == Present(bs) \ ({GlobalKey} \cup KeySet(call))

\* The sets the loop can evict: the least recently used first, in the order of
\* the hash map among equals.
Evictions(bs, call) ==
    IF Excess(bs, call) <= 0 THEN {{}}
    ELSE {E \in SUBSET Evictable(bs, call) :
            /\ Cardinality(E) = Excess(bs, call)
            /\ \A e \in E, k \in Evictable(bs, call) \ E :
                  LastAccess(bs[e]) <= LastAccess(bs[k])}

-----------------------------------------------------------------------------
(***************************************************************************)
(* checkAndRecord().                                                       *)
(***************************************************************************)

\* The default argument: the clock is read before the mutex is taken.
ReadClock(t, address, identity) ==
    /\ calls[t] = NoCall
    /\ calls' = [calls EXCEPT
                   ![t] = [now |-> clock, address |-> address, identity |-> identity]]
    /\ UNCHANGED <<clock, buckets, admitted, evicted, lag, refusal>>

Full(bs, key) == Len(bs[key]) >= Limit(key)

\* Mutant: the second is not rounded up.
RetryAfterRoundedDown(attempts, now) ==
    LET left == ((Head(attempts) + Window - now) \div Second) * Second
    IN  IF left > Second THEN left ELSE Second

\* Whole seconds, rounded up past the end of the window, and at least one.
RetryAfter(attempts, now) ==
    LET left == ((Head(attempts) + Window - now) \div Second) * Second + Second
    IN  IF left > Second THEN left ELSE Second

Locks(t) ==
    /\ calls[t] # NoCall
    /\ calls' = [calls EXCEPT ![t] = NoCall]
    /\ lag' = IF clock - calls[t].now > lag THEN clock - calls[t].now ELSE lag

\* A bucket is full: nothing is recorded.
Reject(t) ==
    /\ Locks(t)
    /\ LET call == calls[t]
           bs == Pruned(call.now)
           keys == KeysOf(call)
       IN  \E n \in 1..4 :
             /\ Full(bs, keys[n])
             /\ \A m \in 1..(n - 1) : ~Full(bs, keys[m])
             /\ buckets' = bs
             /\ refusal' = [key |-> keys[n],
                            until |-> call.now + RetryAfter(bs[keys[n]], call.now)]
    /\ UNCHANGED <<clock, admitted, evicted>>

Recorded(bs, call) ==
    [k \in Keys |-> IF k \in KeySet(call) THEN Append(bs[k], call.now) ELSE bs[k]]

\* Every bucket has room: the attempt is recorded in all four.
Allow(t) ==
    /\ Locks(t)
    /\ LET call == calls[t]
           bs == Pruned(call.now)
       IN  /\ \A k \in KeySet(call) : ~Full(bs, k)
           /\ \E E \in Evictions(bs, call) :
                /\ buckets' = Recorded([k \in Keys |-> IF k \in E THEN <<>> ELSE bs[k]], call)
                /\ evicted' = evicted \cup E
           /\ admitted' = Recorded(admitted, call)
           /\ refusal' = IF refusal # NoRefusal /\ refusal.key \in KeySet(call)
                         THEN NoRefusal ELSE refusal
    /\ UNCHANGED clock

Tick ==
    /\ clock < MaxClock
    /\ clock' = clock + 1
    /\ UNCHANGED <<calls, buckets, admitted, evicted, lag, refusal>>

Next ==
    \/ \E t \in Threads, a \in Addresses, i \in Identities : ReadClock(t, a, i)
    \/ \E t \in Threads : Reject(t) \/ Allow(t)
    \/ PruneExpired
    \/ Tick

Spec == Init /\ [][Next]_vars

-----------------------------------------------------------------------------
TypeOK ==
    /\ clock \in Nat
    /\ calls \in [Threads -> Calls \cup {NoCall}]
    /\ \A t \in Threads : calls[t] # NoCall => calls[t].now <= clock
    /\ buckets \in [Keys -> Seq(Nat)]
    /\ \A k \in Keys : Len(buckets[k]) <= Limit(k)
    /\ admitted \in [Keys -> Seq(Nat)]
    /\ evicted \subseteq Keys
    /\ lag \in Nat
    /\ refusal = NoRefusal \/ refusal \in [key : Keys, until : Nat]

(***************************************************************************)
(* Among the attempts admitted under a key, any two that are the limit or  *)
(* more places apart are a window apart in time, less the longest delay of *)
(* a call between reading the clock and taking the mutex: no window so     *)
(* shortened holds more attempts than the limit.                           *)
(***************************************************************************)
Spaced(key) ==
    \A i, j \in DOMAIN admitted[key] :
        j - i >= Limit(key) => admitted[key][j] - admitted[key][i] >= Window - lag

\* The limit of the whole process holds whatever is evicted.
GlobalLimitHolds == Spaced(GlobalKey)

\* The limits of an address, an identity and a pair hold as long as the key's
\* bucket was never evicted to make room.
KeyLimitsHold == \A k \in Keys \ evicted : Spaced(k)

\* The number of buckets never exceeds the configured capacity.
BucketsBounded == Cardinality(Present(buckets)) <= MaximumBuckets

\* ensureCapacityUnlocked() always finds enough buckets to evict, so that it
\* never throws with part of them gone.
EvictionSuffices ==
    \A t \in Threads : calls[t] # NoCall =>
        LET bs == Pruned(calls[t].now)
        IN  (\A k \in KeySet(calls[t]) : ~Full(bs, k)) => Evictions(bs, calls[t]) # {}

\* Retry-After is honest: when the client comes back no sooner than it was
\* told, and nobody was admitted under the key meanwhile, that key has room.
RetryAfterHonest ==
    refusal # NoRefusal =>
        Len(Unexpired(buckets[refusal.key], refusal.until - Window)) < Limit(refusal.key)

=============================================================================
