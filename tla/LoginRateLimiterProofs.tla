------------------------ MODULE LoginRateLimiterProofs ------------------------
(***************************************************************************)
(* Theorems about the login rate limiter, for any limits, any number of    *)
(* workers, addresses and identities, and any delay of a worker.           *)
(*                                                                         *)
(* Each bucket is the tail of what was admitted under its key, and what it *)
(* dropped is at least a window old.  An attempt is only admitted with     *)
(* fewer than the limit in the bucket, so the attempt the limit before it  *)
(* has been dropped.                                                       *)
(***************************************************************************)
EXTENDS LoginRateLimiter, FiniteSetTheorems, WellFoundedInduction, TLAPS

\* A bucket is a tail of the history of its key.
TailOf(attempts, history) ==
    /\ attempts \in Seq(Nat)
    /\ Len(attempts) <= Len(history)
    /\ \A i \in 1..Len(attempts) :
          attempts[i] = history[Len(history) - Len(attempts) + i]

\* What is missing from the bucket has left the window at time c.
DroppedBy(attempts, history, c) ==
    \A i \in 1..(Len(history) - Len(attempts)) : history[i] + Window <= c

TailInv == \A k \in Keys : TailOf(buckets[k], admitted[k])
DropInv == \A k \in Keys \ evicted : DroppedBy(buckets[k], admitted[k], clock)
IInv ==
    /\ TypeOK /\ TailInv /\ DropInv
    /\ GlobalKey \notin evicted
    /\ KeyLimitsHold

-----------------------------------------------------------------------------
\* A non-empty set of naturals has a least element.
LEMMA Least ==
    ASSUME NEW T, T # {}, T \subseteq Nat
    PROVE  \E x \in T : \A y \in T : x <= y
<1>1. PICK x \in T : \A y \in T : ~(<<y, x>> \in OpToRel(<, Nat))
  BY NatLessThanWellFounded, WFMin, Zenon
<1>2. \A y \in T : ~(y < x)
  BY <1>1, Zenon DEF OpToRel
<1>3. \A y \in T : x <= y
  BY <1>2
<1>4. QED
  BY <1>3, Zenon

\* The pops of pruneExpiredUnlocked() stop at the first attempt that lives.
LEMMA ExpiredStops ==
    ASSUME NEW s \in Seq(Nat), NEW c \in Int
    PROVE  /\ Expired(s, c) \in 0..Len(s)
           /\ \A i \in 1..Expired(s, c) : s[i] <= c
           /\ Expired(s, c) < Len(s) => s[Expired(s, c) + 1] > c
<1> DEFINE Stop(n) == /\ \A i \in 1..n : s[i] <= c
                      /\ n < Len(s) => s[n + 1] > c
           live == {i \in 1..Len(s) : s[i] > c}
<1>1. \E n \in 0..Len(s) : Stop(n)
  <2>1. CASE live = {}
    <3>1. Len(s) \in 0..Len(s) /\ Stop(Len(s))
      BY <2>1
    <3>2. QED
      BY <3>1, Zenon
  <2>2. CASE live # {}
    <3>1. live \subseteq Nat
      OBVIOUS
    <3>2. PICK m \in live : \A y \in live : m <= y
      BY <2>2, <3>1, Least, Zenon
    <3>3. m - 1 \in 0..Len(s) /\ Stop(m - 1)
      BY <3>2
    <3>4. QED
      BY <3>3, Zenon
  <2>3. QED
    BY <2>1, <2>2, Zenon
<1>2. Expired(s, c) = CHOOSE n \in 0..Len(s) : Stop(n)
  BY Zenon DEF Expired
<1>3. QED
  BY <1>1, <1>2, Zenon

\* Pruning takes attempts off the front, all of them expired.
LEMMA UnexpiredTail ==
    ASSUME NEW s \in Seq(Nat), NEW c \in Int
    PROVE  /\ TailOf(Unexpired(s, c), s)
           /\ \A i \in 1..(Len(s) - Len(Unexpired(s, c))) : s[i] <= c
<1> DEFINE n == Expired(s, c)
<1>1. n \in 0..Len(s) /\ \A i \in 1..n : s[i] <= c
  BY ExpiredStops, SMTT(60)
<1>2. Unexpired(s, c) = SubSeq(s, n + 1, Len(s))
  BY Zenon DEF Unexpired
<1> HIDE DEF n
<1>3. /\ SubSeq(s, n + 1, Len(s)) \in Seq(Nat)
      /\ Len(SubSeq(s, n + 1, Len(s))) = Len(s) - n
      /\ \A i \in 1..(Len(s) - n) : SubSeq(s, n + 1, Len(s))[i] = s[n + i]
  BY <1>1
<1> DEFINE u == Unexpired(s, c)
<1>4. u \in Seq(Nat) /\ Len(s) \in Nat /\ Len(u) = Len(s) - n
  BY <1>2, <1>3
<1>5. \A i \in 1..(Len(s) - n) : u[i] = s[n + i]
  BY <1>2, <1>3, Zenon
<1> HIDE DEF u
<1>6. ASSUME NEW i \in 1..Len(u) PROVE u[i] = s[Len(s) - Len(u) + i]
  <2>1. n = Len(s) - Len(u) /\ i \in 1..(Len(s) - n)
    BY <1>1, <1>4
  <2>2. QED
    BY <2>1, <1>5, Zenon
<1>7. Len(u) <= Len(s) /\ Len(s) - Len(u) = n
  BY <1>1, <1>4
<1>8. TailOf(u, s)
  BY <1>4, <1>6, <1>7, Zenon DEF TailOf
<1>9. \A i \in 1..(Len(s) - Len(u)) : s[i] <= c
  BY <1>1, <1>7, Zenon
<1>10. QED
  BY <1>8, <1>9, Zenon DEF u

\* A tail of a tail is a tail.
LEMMA PrunedTail ==
    ASSUME NEW s, NEW h \in Seq(Nat), NEW c \in Int, TailOf(s, h)
    PROVE  TailOf(Unexpired(s, c), h)
<1>1. s \in Seq(Nat)
  BY Zenon DEF TailOf
<1>2. TailOf(Unexpired(s, c), s)
  BY <1>1, UnexpiredTail, Zenon
<1> DEFINE u == Unexpired(s, c)
<1> HIDE DEF u
<1>3. u \in Seq(Nat) /\ Len(u) \in Nat /\ Len(s) \in Nat /\ Len(h) \in Nat
      /\ Len(u) <= Len(s) /\ Len(s) <= Len(h)
  BY <1>1, <1>2 DEF TailOf, u
<1>4. ASSUME NEW i \in 1..Len(u) PROVE u[i] = h[Len(h) - Len(u) + i]
  <2> DEFINE j == Len(s) - Len(u) + i
  <2>1. j \in 1..Len(s) /\ Len(h) - Len(s) + j = Len(h) - Len(u) + i
    BY <1>3
  <2>2. u[i] = s[j]
    BY <1>2, Zenon DEF TailOf, u
  <2>3. s[j] = h[Len(h) - Len(s) + j]
    BY <2>1, Zenon DEF TailOf
  <2>4. QED
    BY <2>1, <2>2, <2>3, Zenon
<1>5. QED
  BY <1>3, <1>4 DEF TailOf, u

\* Pruning at a reading of the clock drops only what has left the window.
LEMMA PrunedDrops ==
    ASSUME NEW s, NEW h \in Seq(Nat), NEW now \in Nat, NEW c \in Nat, now <= c,
           TailOf(s, h), DroppedBy(s, h, c)
    PROVE  DroppedBy(Unexpired(s, now - Window), h, c)
<1> USE LimitsAssumption
<1>1. s \in Seq(Nat) /\ now - Window \in Int
  BY DEF TailOf
<1> DEFINE u == Unexpired(s, now - Window)
<1>2. TailOf(u, s) /\ \A i \in 1..(Len(s) - Len(u)) : s[i] <= now - Window
  BY <1>1, UnexpiredTail, SMTT(60)
<1> HIDE DEF u
<1>3. ASSUME NEW i \in 1..(Len(h) - Len(u)) PROVE h[i] + Window <= c
  <2>1. Len(u) \in Nat /\ Len(s) \in Nat /\ Len(h) \in Nat
        /\ Len(u) <= Len(s) /\ Len(s) <= Len(h)
    BY <1>1, <1>2 DEF TailOf
  <2>2. CASE i <= Len(h) - Len(s)
    <3>1. i \in 1..(Len(h) - Len(s))
      BY <2>1, <2>2
    <3>2. QED
      BY <3>1, Zenon DEF DroppedBy
  <2>3. CASE ~(i <= Len(h) - Len(s))
    <3> DEFINE m == i - (Len(h) - Len(s))
    <3>1. m \in 1..(Len(s) - Len(u)) /\ m \in 1..Len(s) /\ Len(h) - Len(s) + m = i
      BY <2>1, <2>3
    <3> HIDE DEF m
    <3>2. s[m] = h[Len(h) - Len(s) + m]
      BY <3>1, Zenon DEF TailOf
    <3>3. s[m] = h[i]
      BY <3>1, <3>2, Zenon
    <3>4. s[m] <= now - Window
      BY <3>1, <1>2, Zenon
    <3>5. s[m] \in Nat
      <4>1. s \in Seq(Nat) /\ m \in 1..Len(s)
        BY <3>1, <1>1, Zenon
      <4>2. QED
        BY <4>1, SMTT(60)
    <3>6. QED
      BY <3>3, <3>4, <3>5, SMTT(60)
  <2>4. QED
    BY <2>2, <2>3, Zenon
<1>4. QED
  BY <1>3, Zenon DEF DroppedBy, u

\* Recording an attempt keeps the bucket a tail of the history.
LEMMA AppendTail ==
    ASSUME NEW s, NEW h \in Seq(Nat), NEW x \in Nat, TailOf(s, h)
    PROVE  TailOf(Append(s, x), Append(h, x))
<1>1. s \in Seq(Nat) /\ Len(s) <= Len(h) /\ Len(s) \in Nat /\ Len(h) \in Nat
  BY DEF TailOf
<1>2. /\ Append(s, x) \in Seq(Nat) /\ Len(Append(s, x)) = Len(s) + 1
      /\ Len(Append(h, x)) = Len(h) + 1
      /\ \A i \in 1..Len(s) : Append(s, x)[i] = s[i]
      /\ \A i \in 1..Len(h) : Append(h, x)[i] = h[i]
      /\ Append(s, x)[Len(s) + 1] = x /\ Append(h, x)[Len(h) + 1] = x
  BY <1>1
<1>3. ASSUME NEW i \in 1..(Len(s) + 1)
      PROVE  Append(s, x)[i] = Append(h, x)[Len(h) + 1 - (Len(s) + 1) + i]
  <2>1. CASE i = Len(s) + 1
    <3>1. Len(h) + 1 - (Len(s) + 1) + i = Len(h) + 1
      BY <1>1, <2>1
    <3> QED BY <1>2, <2>1, <3>1, Zenon
  <2>2. CASE i # Len(s) + 1
    <3>1. /\ i \in 1..Len(s) /\ Len(h) - Len(s) + i \in 1..Len(h)
          /\ Len(h) + 1 - (Len(s) + 1) + i = Len(h) - Len(s) + i
      BY <1>1, <2>2
    <3>2. s[i] = h[Len(h) - Len(s) + i]
      BY <3>1, Zenon DEF TailOf
    <3> QED BY <1>2, <3>1, <3>2, Zenon
  <2> QED BY <2>1, <2>2, Zenon
<1>4. Len(s) + 1 <= Len(h) + 1
  BY <1>1
<1> DEFINE a == Append(s, x)
           b == Append(h, x)
<1>5. a \in Seq(Nat) /\ Len(a) = Len(s) + 1 /\ Len(b) = Len(h) + 1
  BY <1>2
<1>6. \A i \in 1..(Len(s) + 1) : a[i] = b[Len(h) + 1 - (Len(s) + 1) + i]
  BY <1>3, Zenon
<1> HIDE DEF a, b
<1>7. TailOf(a, b)
  BY <1>4, <1>5, <1>6 DEF TailOf
<1> QED BY <1>7 DEF a, b

LEMMA AppendDrops ==
    ASSUME NEW s, NEW h \in Seq(Nat), NEW x \in Nat, NEW c \in Nat,
           TailOf(s, h), DroppedBy(s, h, c)
    PROVE  DroppedBy(Append(s, x), Append(h, x), c)
  BY DEF TailOf, DroppedBy

\* Recording an attempt when the bucket has room keeps the history spaced.
SpacedSeq(h, limit, delay) ==
    \A i, j \in 1..Len(h) : j - i >= limit => h[j] - h[i] >= Window - delay

LEMMA LateEnough ==
    ASSUME NEW a \in Nat, NEW w \in Nat, NEW c \in Nat, NEW x \in Nat, NEW e \in Nat,
           a + w <= c, c - x <= e
    PROVE  x - a >= w - e
  OBVIOUS

LEMMA MoreDelay ==
    ASSUME NEW a \in Nat, NEW b \in Nat, NEW w \in Nat, NEW d \in Nat, NEW e \in Nat,
           b - a >= w - d, d <= e
    PROVE  b - a >= w - e
  OBVIOUS

LEMMA AppendSpaced ==
    ASSUME NEW s, NEW h \in Seq(Nat), NEW c \in Nat, NEW x \in Nat,
           NEW limit \in Nat \ {0}, NEW d \in Nat, NEW e \in Nat,
           TailOf(s, h), DroppedBy(s, h, c), Len(s) < limit,
           d <= e, c - x <= e, SpacedSeq(h, limit, d)
    PROVE  SpacedSeq(Append(h, x), limit, e)
<1> DEFINE g == Append(h, x)
<1>1. Len(g) = Len(h) + 1 /\ Len(h) \in Nat /\ g[Len(h) + 1] = x
  OBVIOUS
<1>2. \A i \in 1..Len(h) : g[i] = h[i] /\ h[i] \in Nat
  OBVIOUS
<1>3. Len(s) \in Nat /\ Window \in Nat
  BY LimitsAssumption DEF TailOf
<1> HIDE DEF g
<1>4. ASSUME NEW i \in 1..Len(g), NEW j \in 1..Len(g), j - i >= limit
      PROVE  g[j] - g[i] >= Window - e
  <2>1. i \in 1..Len(h)
    BY <1>1, <1>4
  <2>2. g[i] = h[i] /\ h[i] \in Nat
    BY <1>2, <2>1, Zenon
  <2>3. CASE j = Len(h) + 1
    <3>1. i \in 1..(Len(h) - Len(s))
      BY <1>1, <1>3, <1>4, <2>1, <2>3
    <3>2. h[i] + Window <= c
      BY <3>1, Zenon DEF DroppedBy
    <3>3. g[j] = x
      BY <1>1, <2>3, Zenon
    <3>4. x - h[i] >= Window - e
      BY <1>3, <2>2, <3>2, LateEnough, SMTT(60)
    <3>5. QED
      BY <2>2, <3>3, <3>4, Zenon
  <2>4. CASE j # Len(h) + 1
    <3>1. j \in 1..Len(h)
      BY <1>1, <2>4
    <3>2. h[j] - h[i] >= Window - d
      BY <2>1, <3>1, <1>4, Zenon DEF SpacedSeq
    <3>3. g[j] = h[j] /\ h[j] \in Nat
      BY <1>2, <3>1, Zenon
    <3>4. h[j] - h[i] >= Window - e
      BY <1>3, <2>2, <3>2, <3>3, MoreDelay, Zenon
    <3>5. QED
      BY <2>2, <3>3, <3>4, Zenon
  <2>5. QED
    BY <2>3, <2>4, Zenon
<1>5. QED
  BY <1>4, Zenon DEF SpacedSeq, g

LEMMA WeakerSpaced ==
    ASSUME NEW h \in Seq(Nat), NEW limit \in Nat \ {0}, NEW d \in Nat, NEW e \in Nat,
           d <= e, SpacedSeq(h, limit, d)
    PROVE  SpacedSeq(h, limit, e)
  BY LimitsAssumption, SMTT(60) DEF SpacedSeq

-----------------------------------------------------------------------------
\* The constructor accepts only positive limits.
LEMMA LimitType == \A k \in Keys : Limit(k) \in Nat \ {0}
  BY LimitsAssumption DEF Keys, GlobalKey, Limit

LEMMA KeySetFacts ==
    ASSUME NEW call \in Calls
    PROVE  /\ KeySet(call) \subseteq Keys
           /\ GlobalKey \in KeySet(call)
           /\ GlobalKey \in Keys
<1>1. KeySet(call) = {GlobalKey, <<"address", call.address>>, <<"identity", call.identity>>,
                      <<"pair", call.address, call.identity>>}
  BY DEF KeySet, KeysOf
<1>2. QED
  BY <1>1 DEF Keys, Calls

LEMMA EvictionsEvictable ==
    ASSUME NEW bs, NEW call, NEW E \in Evictions(bs, call)
    PROVE  E \subseteq Evictable(bs, call)
  BY Zenon DEF Evictions

\* What pruning leaves, in every bucket.
LEMMA PruneFacts ==
    ASSUME TypeOK, TailInv, DropInv, NEW now \in Nat, now <= clock
    PROVE  /\ Pruned(now) \in [Keys -> Seq(Nat)]
           /\ \A k \in Keys : /\ TailOf(Pruned(now)[k], admitted[k])
                              /\ Len(Pruned(now)[k]) <= Len(buckets[k])
           /\ \A k \in Keys \ evicted : DroppedBy(Pruned(now)[k], admitted[k], clock)
<1>1. now - Window \in Int /\ clock \in Nat
  BY LimitsAssumption DEF TypeOK
<1>2. ASSUME NEW k \in Keys
      PROVE  /\ Pruned(now)[k] = Unexpired(buckets[k], now - Window)
             /\ buckets[k] \in Seq(Nat) /\ admitted[k] \in Seq(Nat)
             /\ TailOf(buckets[k], admitted[k])
  BY Zenon DEF Pruned, TypeOK, TailInv
<1>3. ASSUME NEW k \in Keys
      PROVE  /\ TailOf(Pruned(now)[k], admitted[k])
             /\ TailOf(Pruned(now)[k], buckets[k])
  BY <1>1, <1>2, PrunedTail, UnexpiredTail
<1>4. ASSUME NEW k \in Keys \ evicted PROVE DroppedBy(Pruned(now)[k], admitted[k], clock)
  <2>1. DroppedBy(buckets[k], admitted[k], clock)
    BY Zenon DEF DropInv
  <2>2. QED
    BY <1>1, <1>2, <2>1, PrunedDrops, Zenon
<1>5. Pruned(now) \in [Keys -> Seq(Nat)]
  BY <1>3, Zenon DEF Pruned, TailOf
<1>6. QED
  BY <1>3, <1>4, <1>5, Zenon DEF TailOf

-----------------------------------------------------------------------------
LEMMA InitInv == Init => IInv
<1> SUFFICES ASSUME Init PROVE IInv
  OBVIOUS
<1> USE LimitsAssumption, LimitType DEF Init
<1>1. TypeOK
  BY DEF TypeOK
<1>2. TailInv /\ DropInv
  BY DEF TailInv, TailOf, DropInv, DroppedBy
<1>3. KeyLimitsHold
  BY DEF KeyLimitsHold, Spaced
<1>4. QED
  BY <1>1, <1>2, <1>3, Zenon DEF IInv

\* Taking the mutex: the call is over and its delay is remembered.
LEMMA LockFacts ==
    ASSUME TypeOK, NEW t \in Threads, Locks(t)
    PROVE  /\ calls[t] \in Calls /\ calls[t].now \in Nat /\ calls[t].now <= clock
           /\ calls' \in [Threads -> Calls \cup {NoCall}]
           /\ \A u \in Threads : calls'[u] # NoCall => calls'[u] = calls[u]
           /\ lag' \in Nat /\ lag <= lag' /\ clock - calls[t].now <= lag'
<1>1. calls[t] \in Calls /\ calls[t].now <= clock
  BY Zenon DEF TypeOK, Locks
<1>2. calls[t].now \in Nat
  BY <1>1, Zenon DEF Calls
<1>3. calls' \in [Threads -> Calls \cup {NoCall}]
      /\ \A u \in Threads : calls'[u] # NoCall => calls'[u] = calls[u]
  BY Zenon DEF TypeOK, Locks
<1>4. lag' \in Nat /\ lag <= lag' /\ clock - calls[t].now <= lag'
  BY <1>1, <1>2 DEF TypeOK, Locks
<1>5. QED
  BY <1>1, <1>2, <1>3, <1>4, Zenon

\* The limits hold as before when nothing is admitted.
LEMMA NothingAdmitted ==
    ASSUME TypeOK, KeyLimitsHold, UNCHANGED admitted, evicted' = evicted,
           lag' \in Nat, lag <= lag'
    PROVE  KeyLimitsHold'
<1> SUFFICES ASSUME NEW k \in Keys \ evicted PROVE Spaced(k)'
  BY Zenon DEF KeyLimitsHold
<1>1. admitted[k] \in Seq(Nat) /\ Limit(k) \in Nat \ {0} /\ lag \in Nat
  BY LimitType, Zenon DEF TypeOK
<1>2. DOMAIN admitted[k] = 1..Len(admitted[k])
  BY <1>1
<1>3. SpacedSeq(admitted[k], Limit(k), lag)
  BY <1>2, Zenon DEF KeyLimitsHold, Spaced, SpacedSeq
<1>4. SpacedSeq(admitted[k], Limit(k), lag')
  BY <1>1, <1>3, WeakerSpaced, Zenon
<1>5. QED
  BY <1>2, <1>4, Zenon DEF Spaced, SpacedSeq

\* Retry-After is a number of clock units.
LEMMA RetryAfterType ==
    ASSUME NEW s \in Seq(Nat), Len(s) > 0, NEW now \in Nat
    PROVE  RetryAfter(s, now) \in Nat
<1>1. Window \in Nat /\ Second \in Nat \ {0}
  BY LimitsAssumption, Zenon
<1>2. Head(s) \in Nat
  OBVIOUS
<1>3. \A x \in Int : (x \div Second) * Second + Second \in Int
  BY <1>1
<1> DEFINE left == ((Head(s) + Window - now) \div Second) * Second + Second
<1>4. left \in Int
  <2>1. Head(s) + Window - now \in Int
    BY <1>1, <1>2
  <2>2. QED
    BY <2>1, <1>3, Zenon
<1>5. RetryAfter(s, now) = IF left > Second THEN left ELSE Second
  BY Zenon DEF RetryAfter
<1> HIDE DEF left
<1>6. QED
  BY <1>1, <1>4, <1>5

LEMMA PruneStep == IInv /\ PruneExpired => IInv'
<1> SUFFICES ASSUME IInv, PruneExpired PROVE IInv'
  OBVIOUS
<1>1. TypeOK /\ TailInv /\ DropInv /\ KeyLimitsHold /\ GlobalKey \notin evicted
  BY Zenon DEF IInv
<1>2. clock \in Nat /\ clock <= clock /\ buckets' = Pruned(clock)
  BY <1>1 DEF TypeOK, PruneExpired
<1>3. /\ buckets' \in [Keys -> Seq(Nat)]
      /\ \A k \in Keys : TailOf(buckets'[k], admitted[k]) /\ Len(buckets'[k]) <= Len(buckets[k])
      /\ \A k \in Keys \ evicted : DroppedBy(buckets'[k], admitted[k], clock)
  BY <1>1, <1>2, PruneFacts, Zenon
<1>4. \A k \in Keys : Len(buckets'[k]) <= Limit(k)
  BY <1>1, <1>3, LimitType DEF TypeOK
<1>5. TypeOK'
  BY <1>1, <1>3, <1>4, Zenon DEF TypeOK, PruneExpired
<1>6. TailInv' /\ DropInv'
  BY <1>3, Zenon DEF TailInv, DropInv, PruneExpired
<1>7. KeyLimitsHold'
  BY <1>1, NothingAdmitted DEF PruneExpired, TypeOK
<1>8. QED
  BY <1>1, <1>5, <1>6, <1>7, Zenon DEF IInv, PruneExpired

LEMMA RejectStep == ASSUME NEW t \in Threads, IInv, Reject(t) PROVE IInv'
<1>1. TypeOK /\ TailInv /\ DropInv /\ KeyLimitsHold /\ GlobalKey \notin evicted
  BY Zenon DEF IInv
<1>2. Locks(t) /\ UNCHANGED <<clock, admitted, evicted>>
  BY Zenon DEF Reject
<1> DEFINE call == calls[t]
           bs == Pruned(call.now)
<1>3. /\ call \in Calls /\ call.now \in Nat /\ call.now <= clock
      /\ calls' \in [Threads -> Calls \cup {NoCall}]
      /\ \A u \in Threads : calls'[u] # NoCall => calls'[u] = calls[u]
      /\ lag' \in Nat /\ lag <= lag'
  BY <1>1, <1>2, LockFacts, Zenon
<1>4. /\ bs \in [Keys -> Seq(Nat)]
      /\ \A k \in Keys : TailOf(bs[k], admitted[k]) /\ Len(bs[k]) <= Len(buckets[k])
      /\ \A k \in Keys \ evicted : DroppedBy(bs[k], admitted[k], clock)
  BY <1>1, <1>3, PruneFacts, SMTT(60)
<1>5. PICK n \in 1..4 :
        /\ Full(bs, KeysOf(call)[n])
        /\ buckets' = bs
        /\ refusal' = [key |-> KeysOf(call)[n],
                       until |-> call.now + RetryAfter(bs[KeysOf(call)[n]], call.now)]
  BY Zenon DEF Reject
<1> DEFINE key == KeysOf(call)[n]
<1>6. key \in Keys
  BY <1>3, KeySetFacts, Zenon DEF KeySet
<1> HIDE DEF bs, call, key
<1>7. refusal' \in [key : Keys, until : Nat]
  <2>1. bs[key] \in Seq(Nat) /\ Len(bs[key]) > 0
    BY <1>4, <1>5, <1>6, LimitType DEF Full, key
  <2>2. RetryAfter(bs[key], call.now) \in Nat
    BY <2>1, <1>3, RetryAfterType, Zenon
  <2>3. call.now + RetryAfter(bs[key], call.now) \in Nat
    BY <2>2, <1>3
  <2>4. QED
    BY <2>3, <1>5, <1>6, Zenon DEF key
<1>8. \A k \in Keys : Len(buckets'[k]) <= Limit(k)
  BY <1>1, <1>4, <1>5, LimitType DEF TypeOK
<1>9. TypeOK'
  BY <1>1, <1>2, <1>3, <1>4, <1>5, <1>7, <1>8, Zenon DEF TypeOK
<1>10. TailInv' /\ DropInv'
  BY <1>2, <1>4, <1>5, Zenon DEF TailInv, DropInv
<1>11. KeyLimitsHold'
  BY <1>1, <1>2, <1>3, NothingAdmitted, SMTT(60)
<1>12. QED
  BY <1>1, <1>2, <1>9, <1>10, <1>11, Zenon DEF IInv

\* What Allow(t) does to each key, with the buckets E evicted.
LEMMA AllowFacts ==
    ASSUME NEW t \in Threads, TypeOK, TailInv, DropInv, Allow(t)
    PROVE  \E E \in SUBSET Keys :
             LET call == calls[t]
                 bs == Pruned(call.now)
             IN  /\ E \in Evictions(bs, call)
                 /\ E \cap KeySet(call) = {} /\ GlobalKey \notin E
                 /\ evicted' = evicted \cup E
                 /\ \A k \in KeySet(call) : /\ ~Full(bs, k)
                                            /\ buckets'[k] = Append(bs[k], call.now)
                                            /\ admitted'[k] = Append(admitted[k], call.now)
                 /\ \A k \in Keys \ KeySet(call) :
                       /\ buckets'[k] = IF k \in E THEN <<>> ELSE bs[k]
                       /\ admitted'[k] = admitted[k]
                 /\ DOMAIN buckets' = Keys /\ DOMAIN admitted' = Keys
                 /\ buckets' = [k \in Keys |-> buckets'[k]]
                 /\ admitted' = [k \in Keys |-> admitted'[k]]
<1> DEFINE call == calls[t]
           bs == Pruned(call.now)
<1>1. Locks(t)
  BY Zenon DEF Allow
<1>2. call \in Calls
  BY <1>1, LockFacts, Zenon
<1>3. KeySet(call) \subseteq Keys
  BY <1>2, KeySetFacts, Zenon
<1>4. PICK E \in Evictions(bs, call) :
        /\ buckets' = Recorded([k \in Keys |-> IF k \in E THEN <<>> ELSE bs[k]], call)
        /\ evicted' = evicted \cup E
  BY Zenon DEF Allow
<1>5. \A k \in KeySet(call) : ~Full(bs, k)
  BY Zenon DEF Allow
<1>6. admitted' = Recorded(admitted, call)
  BY Zenon DEF Allow
<1>7. E \subseteq Keys /\ E \cap KeySet(call) = {} /\ GlobalKey \notin E
  BY EvictionsEvictable, Zenon DEF Evictable, Present
<1> HIDE DEF bs, call
<1>8. QED
  BY <1>3, <1>4, <1>5, <1>6, <1>7, Zenon DEF Recorded, bs, call

LEMMA AllowStep == ASSUME NEW t \in Threads, IInv, Allow(t) PROVE IInv'
<1>1. TypeOK /\ TailInv /\ DropInv /\ KeyLimitsHold /\ GlobalKey \notin evicted
  BY Zenon DEF IInv
<1>2. Locks(t) /\ UNCHANGED clock
  BY Zenon DEF Allow
<1> DEFINE call == calls[t]
           bs == Pruned(call.now)
<1>3. /\ call \in Calls /\ call.now \in Nat /\ call.now <= clock
      /\ calls' \in [Threads -> Calls \cup {NoCall}]
      /\ \A u \in Threads : calls'[u] # NoCall => calls'[u] = calls[u]
      /\ lag' \in Nat /\ lag <= lag' /\ clock - call.now <= lag'
  BY <1>1, <1>2, LockFacts, Zenon
<1>4. /\ bs \in [Keys -> Seq(Nat)]
      /\ \A k \in Keys : TailOf(bs[k], admitted[k]) /\ Len(bs[k]) <= Len(buckets[k])
      /\ \A k \in Keys \ evicted : DroppedBy(bs[k], admitted[k], clock)
  BY <1>1, <1>3, PruneFacts, Zenon
<1>5. PICK E \in SUBSET Keys :
        /\ E \cap KeySet(call) = {} /\ GlobalKey \notin E
        /\ evicted' = evicted \cup E
        /\ \A k \in KeySet(call) : /\ ~Full(bs, k)
                                   /\ buckets'[k] = Append(bs[k], call.now)
                                   /\ admitted'[k] = Append(admitted[k], call.now)
        /\ \A k \in Keys \ KeySet(call) :
              /\ buckets'[k] = IF k \in E THEN <<>> ELSE bs[k]
              /\ admitted'[k] = admitted[k]
        /\ buckets' = [k \in Keys |-> buckets'[k]]
        /\ admitted' = [k \in Keys |-> admitted'[k]]
  BY <1>1, AllowFacts, SMTT(60)
<1>6. KeySet(call) \subseteq Keys
  BY <1>3, KeySetFacts, Zenon
<1> HIDE DEF bs, call
<1>7. \A k \in Keys : /\ admitted[k] \in Seq(Nat) /\ Len(buckets[k]) <= Limit(k)
                     /\ Limit(k) \in Nat \ {0} /\ bs[k] \in Seq(Nat)
                     /\ buckets[k] \in Seq(Nat)
  BY <1>1, <1>4, LimitType, Zenon DEF TypeOK
<1>8. \A k \in KeySet(call) : Len(bs[k]) < Limit(k)
  BY <1>5, <1>6, <1>7 DEF Full
<1>9. ASSUME NEW k \in Keys
      PROVE  buckets'[k] \in Seq(Nat) /\ admitted'[k] \in Seq(Nat)
             /\ Len(buckets'[k]) <= Limit(k) /\ TailOf(buckets'[k], admitted'[k])
  <2>1. CASE k \in KeySet(call)
    <3>1. buckets'[k] = Append(bs[k], call.now) /\ admitted'[k] = Append(admitted[k], call.now)
      BY <2>1, <1>5, Zenon
    <3>2. TailOf(buckets'[k], admitted'[k])
      BY <3>1, <1>3, <1>4, <1>7, AppendTail
    <3>3. bs[k] \in Seq(Nat) /\ admitted[k] \in Seq(Nat) /\ Len(bs[k]) < Limit(k) /\ Limit(k) \in Nat
      BY <2>1, <1>7, <1>8
    <3>4. /\ Append(bs[k], call.now) \in Seq(Nat) /\ Append(admitted[k], call.now) \in Seq(Nat)
          /\ Len(Append(bs[k], call.now)) <= Limit(k)
      BY <3>3, <1>3
    <3> QED BY <3>1, <3>2, <3>4, Zenon
  <2>2. CASE k \notin KeySet(call)
    <3>1. admitted'[k] = admitted[k] /\ (buckets'[k] = <<>> \/ buckets'[k] = bs[k])
      BY <2>2, <1>5, Zenon
    <3>2. TailOf(<<>>, admitted[k]) /\ TailOf(bs[k], admitted[k])
      <4>1. TailOf(bs[k], admitted[k]) /\ Len(admitted[k]) \in Nat
        BY <1>4, <1>7
      <4>2. TailOf(<<>>, admitted[k])
        BY <4>1 DEF TailOf
      <4> QED BY <4>1, <4>2
    <3>3. Len(<<>>) <= Limit(k) /\ Len(bs[k]) <= Limit(k)
      BY <1>4, <1>7
    <3>4. CASE buckets'[k] = <<>>
      <4>1. <<>> \in Seq(Nat)
        OBVIOUS
      <4>2. QED
        BY <4>1, <3>1, <3>2, <3>3, <3>4, <1>7, Zenon
    <3>5. CASE buckets'[k] = bs[k]
      BY <3>1, <3>2, <3>3, <3>5, <1>7, Zenon
    <3>6. QED
      BY <3>1, <3>4, <3>5, Zenon
  <2>3. QED
    BY <2>1, <2>2, Zenon
<1>10. TypeOK'
  <2>1. buckets' \in [Keys -> Seq(Nat)] /\ admitted' \in [Keys -> Seq(Nat)]
    BY <1>5, <1>9, Zenon
  <2>2. refusal' = NoRefusal \/ refusal' = refusal
    BY Zenon DEF Allow
  <2>3. evicted' \subseteq Keys
    BY <1>1, <1>5, Zenon DEF TypeOK
  <2>4. QED
    BY <1>1, <1>2, <1>3, <1>9, <2>1, <2>2, <2>3, Zenon DEF TypeOK
<1>11. TailInv'
  BY <1>9, SMTT(60) DEF TailInv
<1>12. ASSUME NEW k \in Keys \ evicted'
       PROVE  /\ DroppedBy(buckets'[k], admitted'[k], clock)
              /\ SpacedSeq(admitted'[k], Limit(k), lag')
  <2>1. k \in Keys \ evicted /\ k \notin E
    BY <1>5, Zenon
  <2>2. DOMAIN admitted[k] = 1..Len(admitted[k])
    BY <2>1, <1>7
  <2>3. SpacedSeq(admitted[k], Limit(k), lag)
    BY <1>1, <2>1, <2>2, Zenon DEF KeyLimitsHold, Spaced, SpacedSeq
  <2>4. DroppedBy(bs[k], admitted[k], clock) /\ TailOf(bs[k], admitted[k])
    BY <1>4, <2>1, Zenon
  <2>5. clock \in Nat /\ lag \in Nat
    BY <1>1, Zenon DEF TypeOK
  <2>6. CASE k \in KeySet(call)
    <3>1. buckets'[k] = Append(bs[k], call.now) /\ admitted'[k] = Append(admitted[k], call.now)
      BY <2>6, <1>5, Zenon
    <3>2. DroppedBy(buckets'[k], admitted'[k], clock)
      BY <3>1, <2>4, <2>5, <1>3, <1>7, AppendDrops, SMTT(60)
    <3>3. SpacedSeq(Append(admitted[k], call.now), Limit(k), lag')
      <4>1. /\ admitted[k] \in Seq(Nat) /\ Limit(k) \in Nat \ {0}
            /\ Len(bs[k]) < Limit(k)
        BY <2>6, <1>7, <1>8, Zenon
      <4>2. QED
        BY <4>1, <2>3, <2>4, <2>5, <1>3, AppendSpaced, SMTT(60)
    <3>4. QED
      BY <3>1, <3>2, <3>3, Zenon
  <2>7. CASE k \notin KeySet(call)
    <3>1. admitted'[k] = admitted[k] /\ buckets'[k] = bs[k]
      BY <2>1, <2>7, <1>5, Zenon
    <3>2. SpacedSeq(admitted[k], Limit(k), lag')
      BY <2>3, <2>5, <1>3, <1>7, WeakerSpaced, Zenon
    <3>3. QED
      BY <3>1, <3>2, <2>4, Zenon
  <2>8. QED
    BY <2>6, <2>7, Zenon
<1>13. DropInv'
  BY <1>2, <1>12, Zenon DEF DropInv
<1>14. KeyLimitsHold'
  <2> SUFFICES ASSUME NEW k \in Keys \ evicted' PROVE Spaced(k)'
    BY Zenon DEF KeyLimitsHold
  <2>1. DOMAIN admitted'[k] = 1..Len(admitted'[k])
    BY <1>9
  <2>2. QED
    BY <1>12, <2>1, Zenon DEF Spaced, SpacedSeq
<1>15. QED
  BY <1>1, <1>5, <1>10, <1>11, <1>13, <1>14, Zenon DEF IInv

LEMMA ReadStep ==
    ASSUME NEW t \in Threads, NEW a \in Addresses, NEW i \in Identities, IInv,
           ReadClock(t, a, i)
    PROVE  IInv'
<1>1. TypeOK'
  BY DEF IInv, TypeOK, ReadClock, Calls
<1>2. TailInv' /\ DropInv' /\ KeyLimitsHold' /\ GlobalKey \notin evicted'
  BY Zenon DEF IInv, ReadClock, TailInv, DropInv, KeyLimitsHold, Spaced
<1>3. QED
  BY <1>1, <1>2, Zenon DEF IInv

LEMMA TickStep == IInv /\ Tick => IInv'
<1> SUFFICES ASSUME IInv, Tick PROVE IInv'
  OBVIOUS
<1>1. TypeOK'
  BY DEF IInv, TypeOK, Tick, Calls
<1>2. TailInv' /\ KeyLimitsHold' /\ GlobalKey \notin evicted'
  BY Zenon DEF IInv, Tick, TailInv, KeyLimitsHold, Spaced
<1>3. DropInv'
  <2> SUFFICES ASSUME NEW k \in Keys \ evicted,
                      NEW j \in 1..(Len(admitted[k]) - Len(buckets[k]))
               PROVE  admitted[k][j] + Window <= clock'
    BY Zenon DEF DropInv, DroppedBy, Tick
  <2>1. admitted[k][j] + Window <= clock
    BY Zenon DEF IInv, DropInv, DroppedBy
  <2>2. admitted[k] \in Seq(Nat) /\ buckets[k] \in Seq(Nat)
    BY Zenon DEF IInv, TypeOK
  <2>3. admitted[k][j] \in Nat
    <3>1. j \in 1..Len(admitted[k])
      BY <2>2
    <3>2. QED
      BY <2>2, <3>1
  <2>4. Window \in Nat /\ clock \in Nat /\ clock' = clock + 1
    BY LimitsAssumption, Zenon DEF IInv, TypeOK, Tick
  <2>5. QED
    BY <2>1, <2>3, <2>4
<1>4. QED
  BY <1>1, <1>2, <1>3, Zenon DEF IInv

LEMMA Inductive == Spec => []IInv
<1>1. IInv /\ [Next]_vars => IInv'
  <2> SUFFICES ASSUME IInv, [Next]_vars PROVE IInv'
    OBVIOUS
  <2>1. CASE UNCHANGED vars
    BY <2>1, Zenon DEF vars, IInv, TypeOK, TailInv, DropInv, KeyLimitsHold, Spaced
  <2>2. CASE Next
    BY <2>2, ReadStep, RejectStep, AllowStep, PruneStep, TickStep, Zenon DEF Next
  <2>3. QED
    BY <2>1, <2>2, Zenon
<1>2. QED
  BY InitInv, <1>1, PTL DEF Spec

\* The state of the limiter keeps its type, and no bucket passes its limit.
THEOREM TypeCorrect == Spec => []TypeOK
<1>1. IInv => TypeOK
  BY Zenon DEF IInv
<1>2. QED
  BY <1>1, Inductive, PTL

\* checkAndRecord() keeps the limits of every key that was not evicted, in
\* every window less the longest delay of a call before the mutex.
THEOREM LimitsHold == Spec => []KeyLimitsHold
<1>1. IInv => KeyLimitsHold
  BY Zenon DEF IInv
<1>2. QED
  BY <1>1, Inductive, PTL

\* The limit of the whole process holds whatever ensureCapacityUnlocked()
\* evicts, because it never evicts the global bucket.
THEOREM GlobalLimit == Spec => []GlobalLimitHolds
<1>1. GlobalKey \in Keys
  BY Zenon DEF Keys
<1>2. IInv => GlobalLimitHolds
  BY <1>1, Zenon DEF IInv, KeyLimitsHold, GlobalLimitHolds
<1>3. QED
  BY <1>2, Inductive, PTL

-----------------------------------------------------------------------------
(***************************************************************************)
(* The capacity: each round of the eviction loop makes room for one of the *)
(* buckets that are about to be created.                                   *)
(***************************************************************************)
BoundInv == IsFiniteSet(Present(buckets)) /\ BucketsBounded

\* Pruning creates no bucket.
LEMMA PrunedPresent ==
    ASSUME IInv, BoundInv, NEW now \in Nat, now <= clock
    PROVE  /\ Present(Pruned(now)) \subseteq Present(buckets)
           /\ IsFiniteSet(Present(Pruned(now)))
           /\ Cardinality(Present(Pruned(now))) <= Cardinality(Present(buckets))
<1>1. /\ Pruned(now) \in [Keys -> Seq(Nat)]
      /\ \A k \in Keys : Len(Pruned(now)[k]) <= Len(buckets[k])
  BY PruneFacts, Zenon DEF IInv
<1>2. buckets \in [Keys -> Seq(Nat)]
  BY Zenon DEF IInv, TypeOK
<1>3. ASSUME NEW k \in Keys, Pruned(now)[k] # <<>> PROVE buckets[k] # <<>>
  <2>1. Len(Pruned(now)[k]) > 0
    BY <1>1, <1>3
  <2>2. QED
    BY <1>1, <1>2, <2>1
<1>4. Present(Pruned(now)) \subseteq Present(buckets)
  BY <1>3, Zenon DEF Present
<1>5. QED
  BY <1>4, FS_Subset, Zenon DEF BoundInv

LEMMA KeySetFinite == ASSUME NEW call PROVE IsFiniteSet(KeySet(call))
<1> DEFINE a == GlobalKey
           b == <<"address", call.address>>
           c == <<"identity", call.identity>>
           d == <<"pair", call.address, call.identity>>
<1>1. KeySet(call) = ((({} \cup {a}) \cup {b}) \cup {c}) \cup {d}
  BY DEF KeySet, KeysOf
<1> HIDE DEF a, b, c, d
<1>2. IsFiniteSet((({} \cup {a}) \cup {b}) \cup {c})
  BY FS_EmptySet, FS_AddElement, Zenon
<1>3. QED
  BY <1>1, <1>2, FS_AddElement

LEMMA AllowBound ==
    ASSUME NEW t \in Threads, IInv, BoundInv, Allow(t)
    PROVE  BoundInv'
<1> DEFINE call == calls[t]
           bs == Pruned(call.now)
           P == Present(bs)
           M == Missing(bs, call)
<1>1. call \in Calls /\ call.now \in Nat /\ call.now <= clock
  BY LockFacts, Zenon DEF IInv, Allow
<1>2. IsFiniteSet(P) /\ Cardinality(P) <= Cardinality(Present(buckets))
  BY <1>1, PrunedPresent, Zenon
<1>3. PICK E \in SUBSET Keys :
        /\ E \in Evictions(bs, call)
        /\ E \cap KeySet(call) = {}
        /\ \A k \in KeySet(call) : buckets'[k] = Append(bs[k], call.now)
        /\ \A k \in Keys \ KeySet(call) : buckets'[k] = IF k \in E THEN <<>> ELSE bs[k]
  BY AllowFacts DEF IInv
<1>4. bs \in [Keys -> Seq(Nat)] /\ KeySet(call) \subseteq Keys
  BY <1>1, PruneFacts, KeySetFacts, Zenon DEF IInv
<1>5. E \subseteq P
  BY <1>3, EvictionsEvictable, Zenon DEF Evictable
<1>6. IsFiniteSet(M) /\ M \cap P = {}
  BY KeySetFinite, FS_Subset, Zenon DEF Missing
<1>7. Present(buckets') = (P \ E) \cup M
  <2>1. \A k \in KeySet(call) : buckets'[k] # <<>>
    BY <1>1, <1>3, <1>4, SMTT(60)
  <2>2. QED
    BY <2>1, <1>3, <1>4, <1>5, Zenon DEF Present, Missing
<1>8. \/ E = {} /\ Cardinality(P) + Cardinality(M) - MaximumBuckets <= 0
      \/ Cardinality(E) = Cardinality(P) + Cardinality(M) - MaximumBuckets
  BY <1>3, Zenon DEF Evictions, Excess
<1> HIDE DEF P, M, bs, call
<1>9. /\ IsFiniteSet(P \ E) /\ Cardinality(P \ E) = Cardinality(P) - Cardinality(P \cap E)
      /\ P \cap E = E /\ IsFiniteSet(E)
  BY <1>2, <1>5, FS_Difference, FS_Subset, Zenon
<1>10. /\ IsFiniteSet((P \ E) \cup M)
       /\ Cardinality((P \ E) \cup M)
             = Cardinality(P \ E) + Cardinality(M) - Cardinality((P \ E) \cap M)
       /\ (P \ E) \cap M = {}
  BY <1>6, <1>9, FS_Union, Zenon
<1>11. /\ Cardinality(P) \in Nat /\ Cardinality(M) \in Nat /\ Cardinality(E) \in Nat
       /\ Cardinality({}) = 0 /\ MaximumBuckets \in Nat
  BY <1>2, <1>6, <1>9, FS_CardinalityType, FS_EmptySet, LimitsAssumption, Zenon
<1>12. Cardinality((P \ E) \cup M) <= MaximumBuckets
  <2>1. Cardinality((P \ E) \cup M) = Cardinality(P) - Cardinality(E) + Cardinality(M)
    <3>1. Cardinality((P \ E) \cap M) = 0
      BY <1>10, <1>11, Zenon
    <3>2. Cardinality(P \ E) = Cardinality(P) - Cardinality(E)
      BY <1>9, Zenon
    <3>3. QED
      BY <3>1, <3>2, <1>10, <1>11
  <2>2. QED
    BY <2>1, <1>8, <1>11
<1>13. QED
  BY <1>7, <1>10, <1>12, Zenon DEF BoundInv, BucketsBounded

LEMMA BoundInductive == Spec => []BoundInv
<1>1. Init => BoundInv
  <2> SUFFICES ASSUME Init PROVE BoundInv
    OBVIOUS
  <2>1. Present(buckets) = {}
    BY Zenon DEF Init, Present
  <2>2. QED
    <3>1. IsFiniteSet(Present(buckets)) /\ Cardinality(Present(buckets)) = 0
      BY <2>1, FS_EmptySet, Zenon
    <3>2. QED
      BY <3>1, LimitsAssumption DEF BoundInv, BucketsBounded
<1>2. IInv /\ BoundInv /\ [Next]_vars => BoundInv'
  <2> SUFFICES ASSUME IInv, BoundInv, [Next]_vars PROVE BoundInv'
    OBVIOUS
  <2>1. ASSUME NEW t \in Threads, Allow(t) PROVE BoundInv'
    BY <2>1, AllowBound, Zenon
  <2>2. ASSUME NEW now \in Nat, now <= clock, buckets' = Pruned(now) PROVE BoundInv'
    <3>1. Cardinality(Present(buckets)) \in Nat /\ MaximumBuckets \in Nat
      BY FS_CardinalityType, LimitsAssumption, Zenon DEF BoundInv
    <3>2. IsFiniteSet(Present(buckets')) /\ Cardinality(Present(buckets')) \in Nat
          /\ Cardinality(Present(buckets')) <= Cardinality(Present(buckets))
      BY <2>2, PrunedPresent, FS_CardinalityType, Zenon
    <3>3. QED
      BY <3>1, <3>2 DEF BoundInv, BucketsBounded
  <2>3. ASSUME NEW t \in Threads, Reject(t) PROVE BoundInv'
    <3>1. calls[t].now \in Nat /\ calls[t].now <= clock
      BY <2>3, LockFacts, SMTT(60) DEF IInv, Reject
    <3>2. buckets' = Pruned(calls[t].now)
      BY <2>3, Zenon DEF Reject
    <3>3. QED
      BY <3>1, <3>2, <2>2, SMTT(60)
  <2>4. CASE PruneExpired
    <3>1. clock \in Nat /\ clock <= clock
      BY DEF IInv, TypeOK
    <3>2. QED
      BY <2>4, <3>1, <2>2, Zenon DEF PruneExpired
  <2>5. CASE UNCHANGED buckets
    BY <2>5, Zenon DEF BoundInv, BucketsBounded, Present
  <2>6. QED
    BY <2>1, <2>3, <2>4, <2>5, Zenon DEF Next, ReadClock, Tick, vars
<1>3. QED
  BY <1>1, <1>2, Inductive, PTL DEF Spec

\* The number of buckets never exceeds maximumBuckets.
THEOREM CapacityHolds == Spec => []BucketsBounded
<1>1. BoundInv => BucketsBounded
  BY Zenon DEF BoundInv
<1>2. QED
  BY <1>1, BoundInductive, PTL

\* Of a finite set of buckets any number can be chosen, the least recently used first.
LEMMA OldestExist ==
    ASSUME NEW S, IsFiniteSet(S), NEW used, \A k \in S : used[k] \in Nat,
           NEW n \in 0..Cardinality(S)
    PROVE  \E E \in SUBSET S :
              Cardinality(E) = n /\ \A e \in E, k \in S \ E : used[e] <= used[k]
<1> DEFINE Oldest(E) == \A e \in E, k \in S \ E : used[e] <= used[k]
           Found(m) == \E E \in SUBSET S : Cardinality(E) = m /\ Oldest(E)
           missed == {m \in 0..Cardinality(S) : ~Found(m)}
<1>1. Cardinality(S) \in Nat
  BY FS_CardinalityType, Zenon
<1>2. ASSUME missed # {} PROVE FALSE
  <2>1. PICK m \in missed : \A l \in missed : m <= l
    <3>1. missed \subseteq Nat
      BY <1>1
    <3> HIDE DEF missed
    <3>2. QED
      BY <1>2, <3>1, Least, Zenon
  <2>2. Found(0)
    <3>1. {} \in SUBSET S /\ Oldest({})
      OBVIOUS
    <3>2. Cardinality({}) = 0
      BY FS_EmptySet, Zenon
    <3>3. QED
      BY <3>1, <3>2, Zenon
  <2>3. m \in 0..Cardinality(S) /\ m # 0 /\ ~Found(m)
    BY <2>1, <2>2, Zenon
  <2>4. m - 1 \in 0..Cardinality(S) /\ m - 1 \notin missed
    BY <1>1, <2>1, <2>3
  <2>5. PICK E \in SUBSET S : Cardinality(E) = m - 1 /\ Oldest(E)
    BY <2>4, Zenon
  <2>6. S \ E # {}
    BY <1>1, <2>3, <2>5
  <2> DEFINE values == {used[k] : k \in S \ E}
  <2>7. PICK v \in values : \A w \in values : v <= w
    <3>1. values # {} /\ values \subseteq Nat
      BY <2>6
    <3> HIDE DEF values
    <3>2. QED
      BY <3>1, Least, Zenon
  <2>8. PICK x \in S \ E : used[x] = v
    BY <2>7, Zenon
  <2>9. \A k \in S \ E : used[x] <= used[k]
    BY <2>7, <2>8
  <2>10. IsFiniteSet(E)
    BY FS_Subset, Zenon
  <2>11. Cardinality(E \cup {x}) = m
    <3>1. Cardinality(E \cup {x}) = IF x \in E THEN Cardinality(E) ELSE Cardinality(E) + 1
      BY <2>10, FS_AddElement, Zenon
    <3>2. Cardinality(E \cup {x}) = (m - 1) + 1
      BY <2>5, <2>8, <3>1, Zenon
    <3>3. QED
      BY <1>1, <2>3, <3>2
  <2>12. Oldest(E \cup {x})
    BY <2>5, <2>9, Zenon
  <2>13. E \cup {x} \in SUBSET S
    BY <2>8, Zenon
  <2>14. QED
    BY <2>3, <2>11, <2>12, <2>13, Zenon
<1>3. QED
  BY <1>2, Zenon

LEMMA FourKeys == ASSUME NEW call PROVE Cardinality(KeySet(call)) <= 4
<1> DEFINE a == GlobalKey
           b == <<"address", call.address>>
           c == <<"identity", call.identity>>
           d == <<"pair", call.address, call.identity>>
<1>1. KeySet(call) = (({a} \cup {b}) \cup {c}) \cup {d}
  BY DEF KeySet, KeysOf
<1> HIDE DEF a, b, c, d
<1>2. IsFiniteSet({a}) /\ Cardinality({a}) = 1
  BY FS_Singleton, Zenon
<1>3. IsFiniteSet({a} \cup {b}) /\ Cardinality({a} \cup {b}) \in {1, 2}
  BY <1>2, FS_AddElement
<1>4. /\ IsFiniteSet(({a} \cup {b}) \cup {c})
      /\ Cardinality(({a} \cup {b}) \cup {c}) \in {1, 2, 3}
  BY <1>3, FS_AddElement
<1>5. Cardinality((({a} \cup {b}) \cup {c}) \cup {d}) \in {1, 2, 3, 4}
  BY <1>4, FS_AddElement
<1>6. QED
  BY <1>1, <1>5

\* The buckets of other calls are at least as many as the loop has to evict.
LEMMA EnoughEvictable ==
    ASSUME NEW bs, NEW call \in Calls, IsFiniteSet(Present(bs))
    PROVE  /\ IsFiniteSet(Evictable(bs, call))
           /\ Excess(bs, call) \in Int
           /\ Excess(bs, call) <= Cardinality(Evictable(bs, call))
<1> DEFINE P == Present(bs)
           K == KeySet(call)
<1>1. GlobalKey \in K /\ IsFiniteSet(K) /\ Cardinality(K) <= 4
  BY KeySetFacts, KeySetFinite, FourKeys, Zenon
<1>2. Evictable(bs, call) = P \ K /\ Missing(bs, call) = K \ P
  BY <1>1, Zenon DEF Evictable, Missing
<1>3. Excess(bs, call) = Cardinality(P) + Cardinality(K \ P) - MaximumBuckets
  BY <1>2, Zenon DEF Excess
<1> HIDE DEF P, K
<1>4. IsFiniteSet(P)
  BY Zenon DEF P
<1>5. /\ IsFiniteSet(P \ K) /\ Cardinality(P \ K) = Cardinality(P) - Cardinality(P \cap K)
      /\ IsFiniteSet(K \ P) /\ Cardinality(K \ P) = Cardinality(K) - Cardinality(K \cap P)
  BY <1>1, <1>4, FS_Difference, Zenon
<1>6. K \cap P = P \cap K /\ IsFiniteSet(P \cap K)
  BY <1>4, FS_Subset, Zenon
<1>7. /\ Cardinality(P) \in Nat /\ Cardinality(K) \in Nat /\ Cardinality(P \cap K) \in Nat
      /\ Cardinality(P \ K) \in Nat /\ Cardinality(K \ P) \in Nat
  BY <1>1, <1>4, <1>5, <1>6, FS_CardinalityType, Zenon
<1>8. \A p, k, i \in Nat : k <= 4 => p + (k - i) - MaximumBuckets <= p - i
  BY LimitsAssumption
<1>9. Excess(bs, call)
        = Cardinality(P) + (Cardinality(K) - Cardinality(P \cap K)) - MaximumBuckets
  BY <1>3, <1>5, <1>6, Zenon
<1>10. Excess(bs, call) <= Cardinality(P \ K)
  BY <1>1, <1>5, <1>7, <1>8, <1>9, Zenon
<1>11. Excess(bs, call) \in Int
  BY <1>3, <1>7, LimitsAssumption
<1>12. QED
  BY <1>2, <1>5, <1>10, <1>11, Zenon

\* ensureCapacityUnlocked() never runs out of buckets to evict, so it never throws after
\* it has evicted some: for any capacity the constructor accepts.
THEOREM EvictionAlwaysSuffices == Spec => []EvictionSuffices
<1>1. IInv /\ BoundInv => EvictionSuffices
  <2> SUFFICES ASSUME IInv, BoundInv, NEW t \in Threads, calls[t] # NoCall
               PROVE  Evictions(Pruned(calls[t].now), calls[t]) # {}
    BY Zenon DEF EvictionSuffices
  <2> DEFINE call == calls[t]
             bs == Pruned(call.now)
             S == Evictable(bs, call)
             used == [k \in S |-> LastAccess(bs[k])]
  <2>1. call \in Calls /\ call.now \in Nat /\ call.now <= clock
    BY Zenon DEF IInv, TypeOK, Calls
  <2>2. IsFiniteSet(Present(bs)) /\ bs \in [Keys -> Seq(Nat)]
    BY <2>1, PrunedPresent, PruneFacts, Zenon DEF IInv
  <2> HIDE DEF call, bs
  <2>3. IsFiniteSet(S) /\ Excess(bs, call) \in Int /\ Excess(bs, call) <= Cardinality(S)
    BY <2>1, <2>2, EnoughEvictable, Zenon
  <2>4. \A k \in S : used[k] = LastAccess(bs[k]) /\ used[k] \in Nat
    <3> SUFFICES ASSUME NEW k \in S PROVE LastAccess(bs[k]) \in Nat
      OBVIOUS
    <3>1. bs[k] \in Seq(Nat) /\ bs[k] # <<>>
      BY <2>2, Zenon DEF Evictable, Present
    <3>2. QED
      BY <3>1 DEF LastAccess
  <2>5. CASE Excess(bs, call) <= 0
    <3>1. {} \in Evictions(bs, call)
      BY <2>5, Zenon DEF Evictions
    <3>2. QED
      BY <3>1, Zenon DEF bs, call
  <2>6. CASE Excess(bs, call) > 0
    <3>1. Excess(bs, call) \in 0..Cardinality(S)
      BY <2>3, <2>6, FS_CardinalityType
    <3> HIDE DEF S, used
    <3>2. PICK E \in SUBSET S :
             Cardinality(E) = Excess(bs, call) /\ \A e \in E, k \in S \ E : used[e] <= used[k]
      BY <2>3, <2>4, <3>1, OldestExist
    <3>3. E \in Evictions(bs, call)
      BY <2>3, <2>4, <2>6, <3>2 DEF Evictions, S
    <3>4. QED
      BY <3>3, Zenon DEF bs, call
  <2>7. QED
    BY <2>3, <2>5, <2>6
<1>2. QED
  BY <1>1, Inductive, BoundInductive, PTL

-----------------------------------------------------------------------------
(***************************************************************************)
(* Retry-After.  RetryAfterHonest speaks of a time to come, and is not     *)
(* inductive: what every step keeps is that the bucket that refused, while *)
(* it is still full, has its first attempt leave the window in time.       *)
(***************************************************************************)
LeavesInTime(bs, r) ==
    Len(bs[r.key]) = Limit(r.key) => bs[r.key][1] + Window <= r.until

RefusalInv == refusal # NoRefusal => LeavesInTime(buckets, refusal)

\* A bucket that is full after pruning was full before, with the same first attempt.
LEMMA FullKept ==
    ASSUME NEW s \in Seq(Nat), NEW c \in Int, NEW limit \in Nat \ {0},
           Len(s) <= limit, Len(Unexpired(s, c)) = limit
    PROVE  Len(s) = limit /\ Unexpired(s, c)[1] = s[1]
<1> DEFINE u == Unexpired(s, c)
<1>1. TailOf(u, s)
  BY UnexpiredTail, Zenon
<1> HIDE DEF u
<1>2. Len(u) = limit /\ Len(u) <= Len(s) /\ Len(s) \in Nat
  BY <1>1 DEF TailOf, u
<1>3. Len(s) = limit /\ 1 \in 1..Len(u) /\ Len(s) - Len(u) + 1 = 1
  BY <1>2
<1>4. u[1] = s[Len(s) - Len(u) + 1]
  BY <1>1, <1>3, Zenon DEF TailOf
<1>5. QED
  BY <1>3, <1>4, Zenon DEF u

\* A bucket whose first attempt has expired loses it.
LEMMA FirstExpired ==
    ASSUME NEW s \in Seq(Nat), NEW c \in Int, Len(s) > 0, s[1] <= c
    PROVE  Len(Unexpired(s, c)) < Len(s)
<1> DEFINE n == Expired(s, c)
<1>1. n \in 0..Len(s) /\ (n < Len(s) => s[n + 1] > c)
  BY ExpiredStops, Zenon
<1>2. Unexpired(s, c) = SubSeq(s, n + 1, Len(s))
  BY Zenon DEF Unexpired
<1> HIDE DEF n
<1>3. Len(s) \in Nat /\ s[1] \in Nat
  OBVIOUS
<1>4. n # 0
  BY <1>1, <1>3
<1>5. Len(SubSeq(s, n + 1, Len(s))) = Len(s) - n
  BY <1>1, <1>3
<1>6. QED
  BY <1>1, <1>2, <1>3, <1>4, <1>5

\* The seconds are rounded up past the end of the window.
LEMMA RetryAfterLate ==
    ASSUME NEW s \in Seq(Nat), Len(s) > 0, NEW now \in Nat
    PROVE  s[1] + Window <= now + RetryAfter(s, now)
<1>1. Window \in Nat /\ Second \in Nat \ {0}
  BY LimitsAssumption, Zenon
<1>2. Head(s) = s[1] /\ s[1] \in Nat
  OBVIOUS
<1> DEFINE x == s[1] + Window - now
           left == (x \div Second) * Second + Second
<1>3. x \in Int
  BY <1>1, <1>2
<1>4. RetryAfter(s, now) = IF left > Second THEN left ELSE Second
  BY <1>2, Zenon DEF RetryAfter
<1>5. x < left /\ left \in Int
  <2> HIDE DEF x
  <2>1. x \div Second \in Int /\ x % Second \in 0..(Second - 1)
        /\ x = Second * (x \div Second) + (x % Second)
    BY <1>1, <1>3
  <2> DEFINE q == x \div Second
             m == x % Second
  <2> HIDE DEF q, m
  <2>2. q \in Int /\ m \in 0..(Second - 1) /\ x = Second * q + m
    BY <2>1, Zenon DEF q, m
  <2>3. Second * q = q * Second /\ q * Second \in Int
    BY <1>1, <2>2
  <2>4. x < q * Second + Second /\ q * Second + Second \in Int
    BY <1>1, <2>2, <2>3
  <2>5. QED
    BY <2>4, Zenon DEF q
<1> HIDE DEF left
<1>6. x <= RetryAfter(s, now) /\ RetryAfter(s, now) \in Int
  BY <1>1, <1>3, <1>4, <1>5
<1>7. QED
  BY <1>1, <1>2, <1>6 DEF x

\* Pruning keeps what a refusal told.
LEMMA PruneKeepsRefusal ==
    ASSUME IInv, NEW now \in Nat, NEW r \in [key : Keys, until : Nat],
           LeavesInTime(buckets, r)
    PROVE  LeavesInTime(Pruned(now), r)
<1> SUFFICES ASSUME Len(Pruned(now)[r.key]) = Limit(r.key)
             PROVE  Pruned(now)[r.key][1] + Window <= r.until
  BY Zenon DEF LeavesInTime
<1> DEFINE s == buckets[r.key]
<1>1. r.key \in Keys /\ s \in Seq(Nat) /\ Len(s) <= Limit(r.key)
  BY Zenon DEF IInv, TypeOK
<1>2. Pruned(now)[r.key] = Unexpired(s, now - Window) /\ now - Window \in Int
  BY <1>1, LimitsAssumption DEF Pruned
<1>3. Limit(r.key) \in Nat \ {0}
  BY <1>1, LimitType, Zenon
<1> HIDE DEF s
<1>4. Len(s) = Limit(r.key) /\ Pruned(now)[r.key][1] = s[1]
  BY <1>1, <1>2, <1>3, FullKept
<1>5. QED
  BY <1>4, Zenon DEF LeavesInTime, s

LEMMA RejectTells ==
    ASSUME NEW t \in Threads, IInv, Reject(t) PROVE LeavesInTime(buckets', refusal')
<1> DEFINE call == calls[t]
           bs == Pruned(call.now)
<1>1. call \in Calls /\ call.now \in Nat /\ call.now <= clock
  BY LockFacts, Zenon DEF IInv, Reject
<1>2. bs \in [Keys -> Seq(Nat)]
  BY <1>1, PruneFacts, Zenon DEF IInv
<1>3. PICK n \in 1..4 :
        /\ Full(bs, KeysOf(call)[n])
        /\ buckets' = bs
        /\ refusal' = [key |-> KeysOf(call)[n],
                       until |-> call.now + RetryAfter(bs[KeysOf(call)[n]], call.now)]
  BY Zenon DEF Reject
<1> DEFINE key == KeysOf(call)[n]
<1>4. key \in Keys
  BY <1>1, KeySetFacts, Zenon DEF KeySet
<1> HIDE DEF bs, call, key
<1>5. bs[key] \in Seq(Nat) /\ Len(bs[key]) > 0
  BY <1>2, <1>3, <1>4, LimitType DEF Full, key
<1>6. bs[key][1] + Window <= call.now + RetryAfter(bs[key], call.now)
  BY <1>1, <1>5, RetryAfterLate, Zenon
<1>7. refusal'.key = key /\ refusal'.until = call.now + RetryAfter(bs[key], call.now)
      /\ buckets' = bs
  BY <1>3, Zenon DEF key
<1>8. QED
  BY <1>6, <1>7, Zenon DEF LeavesInTime

LEMMA AllowKeepsRefusal ==
    ASSUME NEW t \in Threads, IInv, RefusalInv, Allow(t), refusal' # NoRefusal
    PROVE  LeavesInTime(buckets', refusal')
<1> DEFINE call == calls[t]
           bs == Pruned(call.now)
           key == refusal.key
<1>1. call \in Calls /\ call.now \in Nat
  BY LockFacts, Zenon DEF IInv, Allow
<1>2. refusal' = refusal /\ refusal # NoRefusal /\ key \notin KeySet(call)
  BY Zenon DEF Allow
<1>3. refusal \in [key : Keys, until : Nat] /\ key \in Keys
  BY <1>2, Zenon DEF IInv, TypeOK
<1>4. LeavesInTime(bs, refusal)
  BY <1>1, <1>2, <1>3, PruneKeepsRefusal, Zenon DEF RefusalInv
<1>5. buckets'[key] = <<>> \/ buckets'[key] = bs[key]
  BY <1>2, <1>3, AllowFacts, Zenon DEF IInv
<1> HIDE DEF key, bs, call
<1>6. CASE buckets'[key] = <<>>
  <2>1. Len(buckets'[key]) # Limit(key)
    BY <1>3, <1>6, LimitType, Zenon
  <2>2. QED
    BY <1>2, <2>1, Zenon DEF LeavesInTime, key
<1>7. CASE buckets'[key] = bs[key]
  BY <1>2, <1>4, <1>7, Zenon DEF LeavesInTime, key
<1>8. QED
  BY <1>5, <1>6, <1>7, Zenon

\* Retry-After is honest, for any limits, any window and any number of units in a second:
\* the refused key has room at the time the client was told, unless somebody else was
\* admitted under it meanwhile.
THEOREM RetryAfterAlwaysHonest == Spec => []RetryAfterHonest
<1>1. Init => RefusalInv
  BY Zenon DEF Init, RefusalInv
<1>2. IInv /\ RefusalInv /\ [Next]_vars => RefusalInv'
  <2> SUFFICES ASSUME IInv, RefusalInv, [Next]_vars PROVE RefusalInv'
    OBVIOUS
  <2>1. ASSUME NEW t \in Threads, Reject(t) PROVE RefusalInv'
    BY <2>1, RejectTells, Zenon DEF RefusalInv, LeavesInTime
  <2>2. ASSUME NEW t \in Threads, Allow(t) PROVE RefusalInv'
    BY <2>2, AllowKeepsRefusal, Zenon DEF RefusalInv, LeavesInTime
  <2>3. CASE PruneExpired
    <3>1. clock \in Nat /\ buckets' = Pruned(clock) /\ refusal' = refusal
      BY <2>3, Zenon DEF IInv, TypeOK, PruneExpired
    <3>2. refusal # NoRefusal => refusal \in [key : Keys, until : Nat]
      BY Zenon DEF IInv, TypeOK
    <3>3. refusal # NoRefusal => LeavesInTime(Pruned(clock), refusal)
      BY <3>1, <3>2, PruneKeepsRefusal, Zenon DEF RefusalInv
    <3>4. QED
      BY <3>1, <3>3, Zenon DEF RefusalInv, LeavesInTime
  <2>4. CASE UNCHANGED <<buckets, refusal>>
    BY <2>4, Zenon DEF RefusalInv, LeavesInTime
  <2>5. QED
    BY <2>1, <2>2, <2>3, <2>4, Zenon DEF Next, ReadClock, Tick, vars
<1>3. IInv /\ RefusalInv => RetryAfterHonest
  <2> SUFFICES ASSUME IInv, RefusalInv, refusal # NoRefusal
               PROVE  Len(Unexpired(buckets[refusal.key], refusal.until - Window))
                        < Limit(refusal.key)
    BY Zenon DEF RetryAfterHonest
  <2> DEFINE s == buckets[refusal.key]
             limit == Limit(refusal.key)
             c == refusal.until - Window
  <2>1. refusal.key \in Keys /\ refusal.until \in Nat
    BY Zenon DEF IInv, TypeOK
  <2>2. s \in Seq(Nat) /\ Len(s) <= limit /\ Len(s) \in Nat
    BY <2>1 DEF IInv, TypeOK
  <2>3. limit \in Nat \ {0} /\ c \in Int
    BY <2>1, LimitType, LimitsAssumption
  <2>4. Len(s) = limit => s[1] + Window <= refusal.until
    BY Zenon DEF RefusalInv, LeavesInTime
  <2>5. Len(Unexpired(s, c)) \in Nat /\ Len(Unexpired(s, c)) <= Len(s)
    BY <2>2, <2>3, UnexpiredTail DEF TailOf
  <2>6. CASE Len(s) = limit
    <3>1. Len(s) > 0 /\ s[1] <= c
      <4>1. Len(s) > 0 /\ s[1] \in Nat
        BY <2>2, <2>3, <2>6
      <4>2. QED
        BY <2>1, <2>4, <2>6, <4>1, LimitsAssumption
    <3> HIDE DEF s, c
    <3>2. Len(Unexpired(s, c)) < Len(s)
      BY <2>2, <2>3, <3>1, FirstExpired, Zenon
    <3>3. QED
      BY <2>6, <3>2, Zenon DEF s, c
  <2>7. CASE Len(s) # limit
    BY <2>2, <2>3, <2>5, <2>7
  <2>8. QED
    BY <2>6, <2>7, Zenon
<1>4. QED
  BY <1>1, <1>2, <1>3, Inductive, PTL DEF Spec
=============================================================================
