------------------------- MODULE RequestReaderProofs -------------------------
(***************************************************************************)
(* Theorems about readRequest and its parsers (RequestReader,              *)
(* ContentLength, RequestPath), for every text and path, every size of the *)
(* buffer and the limits, and every way the segments arrive.               *)
(*                                                                         *)
(* The parsers are loops over a text.  What a loop computes is proved by   *)
(* induction on the number of characters it has taken, over the set of     *)
(* numbers for which the claim holds (NatSteps).                           *)
(*                                                                         *)
(* The invariant of the reader (ReaderInv) ties what it has received to    *)
(* where it stands: in its second loop the header was accepted, and once a *)
(* request is returned its header and path were accepted and its body is   *)
(* in the buffer.                                                          *)
(***************************************************************************)
EXTENDS RequestReader, FiniteSetTheorems, WellFoundedInduction, TLAPS

(* Induction, and arithmetic. *)

LEMMA NatSteps ==
  ASSUME NEW S, 0 \in S, \A n \in Nat : n \in S => n + 1 \in S
  PROVE  Nat \subseteq S
  <1> DEFINE R == OpToRel(<, Nat)
  <1>1. IsWellFoundedOn(R, Nat)
    BY NatLessThanWellFounded, Zenon
  <1>2. \A x, y \in Nat : x < y => <<x, y>> \in R
    BY Zenon DEF OpToRel
  <1> HIDE DEF R
  <1>3. SUFFICES ASSUME Nat \ S # {} PROVE FALSE
    BY Zenon
  <1>4. PICK x \in Nat \ S : \A y \in Nat \ S : ~ (<<y, x>> \in R)
    BY <1>1, <1>3, WFMin, Zenon
  <1>5. x \in Nat /\ x # 0
    BY <1>4, Zenon
  <1>6. x - 1 \in Nat /\ x - 1 < x /\ (x - 1) + 1 = x
    BY <1>5, SMT
  <1> QED BY <1>2, <1>4, <1>5, <1>6, Zenon

LEMMA Multiplies ==
  ASSUME NEW b \in Nat \ {0}, NEW x \in Nat, NEW y \in Nat, x <= y
  PROVE  /\ b * x \in Nat /\ b * x <= b * y /\ x <= b * x
  <1>1. /\ b * x \in Nat /\ b * (y - x) \in Nat /\ (b - 1) * x \in Nat
    OBVIOUS
  <1>2. b * (y - x) = b * y - b * x /\ (b - 1) * x = b * x - x
    OBVIOUS
  <1> QED BY <1>1, <1>2

LEMMA Divides ==
  ASSUME NEW s \in Nat, NEW b \in Nat \ {0}
  PROVE  /\ s \div b \in Nat
         /\ b * (s \div b) <= s /\ s < b * (s \div b) + b
  OBVIOUS

LEMMA Remains ==
  ASSUME NEW s \in Nat, NEW b \in Nat, s < b
  PROVE  s % b = s
  OBVIOUS

-----------------------------------------------------------------------------
(* parseContentLength. *)


LEMMA TakesDigit ==
  ASSUME NEW v \in 0..MaxBodyBytes, NEW d \in Digits
  PROVE  TakeCharacter(Valid(v), d) =
           IF Base * v + d <= MaxBodyBytes THEN Valid(Base * v + d) ELSE Refused("too large")
  <1> USE ContentLengthConstants
  <1>1. /\ v \in Nat /\ d \in Nat /\ d < Base /\ Base \in Nat \ {0} /\ SizeMax \in Nat /\ SizeMax - d \in Nat
        /\ MaxBodyBytes \in Nat /\ MaxBodyBytes <= SizeMax
    BY SMT DEF Digits
  <1> DEFINE q == (SizeMax - d) \div Base
             sum == v * Base + d
  <1>2. /\ q \in Nat /\ Base * q <= SizeMax - d /\ SizeMax - d < Base * q + Base
    BY <1>1, Divides, Zenon
  <1>3. sum \in Nat /\ sum = Base * v + d
    BY <1>1
  <1>4. Overflows(v, d) <=> v > q
    BY Zenon DEF Overflows
  <1> HIDE DEF q
  <1>5. CASE v <= q
    <2>1. Base * v <= Base * q
      BY <1>1, <1>2, <1>5, Multiplies, Zenon
    <2>2. sum < SizeMax + 1
      BY <1>1, <1>2, <1>3, <2>1
    <2> HIDE DEF sum
    <2>3. Wrap(sum) = sum
      BY <1>1, <1>3, <2>2, Remains DEF Wrap
    <2>4. ~ Overflows(v, d)
      BY <1>1, <1>2, <1>4, <1>5
    <2>5. TakeCharacter(Valid(v), d) = IF sum > MaxBodyBytes THEN Refused("too large") ELSE Valid(sum)
      BY <2>3, <2>4, Zenon DEF TakeCharacter, Valid, sum
    <2>6. sum > MaxBodyBytes <=> ~ (sum <= MaxBodyBytes)
      BY <1>1, <1>3
    <2> QED BY <1>3, <2>5, <2>6, Zenon
  <1>6. CASE ~ (v <= q)
    <2>1. q + 1 <= v /\ q + 1 \in Nat /\ v > q
      BY <1>1, <1>2, <1>6
    <2>2. Base * (q + 1) <= Base * v
      BY <1>1, <2>1, Multiplies, Zenon
    <2>3. Base * (q + 1) = Base * q + Base
      BY <1>1, <1>2
    <2>4. sum > MaxBodyBytes
      BY <1>1, <1>2, <1>3, <2>2, <2>3
    <2> HIDE DEF sum
    <2>5. TakeCharacter(Valid(v), d) = Refused("too large")
      BY <1>4, <2>1, Zenon DEF TakeCharacter, Valid
    <2>6. ~ (sum <= MaxBodyBytes)
      BY <1>1, <1>3, <2>4
    <2> QED BY <1>3, <2>5, <2>6, Zenon
  <1> QED BY <1>5, <1>6, Zenon

LEMMA TakesOther ==
  ASSUME NEW v
  PROVE  TakeCharacter(Valid(v), Letter) = Refused("invalid")
  <1>1. Letter \notin Digits
    BY ContentLengthConstants DEF Digits
  <1> QED BY <1>1, Zenon DEF TakeCharacter, Valid

LEMMA StaysRefused ==
  ASSUME NEW c, NEW why \in {"invalid", "too large"}
  PROVE  TakeCharacter(Refused(why), c) = Refused(why)
  <1>1. why # "valid"
    BY Zenon
  <1> QED BY <1>1, Zenon DEF TakeCharacter, Refused

\* The two loops over a text, as far as character m.
Takes(text, m, f) ==
    f = [n \in 0..m |-> IF n = 0 THEN Valid(0) ELSE TakeCharacter(f[n - 1], text[n])]
Counts(text, m, g) ==
    g = [n \in 0..m |-> IF n = 0 THEN 0 ELSE Base * g[n - 1] + text[n]]

LEMMA TakesExists ==
  ASSUME NEW text, NEW m \in Nat
  PROVE  \E f : Takes(text, m, f)
  <1> DEFINE S == {n \in Nat : \E f : Takes(text, n, f)}
  <1>1. 0 \in S
    <2>1. Takes(text, 0, [n \in 0..0 |-> Valid(0)])
      BY SMT DEF Takes
    <2> QED BY <2>1, Zenon
  <1>2. ASSUME NEW k \in Nat, k \in S PROVE k + 1 \in S
    <2>1. PICK f : Takes(text, k, f)
      BY <1>2, Zenon
    <2> DEFINE g == [n \in 0..(k + 1) |-> IF n <= k THEN f[n] ELSE TakeCharacter(f[k], text[k + 1])]
    <2>2. ASSUME NEW n \in 0..(k + 1)
          PROVE  g[n] = IF n = 0 THEN Valid(0) ELSE TakeCharacter(g[n - 1], text[n])
      <3>1. CASE n <= k
        <4>1. n \in 0..k /\ g[n] = f[n] /\ (n # 0 => g[n - 1] = f[n - 1])
          BY <2>2, <3>1
        <4>2. f[n] = IF n = 0 THEN Valid(0) ELSE TakeCharacter(f[n - 1], text[n])
          BY <2>1, <4>1, Zenon DEF Takes
        <4> QED BY <4>1, <4>2, Zenon
      <3>2. CASE ~ (n <= k)
        <4>1. n = k + 1 /\ n # 0 /\ g[n] = TakeCharacter(f[k], text[k + 1]) /\ g[k] = f[k] /\ n - 1 = k
          BY <2>2, <3>2
        <4> QED BY <4>1, Zenon
      <3> QED BY <3>1, <3>2, Zenon
    <2>3. Takes(text, k + 1, g)
      BY <2>2, Zenon DEF Takes
    <2>4. k + 1 \in Nat
      BY SMT
    <2> QED BY <2>3, <2>4, Zenon
  <1>3. Nat \subseteq S
    <2> HIDE DEF S
    <2> QED BY <1>1, <1>2, NatSteps, Zenon
  <1> QED BY <1>3, Zenon

LEMMA CountsExists ==
  ASSUME NEW text, NEW m \in Nat
  PROVE  \E f : Counts(text, m, f)
  <1> DEFINE S == {n \in Nat : \E f : Counts(text, n, f)}
  <1>1. 0 \in S
    <2>1. Counts(text, 0, [n \in 0..0 |-> 0])
      BY SMT DEF Counts
    <2> QED BY <2>1, Zenon
  <1>2. ASSUME NEW k \in Nat, k \in S PROVE k + 1 \in S
    <2>1. PICK f : Counts(text, k, f)
      BY <1>2, Zenon
    <2> DEFINE g == [n \in 0..(k + 1) |-> IF n <= k THEN f[n] ELSE Base * f[k] + text[k + 1]]
    <2>2. ASSUME NEW n \in 0..(k + 1)
          PROVE  g[n] = IF n = 0 THEN 0 ELSE Base * g[n - 1] + text[n]
      <3>1. CASE n <= k
        <4>1. n \in 0..k /\ g[n] = f[n] /\ (n # 0 => g[n - 1] = f[n - 1])
          BY <2>2, <3>1
        <4>2. f[n] = IF n = 0 THEN 0 ELSE Base * f[n - 1] + text[n]
          BY <2>1, <4>1, Zenon DEF Counts
        <4> QED BY <4>1, <4>2, Zenon
      <3>2. CASE ~ (n <= k)
        <4>1. n = k + 1 /\ n # 0 /\ g[n] = Base * f[k] + text[k + 1] /\ g[k] = f[k] /\ n - 1 = k
          BY <2>2, <3>2
        <4> QED BY <4>1, Zenon
      <3> QED BY <3>1, <3>2, Zenon
    <2>3. Counts(text, k + 1, g)
      BY <2>2, Zenon DEF Counts
    <2>4. k + 1 \in Nat
      BY SMT
    <2> QED BY <2>3, <2>4, Zenon
  <1>3. Nat \subseteq S
    <2> HIDE DEF S
    <2> QED BY <1>1, <1>2, NatSteps, Zenon
  <1> QED BY <1>3, Zenon

\* NumberOf depends on the characters alone.
LEMMA CountsAgree ==
  ASSUME NEW text, NEW other, NEW m \in Nat, NEW l \in Nat, NEW f, NEW g,
         Counts(text, m, f), Counts(other, l, g),
         NEW k \in Nat, k <= m, k <= l, \A i \in 1..k : text[i] = other[i]
  PROVE  f[k] = g[k]
  <1> DEFINE S == {n \in Nat : n <= k => f[n] = g[n]}
  <1>0. /\ \A n \in 0..m : f[n] = IF n = 0 THEN 0 ELSE Base * f[n - 1] + text[n]
        /\ \A n \in 0..l : g[n] = IF n = 0 THEN 0 ELSE Base * g[n - 1] + other[n]
    BY Zenon DEF Counts
  <1>1. 0 \in S
    <2>1. 0 \in 0..m /\ 0 \in 0..l /\ 0 \in Nat
      BY SMT
    <2> QED BY <1>0, <2>1, Zenon
  <1>2. ASSUME NEW n \in Nat, n \in S PROVE n + 1 \in S
    <2>1. SUFFICES ASSUME n + 1 <= k PROVE f[n + 1] = g[n + 1]
      <3>1. n + 1 \in Nat
        BY SMT
      <3> QED BY <3>1, Zenon
    <2>2. n <= k /\ n + 1 \in 0..m /\ n + 1 \in 0..l /\ n + 1 # 0 /\ (n + 1) - 1 = n /\ n + 1 \in 1..k
      BY <2>1, SMT
    <2>3. f[n] = g[n]
      BY <1>2, <2>2, Zenon
    <2>4. f[n + 1] = Base * f[n] + text[n + 1] /\ g[n + 1] = Base * g[n] + other[n + 1]
      BY <1>0, <2>2, Zenon
    <2> QED BY <2>2, <2>3, <2>4, Zenon
  <1>3. Nat \subseteq S
    <2> HIDE DEF S
    <2> QED BY <1>1, <1>2, NatSteps, Zenon
  <1>4. k <= k
    BY SMT
  <1> QED BY <1>3, <1>4, Zenon

LEMMA NumberIs ==
  ASSUME NEW text \in Seq(LengthCharacters), NEW f, Counts(text, Len(text), f)
  PROVE  NumberOf(text) = f[Len(text)]
  <1> DEFINE g == CHOOSE h : Counts(text, Len(text), h)
  <1>1. Len(text) \in Nat /\ Len(text) <= Len(text) 
    BY SMT
  <1>2. Counts(text, Len(text), g)
    BY Zenon
  <1>3. NumberOf(text) = g[Len(text)]
    BY Zenon DEF NumberOf, Counts
  <1> HIDE DEF g
  <1>4. \A i \in 1..Len(text) : text[i] = text[i]
    OBVIOUS
  <1>5. g[Len(text)] = f[Len(text)]
    BY <1>1, <1>2, <1>4, CountsAgree, SMT
  <1> QED BY <1>3, <1>5, Zenon

LEMMA TextTaken ==
  ASSUME NEW text \in Seq(LengthCharacters), text # <<>>
  PROVE  \E f : Takes(text, Len(text), f) /\ ParseContentLength(text) = f[Len(text)]
  <1> DEFINE g == CHOOSE h : Takes(text, Len(text), h)
  <1>1. Len(text) \in Nat
    BY SMT
  <1>2. Takes(text, Len(text), g)
    BY <1>1, TakesExists, Zenon
  <1>3. ParseContentLength(text) = g[Len(text)]
    BY Zenon DEF ParseContentLength, Takes
  <1> QED BY <1>2, <1>3, Zenon

\* What the loops agree on after n characters.
AllDigits(text, n) == \A i \in 1..n : text[i] \in Digits
Agree(text, f, g, n) ==
    /\ f[n] \in {Valid(v) : v \in 0..MaxBodyBytes} \cup {Refused("invalid"), Refused("too large")}
    /\ AllDigits(text, n) => g[n] \in Nat
    /\ AllDigits(text, n) /\ g[n] <= MaxBodyBytes => f[n] = Valid(g[n])
    /\ f[n].status = "valid" => AllDigits(text, n) /\ f[n] = Valid(g[n])
    /\ f[n].status = "invalid" => ~ AllDigits(text, n)
    /\ f[n].status = "too large" => \E k \in 1..n : AllDigits(text, k) /\ g[k] > MaxBodyBytes

LEMMA Fields ==
  \A x : /\ Valid(x).status = "valid" /\ Valid(x).value = x
        /\ Refused(x).status = x /\ Refused(x).value = 0
  BY Zenon DEF Valid, Refused

LEMMA LoopsAgree ==
  ASSUME NEW text \in Seq(LengthCharacters), NEW f, NEW g,
         Takes(text, Len(text), f), Counts(text, Len(text), g),
         NEW m \in 0..Len(text)
  PROVE  Agree(text, f, g, m)
  <1> DEFINE S == {n \in Nat : n <= Len(text) => Agree(text, f, g, n)}
  <1> USE ContentLengthConstants
  <1>0. /\ \A n \in 0..Len(text) : f[n] = IF n = 0 THEN Valid(0) ELSE TakeCharacter(f[n - 1], text[n])
        /\ \A n \in 0..Len(text) : g[n] = IF n = 0 THEN 0 ELSE Base * g[n - 1] + text[n]
    BY Zenon DEF Takes, Counts
  <1>1. 0 \in S
    <2>1. 0 \in 0..Len(text) /\ 0 \in Nat /\ 0 \in 0..MaxBodyBytes /\ 1..0 = {}
      BY SMT
    <2>2. f[0] = Valid(0) /\ g[0] = 0
      BY <1>0, <2>1, Zenon
    <2>3. AllDigits(text, 0)
      BY <2>1, Zenon DEF AllDigits
    <2>4. f[0].status = "valid"
      BY <2>2, Fields, Zenon
    <2> QED BY <2>1, <2>2, <2>3, <2>4, Zenon DEF Agree
  <1>2. ASSUME NEW n \in Nat, n \in S, n + 1 <= Len(text) PROVE Agree(text, f, g, n + 1)
    <2>1. /\ n <= Len(text) /\ n + 1 \in 0..Len(text) /\ n + 1 # 0 /\ (n + 1) - 1 = n /\ n + 1 \in 1..(n + 1)
          /\ text[n + 1] \in LengthCharacters
      BY <1>2, SMT
    <2>2. /\ Agree(text, f, g, n)
          /\ f[n + 1] = TakeCharacter(f[n], text[n + 1])
          /\ g[n + 1] = Base * g[n] + text[n + 1]
      BY <1>0, <1>2, <2>1, Zenon
    <2>3. AllDigits(text, n + 1) <=> AllDigits(text, n) /\ text[n + 1] \in Digits
      BY SMT DEF AllDigits
    <2>4. ASSUME AllDigits(text, n + 1) PROVE g[n] \in Nat /\ g[n + 1] \in Nat /\ g[n] <= g[n + 1]
      <3>0. g[n] \in Nat /\ text[n + 1] \in Digits
        BY <2>2, <2>3, <2>4, Zenon DEF Agree
      <3>1. /\ Base \in Nat \ {0} /\ text[n + 1] \in Nat /\ g[n] <= g[n]
        BY <3>0, SMT DEF Digits
      <3>2. g[n] <= Base * g[n] /\ Base * g[n] \in Nat
        BY <3>0, <3>1, Multiplies, Zenon
      <3> QED BY <2>2, <3>0, <3>1, <3>2, SMTT(30)
    <2>5. CASE \E v \in 0..MaxBodyBytes : f[n] = Valid(v) /\ text[n + 1] \in Digits
      <3>1. PICK v \in 0..MaxBodyBytes : f[n] = Valid(v)
        BY <2>5, Zenon
      <3>2. f[n].status = "valid" /\ f[n].value = v
        BY <3>1, Fields, Zenon
      <3>3. AllDigits(text, n) /\ g[n] = v
        BY <2>2, <3>2, Fields, Zenon DEF Agree
      <3> DEFINE w == g[n + 1]
      <3>4. f[n + 1] = IF w <= MaxBodyBytes THEN Valid(w) ELSE Refused("too large")
        BY <2>2, <2>5, <3>1, <3>3, TakesDigit, Zenon
      <3>5. AllDigits(text, n + 1) /\ w \in Nat
        BY <2>3, <2>4, <2>5, <3>3, Zenon
      <3> HIDE DEF w
      <3>6. CASE w <= MaxBodyBytes
        <4>1. w \in 0..MaxBodyBytes /\ f[n + 1] = Valid(w)
          BY <3>4, <3>5, <3>6, SMT
        <4>2. f[n + 1].status = "valid"
          BY <4>1, Fields, Zenon
        <4> QED BY <3>5, <4>1, <4>2, Zenon DEF Agree, w
      <3>7. CASE ~ (w <= MaxBodyBytes)
        <4>0. w > MaxBodyBytes
          BY <3>5, <3>7, SMT
        <4>1. w > MaxBodyBytes /\ f[n + 1] = Refused("too large")
          BY <3>4, <3>7, <4>0, Zenon
        <4>2. f[n + 1].status = "too large"
          BY <4>1, Fields, Zenon
        <4> QED BY <2>1, <3>5, <3>7, <4>1, <4>2, Zenon DEF Agree, w
      <3> QED BY <3>6, <3>7, Zenon
    <2>6. CASE \E v \in 0..MaxBodyBytes : f[n] = Valid(v) /\ text[n + 1] \notin Digits
      <3>1. f[n + 1] = Refused("invalid")
        BY <2>1, <2>2, <2>6, TakesOther, Zenon DEF LengthCharacters
      <3>2. f[n + 1].status = "invalid" /\ ~ AllDigits(text, n + 1)
        BY <2>3, <2>6, <3>1, Fields, Zenon
      <3> QED BY <3>1, <3>2, Zenon DEF Agree
    <2>7. CASE f[n] = Refused("invalid")
      <3>1. f[n + 1] = Refused("invalid")
        BY <2>2, <2>7, StaysRefused, Zenon
      <3>2. f[n].status = "invalid" /\ f[n + 1].status = "invalid"
        BY <2>7, <3>1, Fields, Zenon
      <3>3. ~ AllDigits(text, n + 1)
        BY <2>2, <2>3, <3>2, Zenon DEF Agree
      <3> QED BY <3>1, <3>2, <3>3, Zenon DEF Agree
    <2>8. CASE f[n] = Refused("too large")
      <3>1. f[n + 1] = Refused("too large")
        BY <2>2, <2>8, StaysRefused, Zenon
      <3>2. f[n].status = "too large" /\ f[n + 1].status = "too large"
        BY <2>8, <3>1, Fields, Zenon
      <3>3. \E k \in 1..n : AllDigits(text, k) /\ g[k] > MaxBodyBytes
        BY <2>2, <3>2, Zenon DEF Agree
      <3>4. 1..n \subseteq 1..(n + 1)
        BY SMT
      <3>5. ~ (AllDigits(text, n + 1) /\ g[n + 1] <= MaxBodyBytes)
        <4>1. SUFFICES ASSUME AllDigits(text, n + 1), g[n + 1] <= MaxBodyBytes PROVE FALSE
          BY Zenon
        <4>2. g[n] <= MaxBodyBytes
          BY <2>4, <4>1, SMT
        <4>3. f[n] = Valid(g[n])
          BY <2>2, <2>3, <4>1, <4>2, Zenon DEF Agree
        <4> QED BY <3>2, <4>3, Fields, Zenon
      <3> QED BY <2>4, <3>1, <3>2, <3>3, <3>4, <3>5, Zenon DEF Agree
    <2>9. \/ \E v \in 0..MaxBodyBytes : f[n] = Valid(v)
          \/ f[n] = Refused("invalid") \/ f[n] = Refused("too large")
      BY <2>2, Zenon DEF Agree
    <2> QED BY <2>5, <2>6, <2>7, <2>8, <2>9, Zenon
  <1>3. Nat \subseteq S
    <2>1. ASSUME NEW n \in Nat, n \in S PROVE n + 1 \in S
      <3>1. n + 1 \in Nat
        BY SMT
      <3> QED BY <1>2, <2>1, <3>1, Zenon
    <2> HIDE DEF S
    <2> QED BY <1>1, <2>1, NatSteps, Zenon
  <1>4. m \in Nat /\ m <= Len(text)
    BY SMT
  <1> QED BY <1>3, <1>4, Zenon

LEMMA ParsedWithin ==
  ASSUME NEW text \in Seq(LengthCharacters)
  PROVE  ParseContentLength(text) \in {Valid(v) : v \in 0..MaxBodyBytes} \cup {Refused("invalid"), Refused("too large")}
  <1>1. CASE text = <<>>
    BY <1>1, Zenon DEF ParseContentLength
  <1>2. CASE text # <<>>
    <2>1. PICK f : Takes(text, Len(text), f) /\ ParseContentLength(text) = f[Len(text)]
      BY <1>2, TextTaken, Zenon
    <2>2. Len(text) \in Nat /\ Len(text) \in 0..Len(text)
      BY SMT
    <2>3. PICK g : Counts(text, Len(text), g)
      BY <2>2, CountsExists, Zenon
    <2>4. Agree(text, f, g, Len(text))
      BY <2>1, <2>2, <2>3, LoopsAgree, Zenon
    <2> QED BY <2>1, <2>4, Zenon DEF Agree
  <1> QED BY <1>1, <1>2, Zenon

\* parseContentLength (content_length.cpp) reads every text as it is written, whatever
\* the base, the width of std::size_t and the limit: no digit makes the sum wrap around.
THEOREM LengthsAsWritten == \A text \in Seq(LengthCharacters) : ParsedRight(text)
<1> SUFFICES ASSUME NEW text \in Seq(LengthCharacters) PROVE ParsedRight(text)
  BY Zenon
<1> DEFINE parsed == ParseContentLength(text)
<1> USE ContentLengthConstants
<1>1. CASE text = <<>>
  <2>1. parsed.status = "invalid"
    BY <1>1, Fields, Zenon DEF ParseContentLength
  <2>2. ~ IsNumber(text)
    BY <1>1, Zenon DEF IsNumber
  <2> QED BY <2>1, <2>2, Zenon DEF ParsedRight
<1>2. CASE text # <<>>
  <2>0. Len(text) \in Nat /\ Len(text) \in 0..Len(text) /\ DOMAIN text = 1..Len(text)
    BY SMT
  <2>1. PICK f : Takes(text, Len(text), f) /\ parsed = f[Len(text)]
    BY <1>2, TextTaken, Zenon
  <2>2. PICK g : Counts(text, Len(text), g)
    BY <2>0, CountsExists, Zenon
  <2>3. Agree(text, f, g, Len(text))
    BY <2>0, <2>1, <2>2, LoopsAgree, Zenon
  <2>4. NumberOf(text) = g[Len(text)]
    BY <2>2, NumberIs, Zenon
  <2>5. IsNumber(text) <=> AllDigits(text, Len(text))
    BY <1>2, <2>0, Zenon DEF IsNumber, AllDigits
  <2>6. parsed.status = "valid" => IsNumber(text) /\ NumberOf(text) <= MaxBodyBytes /\ parsed.value = NumberOf(text)
    <3>1. SUFFICES ASSUME parsed.status = "valid"
                   PROVE  IsNumber(text) /\ NumberOf(text) <= MaxBodyBytes /\ parsed.value = NumberOf(text)
      BY Zenon
    <3>2. AllDigits(text, Len(text)) /\ parsed = Valid(g[Len(text)])
      BY <2>1, <2>3, <3>1, Zenon DEF Agree
    <3> HIDE DEF parsed
    <3>a. parsed \in {Valid(v) : v \in 0..MaxBodyBytes} \cup {Refused("invalid"), Refused("too large")}
      BY <2>1, <2>3, Zenon DEF Agree
    <3>c. Refused("invalid").status = "invalid" /\ Refused("too large").status = "too large"
      BY Fields, Zenon
    <3>b. parsed # Refused("invalid") /\ parsed # Refused("too large")
      BY <3>1, <3>c, Zenon
    <3>3. PICK v \in 0..MaxBodyBytes : parsed = Valid(v)
      BY <3>a, <3>b, Zenon
    <3>4. parsed.value = v /\ parsed.value = g[Len(text)]
      BY <3>2, <3>3, Fields, Zenon
    <3>5. v <= MaxBodyBytes
      BY SMT
    <3> QED BY <2>4, <2>5, <3>2, <3>4, <3>5, Zenon
  <2>7. ASSUME IsNumber(text), NumberOf(text) <= MaxBodyBytes PROVE parsed.status = "valid"
    <3>1. parsed = Valid(NumberOf(text))
      BY <2>1, <2>3, <2>4, <2>5, <2>7, Zenon DEF Agree
    <3> QED BY <3>1, Fields, Zenon
  <2>8. parsed.status = "invalid" => ~ IsNumber(text)
    BY <2>1, <2>3, <2>5, Zenon DEF Agree
  <2>9. ASSUME parsed.status = "too large"
        PROVE  \E n \in 1..Len(text) : /\ IsNumber(SubSeq(text, 1, n))
                                       /\ NumberOf(SubSeq(text, 1, n)) > MaxBodyBytes
    <3>1. PICK n \in 1..Len(text) : AllDigits(text, n) /\ g[n] > MaxBodyBytes
      BY <2>1, <2>3, <2>9, Zenon DEF Agree
    <3> DEFINE head == SubSeq(text, 1, n)
    <3>2. /\ head \in Seq(LengthCharacters) /\ Len(head) = n /\ n \in Nat /\ n <= n /\ n <= Len(text)
          /\ DOMAIN head = 1..n /\ 1 \in 1..n /\ head # <<>>
          /\ \A i \in 1..n : text[i] = head[i]
      BY <2>0, SMT
    <3> HIDE DEF head
    <3>3. PICK h : Counts(head, n, h)
      BY <3>2, CountsExists, Zenon
    <3>4. NumberOf(head) = h[n]
      BY <3>2, <3>3, NumberIs, Zenon
    <3>5. g[n] = h[n]
      BY <2>0, <2>2, <3>2, <3>3, CountsAgree, SMT
    <3>6. IsNumber(head)
      BY <3>1, <3>2, Zenon DEF IsNumber, AllDigits
    <3>7. NumberOf(head) > MaxBodyBytes
      BY <3>1, <3>4, <3>5, Zenon
    <3> QED BY <3>6, <3>7, Zenon DEF head
  <2> HIDE DEF parsed
  <2> QED BY <2>6, <2>7, <2>8, <2>9, Zenon DEF ParsedRight, parsed
<1> QED BY <1>1, <1>2, Zenon

-----------------------------------------------------------------------------
(* percentDecodePath. *)

Bytes == 0..255
Skips == 0..2

\* The loop of percentDecodePath, as far as position m.
NothingDecoded == [decoded |-> <<>>, skip |-> 0]
Decodes(encoded, m, f) ==
    f = [i \in 0..m |-> IF i = 0 THEN NothingDecoded ELSE TakeByte(encoded, i)[f[i - 1]]]

LEMMA DecodesExists ==
  ASSUME NEW encoded, NEW m \in Nat
  PROVE  \E f : Decodes(encoded, m, f)
  <1> DEFINE S == {n \in Nat : \E f : Decodes(encoded, n, f)}
  <1>1. 0 \in S
    <2>1. Decodes(encoded, 0, [n \in 0..0 |-> NothingDecoded])
      BY SMT DEF Decodes
    <2> QED BY <2>1, Zenon
  <1>2. ASSUME NEW k \in Nat, k \in S PROVE k + 1 \in S
    <2>1. PICK f : Decodes(encoded, k, f)
      BY <1>2, Zenon
    <2> DEFINE g == [n \in 0..(k + 1) |-> IF n <= k THEN f[n] ELSE TakeByte(encoded, k + 1)[f[k]]]
    <2>2. ASSUME NEW n \in 0..(k + 1)
          PROVE  g[n] = IF n = 0 THEN NothingDecoded ELSE TakeByte(encoded, n)[g[n - 1]]
      <3>1. CASE n <= k
        <4>1. n \in 0..k /\ g[n] = f[n] /\ (n # 0 => g[n - 1] = f[n - 1])
          BY <2>2, <3>1
        <4>2. f[n] = IF n = 0 THEN NothingDecoded ELSE TakeByte(encoded, n)[f[n - 1]]
          BY <2>1, <4>1, Zenon DEF Decodes
        <4> QED BY <4>1, <4>2, Zenon
      <3>2. CASE ~ (n <= k)
        <4>1. n = k + 1 /\ n # 0 /\ g[n] = TakeByte(encoded, k + 1)[f[k]] /\ g[k] = f[k] /\ n - 1 = k
          BY <2>2, <3>2
        <4> QED BY <4>1, Zenon
      <3> QED BY <3>1, <3>2, Zenon
    <2>3. Decodes(encoded, k + 1, g)
      BY <2>2, Zenon DEF Decodes
    <2>4. k + 1 \in Nat
      BY SMT
    <2> QED BY <2>3, <2>4, Zenon
  <1>3. Nat \subseteq S
    <2> HIDE DEF S
    <2> QED BY <1>1, <1>2, NatSteps, Zenon
  <1> QED BY <1>3, Zenon

\* The positions up to n that begin a character.
Upto(encoded, n) == {j \in Begins(encoded) : j <= n}

LEMMA NextNumber ==
  ASSUME NEW n \in Nat
  PROVE  /\ \A j \in Nat : j <= n + 1 <=> (j <= n \/ j = n + 1)
         /\ ~ (n + 1 <= n) /\ n + 1 <= n + 1
  BY SMT

LEMMA UptoFacts ==
  ASSUME NEW encoded \in Seq(Bytes), NEW n \in Nat
  PROVE  /\ IsFiniteSet(Upto(encoded, n)) /\ Cardinality(Upto(encoded, n)) \in Nat
         /\ n = 0 => Cardinality(Upto(encoded, n)) = 0
         /\ n + 1 \in Begins(encoded) => Cardinality(Upto(encoded, n + 1)) = Cardinality(Upto(encoded, n)) + 1
         /\ n + 1 \notin Begins(encoded) => Upto(encoded, n + 1) = Upto(encoded, n)
         /\ \A i \in Upto(encoded, n) : Cardinality(Upto(encoded, i)) \in 1..Cardinality(Upto(encoded, n))
  <1>1. \A i \in Begins(encoded) : i \in Nat /\ i >= 1
    BY SMT DEF Begins
  <1>2. ASSUME NEW k \in Nat PROVE IsFiniteSet(Upto(encoded, k)) /\ Cardinality(Upto(encoded, k)) \in Nat
    <2>1. Upto(encoded, k) \subseteq 1..k
      BY <1>1, <1>2, SMT DEF Upto
    <2>2. IsFiniteSet(1..k)
      BY <1>2, FS_Interval, SMT
    <2> QED BY <2>1, <2>2, FS_Subset, FS_CardinalityType, Zenon
  <1>3. ASSUME n = 0 PROVE Cardinality(Upto(encoded, n)) = 0
    <2>1. Upto(encoded, n) = {}
      BY <1>1, <1>3, SMT DEF Upto
    <2> QED BY <2>1, FS_EmptySet, Zenon
  <1>4. ASSUME n + 1 \in Begins(encoded)
        PROVE  Cardinality(Upto(encoded, n + 1)) = Cardinality(Upto(encoded, n)) + 1
    <2>2. \A j \in Begins(encoded) : j <= n + 1 <=> (j <= n \/ j = n + 1)
      BY <1>1, NextNumber, Zenon
    <2>3. ~ (n + 1 <= n) /\ n + 1 <= n + 1
      BY NextNumber, Zenon
    <2>1. Upto(encoded, n + 1) = Upto(encoded, n) \cup {n + 1} /\ n + 1 \notin Upto(encoded, n)
      BY <1>4, <2>2, <2>3, Zenon DEF Upto
    <2> QED BY <1>2, <2>1, FS_AddElement, Zenon
  <1>5. ASSUME n + 1 \notin Begins(encoded) PROVE Upto(encoded, n + 1) = Upto(encoded, n)
    BY <1>1, <1>5, SMT DEF Upto
  <1>6. ASSUME NEW i \in Upto(encoded, n)
        PROVE  Cardinality(Upto(encoded, i)) \in 1..Cardinality(Upto(encoded, n))
    <2>1. i \in Nat /\ i <= n /\ i \in Begins(encoded) /\ i \in Upto(encoded, i)
      BY <1>1, <1>6, SMT DEF Upto
    <2>0. \A j \in Nat : j <= i => j <= n
      BY <2>1, SMT
    <2>2. Upto(encoded, i) \subseteq Upto(encoded, n)
      BY <1>1, <2>0, Zenon DEF Upto
    <2>3. Cardinality(Upto(encoded, i)) <= Cardinality(Upto(encoded, n))
      BY <1>2, <2>2, FS_Subset, Zenon
    <2>4. Cardinality(Upto(encoded, i)) # 0
      BY <1>2, <2>1, FS_EmptySet, Zenon
    <2> QED BY <1>2, <2>1, <2>3, <2>4, SMT
  <1>7. IsFiniteSet(Upto(encoded, n)) /\ Cardinality(Upto(encoded, n)) \in Nat
    BY <1>2, Zenon
  <1> QED BY <1>3, <1>4, <1>5, <1>6, <1>7, Zenon

LEMMA HexValues ==
  ASSUME NEW c \in Bytes
  PROVE  /\ HexValue(c) \in -1..15
         /\ HexValue(c) >= 0 => c # Percent
  BY SMT DEF HexValue, Bytes, Percent

LEMMA ByteIs ==
  ASSUME NEW encoded \in Seq(Bytes), NEW i \in 1..Len(encoded), encoded[i] = Percent => EscapedByte(encoded, i)
  PROVE  /\ ByteAt(encoded, i) \in Bytes
         /\ encoded[i] = Percent => /\ i + 2 <= Len(encoded)
                                    /\ encoded[i + 1] # Percent /\ encoded[i + 2] # Percent
  <1>1. CASE encoded[i] # Percent
    <2>1. encoded[i] \in Bytes
      BY SMT
    <2> QED BY <1>1, <2>1, Zenon DEF ByteAt
  <1>2. CASE encoded[i] = Percent
    <2>1. i + 2 <= Len(encoded) /\ HexValue(encoded[i + 1]) >= 0 /\ HexValue(encoded[i + 2]) >= 0
      BY <1>2, Zenon DEF EscapedByte
    <2>2. encoded[i + 1] \in Bytes /\ encoded[i + 2] \in Bytes
      BY <2>1, SMT
    <2> DEFINE high == HexValue(encoded[i + 1])
               low == HexValue(encoded[i + 2])
    <2>3. high \in -1..15 /\ low \in -1..15 /\ encoded[i + 1] # Percent /\ encoded[i + 2] # Percent
      BY <2>1, <2>2, HexValues, Zenon
    <2>4. ByteAt(encoded, i) = 16 * high + low
      BY <1>2, Zenon DEF ByteAt
    <2>5. high >= 0 /\ low >= 0
      BY <2>1, Zenon
    <2> HIDE DEF high, low
    <2>6. 16 * high + low \in Bytes
      BY <2>3, <2>5, SMT DEF Bytes
    <2> QED BY <2>1, <2>3, <2>4, <2>6, Zenon
  <1> QED BY <1>1, <1>2, Zenon

\* What the loop has after n positions, unless it has refused the path.
Decoded(encoded, d, n) ==
    /\ d.decoded \in Seq(Bytes)
    /\ Len(d.decoded) = Cardinality(Upto(encoded, n))
    /\ \A i \in Upto(encoded, n) : d.decoded[Cardinality(Upto(encoded, i))] = ByteAt(encoded, i)
    /\ d.skip \in Skips
    /\ d.skip = 2 <=> n >= 1 /\ encoded[n] = Percent
    /\ d.skip = 1 <=> n >= 2 /\ encoded[n - 1] = Percent
    /\ d.skip = 2 => n + 2 <= Len(encoded) /\ encoded[n + 1] # Percent /\ encoded[n + 2] # Percent
    /\ d.skip = 1 => n + 1 <= Len(encoded) /\ encoded[n + 1] # Percent

LEMMA NoByteRefused ==
  ASSUME NEW d \in Seq(Bytes)
  PROVE  d # Undecoded
  <1>1. ASSUME d = <<-1>> PROVE Len(d) = 1 /\ d[1] = -1
    <2>1. \A x : Len(<<x>>) = 1 /\ <<x>>[1] = x
      BY SMT
    <2> QED BY <1>1, <2>1, Zenon
  <1>2. Len(d) = 1 => d[1] \in Bytes
    BY SMT
  <1>3. -1 \notin Bytes
    BY SMT DEF Bytes
  <1> QED BY <1>1, <1>2, <1>3, Zenon DEF Undecoded

LEMMA SeqOfMore ==
  ASSUME NEW A, NEW B, A \subseteq B, NEW d \in Seq(A)
  PROVE  d \in Seq(B)
  BY SMT

LEMMA DecodingIs ==
  ASSUME NEW d, NEW k \in Skips, d = Undecoded \/ d \in Seq(Bytes)
  PROVE  [decoded |-> d, skip |-> k] \in Decodings
  <1> DEFINE range == -1..255
  <1>1. Bytes \subseteq range /\ Undecoded \in Seq(range)
    BY SMT DEF Bytes, Undecoded
  <1>2. Decodings = [decoded : Seq(range), skip : Skips]
    BY Zenon DEF Decodings, Skips
  <1> HIDE DEF range
  <1>3. d \in Seq(range)
    BY <1>1, SeqOfMore, Zenon
  <1> QED BY <1>2, <1>3, Zenon

LEMMA DecodingHas ==
  ASSUME NEW r \in Decodings
  PROVE  r.skip \in Skips
  BY Zenon DEF Decodings, Skips

\* The next position begins a character exactly when it is not passed over.
LEMMA NextBegins ==
  ASSUME NEW encoded \in Seq(Bytes), NEW n \in Nat, n + 1 <= Len(encoded), NEW d, Decoded(encoded, d, n)
  PROVE  n + 1 \in Begins(encoded) <=> d.skip = 0
  <1>1. d.skip = 0 <=> ~ (n >= 1 /\ encoded[n] = Percent) /\ ~ (n >= 2 /\ encoded[n - 1] = Percent)
    BY SMT DEF Decoded, Skips
  <1>2. /\ n + 1 \in DOMAIN encoded /\ (n + 1) - 1 = n /\ (n + 1) - 2 = n - 1
        /\ (n + 1 > 1 <=> n >= 1) /\ (n + 1 > 2 <=> n >= 2)
    BY SMT
  <1> QED BY <1>1, <1>2, Zenon DEF Begins

LEMMA TakesByte ==
  ASSUME NEW encoded \in Seq(Bytes), NEW n \in Nat, n + 1 <= Len(encoded), NEW d \in Decodings,
         NEW next, next = TakeByte(encoded, n + 1)[d],
         d.decoded = Undecoded \/ Decoded(encoded, d, n)
  PROVE  next \in Decodings /\ (next.decoded = Undecoded \/ Decoded(encoded, next, n + 1))
  <1> DEFINE byte == ByteAt(encoded, n + 1)
             refuses == (encoded[n + 1] = Percent /\ ~EscapedByte(encoded, n + 1)) \/ Forbidden(byte)
  <1>1. next = CASE d.decoded = Undecoded -> d
                 [] d.decoded # Undecoded /\ d.skip > 0 -> [decoded |-> d.decoded, skip |-> d.skip - 1]
                 [] OTHER -> IF refuses THEN [decoded |-> Undecoded, skip |-> 0]
                             ELSE [decoded |-> Append(d.decoded, byte), skip |-> IF encoded[n + 1] = Percent THEN 2 ELSE 0]
    BY Zenon DEF TakeByte
  <1>2. d.skip \in Skips
    BY DecodingHas, Zenon
  <1>3. encoded[n + 1] = Percent /\ ~EscapedByte(encoded, n + 1) => refuses
    BY Zenon
  <1> HIDE DEF refuses, byte
  <1>4. CASE d.decoded = Undecoded
    BY <1>1, <1>4, Zenon
  <1>5. CASE d.decoded # Undecoded /\ d.skip > 0
    <2>1. next = [decoded |-> d.decoded, skip |-> d.skip - 1] /\ Decoded(encoded, d, n)
      BY <1>1, <1>5, Zenon
    <2>2. d.skip - 1 \in Skips /\ d.skip # 0
      BY <1>2, <1>5, SMT DEF Skips
    <2>3. next.decoded = d.decoded /\ next.skip = d.skip - 1 /\ next \in Decodings
      <3>1. d.decoded \in Seq(Bytes)
        BY <2>1, Zenon DEF Decoded
      <3>2. [decoded |-> d.decoded, skip |-> d.skip - 1] \in Decodings
        BY <2>2, <3>1, DecodingIs, Zenon
      <3> QED BY <2>1, <3>2, SMT
    <2>4. Upto(encoded, n + 1) = Upto(encoded, n)
      BY <2>1, <2>2, NextBegins, UptoFacts, Zenon
    <2>5. /\ next.decoded \in Seq(Bytes)
          /\ Len(next.decoded) = Cardinality(Upto(encoded, n + 1))
          /\ \A i \in Upto(encoded, n + 1) : next.decoded[Cardinality(Upto(encoded, i))] = ByteAt(encoded, i)
          /\ next.skip \in Skips
      BY <2>1, <2>2, <2>3, <2>4, Zenon DEF Decoded
    <2>6. /\ next.skip = 2 <=> n + 1 >= 1 /\ encoded[n + 1] = Percent
          /\ next.skip = 1 <=> n + 1 >= 2 /\ encoded[(n + 1) - 1] = Percent
          /\ next.skip = 2 => n + 1 + 2 <= Len(encoded) /\ encoded[n + 1 + 1] # Percent /\ encoded[n + 1 + 2] # Percent
          /\ next.skip = 1 => n + 1 + 1 <= Len(encoded) /\ encoded[n + 1 + 1] # Percent
      <3>1. /\ d.skip \in 1..2 /\ next.skip = d.skip - 1
            /\ d.skip = 2 <=> n >= 1 /\ encoded[n] = Percent
            /\ d.skip = 1 <=> n >= 2 /\ encoded[n - 1] = Percent
            /\ d.skip = 2 => n + 2 <= Len(encoded) /\ encoded[n + 1] # Percent /\ encoded[n + 2] # Percent
            /\ d.skip = 1 => n + 1 <= Len(encoded) /\ encoded[n + 1] # Percent
        <4>1. d.skip \in 1..2
          BY <1>2, <1>5, SMT DEF Skips
        <4> QED BY <2>1, <2>3, <4>1, Zenon DEF Decoded
      <3>2. (n + 1) - 1 = n /\ n + 1 + 1 = n + 2 /\ n + 1 >= 1 /\ (n + 1 >= 2 <=> n >= 1)
        BY SMT
      <3>3. d.skip - 1 = 2 <=> FALSE
        BY <3>1, SMT
      <3>4. d.skip - 1 = 1 <=> d.skip = 2
        BY <3>1, SMT
      <3>5. d.skip = 1 \/ d.skip = 2
        BY <3>1, SMT
      <3> QED BY <3>1, <3>2, <3>3, <3>4, <3>5, Zenon
    <2> QED BY <2>3, <2>5, <2>6, Zenon DEF Decoded
  <1>6. CASE d.decoded # Undecoded /\ ~ (d.skip > 0) /\ refuses
    <2>1. next = [decoded |-> Undecoded, skip |-> 0]
      BY <1>1, <1>6, Zenon
    <2>2. 0 \in Skips
      BY SMT DEF Skips
    <2>3. [decoded |-> Undecoded, skip |-> 0] \in Decodings
      BY <2>2, DecodingIs, Zenon
    <2> QED BY <2>1, <2>3, SMT
  <1>7. CASE d.decoded # Undecoded /\ ~ (d.skip > 0) /\ ~ refuses
    <2>0. Decoded(encoded, d, n) /\ d.skip = 0
      BY <1>2, <1>7, SMT DEF Skips
    <2> DEFINE jump == IF encoded[n + 1] = Percent THEN 2 ELSE 0
    <2>1. next = [decoded |-> Append(d.decoded, byte), skip |-> jump]
      BY <1>1, <1>7, Zenon
    <2>2. n + 1 \in 1..Len(encoded) /\ (encoded[n + 1] = Percent => EscapedByte(encoded, n + 1))
      BY <1>3, <1>7, SMT
    <2>3. /\ byte \in Bytes
          /\ encoded[n + 1] = Percent => n + 1 + 2 <= Len(encoded) /\ encoded[n + 1 + 1] # Percent /\ encoded[n + 1 + 2] # Percent
      BY <2>2, ByteIs, Zenon DEF byte
    <2>4. d.decoded \in Seq(Bytes) /\ Len(d.decoded) = Cardinality(Upto(encoded, n))
      BY <2>0, Zenon DEF Decoded
    <2>5. /\ Append(d.decoded, byte) \in Seq(Bytes)
          /\ Len(Append(d.decoded, byte)) = Len(d.decoded) + 1
          /\ Append(d.decoded, byte)[Len(d.decoded) + 1] = byte
          /\ \A k \in 1..Len(d.decoded) : Append(d.decoded, byte)[k] = d.decoded[k]
      BY <2>3, <2>4, SMT
    <2>6. jump \in Skips
      BY SMT DEF Skips
    <2>7. next \in Decodings /\ next.decoded = Append(d.decoded, byte) /\ next.skip = jump
      <3> HIDE DEF jump
      <3>1. [decoded |-> Append(d.decoded, byte), skip |-> jump] \in Decodings
        BY <2>5, <2>6, DecodingIs, Zenon
      <3> DEFINE longer == Append(d.decoded, byte)
      <3>2. next = [decoded |-> longer, skip |-> jump]
        BY <2>1, Zenon
      <3> HIDE DEF longer
      <3>3. next.decoded = longer /\ next.skip = jump
        BY <3>2, SMT
      <3> QED BY <2>1, <3>1, <3>3, Zenon DEF longer
    <2>8. n + 1 \in Begins(encoded) /\ Cardinality(Upto(encoded, n + 1)) = Cardinality(Upto(encoded, n)) + 1
      BY <2>0, NextBegins, UptoFacts, Zenon
    <2>9. ASSUME NEW i \in Upto(encoded, n + 1)
          PROVE  next.decoded[Cardinality(Upto(encoded, i))] = ByteAt(encoded, i)
      <3>1. CASE i = n + 1
        BY <2>4, <2>5, <2>7, <2>8, <3>1, Zenon DEF byte
      <3>2. CASE i # n + 1
        <4>0. i \in Nat
          BY <2>9, SMT DEF Upto, Begins
        <4>1. i \in Upto(encoded, n)
          BY <2>9, <3>2, <4>0, NextNumber, Zenon DEF Upto
        <4>2. Cardinality(Upto(encoded, i)) \in 1..Len(d.decoded)
          BY <2>4, <4>1, UptoFacts, Zenon
        <4>3. d.decoded[Cardinality(Upto(encoded, i))] = ByteAt(encoded, i)
          BY <2>0, <4>1, Zenon DEF Decoded
        <4> QED BY <2>5, <2>7, <4>2, <4>3, Zenon
      <3> QED BY <3>1, <3>2, Zenon
    <2>10. /\ next.skip = 2 <=> n + 1 >= 1 /\ encoded[n + 1] = Percent
           /\ next.skip = 1 <=> n + 1 >= 2 /\ encoded[(n + 1) - 1] = Percent
           /\ next.skip = 2 => n + 1 + 2 <= Len(encoded) /\ encoded[n + 1 + 1] # Percent /\ encoded[n + 1 + 2] # Percent
           /\ next.skip = 1 => n + 1 + 1 <= Len(encoded) /\ encoded[n + 1 + 1] # Percent
      <3>1. ~ (n >= 1 /\ encoded[n] = Percent)
        <4>1. d.skip # 2
          BY <2>0, SMT
        <4> QED BY <2>0, <4>1, Zenon DEF Decoded
      <3>2. (n + 1) - 1 = n /\ n + 1 >= 1 /\ (n + 1 >= 2 <=> n >= 1)
        BY SMT
      <3>3. (jump = 2 <=> encoded[n + 1] = Percent) /\ jump # 1
        BY SMT
      <3> HIDE DEF jump
      <3> QED BY <2>3, <2>7, <3>1, <3>2, <3>3, Zenon
    <2> HIDE DEF jump
    <2> QED BY <2>4, <2>5, <2>6, <2>7, <2>8, <2>9, <2>10, Zenon DEF Decoded
  <1> QED BY <1>4, <1>5, <1>6, <1>7, Zenon

LEMMA LoopDecodes ==
  ASSUME NEW encoded \in Seq(Bytes), NEW f, Decodes(encoded, Len(encoded), f), NEW m \in 0..Len(encoded)
  PROVE  f[m].decoded = Undecoded \/ Decoded(encoded, f[m], m)
  <1> DEFINE Fits(n) == f[n] \in Decodings /\ (f[n].decoded = Undecoded \/ Decoded(encoded, f[n], n))
             S == {n \in Nat : n <= Len(encoded) => Fits(n)}
  <1>0. \A n \in 0..Len(encoded) : f[n] = IF n = 0 THEN NothingDecoded ELSE TakeByte(encoded, n)[f[n - 1]]
    BY Zenon DEF Decodes
  <1>1. 0 \in S
    <2>1. 0 \in 0..Len(encoded) /\ 0 \in Nat /\ 0 \in Skips /\ <<>> \in Seq(Bytes) /\ Len(<<>>) = 0
      BY SMT DEF Skips
    <2>2. f[0] = NothingDecoded
      BY <1>0, <2>1, Zenon
    <2>3. f[0] \in Decodings /\ f[0].decoded = <<>> /\ f[0].skip = 0
      <3>1. NothingDecoded \in Decodings
        BY <2>1, DecodingIs, Zenon DEF NothingDecoded
      <3>2. NothingDecoded.decoded = <<>> /\ NothingDecoded.skip = 0
        BY Zenon DEF NothingDecoded
      <3> QED BY <2>2, <3>1, <3>2, Zenon
    <2>4. Cardinality(Upto(encoded, 0)) = 0 /\ Upto(encoded, 0) = {}
      <3>1. Cardinality(Upto(encoded, 0)) = 0 /\ IsFiniteSet(Upto(encoded, 0))
        BY <2>1, UptoFacts, Zenon
      <3> QED BY <3>1, FS_EmptySet, Zenon
    <2>5. /\ f[0].skip # 2 /\ f[0].skip # 1 /\ ~ (0 >= 1) /\ ~ (0 >= 2)
      BY <2>3, SMT
    <2>6. Decoded(encoded, f[0], 0)
      BY <2>1, <2>3, <2>4, <2>5, Zenon DEF Decoded
    <2> QED BY <2>1, <2>3, <2>6, Zenon
  <1>2. ASSUME NEW n \in Nat, n \in S PROVE n + 1 \in S
    <2>1. n + 1 \in Nat
      BY SMT
    <2>2. SUFFICES ASSUME n + 1 <= Len(encoded) PROVE Fits(n + 1)
      BY <2>1, Zenon
    <2>3. n <= Len(encoded) /\ n + 1 \in 0..Len(encoded) /\ n + 1 # 0 /\ (n + 1) - 1 = n
      BY <2>2, SMT
    <2>4. Fits(n) /\ f[n + 1] = TakeByte(encoded, n + 1)[f[n]]
      BY <1>0, <1>2, <2>3, Zenon
    <2> QED BY <2>2, <2>4, TakesByte, Zenon
  <1>3. Nat \subseteq S
    <2> HIDE DEF S
    <2> QED BY <1>1, <1>2, NatSteps, Zenon
  <1>4. m \in Nat /\ m <= Len(encoded)
    BY SMT
  <1> QED BY <1>3, <1>4, Zenon

\* percentDecodePath, for every path: what it returns when it returns.
LEMMA PathDecodes ==
  ASSUME NEW encoded \in Seq(Bytes), PercentDecode(encoded) # Undecoded
  PROVE  LET decoded == PercentDecode(encoded)
             begins == Begins(encoded)
         IN  /\ decoded \in Seq(Bytes)
             /\ Len(decoded) = Cardinality(begins)
             /\ \A i \in begins : decoded[Cardinality({j \in begins : j <= i})] = ByteAt(encoded, i)
  <1> DEFINE f == CHOOSE g : Decodes(encoded, Len(encoded), g)
  <1>1. Len(encoded) \in Nat /\ Len(encoded) \in 0..Len(encoded) /\ DOMAIN encoded = 1..Len(encoded)
        /\ \A i \in 1..Len(encoded) : i <= Len(encoded)
    BY SMT
  <1>2. Decodes(encoded, Len(encoded), f)
    BY <1>1, DecodesExists, Zenon
  <1>3. PercentDecode(encoded) = f[Len(encoded)].decoded
    BY Zenon DEF PercentDecode, Decodes, NothingDecoded
  <1> HIDE DEF f
  <1>4. Decoded(encoded, f[Len(encoded)], Len(encoded))
    BY <1>1, <1>2, <1>3, LoopDecodes, Zenon
  <1>5. Upto(encoded, Len(encoded)) = Begins(encoded)
    BY <1>1, Zenon DEF Upto, Begins
  <1> QED BY <1>3, <1>4, <1>5, Zenon DEF Decoded, Upto

-----------------------------------------------------------------------------
(* resolveStaticPath. *)

\* The loop that separates a path, as far as character m.
Separates(path, m, f) ==
    f = [n \in 0..m |-> IF n = 0 THEN <<<<>>>> ELSE TakeSeparated(f[n - 1], path[n])]

LEMMA SeparatesExists ==
  ASSUME NEW path, NEW m \in Nat
  PROVE  \E f : Separates(path, m, f)
  <1> DEFINE S == {n \in Nat : \E f : Separates(path, n, f)}
  <1>1. 0 \in S
    <2>1. Separates(path, 0, [n \in 0..0 |-> <<<<>>>>])
      BY SMT DEF Separates
    <2> QED BY <2>1, Zenon
  <1>2. ASSUME NEW k \in Nat, k \in S PROVE k + 1 \in S
    <2>1. PICK f : Separates(path, k, f)
      BY <1>2, Zenon
    <2> DEFINE g == [n \in 0..(k + 1) |-> IF n <= k THEN f[n] ELSE TakeSeparated(f[k], path[k + 1])]
    <2>2. ASSUME NEW n \in 0..(k + 1)
          PROVE  g[n] = IF n = 0 THEN <<<<>>>> ELSE TakeSeparated(g[n - 1], path[n])
      <3>1. CASE n <= k
        <4>1. n \in 0..k /\ g[n] = f[n] /\ (n # 0 => g[n - 1] = f[n - 1])
          BY <2>2, <3>1
        <4>2. f[n] = IF n = 0 THEN <<<<>>>> ELSE TakeSeparated(f[n - 1], path[n])
          BY <2>1, <4>1, Zenon DEF Separates
        <4> QED BY <4>1, <4>2, Zenon
      <3>2. CASE ~ (n <= k)
        <4>1. n = k + 1 /\ n # 0 /\ g[n] = TakeSeparated(f[k], path[k + 1]) /\ g[k] = f[k] /\ n - 1 = k
          BY <2>2, <3>2
        <4> QED BY <4>1, Zenon
      <3> QED BY <3>1, <3>2, Zenon
    <2>3. Separates(path, k + 1, g)
      BY <2>2, Zenon DEF Separates
    <2>4. k + 1 \in Nat
      BY SMT
    <2> QED BY <2>3, <2>4, Zenon
  <1>3. Nat \subseteq S
    <2> HIDE DEF S
    <2> QED BY <1>1, <1>2, NatSteps, Zenon
  <1> QED BY <1>3, Zenon

\* A character that comes first or after a slash and is none.
StartsPiece(path, k) == path[k] # Slash /\ (k = 1 \/ path[k - 1] = Slash)

\* The piece is in the path, from position k on.
LiesAt(path, piece, k, n) ==
    /\ piece # <<>> /\ k - 1 + Len(piece) <= n
    /\ \A i \in 1..Len(piece) : piece[i] = path[k - 1 + i]

\* The pieces after n characters: each that was begun is there, the last one to its end.
Pieces(path, p, n) ==
    /\ p \in Seq(Seq(Bytes)) /\ p # <<>>
    /\ n = 0 \/ path[n] = Slash => p[Len(p)] = <<>>
    /\ \A k \in 1..n :
          StartsPiece(path, k) =>
              \E c \in 1..Len(p) : /\ LiesAt(path, p[c], k, n)
                                   /\ c = Len(p) => k - 1 + Len(p[c]) = n

LEMMA LastOf ==
  ASSUME NEW A, NEW p \in Seq(A), p # <<>>
  PROVE  Len(p) \in Nat /\ Len(p) \in 1..Len(p) /\ p[Len(p)] \in A
  BY SMT

LEMMA AppendIs ==
  ASSUME NEW A, NEW p \in Seq(A), NEW x \in A
  PROVE  /\ Append(p, x) \in Seq(A) /\ Append(p, x) # <<>> /\ Len(Append(p, x)) = Len(p) + 1
         /\ Append(p, x)[Len(p) + 1] = x
         /\ \A i \in 1..Len(p) : Append(p, x)[i] = p[i]
  BY SMT

LEMMA ExceptIs ==
  ASSUME NEW A, NEW p \in Seq(A), NEW j \in 1..Len(p), NEW x \in A, NEW q, q = [p EXCEPT ![j] = x]
  PROVE  /\ q \in Seq(A) /\ Len(q) = Len(p) /\ q[j] = x
         /\ \A i \in 1..Len(p) : i # j => q[i] = p[i]
  BY SMT

LEMMA SlashTaken ==
  ASSUME NEW path \in Seq(Bytes), NEW n \in Nat, n + 1 <= Len(path), path[n + 1] = Slash,
         NEW p, Pieces(path, p, n)
  PROVE  Pieces(path, TakeSeparated(p, path[n + 1]), n + 1)
  <1> DEFINE q == TakeSeparated(p, path[n + 1])
  <1>1. q = IF p[Len(p)] = <<>> THEN p ELSE Append(p, <<>>)
    BY Zenon DEF TakeSeparated
  <1>2. p \in Seq(Seq(Bytes)) /\ p # <<>> /\ <<>> \in Seq(Bytes)
    BY SMT DEF Pieces
  <1>3. Len(p) \in Nat /\ Len(p) \in 1..Len(p)
    BY <1>2, LastOf, Zenon
  <1> HIDE DEF q
  <1>4. /\ q \in Seq(Seq(Bytes)) /\ q # <<>> /\ q[Len(q)] = <<>>
        /\ \A c \in 1..Len(p) : p[c] # <<>> => c \in 1..Len(q) /\ c # Len(q) /\ q[c] = p[c]
    <2>1. CASE p[Len(p)] = <<>>
      BY <1>1, <1>2, <1>3, <2>1, Zenon
    <2>2. CASE p[Len(p)] # <<>>
      <3>1. q = Append(p, <<>>)
        BY <1>1, <2>2, Zenon
      <3>2. /\ q \in Seq(Seq(Bytes)) /\ q # <<>> /\ Len(q) = Len(p) + 1 /\ q[Len(p) + 1] = <<>>
            /\ \A i \in 1..Len(p) : q[i] = p[i]
        <4> DEFINE x == <<>>
                   r == Append(p, x)
        <4>1. x \in Seq(Bytes) /\ q = r
          BY <1>2, <3>1, Zenon
        <4> HIDE DEF x
        <4>2. /\ r \in Seq(Seq(Bytes)) /\ r # <<>> /\ Len(r) = Len(p) + 1 /\ r[Len(p) + 1] = x
              /\ \A i \in 1..Len(p) : r[i] = p[i]
          BY <1>2, <4>1, AppendIs, SMTT(30)
        <4> HIDE DEF r
        <4> QED BY <4>1, <4>2, Zenon DEF x
      <3>3. \A c \in 1..Len(p) : c \in 1..(Len(p) + 1) /\ c # Len(p) + 1
        BY <1>3, SMT
      <3> QED BY <3>2, <3>3, Zenon
    <2> QED BY <2>1, <2>2, Zenon
  <1>5. ASSUME NEW k \in 1..(n + 1), StartsPiece(path, k)
        PROVE  \E c \in 1..Len(q) : LiesAt(path, q[c], k, n + 1) /\ (c = Len(q) => k - 1 + Len(q[c]) = n + 1)
    <2>1. k # n + 1
      BY <1>5, Zenon DEF StartsPiece
    <2>2. k \in 1..n
      BY <2>1, SMT
    <2>3. PICK c \in 1..Len(p) : LiesAt(path, p[c], k, n)
      BY <1>5, <2>2, Zenon DEF Pieces
    <2>4. p[c] # <<>> /\ c \in 1..Len(q) /\ c # Len(q) /\ q[c] = p[c]
      BY <1>4, <2>3, Zenon DEF LiesAt
    <2>5. p[c] \in Seq(Bytes) /\ Len(p[c]) \in Nat
      BY <1>2, <2>3, SMT
    <2>6. k - 1 + Len(p[c]) <= n => k - 1 + Len(p[c]) <= n + 1
      BY <2>5, SMT
    <2>7. LiesAt(path, q[c], k, n + 1)
      BY <2>3, <2>4, <2>6, Zenon DEF LiesAt
    <2> QED BY <2>4, <2>7, Zenon
  <1> QED BY <1>4, <1>5, Zenon DEF Pieces, q

LEMMA CharacterTaken ==
  ASSUME NEW path \in Seq(Bytes), NEW n \in Nat, n + 1 <= Len(path), path[n + 1] # Slash,
         NEW p, Pieces(path, p, n)
  PROVE  Pieces(path, TakeSeparated(p, path[n + 1]), n + 1)
  <1> DEFINE q == TakeSeparated(p, path[n + 1])
             last == Len(p)
             longer == Append(p[last], path[n + 1])
  <1>1. q = [p EXCEPT ![last] = longer]
    BY Zenon DEF TakeSeparated
  <1>2. p \in Seq(Seq(Bytes)) /\ p # <<>>
    BY Zenon DEF Pieces
  <1>3. last \in Nat /\ last \in 1..Len(p) /\ p[last] \in Seq(Bytes)
    BY <1>2, LastOf, Zenon
  <1>4. path[n + 1] \in Bytes
    BY SMT
  <1>5. /\ longer \in Seq(Bytes) /\ longer # <<>> /\ Len(longer) = Len(p[last]) + 1
        /\ longer[Len(p[last]) + 1] = path[n + 1]
        /\ \A i \in 1..Len(p[last]) : longer[i] = p[last][i]
    <2> DEFINE s == p[last]
               c == path[n + 1]
    <2>1. s \in Seq(Bytes) /\ c \in Bytes
      BY <1>3, <1>4, Zenon
    <2> HIDE DEF s, c
    <2>2. /\ Append(s, c) \in Seq(Bytes) /\ Append(s, c) # <<>> /\ Len(Append(s, c)) = Len(s) + 1
          /\ Append(s, c)[Len(s) + 1] = c
          /\ \A i \in 1..Len(s) : Append(s, c)[i] = s[i]
      BY <2>1, AppendIs, SMT
    <2> QED BY <2>2, Zenon DEF s, c
  <1> HIDE DEF q, longer
  <1>6. /\ q \in Seq(Seq(Bytes)) /\ Len(q) = last /\ q[last] = longer
        /\ \A i \in 1..last : i # last => q[i] = p[i]
    BY <1>1, <1>2, <1>3, <1>5, ExceptIs, SMT
  <1>7. q # <<>>
    BY <1>3, <1>6, SMT
  <1> HIDE DEF last
  <1>8. Len(p[last]) \in Nat
    BY <1>3, SMT
  \* The last piece, when it was begun at k, has the next character as well.
  <1>9. ASSUME NEW k \in Nat, k - 1 + Len(p[last]) = n,
               \A i \in 1..Len(p[last]) : p[last][i] = path[k - 1 + i]
        PROVE  LiesAt(path, q[last], k, n + 1) /\ k - 1 + Len(q[last]) = n + 1
    <2>1. k - 1 + (Len(p[last]) + 1) = n + 1 /\ n + 1 <= n + 1
      BY <1>8, <1>9, SMT
    <2>2. ASSUME NEW i \in 1..Len(longer) PROVE longer[i] = path[k - 1 + i]
      <3>1. i \in 1..Len(p[last]) \/ i = Len(p[last]) + 1
        BY <1>5, <1>8, <2>2, SMT
      <3> QED BY <1>5, <1>9, <2>1, <3>1, Zenon
    <2> QED BY <1>5, <1>6, <2>1, <2>2, Zenon DEF LiesAt
  <1>10. ASSUME NEW k \in 1..(n + 1), StartsPiece(path, k)
         PROVE  \E c \in 1..Len(q) : LiesAt(path, q[c], k, n + 1) /\ (c = Len(q) => k - 1 + Len(q[c]) = n + 1)
    <2>1. CASE k = n + 1
      <3>1. n = 0 \/ path[n] = Slash
        BY <1>10, <2>1, SMT DEF StartsPiece
      <3>2. p[last] = <<>>
        BY <3>1, Zenon DEF Pieces, last
      <3>3. k \in Nat /\ k - 1 + Len(p[last]) = n /\ 1..Len(p[last]) = {}
        BY <2>1, <3>2, SMT
      <3> QED BY <1>3, <1>6, <1>9, <3>3, Zenon DEF last
    <2>2. CASE k # n + 1
      <3>1. k \in 1..n /\ k \in Nat
        BY <2>2, SMT
      <3>2. PICK c \in 1..last : LiesAt(path, p[c], k, n) /\ (c = last => k - 1 + Len(p[c]) = n)
        BY <1>10, <3>1, Zenon DEF Pieces, last
      <3>3. CASE c = last
        BY <1>3, <1>6, <1>9, <3>1, <3>2, <3>3, ZenonT(40) DEF last, LiesAt
      <3>4. CASE c # last
        <4>1. q[c] = p[c]
          BY <1>6, <3>4, Zenon
        <4>2. p[c] \in Seq(Bytes) /\ Len(p[c]) \in Nat
          BY <1>2, SMT DEF last
        <4>3. k - 1 + Len(p[c]) <= n => k - 1 + Len(p[c]) <= n + 1
          BY <3>1, <4>2, SMT
        <4>4. LiesAt(path, q[c], k, n + 1)
          BY <3>2, <4>1, <4>3, Zenon DEF LiesAt
        <4> QED BY <1>6, <3>4, <4>4, Zenon
      <3> QED BY <3>3, <3>4, Zenon
    <2> QED BY <2>1, <2>2, Zenon
  <1>11. n + 1 # 0
    BY SMT
  <1> QED BY <1>6, <1>7, <1>10, <1>11, Zenon DEF Pieces, q

LEMMA ComponentsAre ==
  ASSUME NEW path \in Seq(Bytes)
  PROVE  Pieces(path, Components(path), Len(path))
  <1> DEFINE f == CHOOSE g : Separates(path, Len(path), g)
             S == {n \in Nat : n <= Len(path) => Pieces(path, f[n], n)}
  <1>1. Len(path) \in Nat /\ Len(path) <= Len(path)
    BY SMT
  <1>2. Separates(path, Len(path), f)
    BY <1>1, SeparatesExists, Zenon
  <1>3. Components(path) = f[Len(path)]
    BY Zenon DEF Components, Separates
  <1> HIDE DEF f
  <1>0. \A n \in 0..Len(path) : f[n] = IF n = 0 THEN <<<<>>>> ELSE TakeSeparated(f[n - 1], path[n])
    BY <1>2, Zenon DEF Separates
  <1>4. 0 \in S
    <2>1. 0 \in 0..Len(path) /\ 0 \in Nat /\ 1..0 = {}
      BY SMT
    <2>2. f[0] = <<<<>>>>
      BY <1>0, <2>1, Zenon
    <2>3. <<>> \in Seq(Bytes)
      BY SMT
    <2>4. \A x : x \in Seq(Bytes) => <<x>> \in Seq(Seq(Bytes)) /\ <<x>> # <<>> /\ <<x>>[Len(<<x>>)] = x
      BY SMT
    <2>5. f[0] \in Seq(Seq(Bytes)) /\ f[0] # <<>> /\ f[0][Len(f[0])] = <<>>
      BY <2>2, <2>3, <2>4, Zenon
    <2>6. Pieces(path, f[0], 0)
      BY <2>1, <2>5, Zenon DEF Pieces
    <2> QED BY <2>1, <2>6, Zenon
  <1>5. ASSUME NEW n \in Nat, n \in S PROVE n + 1 \in S
    <2>1. n + 1 \in Nat
      BY SMT
    <2>2. SUFFICES ASSUME n + 1 <= Len(path) PROVE Pieces(path, f[n + 1], n + 1)
      BY <2>1, Zenon
    <2>3. n <= Len(path) /\ n + 1 \in 0..Len(path) /\ n + 1 # 0 /\ (n + 1) - 1 = n
      BY <2>2, SMT
    <2>4. Pieces(path, f[n], n) /\ f[n + 1] = TakeSeparated(f[n], path[n + 1])
      BY <1>0, <1>5, <2>3, Zenon
    <2> QED BY <2>2, <2>4, SlashTaken, CharacterTaken, Zenon
  <1>6. Nat \subseteq S
    <2> HIDE DEF S
    <2> QED BY <1>4, <1>5, NatSteps, Zenon
  <1> QED BY <1>1, <1>3, <1>6, Zenon

LEMMA WellKnownIs == WellKnown \in Seq(Bytes) /\ Len(WellKnown) = 11
  BY SMT DEF WellKnown, Bytes

\* resolveStaticPath finds nothing for a path with a hidden component.
LEMMA NoneHidden ==
  ASSUME NEW decoded \in Seq(Bytes), ResolveStaticPath(decoded) # <<>>,
         NEW k \in 1..(Len(decoded) - 1), decoded[k] = Slash, decoded[k + 1] = Dot
  PROVE  StartsWith(SubSeq(decoded, k + 1, Len(decoded)), WellKnown)
  <1>1. decoded \notin DOMAIN Aliases
    <2>1. k + 1 \in DOMAIN decoded
      BY SMT
    <2> QED BY <2>1, PathConstants, Zenon
  <1> DEFINE relative == Tail(decoded)
             p == Components(relative)
  <1>2. \A c \in DOMAIN p : ~ Hidden(p[c])
    BY <1>1, Zenon DEF ResolveStaticPath
  <1>3. /\ Len(decoded) \in Nat /\ k \in Nat /\ k >= 1 /\ k <= Len(decoded) - 1
        /\ relative \in Seq(Bytes) /\ Len(relative) = Len(decoded) - 1
        /\ \A i \in 1..(Len(decoded) - 1) : relative[i] = decoded[i + 1]
    BY SMT
  <1> HIDE DEF relative
  <1>4. Pieces(relative, p, Len(relative))
    BY <1>3, ComponentsAre, Zenon
  <1> HIDE DEF p
  <1>5. StartsPiece(relative, k) /\ k \in 1..Len(relative)
    <2>1. Dot # Slash
      BY SMT DEF Dot, Slash
    <2>2. relative[k] = Dot /\ k \in 1..Len(relative)
      BY <1>3, SMT
    <2>3. k # 1 => k - 1 \in 1..(Len(decoded) - 1) /\ (k - 1) + 1 = k
      BY <1>3, SMT
    <2>4. k # 1 => relative[k - 1] = Slash
      BY <1>3, <2>3, Zenon
    <2> QED BY <2>1, <2>2, <2>4, Zenon DEF StartsPiece
  <1>6. PICK c \in 1..Len(p) : LiesAt(relative, p[c], k, Len(relative))
    BY <1>4, <1>5, Zenon DEF Pieces
  <1>7. p \in Seq(Seq(Bytes)) /\ p[c] \in Seq(Bytes) /\ c \in DOMAIN p
    <2>1. p \in Seq(Seq(Bytes))
      BY <1>4, Zenon DEF Pieces
    <2> QED BY <2>1, SMT
  <1> DEFINE piece == p[c]
  <1>8. piece \in Seq(Bytes) /\ piece # <<>> /\ k - 1 + Len(piece) <= Len(relative)
        /\ \A i \in 1..Len(piece) : piece[i] = relative[k - 1 + i]
    BY <1>6, <1>7, Zenon DEF LiesAt
  <1>9. ~ Hidden(piece)
    BY <1>2, <1>7, Zenon
  <1> HIDE DEF piece
  <1>10. Len(piece) \in Nat /\ Len(piece) >= 1 /\ Head(piece) = piece[1] /\ 1 \in 1..Len(piece)
    BY <1>8, SMT
  <1>11. Head(piece) = Dot
    <2>1. k - 1 + 1 = k /\ k \in 1..(Len(decoded) - 1)
      BY <1>3, SMT
    <2> QED BY <1>3, <1>8, <1>10, <2>1, Zenon
  <1>12. piece = WellKnown
    BY <1>8, <1>9, <1>11, Zenon DEF Hidden
  <1>13. ASSUME NEW i \in 1..Len(WellKnown) PROVE WellKnown[i] = decoded[k + i]
    <2>1. k - 1 + i \in 1..(Len(decoded) - 1) /\ (k - 1 + i) + 1 = k + i
      BY <1>3, <1>8, <1>10, <1>12, <1>13, SMT
    <2> QED BY <1>3, <1>8, <1>12, <1>13, <2>1, Zenon
  <1>14. Len(WellKnown) \in Nat /\ k + Len(WellKnown) <= Len(decoded)
    BY <1>3, <1>8, <1>10, <1>12, SMT
  <1> DEFINE rest == SubSeq(decoded, k + 1, Len(decoded))
             w == WellKnown
  <1>15. w \in Seq(Bytes) /\ Len(w) \in Nat /\ k + Len(w) <= Len(decoded) /\ \A i \in 1..Len(w) : w[i] = decoded[k + i]
    BY <1>13, <1>14, WellKnownIs, Zenon
  <1> HIDE DEF w
  <1>16. rest \in Seq(Bytes) /\ Len(rest) = Len(decoded) - k /\ \A i \in 1..(Len(decoded) - k) : rest[i] = decoded[k + i]
    BY <1>3, SMT
  <1> HIDE DEF rest
  <1>17. Len(w) <= Len(rest)
    BY <1>3, <1>15, <1>16, SMT
  <1>18. \A i \in 1..Len(w) : rest[i] = w[i]
    <2>1. \A i \in 1..Len(w) : i \in 1..(Len(decoded) - k)
      BY <1>3, <1>15, SMT
    <2> QED BY <1>15, <1>16, <2>1, Zenon
  <1>19. SubSeq(rest, 1, Len(w)) = w
    <2> DEFINE v == SubSeq(rest, 1, Len(w))
    <2>1. v \in Seq(Bytes) /\ Len(v) = Len(w) /\ \A i \in 1..Len(w) : v[i] = rest[i]
      BY <1>15, <1>16, <1>17, SMTT(30)
    <2> HIDE DEF v
    <2>2. \A i \in 1..Len(w) : v[i] = w[i]
      BY <1>18, <2>1, Zenon
    <2>3. v = w
      BY <1>15, <2>1, <2>2, SMT
    <2> QED BY <2>3, Zenon DEF v
  <1> QED BY <1>17, <1>19, Zenon DEF StartsWith, rest, w

\* percentDecodePath and resolveStaticPath, for every path of bytes, every web root,
\* whatever links are in it, and every list of named pages without dots.
THEOREM PathsMeanOneFile == \A encoded \in Seq(0..255) : PathMeansOneFile(encoded)
<1> SUFFICES ASSUME NEW encoded \in Seq(Bytes), PathAccepted(encoded) PROVE PathMeansOneFile(encoded)
  BY Zenon DEF Bytes, PathMeansOneFile
<1> DEFINE decoded == PercentDecode(encoded)
           file == ResolveStaticPath(decoded)
<1>1. decoded # Undecoded
  BY Zenon DEF PathAccepted
<1>2. /\ decoded \in Seq(Bytes)
      /\ Len(decoded) = Cardinality(Begins(encoded))
      /\ \A i \in Begins(encoded) : decoded[Cardinality({j \in Begins(encoded) : j <= i})] = ByteAt(encoded, i)
  BY <1>1, PathDecodes, Zenon
<1> HIDE DEF decoded
<1>3. ASSUME file # <<>> PROVE StartsWith(file, WebRoot)
  BY <1>3, Zenon DEF ResolveStaticPath
<1>4. ASSUME file # <<>>, NEW k \in 1..(Len(decoded) - 1), decoded[k] = Slash, decoded[k + 1] = Dot
      PROVE  StartsWith(SubSeq(decoded, k + 1, Len(decoded)), WellKnown)
  BY <1>2, <1>4, NoneHidden, Zenon
<1> QED BY <1>2, <1>3, <1>4, Zenon DEF PathMeansOneFile, decoded

-----------------------------------------------------------------------------
(* readRequest. *)

\* What a peer sends, as StreamsAssumption has it, and what the parser makes of it.
LEMMA StreamIs ==
  ASSUME stream \in Streams
  PROVE  /\ stream.head \in Nat \cup {Endless} /\ stream.start \in StartLines
         /\ stream.lines \in Seq([name : STRING, form : LineForms])
         /\ stream.length \in Seq(LengthCharacters)
  BY StreamsAssumption, Zenon

LEMMA DeclaredIs ==
  ASSUME stream \in Streams
  PROVE  /\ Declared.status \in {"valid", "invalid", "too large"}
         /\ Declared.value \in 0..MaxBodyBytes
         /\ BodyLength \in 0..MaxBodyBytes
  <1>0. 0 \in 0..MaxBodyBytes
    BY ContentLengthConstants, SMT
  <1>1. Declared \in {Valid(v) : v \in 0..MaxBodyBytes} \cup {Refused("invalid"), Refused("too large")}
    BY StreamIs, ParsedWithin, Zenon DEF Declared
  <1>2. ASSUME NEW v \in 0..MaxBodyBytes, Declared = Valid(v)
        PROVE  Declared.status = "valid" /\ Declared.value \in 0..MaxBodyBytes
    BY <1>2, Fields, Zenon
  <1>3. ASSUME NEW why \in {"invalid", "too large"}, Declared = Refused(why)
        PROVE  Declared.status = why /\ Declared.value \in 0..MaxBodyBytes
    BY <1>0, <1>3, Fields, Zenon
  <1>4. Declared.status \in {"valid", "invalid", "too large"} /\ Declared.value \in 0..MaxBodyBytes
    BY <1>1, <1>2, <1>3, Zenon
  <1> QED BY <1>0, <1>4, Zenon DEF BodyLength

Verdicts == {200, 400, 413, 414, 417, 431, 501, 505}

LEMMA StatusesAre ==
  ASSUME stream \in Streams
  PROVE  /\ StartLineStatus \in Verdicts /\ LinesStatus \in Verdicts /\ ContentLengthStatus \in Verdicts
         /\ HeaderStatus \in Verdicts /\ PathStatus \in Verdicts
  <1>0. /\ 200 \in Verdicts /\ 400 \in Verdicts /\ 413 \in Verdicts /\ 414 \in Verdicts /\ 505 \in Verdicts
    BY SMT DEF Verdicts
  <1>1. StartLineStatus \in Verdicts
    <2>1. CASE stream.start \in {"1.0", "1.1"}
      BY <1>0, <2>1, Zenon DEF StartLineStatus
    <2>2. CASE stream.start \in {"malformed line", "bad method"}
      BY <1>0, <2>2, Zenon DEF StartLineStatus
    <2>3. CASE stream.start = "bad version"
      BY <1>0, <2>3, Zenon DEF StartLineStatus
    <2>4. CASE stream.start = "bad target"
      BY <1>0, <2>4, Zenon DEF StartLineStatus
    <2> QED BY StreamIs, <2>1, <2>2, <2>3, <2>4, Zenon DEF StartLines
  <1>2. \A i : LineStatus(i) \in Verdicts
    <2> TAKE i
    <2>1. CASE stream.lines[i].form = "empty"
      BY <2>1, SMT DEF LineStatus, Verdicts
    <2>2. CASE stream.lines[i].form # "empty"
      BY <2>2, SMT DEF LineStatus, Verdicts
    <2> QED BY <2>1, <2>2, Zenon
  <1>3. LinesStatus \in Verdicts
    <2>1. 200 \in Verdicts
      BY SMT DEF Verdicts
    <2> QED BY <1>2, <2>1, Zenon DEF LinesStatus
  <1>4. ContentLengthStatus \in Verdicts
    <2>1. CASE ~ Declares("content-length") \/ Declared.status = "valid"
      BY <1>0, <2>1, Zenon DEF ContentLengthStatus
    <2>2. CASE Declares("content-length") /\ Declared.status = "invalid"
      BY <1>0, <2>2, Zenon DEF ContentLengthStatus
    <2>3. CASE Declares("content-length") /\ Declared.status = "too large"
      BY <1>0, <2>3, Zenon DEF ContentLengthStatus
    <2> QED BY DeclaredIs, <2>1, <2>2, <2>3, Zenon
  <1>5. HeaderStatus \in Verdicts
    BY <1>1, <1>3, <1>4, SMT DEF HeaderStatus, Verdicts
  <1>6. PathStatus \in Verdicts
    BY SMT DEF PathStatus, Verdicts
  <1> QED BY <1>1, <1>3, <1>4, <1>5, <1>6, Zenon

LEMMA LeastOf ==
  ASSUME NEW A \in SUBSET Nat, A # {}
  PROVE  \E x \in A : \A y \in A : x <= y
  <1> DEFINE R == OpToRel(<, Nat)
  <1>1. IsWellFoundedOn(R, Nat)
    BY NatLessThanWellFounded, Zenon
  <1>2. \A x, y \in Nat : x < y => <<x, y>> \in R
    BY Zenon DEF OpToRel
  <1> HIDE DEF R
  <1>3. PICK x \in A : \A y \in A : ~ (<<y, x>> \in R)
    BY <1>1, WFMin, Zenon
  <1>4. \A y \in A : ~ (y < x)
    BY <1>2, <1>3, Zenon
  <1>5. x \in Nat /\ \A y \in A : y \in Nat
    OBVIOUS
  <1> QED BY <1>4, <1>5

\* A header block whose lines pass has no name twice, but Cookie's.
OnceEach ==
    \A i, j \in DOMAIN stream.lines :
        /\ i # j /\ stream.lines[i].form = "plain" /\ stream.lines[j].form = "plain"
        /\ stream.lines[i].name = stream.lines[j].name
        => stream.lines[i].name = "cookie"

LEMMA LinesPassed ==
  ASSUME stream \in Streams, LinesStatus = 200
  PROVE  OnceEach
  <1>0. DOMAIN stream.lines = 1..Len(stream.lines) /\ Len(stream.lines) \in Nat
    BY StreamIs, SMT
  <1> DEFINE refused == {i \in DOMAIN stream.lines : LineStatus(i) # 200}
  <1>1. refused = {}
    <2>1. SUFFICES ASSUME refused # {} PROVE FALSE
      BY Zenon
    <2>2. refused \in SUBSET Nat
      BY <1>0, SMT
    <2> DEFINE first == CHOOSE i \in refused : \A j \in refused : i <= j
    <2>3. first \in refused
      <3> HIDE DEF refused
      <3> QED BY <2>1, <2>2, LeastOf, Zenon
    <2>4. LinesStatus = LineStatus(first)
      BY <2>1, Zenon DEF LinesStatus
    <2> QED BY <2>3, <2>4, Zenon
  <1>2. ASSUME NEW i \in DOMAIN stream.lines, stream.lines[i].form = "plain" PROVE ~ Repeated(i)
    <2>1. LineStatus(i) = 200
      BY <1>1, Zenon
    <2>2. stream.lines[i].form # "empty"
      BY <1>2, Zenon
    <2>3. HeaderCount(i) > MaxHeaderCount \/ stream.lines[i].form = "long" => LineStatus(i) = 431
      BY <2>2, Zenon DEF LineStatus
    <2>4. ~ (HeaderCount(i) > MaxHeaderCount \/ stream.lines[i].form = "long") /\ Repeated(i) => LineStatus(i) = 400
      BY <2>2, Zenon DEF LineStatus
    <2> QED BY <2>1, <2>3, <2>4, SMT
  <1>3. ASSUME NEW i \in DOMAIN stream.lines, NEW j \in DOMAIN stream.lines, i < j,
               stream.lines[i].form = "plain", stream.lines[j].form = "plain",
               stream.lines[i].name = stream.lines[j].name
        PROVE  stream.lines[j].name = "cookie"
    <2>1. i \in 1..(j - 1)
      BY <1>0, <1>3, SMT
    <2> QED BY <1>2, <1>3, <2>1, Zenon DEF Repeated
  <1>4. \A i, j \in DOMAIN stream.lines : i # j => i < j \/ j < i
    BY <1>0, SMT
  <1> QED BY <1>3, <1>4, Zenon DEF OnceEach

\* What is true of the reader at every moment.
ReaderInv ==
    /\ BufferBounded
    /\ pc # "done" => result = NoResult
    /\ pc = "body" => /\ stream.head # Endless /\ stream.head <= MaxHeaderBytes
                      /\ HeaderStatus = 200
    /\ result.status = 200 =>
          /\ stream.head # Endless /\ stream.head <= MaxHeaderBytes
          /\ HeaderStatus = 200 /\ PathStatus = 200
          /\ result.body = BodyLength /\ raw >= ExpectedSize
    /\ SegmentsDoNotMatter

LEMMA SameStream ==
  ASSUME stream' = stream
  PROVE  /\ HeaderStatus' = HeaderStatus /\ PathStatus' = PathStatus /\ BodyLength' = BodyLength
         /\ ExpectedSize' = ExpectedSize /\ Verdict' = Verdict
  <1>1. \A name : Declares(name)' <=> Declares(name)
    BY Zenon DEF Declares
  <1>2. Declared' = Declared
    BY Zenon DEF Declared
  <1>3. StartLineStatus' = StartLineStatus
    BY Zenon DEF StartLineStatus
  <1>5. LinesStatus' = LinesStatus
    BY SMT DEF LinesStatus, LineStatus, HeaderCount, Repeated
  <1>6. ContentLengthStatus' = ContentLengthStatus
    BY <1>1, <1>2, Zenon DEF ContentLengthStatus
  <1>7. BodyLength' = BodyLength
    BY <1>1, <1>2, Zenon DEF BodyLength
  <1>8. HeaderStatus' = HeaderStatus
    BY <1>1, <1>3, <1>5, <1>6, SMT DEF HeaderStatus
  <1>9. PathStatus' = PathStatus
    BY Zenon DEF PathStatus
  <1>10. ExpectedSize' = ExpectedSize
    BY <1>7, Zenon DEF ExpectedSize
  <1>11. Verdict' = Verdict
    BY <1>8, <1>9, Zenon DEF Verdict
  <1> QED BY <1>7, <1>8, <1>9, <1>10, <1>11, Zenon

LEMMA Sizes ==
  ASSUME stream \in Streams, stream.head # Endless
  PROVE  /\ stream.head \in Nat /\ BodyLength \in Nat /\ BodyLength <= MaxBodyBytes /\ MaxBodyBytes \in Nat
         /\ ExpectedSize \in Nat /\ ExpectedSize = stream.head + 4 + BodyLength
  <1>1. stream.head \in Nat /\ BodyLength \in 0..MaxBodyBytes
    BY StreamIs, DeclaredIs, Zenon
  <1>2. MaxBodyBytes \in Nat
    BY ContentLengthConstants, SMT
  <1> QED BY <1>1, <1>2, SMT DEF ExpectedSize, Terminator

\* Return, from the state in which the last bytes are counted.
LEMMA Returns ==
  ASSUME ReaderInv, pc # "done", NEW n \in 1..Chunk, Received(n),
         NEW status \in Verdicts, Return(status),
         raw + n <= MaxHeaderBytes + Terminator + MaxBodyBytes + Chunk,
         \/ status = Verdict
         \/ status = 431 /\ stream.head \in (MaxHeaderBytes - Terminator + 2)..MaxHeaderBytes,
         status = 200 => /\ stream.head # Endless /\ stream.head <= MaxHeaderBytes
                         /\ HeaderStatus = 200 /\ PathStatus = 200 /\ raw + n >= ExpectedSize
  PROVE  ReaderInv'
  <1>1. stream \in Streams /\ stream' = stream /\ raw' = raw + n /\ raw \in Nat /\ n \in Nat /\ raw' \in Nat
    BY SMT, ReaderConstants DEF ReaderInv, BufferBounded, TypeOK, Received
  <1>2. /\ pc' = "done" /\ result' = [status |-> status, judged |-> TRUE, body |-> IF status = 200 THEN BodyLength ELSE 0]
    BY Zenon DEF Return
  <1>0. BodyLength \in 0..MaxBodyBytes
    BY <1>1, DeclaredIs, Zenon
  <1>3. BodyLength \in Nat /\ 0 \in Nat
    BY <1>0, ContentLengthConstants, SMT
  <1>4. /\ result'.status = status /\ result'.judged = TRUE /\ (status = 200 => result'.body = BodyLength)
        /\ result'.body \in Nat
    BY <1>2, <1>3, Zenon
  <1>5. status \in Statuses \cup {0} /\ status # 0
    BY SMT DEF Statuses, Verdicts
  <1>6. result' \in [status : Statuses \cup {0}, body : Nat, judged : BOOLEAN]
    BY <1>2, <1>3, <1>5, SMT
  <1>7. BufferBounded'
    BY <1>1, <1>2, <1>4, <1>5, <1>6, Zenon DEF BufferBounded, TypeOK
  <1>8. SegmentsDoNotMatter'
    BY <1>1, <1>4, SameStream, Zenon DEF SegmentsDoNotMatter
  <1> QED BY <1>1, <1>2, <1>4, <1>7, <1>8, SameStream, Zenon DEF ReaderInv

LEMMA ReaderInvInit == Init => ReaderInv
  <1> SUFFICES ASSUME Init PROVE ReaderInv
    BY Zenon
  <1>1. /\ stream \in Streams /\ raw = 0 /\ pc = "header" /\ result = NoResult
    BY Zenon DEF Init
  <1>2. result \in [status : Statuses \cup {0}, body : Nat, judged : BOOLEAN] /\ result.status = 0 /\ result.judged = FALSE
    BY <1>1, SMT DEF NoResult
  <1>3. /\ 0 \in Nat /\ 0 <= MaxHeaderBytes /\ 0 <= MaxHeaderBytes + Terminator + MaxBodyBytes + Chunk /\ 0 # 200
    BY ReaderConstants, ContentLengthConstants, SMT DEF Terminator
  <1>4. BufferBounded
    BY <1>1, <1>2, <1>3, Zenon DEF BufferBounded, TypeOK
  <1>5. result.status # 200
    BY <1>2, <1>3, Zenon
  <1> QED BY <1>1, <1>2, <1>4, <1>5, Zenon DEF ReaderInv, SegmentsDoNotMatter

LEMMA GivesUp ==
  ASSUME ReaderInv, NEW status \in {400, 408}, GiveUp(status)
  PROVE  ReaderInv'
  <1>1. /\ stream \in Streams /\ stream' = stream /\ raw' = raw /\ raw \in Nat /\ pc' = "done"
        /\ result' = [status |-> status, judged |-> FALSE, body |-> 0]
        /\ raw <= MaxHeaderBytes + Terminator + MaxBodyBytes + Chunk
    BY Zenon DEF ReaderInv, BufferBounded, TypeOK, GiveUp
  <1>2. /\ result'.status = status /\ result'.judged = FALSE
    BY <1>1, Zenon
  <1>3. status \in Statuses \cup {0} /\ status # 0 /\ status # 200 /\ 0 \in Nat
    BY SMT DEF Statuses
  <1>4. result' \in [status : Statuses \cup {0}, body : Nat, judged : BOOLEAN]
    BY <1>1, <1>3, SMT
  <1>5. BufferBounded'
    BY <1>1, <1>2, <1>3, <1>4, Zenon DEF BufferBounded, TypeOK
  <1> QED BY <1>1, <1>2, <1>3, <1>5, Zenon DEF ReaderInv, SegmentsDoNotMatter

\* Bytes are counted and the loop goes on.
LEMMA Continues ==
  ASSUME ReaderInv, pc # "done", NEW n \in 1..Chunk, Received(n), UNCHANGED result, pc' \in {"header", "body"},
         raw + n <= MaxHeaderBytes + Terminator + MaxBodyBytes + Chunk,
         pc' = "header" => raw + n <= MaxHeaderBytes,
         pc' = "body" => /\ raw + n < ExpectedSize
                         /\ stream.head # Endless /\ stream.head <= MaxHeaderBytes /\ HeaderStatus = 200
  PROVE  ReaderInv'
  <1>1. stream \in Streams /\ stream' = stream /\ raw' = raw + n /\ raw \in Nat /\ n \in Nat /\ raw' \in Nat
    BY SMT, ReaderConstants DEF ReaderInv, BufferBounded, TypeOK, Received
  <1>2. /\ result' = NoResult /\ result' \in [status : Statuses \cup {0}, body : Nat, judged : BOOLEAN]
    BY Zenon DEF ReaderInv, BufferBounded, TypeOK
  <1>4. result'.status = 0 /\ result'.judged = FALSE /\ result'.status # 200
    BY <1>2, SMT DEF NoResult
  <1>5. BufferBounded'
    BY <1>1, <1>2, <1>4, SameStream, Zenon DEF BufferBounded, TypeOK
  <1>6. SegmentsDoNotMatter'
    BY <1>4, Zenon DEF SegmentsDoNotMatter
  <1>7. pc' = "body" => (/\ stream.head # Endless /\ stream.head <= MaxHeaderBytes /\ HeaderStatus = 200)'
    BY <1>1, SameStream, Zenon
  <1> QED BY <1>2, <1>4, <1>5, <1>6, <1>7, Zenon DEF ReaderInv

LEMMA HeaderReceived ==
  ASSUME ReaderInv, NEW n \in 1..Chunk, RecvHeader(n)
  PROVE  ReaderInv'
  <1> DEFINE limit == MaxHeaderBytes + Terminator + MaxBodyBytes + Chunk
  <1>1. /\ stream \in Streams /\ pc = "header" /\ pc # "done" /\ Received(n) /\ raw \in Nat /\ raw <= MaxHeaderBytes
    BY Zenon DEF ReaderInv, BufferBounded, TypeOK, RecvHeader
  <1>2. /\ n \in Nat /\ n <= Chunk /\ MaxHeaderBytes \in Nat /\ MaxBodyBytes \in Nat /\ Chunk \in Nat /\ raw + n \in Nat
        /\ raw + n <= limit
    BY <1>1, ReaderConstants, ContentLengthConstants, SMT DEF Terminator
  <1>3. /\ 431 \in Verdicts /\ 431 # 200
    BY SMT DEF Verdicts
  <1> HIDE DEF limit
  <1>4. CASE ~ HeaderSeen(raw + n) /\ raw + n > MaxHeaderBytes
    <2>1. Return(431)
      BY <1>4, Zenon DEF RecvHeader
    <2>2. CASE stream.head = Endless
      <3>1. 431 = Verdict
        BY <2>2, Zenon DEF Verdict
      <3> QED BY <1>1, <1>2, <1>3, <2>1, <3>1, Returns, SMT DEF limit
    <2>3. CASE stream.head # Endless
      <3>1. stream.head \in Nat /\ ~ (raw + n >= stream.head + 4)
        BY <1>1, <1>4, <2>3, Sizes, Zenon DEF HeaderSeen, Terminator
      <3>2. CASE stream.head > MaxHeaderBytes
        <4>1. 431 = Verdict
          BY <2>3, <3>2, Zenon DEF Verdict
        <4> QED BY <1>1, <1>2, <1>3, <2>1, <4>1, Returns, SMT DEF limit
      <3>3. CASE ~ (stream.head > MaxHeaderBytes)
        <4>1. stream.head \in (MaxHeaderBytes - Terminator + 2)..MaxHeaderBytes
          BY <1>2, <1>4, <3>1, <3>3, SMT DEF Terminator
        <4> QED BY <1>1, <1>2, <1>3, <2>1, <4>1, Returns, SMT DEF limit
      <3> QED BY <3>2, <3>3, Zenon
    <2> QED BY <2>2, <2>3, Zenon
  <1>5. CASE ~ HeaderSeen(raw + n) /\ ~ (raw + n > MaxHeaderBytes)
    <2>1. UNCHANGED <<pc, result>>
      BY <1>5, Zenon DEF RecvHeader
    <2>2. raw + n <= MaxHeaderBytes
      BY <1>2, <1>5, SMT
    <2> QED BY <1>1, <1>2, <2>1, <2>2, Continues, Zenon DEF limit
  <1>6. CASE HeaderSeen(raw + n)
    <2>0. /\ stream.head # Endless /\ stream.head \in Nat /\ ExpectedSize \in Nat
      BY <1>1, <1>6, Sizes, Zenon DEF HeaderSeen
    <2>1. CASE stream.head > MaxHeaderBytes
      <3>1. Return(431) /\ 431 = Verdict
        BY <1>6, <2>0, <2>1, Zenon DEF RecvHeader, Verdict
      <3> QED BY <1>1, <1>2, <1>3, <3>1, Returns, SMT DEF limit
    <2>2. CASE ~ (stream.head > MaxHeaderBytes) /\ HeaderStatus # 200
      <3>1. Return(HeaderStatus) /\ HeaderStatus = Verdict
        BY <1>6, <2>0, <2>2, Zenon DEF RecvHeader, Verdict
      <3>2. HeaderStatus \in Verdicts
        BY <1>1, StatusesAre, Zenon
      <3> QED BY <1>1, <1>2, <2>2, <3>1, <3>2, Returns, Zenon DEF limit
    <2>3. CASE ~ (stream.head > MaxHeaderBytes) /\ HeaderStatus = 200
      <3>1. AfterHeader(raw + n) /\ PathStatus = Verdict
        BY <1>6, <2>0, <2>3, Zenon DEF RecvHeader, Verdict
      <3>2. stream.head <= MaxHeaderBytes
        BY <1>2, <2>0, <2>3, SMT
      <3>3. CASE raw + n < ExpectedSize
        <4>1. pc' = "body" /\ UNCHANGED result
          BY <3>1, <3>3, Zenon DEF AfterHeader
        <4> QED BY <1>1, <1>2, <2>0, <2>3, <3>2, <3>3, <4>1, Continues, Zenon DEF limit
      <3>4. CASE ~ (raw + n < ExpectedSize)
        <4>1. Return(PathStatus)
          BY <3>1, <3>4, Zenon DEF AfterHeader
        <4>2. raw + n >= ExpectedSize
          BY <1>2, <2>0, <3>4, SMT
        <4>3. PathStatus \in Verdicts
          BY <1>1, StatusesAre, Zenon
        <4> QED BY <1>1, <1>2, <2>0, <2>3, <3>1, <3>2, <4>1, <4>2, <4>3, Returns, Zenon DEF limit
      <3> QED BY <3>3, <3>4, Zenon
    <2> QED BY <2>1, <2>2, <2>3, Zenon
  <1> QED BY <1>4, <1>5, <1>6, Zenon

LEMMA BodyReceives ==
  ASSUME ReaderInv, NEW n \in 1..Chunk, RecvBody(n)
  PROVE  ReaderInv'
  <1> DEFINE limit == MaxHeaderBytes + Terminator + MaxBodyBytes + Chunk
  <1>1. /\ stream \in Streams /\ pc = "body" /\ pc # "done" /\ Received(n) /\ raw \in Nat /\ raw < ExpectedSize
        /\ stream.head # Endless /\ stream.head <= MaxHeaderBytes /\ HeaderStatus = 200
    BY Zenon DEF ReaderInv, BufferBounded, TypeOK, RecvBody
  <1>2. /\ n \in Nat /\ n <= Chunk /\ MaxHeaderBytes \in Nat /\ MaxBodyBytes \in Nat /\ Chunk \in Nat /\ raw + n \in Nat
    BY <1>1, ReaderConstants, ContentLengthConstants, SMT
  <1>3. /\ ExpectedSize \in Nat /\ ExpectedSize <= MaxHeaderBytes + Terminator + MaxBodyBytes
    BY <1>1, <1>2, Sizes, SMT DEF Terminator
  <1>4. raw + n <= limit /\ ~ (raw + n > ExpectedSize + Chunk) /\ ~ (stream.head > MaxHeaderBytes)
    BY <1>1, <1>2, <1>3, Sizes, SMT DEF Terminator
  <1> HIDE DEF limit
  <1>5. CASE raw + n < ExpectedSize
    <2>1. UNCHANGED <<pc, result>>
      BY <1>4, <1>5, Zenon DEF RecvBody
    <2> QED BY <1>1, <1>2, <1>4, <1>5, <2>1, Continues, Zenon DEF limit
  <1>6. CASE ~ (raw + n < ExpectedSize)
    <2>1. Return(PathStatus)
      BY <1>4, <1>6, Zenon DEF RecvBody
    <2>2. raw + n >= ExpectedSize
      BY <1>2, <1>3, <1>6, SMT
    <2>3. PathStatus \in Verdicts /\ PathStatus = Verdict
      BY <1>1, <1>4, StatusesAre, Zenon DEF Verdict
    <2> QED BY <1>1, <1>2, <1>4, <2>1, <2>2, <2>3, Returns, SMT DEF limit
  <1> QED BY <1>5, <1>6, Zenon

LEMMA ReaderInvNext == ReaderInv /\ [Next]_vars => ReaderInv'
  <1> SUFFICES ASSUME ReaderInv, [Next]_vars PROVE ReaderInv'
    BY Zenon
  <1>1. CASE UNCHANGED vars
    <2>1. stream' = stream /\ raw' = raw /\ pc' = pc /\ result' = result
      BY <1>1, Zenon DEF vars
    <2>2. BufferBounded' /\ SegmentsDoNotMatter'
      BY <2>1, SameStream, ZenonT(40) DEF ReaderInv, BufferBounded, TypeOK, SegmentsDoNotMatter
    <2> QED BY <2>1, <2>2, SameStream, ZenonT(40) DEF ReaderInv
  <1>2. CASE Recv
    BY <1>2, HeaderReceived, BodyReceives, Zenon DEF Recv
  <1>3. CASE RecvEnds \/ RecvTimesOut
    BY <1>3, GivesUp, ZenonT(40) DEF RecvEnds, RecvTimesOut
  <1> QED BY <1>1, <1>2, <1>3, Zenon DEF Next

\* readRequest answers what was sent, however the network cut it into pieces, but for a
\* header block within three bytes of kMaxHeaderBytes; whatever the limits, the size of
\* the buffer and what peers send.
THEOREM SegmentsNeverMatter == ReaderSpec => []SegmentsDoNotMatter
<1>1. ReaderInv => SegmentsDoNotMatter
  BY Zenon DEF ReaderInv
<1> QED BY <1>1, ReaderInvInit, ReaderInvNext, PTL DEF ReaderSpec

\* readRequest holds a bounded number of bytes, returns only requests that came whole
\* within their limits, reads the length of the body as it is written and the path as one
\* file of the web root; whatever the limits, the size of the buffer and what peers send.
THEOREM RequestsAreWhole == ReaderSpec => []ReturnedWhole
<1>1. ReaderInv => ReturnedWhole
  <2> SUFFICES ASSUME ReaderInv PROVE ReturnedWhole
    BY Zenon
  <2>1. BufferBounded /\ stream \in Streams
    BY Zenon DEF ReaderInv, BufferBounded, TypeOK
  <2>2. ParsedRight(stream.length)
    BY <2>1, StreamIs, LengthsAsWritten, Zenon
  <2>3. PathMeansOneFile(stream.path)
    BY <2>1, StreamsAssumption, PathsMeanOneFile, Zenon
  <2>4. ASSUME result.status = 200
        PROVE  /\ stream.head <= MaxHeaderBytes
               /\ HeaderStatus = 200 /\ PathAccepted(stream.path) /\ LinesStatus = 200
               /\ result.body = BodyLength
               /\ raw >= stream.head + Terminator + result.body
    <3>1. /\ stream.head <= MaxHeaderBytes /\ HeaderStatus = 200 /\ PathStatus = 200
          /\ result.body = BodyLength /\ raw >= ExpectedSize
      BY <2>4, Zenon DEF ReaderInv
    <3>2. PathAccepted(stream.path)
      BY <3>1, SMT DEF PathStatus
    <3>3. LinesStatus = 200
      BY <3>1, Zenon DEF HeaderStatus
    <3> QED BY <3>1, <3>2, <3>3, Zenon DEF ExpectedSize
  <2>5. result.status = 200 => OnceEach
    BY <2>1, <2>4, LinesPassed, Zenon
  <2> QED BY <2>1, <2>2, <2>3, <2>4, <2>5, Zenon DEF ReturnedWhole, OnceEach
<1> QED BY <1>1, ReaderInvInit, ReaderInvNext, PTL DEF ReaderSpec
=============================================================================
