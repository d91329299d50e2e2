--------------------------- MODULE ContentLength ---------------------------
(***************************************************************************)
(* parseContentLength of apps/sisterd/http/content_length.cpp, character   *)
(* by character.  std::size_t has the values 0..SizeMax and wraps above;   *)
(* the code's ten digits are Base digits here, so that SizeMax can be      *)
(* small and every short header value be tried.                            *)
(***************************************************************************)
EXTENDS Integers, Sequences

CONSTANTS Base,          \* 10 in the code
          SizeMax,       \* std::numeric_limits<std::size_t>::max()
          MaxBodyBytes,  \* kMaxBodyBytes, the maximum that is passed
          Letter         \* a character that is no digit

ASSUME ContentLengthConstants ==
    /\ Base \in Nat \ {0, 1} /\ SizeMax \in Nat /\ MaxBodyBytes \in 0..SizeMax
    /\ SizeMax >= Base - 1
    /\ Letter \notin Nat

Digits == 0..(Base - 1)
LengthCharacters == Digits \cup {Letter}

\* The value of an unsigned expression.
Wrap(n) == n % (SizeMax + 1)

\* A ContentLengthResult: a refusal has the value 0.
Refused(status) == [status |-> status, value |-> 0]
Valid(value) == [status |-> "valid", value |-> value]

\* Mutant: no test before the sum is formed.
NeverOverflows(parsed, digit) == FALSE

\* parsed > (max - digit) / 10
Overflows(parsed, digit) == parsed > (SizeMax - digit) \div Base

\* One turn of the loop; a refusal has left it.
TakeCharacter(result, character) ==
    LET sum == Wrap(result.value * Base + character)
    IN  CASE result.status # "valid" -> result
          [] result.status = "valid" /\ character \notin Digits -> Refused("invalid")
          [] OTHER -> IF Overflows(result.value, character) \/ sum > MaxBodyBytes
                      THEN Refused("too large") ELSE Valid(sum)

ParseContentLength(text) ==
    LET after[n \in 0..Len(text)] == IF n = 0 THEN Valid(0) ELSE TakeCharacter(after[n - 1], text[n])
    IN  IF text = <<>> THEN Refused("invalid") ELSE after[Len(text)]

-----------------------------------------------------------------------------
(* The reference: what a text says, in numbers without a bound. *)

IsNumber(text) == text # <<>> /\ \A i \in DOMAIN text : text[i] \in Digits

NumberOf(text) ==
    LET number[n \in 0..Len(text)] == IF n = 0 THEN 0 ELSE Base * number[n - 1] + text[n]
    IN  number[Len(text)]

\* What the parser makes of a text is what the text says: its number when it
\* is one and at most the maximum; "too large" only for a text that begins
\* with the digits of a larger one; "invalid" only for a text that is no number.
ParsedRight(text) ==
    LET result == ParseContentLength(text)
    IN  /\ result.status = "valid" <=> IsNumber(text) /\ NumberOf(text) <= MaxBodyBytes
        /\ result.status = "valid" => result.value = NumberOf(text)
        /\ result.status = "invalid" => ~IsNumber(text)
        /\ result.status = "too large" =>
              \E n \in 1..Len(text) : LET head == SubSeq(text, 1, n)
                                      IN IsNumber(head) /\ NumberOf(head) > MaxBodyBytes
=============================================================================
