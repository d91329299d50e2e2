------------------------------ MODULE FlatJson ------------------------------
(***************************************************************************)
(* FlatJsonObjectParser of apps/sisterd/main.cpp, which reads the bodies   *)
(* of sisterd's requests: one object of strings and nulls.  The text comes *)
(* a unit at a time, and `stage' is where the parser is in its functions.  *)
(* jsonEscape is the writer of the strings in sisterd's answers.           *)
(*                                                                         *)
(* Characters and bytes are their numbers.  The word null is one unit, and *)
(* so are the four digits of an escape \u: their value, or BadDigits.      *)
(***************************************************************************)
EXTENDS Naturals, Sequences, FiniteSets, SequencesExt

CONSTANTS
    Characters,  \* what may come inside a string
    CodeUnits,   \* the values of the digits of an escape \u
    MaxFields,   \* bound on the fields of a text
    MaxString,   \* bound on the bytes of a string
    MaxSpaces,   \* bound on the white space of a text
    Null,        \* the word null, and the value it stands for
    BadDigits    \* four characters that are no hexadecimal number

ASSUME FlatJsonAssumption ==
    /\ Characters \subseteq 1..127 /\ CodeUnits \subseteq 0..65535
    /\ MaxFields \in Nat /\ MaxString \in Nat /\ MaxSpaces \in Nat

Space == 32
Quote == 34
Comma == 44
Colon == 58
Backslash == 92
LetterU == 117
BraceOpen == 123
BraceClose == 125

\* The letters after a backslash, and what they stand for.
Escapes == {<<34, 34>>, <<92, 92>>, <<47, 47>>, <<98, 8>>, <<102, 12>>, <<110, 10>>,
            <<114, 13>>, <<116, 9>>}

VARIABLES
    spaces,   \* how much white space the text had so far
    parser    \* stage; reading: "key" or "value"; string: the bytes of the string being
              \* read; key: the key before the value; high: a surrogate waiting for its
              \* other half; fields: the result so far, as entered

jsonVars == <<spaces, parser>>

Fresh == [stage |-> "object", reading |-> "key", string |-> <<>>, key |-> <<>>,
          high |-> 0, fields |-> <<>>]

JsonInit == spaces = 0 /\ parser = Fresh

-----------------------------------------------------------------------------
(* Code points *)

IsHigh(n) == n \in 55296..56319
IsLow(n) == n \in 56320..57343

\* 0x10000 + ((high - 0xd800) << 10) + (low - 0xdc00)
Combined(high, low) == 65536 + (high - 55296) * 1024 + (low - 56320)

\* 0x80 | (n & 0x3f)
Continuation(n) == 128 + (n % 64)

AppendUtf8(n) ==
    CASE n <= 127 -> <<n>>
      [] n \in 128..2047 -> <<192 + (n \div 64), Continuation(n)>>
      [] n \in 2048..65535 ->
           <<224 + (n \div 4096), Continuation(n \div 64), Continuation(n)>>
      [] n > 65535 ->
           <<240 + (n \div 262144), Continuation(n \div 4096), Continuation(n \div 64),
             Continuation(n)>>

-----------------------------------------------------------------------------
(* The parser: what one more unit does to it.  White space is passed over  *)
(* outside strings.                                                        *)

MoveTo(p, stage) == [p EXCEPT !.stage = stage]
Reject(p) == MoveTo(p, "refused")
StringBegins(p, what) == [p EXCEPT !.stage = "text", !.reading = what, !.string = <<>>]

\* result.push_back in parseString.
Push(p, bytes) == [p EXCEPT !.string = @ \o bytes, !.stage = "text"]

HasKey(p, key) == \E i \in DOMAIN p.fields : p.fields[i].key = key

\* result.emplace(key, value)
Emplace(p, value) ==
    [p EXCEPT !.fields = Append(@, [key |-> p.key, value |-> value]), !.stage = "more"]

\* A key that is there already refuses the object.
KeyEnds(p) ==
    IF HasKey(p, p.string) THEN Reject(p) ELSE [p EXCEPT !.key = p.string, !.stage = "colon"]

StringEnds(p) == IF p.reading = "key" THEN KeyEnds(p) ELSE Emplace(p, p.string)

InText(p, u) ==
    CASE u = Quote -> StringEnds(p)
      [] u = Backslash -> MoveTo(p, "escape")
      [] u \notin {Quote, Backslash} -> IF u < 32 THEN Reject(p) ELSE Push(p, <<u>>)

InEscape(p, u) ==
    IF u = LetterU THEN MoveTo(p, "digits")
    ELSE IF \E e \in Escapes : e[1] = u
    THEN Push(p, <<(CHOOSE e \in Escapes : e[1] = u)[2]>>)
    ELSE Reject(p)

InDigits(p, u) ==
    IF u = BadDigits \/ IsLow(u) THEN Reject(p)
    ELSE IF IsHigh(u) THEN [p EXCEPT !.high = u, !.stage = "low escape"]
    ELSE Push(p, AppendUtf8(u))

InLowDigits(p, u) ==
    IF u = BadDigits \/ ~IsLow(u) THEN Reject(p)
    ELSE [Push(p, AppendUtf8(Combined(p.high, u))) EXCEPT !.high = 0]

\* A unit that must come, expect(), and where the parser is after it.
Expects(p, u, expected, stage) == IF u = expected THEN MoveTo(p, stage) ELSE Reject(p)

Take(p, u) ==
    CASE p.stage = "text" -> InText(p, u)
      [] p.stage = "escape" -> InEscape(p, u)
      [] p.stage = "digits" -> InDigits(p, u)
      [] p.stage = "low escape" -> Expects(p, u, Backslash, "low u")
      [] p.stage = "low u" -> Expects(p, u, LetterU, "low digits")
      [] p.stage = "low digits" -> InLowDigits(p, u)
      [] p.stage = "object" -> IF u = Space THEN p ELSE Expects(p, u, BraceOpen, "first")
      [] p.stage = "first" ->
           IF u = Space THEN p ELSE IF u = BraceClose THEN MoveTo(p, "end")
           ELSE IF u = Quote THEN StringBegins(p, "key") ELSE Reject(p)
      [] p.stage = "key" ->
           IF u = Space THEN p ELSE IF u = Quote THEN StringBegins(p, "key") ELSE Reject(p)
      [] p.stage = "colon" -> IF u = Space THEN p ELSE Expects(p, u, Colon, "value")
      [] p.stage = "value" ->
           IF u = Space THEN p ELSE IF u = Quote THEN StringBegins(p, "value")
           ELSE IF u = Null THEN Emplace(p, Null) ELSE Reject(p)
      [] p.stage = "more" ->
           IF u = Space THEN p ELSE IF u = Comma THEN MoveTo(p, "key")
           ELSE Expects(p, u, BraceClose, "end")
      [] p.stage = "end" -> IF u = Space THEN p ELSE Reject(p)
      [] p.stage = "refused" -> p

\* A text longer than kMaxAuthJsonBytes is not given to the parser.
Parse(text) == FoldLeft(Take, Fresh, text)

-----------------------------------------------------------------------------
(* The writer *)

\* Mutant: control characters are written as they are.
EscapedRaw(byte) ==
    IF byte \in {Quote, Backslash} THEN <<Backslash, byte>> ELSE <<byte>>

\* jsonEscape of one byte; the four digits are one unit.
Escaped(byte) ==
    IF byte # 47 /\ \E e \in Escapes : e[2] = byte
      THEN <<Backslash, (CHOOSE e \in Escapes : e[2] = byte)[1]>>
    ELSE IF byte < 32 THEN <<Backslash, LetterU, byte>> ELSE <<byte>>

Quoted(string) ==
    <<Quote>> \o FoldLeft(LAMBDA text, byte : text \o Escaped(byte), <<>>, string) \o <<Quote>>

Written(field) ==
    Quoted(field.key) \o <<Colon>> \o
    (IF field.value = Null THEN <<Null>> ELSE Quoted(field.value))

\* The object of the fields, as sisterd would write it.
WriteObject(fields) ==
    <<BraceOpen>> \o
    FoldLeft(LAMBDA text, i : text \o (IF i > 1 THEN <<Comma>> ELSE <<>>) \o Written(fields[i]),
             <<>>, [i \in DOMAIN fields |-> i])
    \o <<BraceClose>>

-----------------------------------------------------------------------------
Structure == {Space, Quote, Comma, Colon, BraceOpen, BraceClose, Null}

\* The units that can come next: inside a string, after \u, or between tokens.
Units(p) ==
    CASE p.stage \in {"digits", "low digits"} -> CodeUnits \cup {BadDigits}
      [] p.stage \in {"text", "escape", "low escape", "low u"} -> Characters
      [] OTHER -> Structure

\* The next unit of a text within the bounds.
Feed(u) ==
    /\ parser.stage # "refused"
    /\ u = Space /\ parser.stage # "text" => spaces < MaxSpaces
    /\ parser.stage = "text" /\ Len(parser.string) >= MaxString => u = Quote
    /\ u = Comma => Len(parser.fields) < MaxFields
    /\ parser' = Take(parser, u)
    /\ spaces' = spaces + (IF u = Space /\ parser.stage # "text" THEN 1 ELSE 0)

JsonNext == \E u \in Units(parser) : Feed(u)

-----------------------------------------------------------------------------
(* Properties *)

\* The code point that bytes of UTF-8 stand for.
FromUtf8(b) ==
    CASE Len(b) = 1 -> b[1]
      [] Len(b) = 2 -> (b[1] - 192) * 64 + b[2] - 128
      [] Len(b) = 3 -> (b[1] - 224) * 4096 + (b[2] - 128) * 64 + b[3] - 128
      [] Len(b) = 4 -> (b[1] - 240) * 262144 + (b[2] - 128) * 4096 + (b[3] - 128) * 64 + b[4] - 128

\* The ends of the ranges that have their own length in UTF-8 or their own reading: one,
\* two and three bytes, high and low surrogates.
Boundaries == {0, 127, 128, 2047, 2048, 55295, 55296, 56319, 56320, 57343, 57344, 65535}

\* Writer and reader agree.  Every object that FlatJsonObjectParser accepts, with
\* whatever spelling of its strings, has each key once, and written with jsonEscape it
\* is read as the same fields: no string ends early, grows or loses
\* a character by being passed on.  An escape \u gives the bytes of its own code
\* point, in as few as it needs, at the ends of every range (Boundaries).
FieldsAsWritten ==
    /\ parser.stage = "end" =>
          /\ \A i, j \in DOMAIN parser.fields : parser.fields[i].key = parser.fields[j].key => i = j
          /\ LET again == Parse(WriteObject(parser.fields))
             IN  again.stage = "end" /\ again.fields = parser.fields
    /\ parser.stage \in {"digits", "low digits"} =>
          \A u \in Boundaries :
              LET p == Take(parser, u)
                  bytes == SubSeq(p.string, Len(parser.string) + 1, Len(p.string))
              IN  p.stage = "text" =>
                    /\ FromUtf8(bytes) = IF parser.stage = "digits" THEN u
                                         ELSE Combined(parser.high, u)
                    /\ Len(bytes) = Cardinality({n \in {0, 128, 2048, 65536} : n <= FromUtf8(bytes)})
=============================================================================
