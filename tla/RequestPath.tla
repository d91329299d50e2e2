---------------------------- MODULE RequestPath ----------------------------
(***************************************************************************)
(* From the path of a request to a file of the web root: percentDecodePath *)
(* and resolveStaticPath of apps/sisterd/main.cpp.  Characters are their   *)
(* numbers.  The file system is `Tree': where each relative path leads     *)
(* once its links are followed, and to what.                               *)
(***************************************************************************)
EXTENDS Integers, Sequences, FiniteSets

CONSTANTS Aliases,  \* the pages that have a name of their own: their paths
          WebRoot,  \* the components of config.canonicalWebRoot
          Tree      \* relative path, as components -> [at, kind]

Percent == 37
Dot == 46
Slash == 47
BackSlash == 92

ASSUME PathConstants ==
    /\ \A path \in DOMAIN Tree : Tree[path].kind \in {"file", "directory", "loop"}
    /\ \A path \in DOMAIN Aliases : \A i \in DOMAIN path : path[i] # Dot

WellKnown == <<46, 119, 101, 108, 108, 45, 107, 110, 111, 119, 110>>

\* A decoding that is refused.
Undecoded == <<-1>>

HexValue(c) ==
    CASE c \in 48..57 -> c - 48 [] c \in 97..102 -> c - 87 [] c \in 65..70 -> c - 55
      [] OTHER -> -1

Forbidden(byte) == byte = BackSlash \/ byte < 32 \/ byte = 127

\* Whether the percent sign at a position has its two digits.
EscapedByte(encoded, i) ==
    i + 2 <= Len(encoded) /\ HexValue(encoded[i + 1]) >= 0 /\ HexValue(encoded[i + 2]) >= 0

\* The byte that a position stands for.
ByteAt(encoded, i) ==
    IF encoded[i] = Percent THEN 16 * HexValue(encoded[i + 1]) + HexValue(encoded[i + 2]) ELSE encoded[i]

\* What has been decoded, and how many positions the loop passes over next.
Decodings == [decoded : Seq(-1..255), skip : 0..2]

\* One turn of the loop of percentDecodePath, or a position that it passes over.
TakeByte(encoded, i) ==
    [before \in Decodings |->
        CASE before.decoded = Undecoded -> before
          [] before.decoded # Undecoded /\ before.skip > 0 ->
                [decoded |-> before.decoded, skip |-> before.skip - 1]
          [] OTHER ->
                IF (encoded[i] = Percent /\ ~EscapedByte(encoded, i)) \/ Forbidden(ByteAt(encoded, i))
                THEN [decoded |-> Undecoded, skip |-> 0]
                ELSE [decoded |-> Append(before.decoded, ByteAt(encoded, i)),
                      skip |-> IF encoded[i] = Percent THEN 2 ELSE 0]]

PercentDecode(encoded) ==
    LET after[i \in 0..Len(encoded)] ==
            IF i = 0 THEN [decoded |-> <<>>, skip |-> 0] ELSE TakeByte(encoded, i)[after[i - 1]]
    IN  after[Len(encoded)].decoded

\* The path that readRequest accepts.
PathAccepted(encoded) ==
    LET decoded == PercentDecode(encoded)
    IN  decoded # Undecoded /\ decoded # <<>> /\ Head(decoded) = Slash

-----------------------------------------------------------------------------
\* The components of a std::filesystem::path: slashes in a row are one, and one at
\* the end is followed by an empty component.
TakeSeparated(pieces, c) ==
    LET last == Len(pieces)
    IN  CASE c # Slash -> [pieces EXCEPT ![last] = Append(pieces[last], c)]
          [] c = Slash -> IF pieces[last] = <<>> THEN pieces ELSE Append(pieces, <<>>)

Components(path) ==
    LET pieces[n \in 0..Len(path)] == IF n = 0 THEN <<<<>>>> ELSE TakeSeparated(pieces[n - 1], path[n])
    IN  pieces[Len(path)]

\* Whether a sequence begins with another.
StartsWith(whole, start) == Len(start) <= Len(whole) /\ SubSeq(whole, 1, Len(start)) = start

Hidden(component) == component # <<>> /\ Head(component) = Dot /\ component # WellKnown

\* resolveStaticPath: the file, as its canonical components, or <<>>.
ResolveStaticPath(path) ==
    LET route == IF path \in DOMAIN Aliases THEN Aliases[path] ELSE path
        relative == Tail(route)
        components == Components(relative)
    IN  IF \/ relative = <<>> \/ Head(relative) = Slash
           \/ \E i \in DOMAIN components : components[i] = <<>> \/ Hidden(components[i])
           \/ components \notin DOMAIN Tree
        THEN <<>>
        ELSE LET found == Tree[components]
             IN  IF found.kind = "file" /\ StartsWith(found.at, WebRoot) THEN found.at ELSE <<>>

-----------------------------------------------------------------------------
(* The reference: where the characters of a decoded path come from. *)

\* The positions that begin a character: those not in the two digits of an escape.
Begins(encoded) ==
    {i \in DOMAIN encoded : /\ ~(i > 1 /\ encoded[i - 1] = Percent)
                            /\ ~(i > 2 /\ encoded[i - 2] = Percent)}

\* A path that decodes has the character of each of its positions or escapes, each
\* read once, so that an escaped percent sign begins no other escape; and a file that
\* is found for it lies in the web root and was named by a path no component of which
\* begins with a dot, but for .well-known, whether dots and slashes were escaped or not.
PathMeansOneFile(encoded) ==
    LET decoded == PercentDecode(encoded)
        begins == Begins(encoded)
        file == ResolveStaticPath(decoded)
    IN  PathAccepted(encoded) =>
          /\ Len(decoded) = Cardinality(begins)
          /\ \A i \in begins : decoded[Cardinality({j \in begins : j <= i})] = ByteAt(encoded, i)
          /\ file # <<>> =>
                /\ StartsWith(file, WebRoot)
                /\ \A k \in 1..(Len(decoded) - 1) :
                      decoded[k] = Slash /\ decoded[k + 1] = Dot => StartsWith(SubSeq(decoded, k + 1, Len(decoded)), WellKnown)
=============================================================================
