-------------------------- MODULE MCRequestReader --------------------------
(***************************************************************************)
(* Streams for RequestReader: sizes around the limits with a plain header, *)
(* every header of up to three lines with small sizes, every text of       *)
(* Content-Length of up to four characters, and short paths of literal and *)
(* escaped characters.  Base 3 and a size_t of three bits keep a maximum   *)
(* whose next digit wraps, as kMaxBodyBytes would not.  A body that was    *)
(* received whole is then read by FlatJson.                                *)
(***************************************************************************)
EXTENDS RequestReader, FlatJson, TLC

Plain(name) == [name |-> name, form |-> "plain"]

Texts(n) == UNION {[1..k -> Digits] : k \in 1..n}

RootPath == <<Slash>>

\* Sizes: the header block and the body around their limits.
SizeStreams ==
    [head : 1..(MaxHeaderBytes + 2) \cup {Endless}, start : {"1.1"}, path : {RootPath},
     lines : {<<Plain("host"), Plain("content-length")>>},
     length : Texts(2), body : {0, MaxBodyBytes, MaxBodyBytes + Chunk + 2, Endless}]

LineKinds ==
    {Plain(n) : n \in {"host", "cookie", "content-length", "transfer-encoding", "expect"}}
    \cup {[name |-> "other", form |-> f] : f \in {"empty", "long", "folded", "malformed", "bad name"}}

\* Lines: every header of up to three lines.
LineStreams ==
    [head : {2}, start : {"1.1"}, path : {RootPath},
     lines : UNION {[1..n -> LineKinds] : n \in 0..3}, length : {<<2>>, <<Letter>>}, body : {2}]

\* Start lines and paths.
StartStreams ==
    [head : {2}, start : {"1.0", "1.1", "malformed line", "bad method", "bad version", "bad target"},
     path : {RootPath, <<Percent>>},
     lines : UNION {[1..n -> LineKinds] : n \in 0..1}, length : {<<2>>}, body : {2}]

\* Every short text of Content-Length.
LengthStreams ==
    [head : {2}, start : {"1.1"}, path : {RootPath},
     lines : {<<Plain("host"), Plain("content-length")>>},
     length : UNION {[1..n -> Digits \cup {Letter}] : n \in 0..4}, body : {MaxBodyBytes}]

\* The pieces of paths: / . a 2 e, the escapes of / . % \ a, of a control character
\* and of DEL, and escapes that are cut short or have no digits.
Pieces ==
    {<<47>>, <<46>>, <<97>>, <<50>>, <<101>>, <<37, 50, 102>>, <<37, 50, 69>>, <<37, 50, 53>>,
     <<37, 53, 67>>, <<37, 54, 49>>, <<37, 48, 57>>, <<37, 55, 70>>, <<37>>, <<37, 103, 48>>}
FewPieces == {<<47>>, <<46>>, <<97>>, <<37, 50, 102>>, <<37, 50, 69>>}

PathsOf(pieces, n) ==
    UNION {{RootPath \o FoldLeft(LAMBDA text, p : text \o p, <<>>, ps) : ps \in [1..k -> pieces]} :
           k \in 0..n}

PathStreams ==
    [head : {1}, start : {"1.0"}, path : PathsOf(Pieces, 3) \cup PathsOf(FewPieces, 4)
                                              \cup {RootPath \o WellKnown}, lines : {<<>>},
     length : {<<>>}, body : {0}]

JsonStream ==
    [head |-> 1, start |-> "1.0", path |-> RootPath, lines |-> <<Plain("content-length")>>,
     length |-> <<1, 0>>, body |-> MaxBodyBytes]

MCStreams == {s \in SizeStreams : s.head = Endless => s.body = 0} \cup LineStreams \cup StartStreams
             \cup LengthStreams \cup PathStreams \cup {JsonStream}

\* A page, a directory with a page, a link out of the root and a loop of links.
MCAliases == RootPath :> <<47, 97>>
MCWebRoot == <<"root">>
MCTree ==
    <<<<97>>>> :> [at |-> <<"root", "a">>, kind |-> "file"]
    @@ <<<<50>>>> :> [at |-> <<"root", "2">>, kind |-> "directory"]
    @@ <<<<50>>, <<97>>>> :> [at |-> <<"root", "2", "a">>, kind |-> "file"]
    @@ <<<<46>>>> :> [at |-> <<"root">>, kind |-> "directory"]
    @@ <<<<46, 97>>>> :> [at |-> <<"root", ".a">>, kind |-> "file"]
    @@ <<<<46, 46>>, <<97>>>> :> [at |-> <<"a">>, kind |-> "file"]
    @@ <<<<97>>, <<46, 46>>, <<97>>>> :> [at |-> <<"root", "a">>, kind |-> "file"]
    @@ <<WellKnown>> :> [at |-> <<"root", "well-known">>, kind |-> "file"]
    @@ <<<<101>>>> :> [at |-> <<"elsewhere">>, kind |-> "file"]
    @@ <<<<101>>, <<97>>>> :> [at |-> <<"root", "e">>, kind |-> "loop"]

MCCharacters == {1, 34, 92, 97, 110, 117}
MCCodeUnits == {10, 127, 128, 2047, 2048, 55296, 56319, 56320, 57343, 65535}

-----------------------------------------------------------------------------
\* A body is given to the JSON parser once it has been received; one stream is enough,
\* since the texts are FlatJson's own.
BodyReceived == stream = JsonStream /\ result.status = 200

Reading == Next /\ UNCHANGED jsonVars
Parsing == BodyReceived /\ JsonNext /\ UNCHANGED vars

ReadingInit == Init /\ JsonInit

\* recv on a socket with SO_RCVTIMEO returns: with data, or without.
ReadingSpec ==
    /\ ReadingInit
    /\ [][Reading \/ Parsing]_<<vars, jsonVars>>
    /\ WF_vars(Recv \/ RecvTimesOut)
=============================================================================
