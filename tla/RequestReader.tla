--------------------------- MODULE RequestReader ---------------------------
(***************************************************************************)
(* readRequest of apps/sisterd/main.cpp: one worker reading one HTTP       *)
(* request from a socket whose peer sends what it likes, in pieces of any  *)
(* size, and may stop or close at any time.                                *)
(*                                                                         *)
(* Bytes are counted and not named: `stream` says how many bytes come      *)
(* before the blank line, what the lines are like to the parser, the text  *)
(* of Content-Length if a line has that name, and how many bytes follow;   *)
(* `raw` is the number of bytes received.                                  *)
(***************************************************************************)
EXTENDS ContentLength, RequestPath, FiniteSets

CONSTANTS MaxHeaderBytes,  \* kMaxHeaderBytes
          MaxHeaderCount,  \* kMaxHeaderCount
          Chunk,           \* the size of the buffer given to recv
          Streams,         \* what peers may send
          Endless          \* the length of what never ends

ASSUME ReaderConstants ==
    /\ MaxHeaderBytes \in Nat /\ MaxHeaderCount \in Nat
    /\ Chunk \in Nat \ {0}
    /\ Endless \notin Nat

\* The first line as the parser sees it, and what a line of the header is to it.
StartLines == {"1.0", "1.1", "malformed line", "bad method", "bad version", "bad target"}
LineForms == {"plain", "empty", "long", "folded", "malformed", "bad name"}

ASSUME StreamsAssumption ==
    \A s \in Streams :
        /\ s.head \in Nat \cup {Endless} /\ s.body \in Nat \cup {Endless}
        /\ s.start \in StartLines
        /\ s.lines \in Seq([name : STRING, form : LineForms])
        /\ s.length \in Seq(LengthCharacters)
        /\ s.path \in Seq(0..255)

VARIABLES stream,  \* what the peer of this connection sends
          raw,     \* how much of it recv has returned: raw.size()
          pc,      \* the loop readRequest is in
          result   \* the status it returns, the length of the body, and whether
                   \* it was returned for what was sent or for what did not come

vars == <<stream, raw, pc, result>>

NoResult == [status |-> 0, body |-> 0, judged |-> FALSE]

Init ==
    /\ stream \in Streams
    /\ raw = 0
    /\ pc = "header"
    /\ result = NoResult

-----------------------------------------------------------------------------
(* What the parser makes of a complete header block. *)

Terminator == 4

HeaderSeen(n) == stream.head # Endless /\ n >= stream.head + Terminator

StartLineStatus ==
    CASE stream.start \in {"1.0", "1.1"}                  -> 200
      [] stream.start \in {"malformed line", "bad method"} -> 400
      [] stream.start = "bad version"                      -> 505
      [] stream.start = "bad target"                       -> 414

\* How many lines were counted up to line i: an empty one is passed over.
HeaderCount(i) == Cardinality({j \in 1..i : stream.lines[j].form # "empty"})

\* A name seen before. Only Cookie may come again: its values are joined.
Repeated(i) ==
    /\ stream.lines[i].name # "cookie"
    /\ \E j \in 1..(i - 1) : stream.lines[j].form = "plain" /\ stream.lines[j].name = stream.lines[i].name

LineStatus(i) ==
    CASE stream.lines[i].form = "empty" -> 200
      [] stream.lines[i].form # "empty" /\ (HeaderCount(i) > MaxHeaderCount \/ stream.lines[i].form = "long") -> 431
      [] OTHER -> IF stream.lines[i].form = "plain" /\ ~Repeated(i) THEN 200 ELSE 400

\* The status of the first line that is refused.
LinesStatus ==
    LET refused == {i \in DOMAIN stream.lines : LineStatus(i) # 200}
    IN  IF refused = {} THEN 200
        ELSE LineStatus(CHOOSE i \in refused : \A j \in refused : i <= j)

Declares(name) == \E i \in DOMAIN stream.lines : stream.lines[i].form = "plain" /\ stream.lines[i].name = name

Declared == ParseContentLength(stream.length)

ContentLengthStatus ==
    CASE ~Declares("content-length") \/ Declared.status = "valid" -> 200
      [] Declares("content-length") /\ Declared.status = "invalid" -> 400
      [] Declares("content-length") /\ Declared.status = "too large" -> 413

BodyLength == IF Declares("content-length") THEN Declared.value ELSE 0

\* The checks in their order: the first that fails decides.
HeaderStatus ==
    CASE StartLineStatus # 200                          -> StartLineStatus
      [] StartLineStatus = 200 /\ LinesStatus # 200      -> LinesStatus
      [] StartLineStatus = 200 /\ LinesStatus = 200      ->
            IF stream.start = "1.1" /\ ~Declares("host") THEN 400
            ELSE IF Declares("transfer-encoding") THEN 501
            ELSE IF Declares("expect") THEN 417
            ELSE ContentLengthStatus

ExpectedSize == stream.head + Terminator + BodyLength

\* percentDecodePath comes last, when the body has been received.
PathStatus == IF PathAccepted(stream.path) THEN 200 ELSE 400

-----------------------------------------------------------------------------
(* The two loops. *)

Return(status) ==
    /\ pc' = "done"
    /\ result' = [status |-> status, judged |-> TRUE, body |-> IF status = 200 THEN BodyLength ELSE 0]

GiveUp(status) ==
    /\ pc # "done"
    /\ pc' = "done"
    /\ result' = [status |-> status, judged |-> FALSE, body |-> 0]
    /\ UNCHANGED <<stream, raw>>

\* recv returns between one byte and a buffer full of what the peer sent.
Received(n) ==
    /\ n \in 1..Chunk
    /\ Endless \notin {stream.head, stream.body} => raw + n <= stream.head + Terminator + stream.body
    /\ raw' = raw + n
    /\ UNCHANGED stream

\* The second loop is entered only while bytes are missing.
AfterHeader(n) ==
    IF n < ExpectedSize THEN pc' = "body" /\ UNCHANGED result ELSE Return(PathStatus)

\* Mutant: the limit is compared with >= while the blank line is missing.
RecvHeaderEarly(n) ==
    /\ pc = "header"
    /\ Received(n)
    /\ IF ~HeaderSeen(raw + n)
       THEN IF raw + n >= MaxHeaderBytes THEN Return(431) ELSE UNCHANGED <<pc, result>>
       ELSE IF stream.head > MaxHeaderBytes THEN Return(431)
       ELSE IF HeaderStatus # 200 THEN Return(HeaderStatus)
       ELSE AfterHeader(raw + n)

RecvHeader(n) ==
    /\ pc = "header"
    /\ Received(n)
    /\ IF ~HeaderSeen(raw + n)
       THEN IF raw + n > MaxHeaderBytes THEN Return(431) ELSE UNCHANGED <<pc, result>>
       ELSE IF stream.head > MaxHeaderBytes THEN Return(431)
       ELSE IF HeaderStatus # 200 THEN Return(HeaderStatus)
       ELSE AfterHeader(raw + n)

\* The refusal of surplus bytes comes before the test of the loop.
RecvBody(n) ==
    /\ pc = "body"
    /\ Received(n)
    /\ IF raw + n > ExpectedSize + Chunk THEN Return(400)
       ELSE IF raw + n < ExpectedSize THEN UNCHANGED <<pc, result>>
       ELSE Return(PathStatus)

Recv == \E n \in 1..Chunk : RecvHeader(n) \/ RecvBody(n)

\* The peer has closed, or the socket failed: what is missing never comes.
RecvEnds == GiveUp(400)

\* Mutant: EAGAIN is retried as EINTR is.
RecvRetries ==
    /\ pc # "done"
    /\ UNCHANGED vars

\* Nothing came for SO_RCVTIMEO.
RecvTimesOut == GiveUp(408)

Next == Recv \/ RecvEnds \/ RecvTimesOut

ReaderSpec == Init /\ [][Next]_vars

-----------------------------------------------------------------------------
(* Properties. *)

Statuses == {200, 400, 408, 413, 414, 417, 431, 501, 505}

TypeOK ==
    /\ stream \in Streams
    /\ raw \in Nat
    /\ pc \in {"header", "body", "done"}
    /\ result \in [status : Statuses \cup {0}, body : Nat, judged : BOOLEAN]
    /\ (pc = "done") <=> (result.status # 0)

\* One buffer above the header limit, or less than one above the declared request.
BufferBounded ==
    /\ TypeOK
    /\ raw <= MaxHeaderBytes + Terminator + MaxBodyBytes + Chunk
    /\ pc = "header" => raw <= MaxHeaderBytes
    /\ pc = "body" => raw < ExpectedSize

\* All state has its type, and what a connection can make the reader hold is bounded
\* whatever the peer sends, before and after the limits are looked at
\* (kMaxHeaderBytes, kMaxBodyBytes).
\* A request is returned only when the header block is within its limit,
\* every check passed, no name came twice (but Cookie), and the declared
\* body has been received to its last byte.  The length it declares is read as
\* it is written, whatever digits or other characters it has and however many:
\* it does not wrap around in parseContentLength, and none is refused that is
\* within the limit.  Its path is decoded once, and what resolveStaticPath finds for
\* it is in the web root.
ReturnedWhole ==
    /\ BufferBounded
    /\ Declares("content-length") => ParsedRight(stream.length)
    /\ PathMeansOneFile(stream.path)
    /\ result.status = 200 =>
          /\ stream.head <= MaxHeaderBytes
          /\ HeaderStatus = 200 /\ PathAccepted(stream.path)
          /\ \A i, j \in DOMAIN stream.lines :
                /\ i # j /\ stream.lines[i].form = "plain" /\ stream.lines[j].form = "plain"
                /\ stream.lines[i].name = stream.lines[j].name
                => stream.lines[i].name = "cookie"
          /\ result.body = BodyLength
          /\ raw >= stream.head + Terminator + result.body

\* What a peer that neither closes nor stalls is answered.
Verdict ==
    IF stream.head = Endless THEN 431
    ELSE IF stream.head > MaxHeaderBytes THEN 431
    ELSE IF HeaderStatus # 200 THEN HeaderStatus
    ELSE PathStatus

\* The answer depends on what was sent and not on how the network cut it
\* into pieces. A header block within three bytes of the limit is the
\* exception: it is refused when the first pieces end inside its blank line.
SegmentsDoNotMatter ==
    result.judged =>
        \/ result.status = Verdict
        \/ result.status = 431 /\ stream.head \in (MaxHeaderBytes - Terminator + 2)..MaxHeaderBytes

\* The worker is not kept for ever by a peer, not even by one that sends a
\* byte at a time or stops in the middle (SO_RCVTIMEO and the limits).
ReadEnds == <>(pc = "done")
=============================================================================
