--------------------------- MODULE EcosystemViews ---------------------------
(***************************************************************************)
(* What sisterd knows of its ecosystem: the projection files, their        *)
(* parsers (apps/sisterd/ecosystem/) and the snapshots AppState keeps of   *)
(* them (declarativeEcosystem, observedEcosystem and semanticEcosystem of  *)
(* apps/sisterd/main.cpp).                                                 *)
(*                                                                         *)
(* A call holds the mutex of its snapshot from its first step to its last, *)
(* but the files, the clock and the subsystems change in between.  A file  *)
(* is a sequence of lines; a line is what its tokens tell the parser.      *)
(***************************************************************************)
EXTENDS Integers, Sequences, SequencesExt

CONSTANTS Projections,  \* what is written into each file, by the mutex of its snapshot
          MaxTime,      \* bound: the clock
          Freshness,    \* healthFreshness
          NoView        \* a snapshot that is not there

Views == {"ecosystem", "semantic"}
Missing == <<[tag |-> "no such file"]>>
TooLarge == <<[tag |-> "more than 1 MiB"]>>
NoTime == -1

VARIABLES source,   \* each projection file: its lines, when it was written, and
                    \* (history) the times it has had and whether it has this one again
          clock,    \* in ticks of the file system's time stamps
          up,       \* the participants whose health path answers 200
          changes,  \* bound: how often the outside may still change what a view shows
          cache,    \* each snapshot, the write time it was taken for
          health,   \* ecosystemOperationalSnapshot and ecosystemObservedAt
          call      \* the call that holds each mutex, if one does

viewVars == <<source, clock, up, changes, cache, health, call>>

NoCall == [pc |-> "idle", kind |-> "none", time |-> NoTime, since |-> 0, seen |-> <<>>]
NoHealth == [of |-> NoView, seen |-> <<>>, at |-> 0]

ViewsInit(contents, budget) ==
    /\ source = [v \in Views |-> [lines |-> contents[v], written |-> 0, again |-> FALSE,
                                  times |-> {IF contents[v] = Missing THEN NoTime ELSE 0}]]
    /\ clock = 0
    /\ up = {}
    /\ changes = budget
    /\ cache = [v \in Views |-> [view |-> NoView, time |-> NoTime]]
    /\ health = NoHealth
    /\ call = [v \in Views |-> NoCall]

-----------------------------------------------------------------------------
(* The parsers. *)

Knows(systems, id) == \E k \in DOMAIN systems : systems[k].id = id
First(systems, id) == CHOOSE k \in DOMAIN systems : systems[k].id = id /\ \A j \in 1..(k - 1) : systems[j].id # id

\* Adds a line to what belongs to the first entry with its id.
Attach(systems, line) ==
    IF Knows(systems, line.id)
    THEN [systems EXCEPT ![First(systems, line.id)].has = Append(@, line)]
    ELSE systems

\* parseProjection: a participant is never refused, a surface needs its
\* seven tokens and a participant before it.
ProjectionLine(systems, line) ==
    CASE line.tag = "PARTICIPANT" -> Append(systems, [id |-> line.id, probe |-> line.probe, has |-> <<>>])
      [] line.tag = "SURFACE" /\ line.whole -> Attach(systems, line)
      [] OTHER -> systems

ParseProjection(lines) == FoldLeft(ProjectionLine, <<>>, lines)

\* parseSemanticProjection: what precedes a valid META is skipped, and so is
\* what follows one that is not; a participant is entered once.
SemanticLine(state, line) ==
    CASE line.tag = "META" -> [state EXCEPT !.header = line.whole]
      [] line.tag = "PARTICIPANT" /\ state.header /\ line.whole /\ ~Knows(state.systems, line.id) ->
            [state EXCEPT !.systems = Append(@, [id |-> line.id, has |-> <<>>])]
      [] line.tag = "CAPABILITY" /\ state.header /\ line.whole ->
            [state EXCEPT !.systems = Attach(@, line)]
      [] OTHER -> state

Semantic(status, systems) == [status |-> status, systems |-> systems]

ParseSemanticProjection(lines) ==
    LET end == FoldLeft(SemanticLine, [header |-> FALSE, systems |-> <<>>], lines)
    IN  IF end.header THEN Semantic("authoritative", end.systems) ELSE Semantic("invalid", <<>>)

\* parseProjectionFile and parseSemanticProjectionFile.
ParseFile(v, lines) ==
    IF v = "ecosystem" THEN IF lines = Missing THEN <<>> ELSE ParseProjection(lines)
    ELSE CASE lines = Missing  -> Semantic("unavailable", <<>>)
           [] lines = TooLarge -> Semantic("invalid", <<>>)
           [] OTHER            -> ParseSemanticProjection(lines)

\* Connecting, asking and the status line of the answer, within a timeout.
Answers200(id) == id \in up

\* observeLoopbackHealth.
LoopbackHealth(system) ==
    CASE system.probe = "port 0" -> "offline"
      [] system.probe = "bad path" -> "not_observed"
      [] OTHER -> IF Answers200(system.id) THEN "online" ELSE "offline"

\* observeEcosystemHealth for one participant: without a path, over another
\* transport or at another address there is no probe.
Observe(system) == IF system.probe = "none" THEN "not_observed" ELSE LoopbackHealth(system)

\* serializeWorkspaceViewJson: the surfaces shown for some access classes.
Workspace(systems, classes) ==
    {line \in UNION {Range(systems[k].has) : k \in DOMAIN systems} : line.complete /\ line.class \in classes}

-----------------------------------------------------------------------------
(* A call, from lock_guard to return. *)

TimeOf(v) == IF source[v].lines = Missing THEN NoTime ELSE source[v].written

BeginCall(v, kind) ==
    /\ call[v].pc = "idle"
    /\ call' = [call EXCEPT ![v] = [NoCall EXCEPT !.pc = "stat", !.kind = kind]]
    /\ UNCHANGED <<source, clock, up, changes, cache, health>>

\* What follows the refresh: the declared view is returned, or its health
\* looked at.
Refreshed(v) == IF call[v].kind = "observed" THEN "decide" ELSE "return"

\* last_write_time, and whether the snapshot is of another.
Stat(v) ==
    /\ call[v].pc = "stat"
    /\ LET stale == cache[v].view = NoView \/ cache[v].time # TimeOf(v)
       IN  call' = [call EXCEPT ![v].time = TimeOf(v), ![v].pc = IF stale THEN "parse" ELSE Refreshed(v)]
    /\ UNCHANGED <<source, clock, up, changes, cache, health>>

\* Mutant: the observed snapshot is left for its age to replace.
ParseKeepingHealth(v) ==
    /\ call[v].pc = "parse"
    /\ cache' = [cache EXCEPT ![v] = [view |-> ParseFile(v, source[v].lines), time |-> call[v].time]]
    /\ call' = [call EXCEPT ![v].pc = Refreshed(v)]
    /\ UNCHANGED <<source, clock, up, changes, health>>

\* The file is read, as it is now, and the observed snapshot given up.
Parse(v) ==
    /\ call[v].pc = "parse"
    /\ cache' = [cache EXCEPT ![v] = [view |-> ParseFile(v, source[v].lines), time |-> call[v].time]]
    /\ health' = IF v = "ecosystem" THEN NoHealth ELSE health
    /\ call' = [call EXCEPT ![v].pc = Refreshed(v)]
    /\ UNCHANGED <<source, clock, up, changes>>

\* observedEcosystem: what was seen less than healthFreshness ago is shown.
Decide(v) ==
    /\ call[v].pc = "decide"
    /\ LET expired == health.of = NoView \/ clock - health.at >= Freshness
       IN  call' = [call EXCEPT ![v].since = clock, ![v].pc = IF expired THEN "probe" ELSE "return"]
    /\ UNCHANGED <<source, clock, up, changes, cache, health>>

\* The participants are asked one after the other, under the mutex.
Probe(v) ==
    /\ call[v].pc = "probe"
    /\ LET systems == cache[v].view
           k == Len(call[v].seen) + 1
       IN  IF k \in DOMAIN systems
           THEN /\ call' = [call EXCEPT ![v].seen = Append(@, [status |-> Observe(systems[k]), at |-> clock])]
                /\ UNCHANGED health
           ELSE /\ health' = [of |-> systems, seen |-> call[v].seen, at |-> call[v].since]
                /\ call' = [call EXCEPT ![v].pc = "return"]
    /\ UNCHANGED <<source, clock, up, changes, cache>>

EndCall(v) ==
    /\ call[v].pc = "return"
    /\ call' = [call EXCEPT ![v] = NoCall]
    /\ UNCHANGED <<source, clock, up, changes, cache, health>>

ViewStep(v) == Stat(v) \/ Parse(v) \/ Decide(v) \/ Probe(v)

-----------------------------------------------------------------------------
(* The outside: who writes the projections, time, and the participants. *)

Changed(v) ==
    /\ changes[v] > 0
    /\ changes' = [changes EXCEPT ![v] = @ - 1]

Rewrite(v, lines) ==
    /\ Changed(v) /\ lines # source[v].lines
    /\ LET time == IF lines = Missing THEN NoTime ELSE clock
       IN  source' = [source EXCEPT ![v] = [lines |-> lines, written |-> clock, times |-> @.times \cup {time},
                                            again |-> time \in @.times]]
    /\ UNCHANGED <<clock, up, cache, health, call>>

Tick(v) ==
    /\ Changed(v) /\ clock < MaxTime
    /\ clock' = clock + 1
    /\ UNCHANGED <<source, up, cache, health, call>>

StartOrStop(id) ==
    /\ Changed("ecosystem")
    /\ up' = IF id \in up THEN up \ {id} ELSE up \cup {id}
    /\ UNCHANGED <<source, clock, cache, health, call>>

Ids == {"a", "b"}

Outside ==
    \/ \E v \in Views : \E lines \in Projections[v] : Rewrite(v, lines)
    \/ \E v \in Views : Tick(v)
    \/ \E id \in Ids : StartOrStop(id)

-----------------------------------------------------------------------------
ViewsTypeOK ==
    /\ clock \in 0..MaxTime /\ up \subseteq Ids
    /\ \A v \in Views :
          /\ call[v].pc \in {"idle", "stat", "parse", "decide", "probe", "return"}
          /\ cache[v].time \in {NoTime} \cup 0..MaxTime
          /\ source[v].written <= clock
    /\ health.at <= clock

\* What a file says of an entry: the lines that name it, come after it and
\* count (those the predicate N holds of).
Says(lines, i, tag, N(_)) ==
    {lines[j] : j \in {j \in (i + 1)..Len(lines) : lines[j].tag = tag /\ lines[j].id = lines[i].id /\ N(j)}}

Entries(lines, N(_)) == {i \in DOMAIN lines : lines[i].tag = "PARTICIPANT" /\ N(i)}

\* The view is what the lines say, whatever their order: surfaces go to the
\* first participant of their id, if it stands before them.
Renders(systems, lines) ==
    LET entries == SetToSortSeq(Entries(lines, LAMBDA i : TRUE), LAMBDA i, j : i < j)
    IN  /\ Len(systems) = Len(entries)
        /\ \A k \in DOMAIN systems :
              LET i == entries[k]
                  first == \A j \in 1..(i - 1) : lines[j].tag = "PARTICIPANT" => lines[j].id # lines[i].id
              IN  /\ systems[k].id = lines[i].id
                  /\ Range(systems[k].has) = IF first THEN Says(lines, i, "SURFACE", LAMBDA j : lines[j].whole) ELSE {}

\* The last META decides, and a line counts when the last META before it is
\* valid.
Governs(lines, i) ==
    \E m \in 1..i : lines[m].tag = "META" /\ lines[m].whole /\ \A n \in (m + 1)..i : lines[n].tag # "META"

RendersSemantic(view, lines) ==
    IF lines = Missing THEN view = Semantic("unavailable", <<>>)
    ELSE IF lines = TooLarge \/ ~Governs(lines, Len(lines)) THEN view = Semantic("invalid", <<>>)
    ELSE /\ view.status = "authoritative"
         /\ LET counts(i) == Governs(lines, i) /\ lines[i].whole
                entries == Entries(lines, counts)
            IN  /\ {view.systems[k].id : k \in DOMAIN view.systems} = {lines[i].id : i \in entries}
                /\ Len(view.systems) = Cardinality({lines[i].id : i \in entries})
                /\ \A k \in DOMAIN view.systems : \E i \in entries :
                      /\ view.systems[k].id = lines[i].id
                      /\ \A j \in entries : j < i => lines[j].id # lines[i].id
                      /\ Range(view.systems[k].has) = Says(lines, i, "CAPABILITY", counts)

Shows(v) ==
    IF v = "semantic" THEN RendersSemantic(cache[v].view, source[v].lines)
    ELSE IF source[v].lines = Missing THEN cache[v].view = <<>>
    ELSE Renders(cache[v].view, source[v].lines)

(***************************************************************************)
(* A snapshot that no longer shows what its file says is replaced by the   *)
(* next call, because the file's time is another, unless the file has come *)
(* back to a time it had before (two writes within a tick, or two          *)
(* removals); what was observed is of the participants now declared, even  *)
(* when another route did the refresh; and no health a request is shown    *)
(* was observed more than healthFreshness before it looked.                *)
(***************************************************************************)
ViewsFollowSources ==
    /\ ViewsTypeOK
    /\ \A v \in Views :
          call[v].pc = "idle" /\ cache[v].view # NoView /\ cache[v].time = TimeOf(v) /\ ~source[v].again => Shows(v)
    /\ health.of # NoView => health.of = cache["ecosystem"].view /\ Len(health.seen) = Len(health.of)
    /\ LET c == call["ecosystem"]
       IN  c.pc = "return" /\ c.kind = "observed" =>
              /\ health.of # NoView
              /\ \A k \in DOMAIN health.seen : health.seen[k].at > c.since - Freshness
=============================================================================
