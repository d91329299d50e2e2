-------------------------- MODULE MCServedViews --------------------------
(***************************************************************************)
(* Requests, configurations and projections for ServedViews: any request   *)
(* on one worker, any small projection, requests that contend for the      *)
(* mutexes on all workers, and views that change while they are asked for. *)
(***************************************************************************)
EXTENDS ServedViews

AllOn == [requireSameOrigin |-> TRUE, httpBootstrap |-> TRUE, reference |-> TRUE, nexo |-> TRUE]

\* Everything switched on, or all but one thing: no two flags are read for one
\* decision of the handler, and none together with the role.
OneOff == {[AllOn EXCEPT ![f] = FALSE] : f \in DOMAIN AllOn}

Here == [host |-> "here", origin |-> "here", referer |-> "absent", site |-> "absent"]

\* A request from the site's own pages for every path and method.
OwnRequests ==
    [readable : {TRUE}, method : Methods, path : Paths, headers : {Here},
     session : Roles \cup {None, Stale}, complete : BOOLEAN, query : {FALSE}]

\* Every combination of headers, for a path that changes and one that reads.
ForeignRequests ==
    [readable : {TRUE}, method : {"GET", "POST"}, path : {"/api/admin/users", "/integrations/reference/echo"},
     headers : Headers, session : {"admin"}, complete : {TRUE}, query : {FALSE}]

OddRequests ==
    [readable : BOOLEAN, method : {"GET"}, path : {"/api/v1/context-projection"}, headers : {Here},
     session : {"admin"}, complete : {TRUE}, query : BOOLEAN]

\* Only POST, PUT and PATCH have a body to be incomplete.
AllRequests ==
    UNION {{r \in OwnRequests : r.complete \/ r.method \in {"POST", "PUT", "PATCH"}},
           ForeignRequests, OddRequests}

Ask(method, path) ==
    [readable |-> TRUE, method |-> method, path |-> path, headers |-> Here,
     session |-> "admin", complete |-> TRUE, query |-> FALSE]

\* One request for each way the mutexes are taken, released and taken again.
LockingRequests ==
    <<Ask("POST", "/api/auth/logout"), Ask("GET", "/api/admin/users"), Ask("GET", "/api/ecosystem"),
      Ask("POST", "/api/v1/engineering/integrations/i/1/execute")>>

CONSTANTS w1, w2, w3

Still == [v \in Views |-> 0]

Load(c, requests, contents) ==
    [config |-> c, requests |-> requests, waiting |-> "nothing", contents |-> contents, changes |-> Still]

Only(r) == [w \in Workers |-> IF w = w1 THEN r ELSE None]
All(first, second, third) == [w \in Workers |-> CASE w = w1 -> first [] w = w2 -> second [] OTHER -> third]

Participant(id, probe) == [tag |-> "PARTICIPANT", id |-> id, probe |-> probe, whole |-> TRUE]
Surface(id, class, complete) == [tag |-> "SURFACE", id |-> id, class |-> class, complete |-> complete, whole |-> TRUE]
Capability(id) == [tag |-> "CAPABILITY", id |-> id, whole |-> TRUE]
Meta(whole) == [tag |-> "META", whole |-> whole]
Short(line) == [line EXCEPT !.whole = FALSE]

Plain == [v \in Views |-> IF v = "ecosystem" THEN <<Participant("a", "loopback"), Surface("a", "research", TRUE)>>
                          ELSE <<Meta(TRUE), Participant("a", "none")>>]

\* Every file of up to three lines.
EcosystemLines ==
    {Participant("a", "loopback"), Participant("b", "bad path"), Surface("a", "admin", TRUE),
     Surface("a", "authenticated", TRUE), Surface("b", "research", FALSE), Short(Surface("a", "research", TRUE)), Meta(TRUE)}
SemanticLines ==
    {Meta(TRUE), Meta(FALSE), Participant("a", "none"), Short(Participant("a", "none")), Capability("a"),
     Short(Capability("a")), Capability("b")}

Files(lines, n) == UNION {[1..k -> lines] : k \in 0..n}

\* What the files are changed to while they are being read.
MCProjections ==
    [v \in Views |-> IF v = "ecosystem"
                     THEN {Missing, <<Participant("a", "loopback"), Participant("b", "port 0")>>}
                     ELSE {Missing, TooLarge, <<Meta(TRUE), Participant("a", "none"), Capability("a")>>}]

\* Three authorized requests for a view, which changes up to n times.
Changing(m, requests, n) ==
    [Load(AllOn, requests, Plain) EXCEPT !.waiting = m, !.changes = [Still EXCEPT ![m] = n]]

Declared == Ask("GET", "/api/v1/workspace")
Observed == Ask("GET", "/api/systems")
SemanticRequest == Ask("GET", "/api/v1/ecosystem/semantic")

MCLoads ==
    {{Load(AllOn, Only(r), Plain) : r \in AllRequests},
     {Load(c, Only(r), Plain) : c \in OneOff, r \in {q \in AllRequests : q.session \in {None, "admin"}}},
     {Load(AllOn, Only([Ask("GET", "/api/v1/workspace") EXCEPT !.session = role]),
           [Plain EXCEPT !["ecosystem"] = file]) :
         file \in {Missing} \cup Files(EcosystemLines, 3), role \in Roles \ {"unknown"}},
     {Load(AllOn, Only(SemanticRequest), [Plain EXCEPT !["semantic"] = file]) :
         file \in {Missing, TooLarge} \cup Files(SemanticLines, 3)},
     {Load(AllOn, All(LockingRequests[i], LockingRequests[j], LockingRequests[4]), Plain) :
         i \in 1..3, j \in {3, 4}},
     {Changing("ecosystem", All(Declared, r, Ask("GET", "/api/ecosystem")), 3) : r \in {Declared, Observed}},
     {[Changing("semantic", All(SemanticRequest, SemanticRequest, SemanticRequest), 3)
          EXCEPT !.contents = [Plain EXCEPT !["semantic"] = file]] : file \in {Plain["semantic"], Missing}}}
=============================================================================
