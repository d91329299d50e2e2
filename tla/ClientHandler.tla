---------------------------- MODULE ClientHandler ----------------------------
(***************************************************************************)
(* handleClient of apps/sisterd/main.cpp: worker threads that each read a  *)
(* request, find who sends it, choose a route, authorize it, take the      *)
(* mutex the route needs and answer.                                       *)
(*                                                                         *)
(* What the identity store, the database and the subsystems do is given by *)
(* the outcomes their callers tell apart (Outcomes). Paths are one         *)
(* representative of each class the comparisons of handleClient separate.  *)
(***************************************************************************)
EXTENDS Integers, Sequences, FiniteSets

CONSTANTS Workers,   \* threads inside handleClient
          Loads,     \* sets of what the process may be running with and working
                     \* on: a configuration, the request each worker has, if any,
                     \* and the mutex all have come to wait for, if they have (and,
                     \* for ServedViews, the projection files)
          ResponseLimit, \* kMaxProxyResponseBytes, in reads of an answer
          None,      \* no worker, no actor, no session cookie
          Stale      \* a cookie whose session has expired or is not known

VARIABLES config,  \* ServerConfig, read-only
          mutex,   \* who holds authMutex, dbMutex, ecosystemMutex and semanticEcosystemMutex
          h        \* the local state of each worker

handlerVars == <<config, mutex, h>>

\* The fields of ServerConfig that handleClient reads.
ConfigType == [requireSameOrigin : BOOLEAN, httpBootstrap : BOOLEAN, reference : BOOLEAN, nexo : BOOLEAN]

Mutexes == {"auth", "db", "ecosystem", "semantic"}

Roles == {"admin", "researcher", "user", "unknown"}

\* What an answer says: its status, what it discloses, and Cache-Control.
NoAnswer == [status |-> 0, data |-> "nothing", cache |-> "none"]

Error(status) == [status |-> status, data |-> "nothing", cache |-> "no-store"]

Discloses(status, data, cache) == [status |-> status, data |-> data, cache |-> cache]

Idle == [pc |-> "idle", request |-> None, actor |-> None, want |-> "nothing", job |-> "nothing",
         answer |-> NoAnswer, answers |-> 0, thrown |-> "no", changed |-> FALSE,
         got |-> 0, head |-> "none", confirmed |-> FALSE]

\* A worker that has just taken a connection from the pool's queue.
Taken(request) == [Idle EXCEPT !.pc = "received", !.request = request]

\* A worker that has been authorized and waits to read under a mutex.
Waiting(request, m) ==
    [Taken(request) EXCEPT !.pc = "wait", !.actor = request.session, !.want = m, !.job = "read"]

InitWith(load) ==
    /\ mutex = [m \in Mutexes |-> None]
    /\ config = load.config
    /\ h = [w \in Workers |-> CASE load.requests[w] = None -> Idle
                                [] load.requests[w] # None /\ load.waiting # "nothing" ->
                                     Waiting(load.requests[w], load.waiting)
                                [] OTHER -> Taken(load.requests[w])]

-----------------------------------------------------------------------------
(* The paths, by the comparisons made with them. *)

AuthPaths == {"/api/auth/bootstrap", "/api/auth/register", "/api/auth/login", "/api/auth/logout"}
ParticipationItems == {"/api/v1/participations/", "/api/v1/participations/p", "/api/v1/participations/p/q"}
Decisions == {"/api/v1/engineering/integrations/i/1/decision", "/api/v1/engineering/integrations/i/decision"}
Executions == {"/api/v1/engineering/integrations/i/1/execute", "/api/v1/engineering/integrations/i/execute"}
ReferenceReads == {"/integrations/reference/identity", "/integrations/reference/api/whoami"}
ReferenceEchoes == {"/integrations/reference/echo"}
ReferencePaths == ReferenceReads \cup ReferenceEchoes \cup {"/integrations/reference", "/integrations/reference/other"}
MaturityRoutes == {"/api/admin/maturity/latest", "/api/admin/maturity/components"}
UserItems == {"/api/admin/users/", "/api/admin/users/u"}
ApiPaths == {"/api/health", "/api/v1/context-projection", "/api/v1/workspace", "/api/v1/ecosystem/semantic",
             "/api/ecosystem", "/api/systems", "/api/v1/engineering/operational-base/current",
             "/api/v1/engineering/plan", "/api/v1/engineering/artifacts/docs/a", "/api/contracts", "/api/evidence", "/api/diagnostics",
             "/api/integrations/sister-reference", "/api/other"}
PlanPaths == {"/api/v1/engineering/plan", "/api/v1/engineering/artifacts/docs/a"}
EngineeringPages == {"/engineering", "/engineering/app.js"}
AdminPages == {"/admin/users", "/admin/maturity"}
\* The files of AdminPages under their own names, which no comparison singles out.
PageFiles == {"/admin.html", "/admin.js", "/maturity/index.html", "/maturity/app.js"}
Pages == EngineeringPages \cup AdminPages \cup PageFiles \cup {"/", "/login", "/app.js", "/other"}

Paths == AuthPaths \cup {"/api/v1/participations"} \cup ParticipationItems \cup Decisions \cup Executions
         \cup ReferencePaths \cup {"/api/me", "/api/me/capabilities"} \cup MaturityRoutes
         \cup {"/api/admin/users"} \cup UserItems \cup ApiPaths \cup Pages

Methods == {"GET", "HEAD", "OPTIONS", "POST", "PUT", "PATCH", "DELETE"}

Headers == [host : {"absent", "empty", "here"}, origin : {"absent", "null", "here", "elsewhere"},
            referer : {"absent", "here", "elsewhere"}, site : {"absent", "same-origin", "none", "cross-site"}]

RequestType ==
    [readable : BOOLEAN, method : Methods, path : Paths, headers : Headers,
     session : Roles \cup {None, Stale}, complete : BOOLEAN, query : BOOLEAN]

\* The values for "nothing" are none of the others.
ASSUME NothingAssumption ==
    /\ None \notin Workers \cup Roles /\ None \notin RequestType
    /\ Stale \notin Roles /\ Stale # None

-----------------------------------------------------------------------------
(* Decisions that read nothing shared. *)

Unsafe(method) == method \notin {"GET", "HEAD", "OPTIONS"}

\* Mutant: a request without Origin is not looked at further.
SameOriginLax(r) ==
    \/ ~Unsafe(r.method)
    \/ r.headers.host = "here" /\ r.headers.origin \in {"absent", "here"}

\* sameOriginRequest: Origin decides, then Referer, then Sec-Fetch-Site.
SameOrigin(r) ==
    \/ ~Unsafe(r.method)
    \/ IF r.headers.host = "absent" THEN ~config.requireSameOrigin
       ELSE /\ r.headers.host = "here"
            /\ CASE r.headers.origin # "absent" -> r.headers.origin = "here"
                 [] r.headers.origin = "absent" /\ r.headers.referer # "absent" -> r.headers.referer = "here"
                 [] OTHER -> IF r.headers.site # "absent" THEN r.headers.site \in {"same-origin", "none"}
                             ELSE ~config.requireSameOrigin

SelfService == {"session.self.read", "workspace.resources.read", "workspace.context.read", "ecosystem.semantic.read"}
ReferenceUse == {"reference.identity.read", "reference.echo.execute"}
Administration ==
    {"engineering.ecosystem.read", "engineering.plan.read", "engineering.operational-base.read",
     "engineering.integration.decide", "engineering.integration.execute", "participation.propose",
     "participation.read", "identity.users.manage", "maturity.evidence.read", "subsystem.manifest.read",
     "sister.governance.read", "sister.evidence.read", "sister.diagnostics.read"}

\* capabilitiesForRole: a role that is not known has none.
CapabilitiesForRole(role) ==
    CASE role = "admin"      -> SelfService \cup ReferenceUse \cup Administration
      [] role = "researcher" -> SelfService \cup ReferenceUse
      [] role = "user"       -> SelfService
      [] OTHER               -> {}

\* authorizeOrReject: the status of the refusal, or 200.
Authorize(actor, capability) ==
    CASE actor = None -> 401
      [] actor # None /\ capability = "undeclared" -> 403
      [] OTHER -> IF capability \in CapabilitiesForRole(actor) THEN 200 ELSE 403

\* The first section of handleClient whose condition the request meets.
SectionOf(r) ==
    CASE r.path = "/api/auth/bootstrap" /\ r.method = "GET" -> "bootstrap"
      [] r.path = "/api/auth/register" /\ r.method = "POST" -> "register"
      [] r.path = "/api/auth/login" /\ r.method = "POST"    -> "login"
      [] r.path = "/api/auth/logout" /\ r.method = "POST"   -> "logout"
      [] r.path = "/api/v1/participations" \/ (r.path \in ParticipationItems /\ r.method = "GET") -> "participation"
      [] r.path \in Decisions      -> "decision"
      [] r.path \in Executions     -> "execution"
      [] r.path \in ReferencePaths -> "reference"
      [] r.path \in {"/api/me", "/api/me/capabilities"} -> "me"
      [] r.path \in MaturityRoutes -> "maturity"
      [] r.path \in {"/api/admin/users"} \cup UserItems -> "users"
      [] r.path = "/api/v1/context-projection" /\ ~config.nexo -> "disabled"
      [] r.path \in Pages -> "page"
      [] OTHER -> "api"

\* The capability the general API declares for a path; it is empty for the others.
ApiCapability(path) ==
    CASE path = "/api/v1/context-projection" -> "workspace.context.read"
      [] path = "/api/v1/workspace"          -> "workspace.resources.read"
      [] path = "/api/v1/ecosystem/semantic" -> "ecosystem.semantic.read"
      [] path \in {"/api/systems", "/api/ecosystem"} -> "engineering.ecosystem.read"
      [] path = "/api/v1/engineering/operational-base/current" -> "engineering.operational-base.read"
      [] path \in PlanPaths                  -> "engineering.plan.read"
      [] path = "/api/contracts"             -> "sister.governance.read"
      [] path = "/api/evidence"              -> "sister.evidence.read"
      [] path = "/api/diagnostics"           -> "sister.diagnostics.read"
      [] path = "/api/integrations/sister-reference" -> "reference.identity.read"
      [] OTHER -> "undeclared"

-----------------------------------------------------------------------------
(* What a worker can do next. *)

Finish(w, answer) ==
    /\ h' = [h EXCEPT ![w] = [h[w] EXCEPT !.pc = "done", !.answer = answer, !.answers = @ + 1]]
    /\ UNCHANGED <<config, mutex>>

WaitFor(w, m, job) ==
    /\ h' = [h EXCEPT ![w] = [h[w] EXCEPT !.pc = "wait", !.want = m, !.job = job]]
    /\ UNCHANGED <<config, mutex>>

GoOn(w, job) ==
    /\ h' = [h EXCEPT ![w] = [h[w] EXCEPT !.pc = "upstream", !.job = job]]
    /\ UNCHANGED <<config, mutex>>

Section(w, name) == h[w].pc = "route" /\ SectionOf(h[w].request) = name

\* An exception nobody catches here: the pool's barrier logs it and closes the
\* connection.
Throw(w, exception) ==
    /\ h' = [h EXCEPT ![w] = [h[w] EXCEPT !.pc = "done", !.thrown = exception]]
    /\ UNCHANGED <<config, mutex>>

\* authorizeOrReject answers the refusal; what follows it is A.
Authorized(w, capability, A) ==
    LET status == Authorize(h[w].actor, capability)
    IN  IF status # 200 THEN Finish(w, Error(status)) ELSE A

-----------------------------------------------------------------------------
(* From the socket to the route. *)

\* readRequest fails: module RequestReader says when.
RefuseUnreadable(w) ==
    /\ h[w].pc = "received" /\ ~h[w].request.readable
    /\ Finish(w, Error(400))

Foreign(r) == config.requireSameOrigin /\ ~SameOrigin(r)

RefuseForeign(w) ==
    /\ h[w].pc = "received" /\ h[w].request.readable
    /\ Foreign(h[w].request)
    /\ Finish(w, Error(403))

Admitted(w, name) ==
    /\ h[w].pc = "received" /\ h[w].request.readable
    /\ ~Foreign(h[w].request)
    /\ SectionOf(h[w].request) = name

Bootstrap(w) ==
    /\ Admitted(w, "bootstrap")
    /\ IF config.httpBootstrap THEN WaitFor(w, "auth", "bootstrap")
       ELSE Finish(w, Discloses(200, "nothing", "no-store"))

Register(w) ==
    /\ Admitted(w, "register")
    /\ IF ~config.httpBootstrap THEN Finish(w, Error(403))
       ELSE IF ~h[w].request.complete THEN Finish(w, Error(400))
       ELSE WaitFor(w, "auth", "register")

\* The rate limiter refuses, admits, or throws for an address that is only
\* blanks and so has no identity.
Login(w) ==
    /\ Admitted(w, "login")
    /\ IF ~h[w].request.complete THEN Finish(w, Error(400))
       ELSE \/ Finish(w, Error(429))
            \/ WaitFor(w, "auth", "login")
            \/ Throw(w, "no_identity")

Logout(w) ==
    /\ Admitted(w, "logout")
    /\ WaitFor(w, "auth", "logout")

\* Every other section needs to know who sends the request.
Resolve(w) ==
    /\ \E name \in {"participation", "decision", "execution", "reference", "me", "maturity", "users",
                     "disabled", "page", "api"} : Admitted(w, name)
    /\ WaitFor(w, "auth", "resolve")

-----------------------------------------------------------------------------
(* The routes. *)

\* The id is what follows the prefix, which the collection's own path is too
\* short for: substr throws.
Participation(w) ==
    /\ Section(w, "participation")
    /\ LET r == h[w].request
           proposing == r.method = "POST" /\ r.path = "/api/v1/participations"
       IN  Authorized(w, IF proposing THEN "participation.propose" ELSE "participation.read",
               CASE proposing -> WaitFor(w, "db", "propose")
                 [] ~proposing /\ r.path = "/api/v1/participations" -> Throw(w, "out_of_range")
                 [] r.path = "/api/v1/participations/p" -> WaitFor(w, "db", "show")
                 [] OTHER -> Finish(w, Error(404)))

Decision(w) ==
    /\ Section(w, "decision")
    /\ IF h[w].request.method # "POST" THEN Finish(w, Error(405))
       ELSE Authorized(w, "engineering.integration.decide",
                IF h[w].request.path = "/api/v1/engineering/integrations/i/decision" THEN Finish(w, Error(404))
                ELSE IF ~h[w].request.complete THEN Finish(w, Error(400))
                ELSE WaitFor(w, "db", "decide"))

Execution(w) ==
    /\ Section(w, "execution")
    /\ IF h[w].request.method # "POST" THEN Finish(w, Error(405))
       ELSE Authorized(w, "engineering.integration.execute",
                IF ~config.reference THEN Finish(w, Error(503))
                ELSE IF h[w].request.path = "/api/v1/engineering/integrations/i/execute" THEN Finish(w, Error(404))
                ELSE IF ~h[w].request.complete THEN Finish(w, Error(400))
                ELSE WaitFor(w, "db", "approved"))

Reference(w) ==
    /\ Section(w, "reference")
    /\ LET r == h[w].request
           reads == r.method = "GET" /\ r.path \in ReferenceReads
           executes == r.method = "POST" /\ r.path \in ReferenceEchoes
       IN  IF ~config.reference THEN Finish(w, Error(404))
           ELSE IF r.path = "/integrations/reference"
           THEN Authorized(w, "reference.identity.read", Finish(w, Error(308)))
           ELSE IF ~reads /\ ~executes THEN Finish(w, Error(404))
           ELSE Authorized(w, IF reads THEN "reference.identity.read" ELSE "reference.echo.execute",
                    GoOn(w, IF reads THEN "read" ELSE "echo"))

Me(w) ==
    /\ Section(w, "me")
    /\ Authorized(w, "session.self.read", Finish(w, Discloses(200, "self", "no-store")))

Reads(method) == method \in {"GET", "HEAD"}

\* Mutant: only the method is looked at.
MaturityOpen(w) ==
    /\ Section(w, "maturity")
    /\ IF ~Reads(h[w].request.method) THEN Finish(w, Error(405))
       ELSE \/ Finish(w, Discloses(200, "maturity", "no-store"))
            \/ Finish(w, Error(404))
            \/ Finish(w, Error(503))

\* The documents are files: there, missing or invalid.
Maturity(w) ==
    /\ Section(w, "maturity")
    /\ IF ~Reads(h[w].request.method) THEN Finish(w, Error(405))
       ELSE Authorized(w, "maturity.evidence.read",
                \/ Finish(w, Discloses(200, "maturity", "no-store"))
                \/ Finish(w, Error(404))
                \/ Finish(w, Error(503)))

Users(w) ==
    /\ Section(w, "users")
    /\ LET r == h[w].request
           base == r.path = "/api/admin/users"
           item == r.path = "/api/admin/users/u"
       IN  Authorized(w, "identity.users.manage",
               CASE base /\ r.method = "GET" -> WaitFor(w, "auth", "list")
                 [] base /\ r.method = "POST" ->
                        IF r.complete THEN WaitFor(w, "auth", "create") ELSE Finish(w, Error(400))
                 [] item /\ r.method \in {"PUT", "PATCH"} ->
                        IF r.complete THEN WaitFor(w, "auth", "update") ELSE Finish(w, Error(400))
                 [] item /\ r.method = "DELETE" -> WaitFor(w, "auth", "delete")
                 [] OTHER -> Finish(w, Error(405)))

Disabled(w) ==
    /\ Section(w, "disabled")
    /\ Finish(w, Error(404))

\* What a path of the general API discloses and the mutex it is read under.
DataAt(path) ==
    CASE path = "/api/health"                -> "nothing"
      [] path = "/api/v1/workspace"          -> "workspace"
      [] path = "/api/v1/ecosystem/semantic" -> "semantic"
      [] path \in {"/api/systems", "/api/ecosystem"} -> "ecosystem"
      [] path = "/api/v1/engineering/operational-base/current" -> "base"
      [] path \in PlanPaths                  -> "plan"
      [] path = "/api/contracts"             -> "contracts"
      [] path = "/api/evidence"              -> "evidence"
      [] path = "/api/diagnostics"           -> "diagnostics"
      [] path = "/api/integrations/sister-reference" -> "reference"
      [] OTHER -> "nothing"

ReadUnder(path) ==
    CASE path \in {"/api/health", "/api/evidence", "/api/diagnostics"} -> "db"
      [] path \in {"/api/systems", "/api/ecosystem", "/api/v1/workspace"} -> "ecosystem"
      [] path = "/api/v1/ecosystem/semantic" -> "semantic"
      [] OTHER -> "nothing"

Api(w) ==
    /\ Section(w, "api")
    /\ LET r == h[w].request
           served == CASE r.path = "/api/v1/context-projection" ->
                            IF r.query THEN Finish(w, Error(400)) ELSE GoOn(w, "context")
                       [] ReadUnder(r.path) # "nothing" -> WaitFor(w, ReadUnder(r.path), "read")
                       [] OTHER -> \/ Finish(w, Discloses(200, DataAt(r.path), "no-store"))
                                   \/ r.path \in PlanPaths /\ Finish(w, Error(404))
       IN  IF ~Reads(r.method) THEN Finish(w, Error(405))
           ELSE IF r.path = "/api/health" THEN served
           ELSE Authorized(w, ApiCapability(r.path), served)

PageCapability(path) ==
    CASE path \in EngineeringPages -> "engineering.ecosystem.read"
      [] path = "/admin/users"     -> "identity.users.manage"
      [] path = "/admin/maturity"  -> "maturity.evidence.read"

\* resolveStaticPath: the interface that the file a path leads to belongs to.
PageAt(path) ==
    CASE path \in {"/admin/users", "/admin.html", "/admin.js"} -> "usersPage"
      [] path \in {"/admin/maturity", "/maturity/index.html", "/maturity/app.js"} -> "maturityPage"
      [] path \in EngineeringPages -> "engineeringPage"
      [] OTHER -> "nothing"

\* The page itself: a file under the web root, or none.
ServeFile(w) ==
    LET path == h[w].request.path
    IN  IF path \in {"/app.js", "/engineering/app.js", "/maturity/app.js"} /\ h[w].actor = None
        THEN Finish(w, Error(401))
        ELSE \/ Finish(w, Error(404))
             \/ Finish(w, Discloses(200, PageAt(path), IF path = "/other" THEN "public" ELSE "no-store"))

Page(w) ==
    /\ Section(w, "page")
    /\ LET r == h[w].request
       IN  IF ~Reads(r.method) THEN Finish(w, Error(405))
           ELSE IF r.path = "/login" /\ h[w].actor # None THEN Finish(w, Error(303))
           ELSE IF r.path \in EngineeringPages \cup AdminPages
           THEN Authorized(w, PageCapability(r.path), ServeFile(w))
           ELSE ServeFile(w)

\* What a load may hold: a worker that waits for m has a request for a view that is
\* read under it, and has been authorized for it.
MayWait(r, m) ==
    /\ r.readable /\ Reads(r.method) /\ ReadUnder(r.path) = m
    /\ r.session \in Roles /\ ApiCapability(r.path) \in CapabilitiesForRole(r.session)

ASSUME LoadsAssumption ==
    /\ ResponseLimit \in Nat
    /\ \A loads \in Loads : \A load \in loads :
          /\ load.config \in ConfigType
          /\ \A w \in Workers : load.requests[w] # None =>
                /\ load.requests[w] \in RequestType
                /\ load.waiting # "nothing" => MayWait(load.requests[w], load.waiting)

Route(w) ==
    \/ Participation(w) \/ Decision(w) \/ Execution(w) \/ Reference(w) \/ Me(w) \/ Maturity(w)
    \/ Users(w) \/ Disabled(w) \/ Api(w) \/ Page(w)

-----------------------------------------------------------------------------
(* Under a mutex, and at a subsystem. *)

Answers(answer, changed) == [then |-> "done", answer |-> answer, changed |-> changed]
Goes(pc) == [then |-> pc, answer |-> NoAnswer, changed |-> FALSE]

Refusals(statuses) == {Answers(Error(s), FALSE) : s \in statuses}

\* What may come of the call a job makes.  The calls that change accounts are
\* inside a try, so that a store that cannot save is a 500; logout and the
\* resolution of a session, which drops one that has expired, are not.
SessionOutcomes(job, r) ==
    CASE job = "bootstrap" -> {Answers(Discloses(200, "nothing", "no-store"), FALSE)}
      [] job = "register"  -> {Answers(Discloses(201, "session", "no-store"), TRUE)} \cup Refusals({409, 500})
      [] job = "login"     -> {Answers(Discloses(200, "session", "no-store"), TRUE)} \cup Refusals({401, 500})
      [] job = "logout"    -> {Answers(Discloses(204, "nothing", "no-store"), r.session # None)} \cup
                              (IF r.session = None THEN {} ELSE {Goes("throw")})
      [] job = "resolve"   -> {Goes("route")} \cup (IF r.session = Stale THEN {Goes("throw")} ELSE {})

GovernanceOutcomes(job, r) ==
    CASE job = "propose"   -> Refusals({400, 503}) \cup
                              (IF r.complete THEN {Answers(Discloses(201, "participation", "none"), TRUE)} ELSE {})
      [] job = "show"      -> {Answers(Discloses(200, "participation", "none"), FALSE)} \cup Refusals({404, 503})
      [] job = "decide"    -> {Answers(Discloses(200, "decision", "no-store"), TRUE)} \cup Refusals({409})
      [] job = "approved"  -> {Goes("upstream")} \cup Refusals({409})
      [] job = "record"    -> {Answers(Discloses(200, "execution", "no-store"), TRUE)} \cup Refusals({409})

AccountOutcomes(job) ==
    CASE job = "list"      -> {Answers(Discloses(200, "accounts", "no-store"), FALSE)}
      [] job = "create"    -> {Answers(Discloses(201, "accounts", "no-store"), TRUE)} \cup Refusals({400, 409, 500})
      [] job = "update"    -> {Answers(Discloses(200, "accounts", "no-store"), TRUE)} \cup Refusals({400, 404, 409, 500})
      [] job = "delete"    -> {Answers(Discloses(200, "nothing", "no-store"), TRUE)} \cup Refusals({400, 404, 500})

Outcomes(job, r) ==
    CASE job \in {"bootstrap", "register", "login", "logout", "resolve"} -> SessionOutcomes(job, r)
      [] job \in {"propose", "show", "decide", "approved", "record"} -> GovernanceOutcomes(job, r)
      [] job \in {"list", "create", "update", "delete"} -> AccountOutcomes(job)
      [] job = "read" -> {Answers(Discloses(200, DataAt(r.path),
                              IF r.path = "/api/health" THEN "no-cache" ELSE "no-store"), FALSE)}

Acquire(w) ==
    /\ h[w].pc = "wait" /\ mutex[h[w].want] = None
    /\ mutex' = [mutex EXCEPT ![h[w].want] = w]
    /\ h' = [h EXCEPT ![w].pc = "inside"]
    /\ UNCHANGED config

\* What a worker is after a job that came to outcome o.
After(w, o) ==
    [h[w] EXCEPT !.pc = IF o.then = "throw" THEN "done" ELSE o.then,
                 !.thrown = IF o.then = "throw" THEN "not_saved" ELSE "no",
                 !.actor = IF h[w].job = "resolve" /\ h[w].request.session # Stale THEN h[w].request.session ELSE @,
                 !.job = IF o.then = "upstream" THEN "execute" ELSE @,
                 !.answer = o.answer,
                 !.answers = IF o.then = "done" THEN @ + 1 ELSE @,
                 !.changed = @ \/ o.changed]

\* Mutant: the mutex is unlocked by the line after the call.
InsideByHand(w) ==
    /\ h[w].pc = "inside"
    /\ \E o \in Outcomes(h[w].job, h[w].request) :
          /\ h' = [h EXCEPT ![w] = After(w, o)]
          /\ mutex' = IF o.then = "throw" THEN mutex ELSE [mutex EXCEPT ![h[w].want] = None]
    /\ UNCHANGED config

\* The call, the answer, and the end of the lock_guard's scope.
Inside(w) ==
    /\ h[w].pc = "inside"
    /\ \E o \in Outcomes(h[w].job, h[w].request) : h' = [h EXCEPT ![w] = After(w, o)]
    /\ mutex' = [mutex EXCEPT ![h[w].want] = None]
    /\ UNCHANGED config

\* Mutant: a subsystem that cannot be reached is only logged.
UnavailableSilent(w) ==
    /\ h' = [h EXCEPT ![w].pc = "done"]
    /\ UNCHANGED <<config, mutex>>

\* No usable answer: an approved execution is recorded as failed, any other
\* request is told.
Unavailable(w) == IF h[w].job = "execute" THEN WaitFor(w, "db", "record") ELSE Finish(w, Error(502))

Exchange(w, pc, got, head) ==
    /\ h' = [h EXCEPT ![w] = [h[w] EXCEPT !.pc = pc, !.got = got, !.head = head]]
    /\ UNCHANGED <<config, mutex>>

\* connectLoopback, after the assertion was signed where one is sent; the
\* key, the socket or the subsystem may fail, or the connection time out.
Connect(w) ==
    /\ h[w].pc = "upstream"
    /\ Exchange(w, "sending", 0, "none") \/ Unavailable(w)

Forward(w) ==
    /\ h[w].pc = "sending"
    /\ Exchange(w, "receiving", 0, "none") \/ Unavailable(w)

\* How the start of an answer may look after one more read: HTTP/1. with or
\* without its blank line, or something else.
Longer(head) ==
    CASE head \in {"none", "partial"} -> {"partial", "whole"} \cup (IF head = "none" THEN {"foreign"} ELSE {})
      [] OTHER -> {head}

\* One recv: bytes, a timeout or an error, or more bytes than are kept.
Receive(w) ==
    /\ h[w].pc = "receiving"
    /\ \/ \E head \in Longer(h[w].head) :
             IF h[w].got < ResponseLimit THEN Exchange(w, "receiving", h[w].got + 1, head) ELSE Unavailable(w)
       \/ Unavailable(w)

\* The subsystem has closed, its answer whole or cut short.  A proxied answer
\* is passed on as it is when its header is whole; the signed read looks only
\* for a status of 200.  An execution is confirmed by a whole body.
AnswerEnds(w) ==
    /\ h[w].pc = "receiving"
    /\ LET whole == h[w].head = "whole"
       IN  CASE h[w].job = "execute" ->
                  \E confirmed \in {FALSE, whole} :
                     /\ h' = [h EXCEPT ![w] = [h[w] EXCEPT !.pc = "wait", !.want = "db", !.job = "record",
                                                        !.confirmed = confirmed]]
                     /\ UNCHANGED <<config, mutex>>
             [] h[w].job = "context" ->
                  \/ h[w].head # "none" /\ Finish(w, Discloses(200, "context", "no-store"))
                  \/ Unavailable(w)
             [] h[w].job \in {"read", "echo"} ->
                  IF ~whole THEN Unavailable(w)
                  ELSE /\ h' = [h EXCEPT ![w] = [h[w] EXCEPT !.pc = "done", !.answers = @ + 1,
                                  !.answer = Discloses(200, "reference", "upstream"),
                                  !.changed = h[w].job = "echo"]]
                       /\ UNCHANGED <<config, mutex>>

Upstream(w) == Connect(w) \/ Forward(w) \/ Receive(w) \/ AnswerEnds(w)

Work(w) ==
    \/ RefuseUnreadable(w) \/ RefuseForeign(w) \/ Bootstrap(w) \/ Register(w) \/ Login(w) \/ Logout(w)
    \/ Resolve(w) \/ Route(w) \/ Acquire(w) \/ Inside(w) \/ Upstream(w)

HandlerInit == \E loads \in Loads : \E load \in loads : InitWith(load)

HandlerSpec == HandlerInit /\ [][\E w \in Workers : Work(w)]_handlerVars

-----------------------------------------------------------------------------
(* Properties. *)

\* What an answer discloses, and the capabilities of which one allows to be told.
Needs ==
    [self |-> {"session.self.read"}, workspace |-> {"workspace.resources.read"}, context |-> {"workspace.context.read"},
     semantic |-> {"ecosystem.semantic.read"}, ecosystem |-> {"engineering.ecosystem.read"},
     base |-> {"engineering.operational-base.read"}, plan |-> {"engineering.plan.read"},
     contracts |-> {"sister.governance.read"}, evidence |-> {"sister.evidence.read"},
     diagnostics |-> {"sister.diagnostics.read"}, maturity |-> {"maturity.evidence.read"},
     accounts |-> {"identity.users.manage"}, participation |-> {"participation.propose", "participation.read"},
     decision |-> {"engineering.integration.decide"}, execution |-> {"engineering.integration.execute"},
     reference |-> ReferenceUse, engineeringPage |-> {"engineering.ecosystem.read"},
     usersPage |-> {"identity.users.manage"}, maturityPage |-> {"maturity.evidence.read"}]

Jobs == {"nothing", "bootstrap", "register", "login", "logout", "resolve", "propose", "show", "decide", "approved",
         "record", "list", "create", "update", "delete", "read", "echo", "execute", "context"}

AnswerType ==
    [status : Nat, data : DOMAIN Needs \cup {"nothing", "session"},
     cache : {"none", "no-store", "no-cache", "public", "upstream"}]

Pcs == {"idle", "received", "route", "wait", "inside", "upstream", "sending", "receiving", "done"}
Heads == {"none", "partial", "whole", "foreign"}

Handlers ==
    [pc : Pcs,
     request : RequestType \cup {None}, actor : Roles \cup {None}, want : Mutexes \cup {"nothing"}, job : Jobs,
     answer : AnswerType, answers : 0..1, thrown : {"no", "not_saved", "no_identity", "out_of_range"},
     changed : BOOLEAN, got : 0..ResponseLimit, head : Heads, confirmed : BOOLEAN]

HandlerTypeOK ==
    /\ config \in ConfigType
    /\ mutex \in [Mutexes -> Workers \cup {None}]
    /\ h \in [Workers -> Handlers]

\* All state has its type, and a handler that ends has answered once; it ends without an answer only
\* when the identity store could not save, for a login without an identity, or
\* for the participations' own path with another method than POST.  What it
\* relays from a subsystem, and what it confirms an execution with, came with
\* a whole header, however the subsystem cut, stalled or prolonged it.
AnsweredOnce ==
    /\ HandlerTypeOK
    /\ \A w \in Workers : h[w].pc = "done" =>
          CASE h[w].thrown = "no" -> h[w].answers = 1
            [] h[w].thrown = "not_saved" -> h[w].answers = 0 /\ h[w].request.session # None
            [] h[w].thrown = "no_identity" ->
                  h[w].answers = 0 /\ h[w].request.path = "/api/auth/login" /\ h[w].request.complete
            [] h[w].thrown = "out_of_range" ->
                  /\ h[w].answers = 0
                  /\ h[w].request.path = "/api/v1/participations" /\ h[w].request.method # "POST"
    /\ \A w \in Workers : h[w].answer.cache = "upstream" \/ h[w].confirmed => h[w].head = "whole"

\* An interface asked for by the name of its file instead of its route: the comparison in
\* front of the administrative pages (main.cpp:2663) does not match, and resolveStaticPath
\* serves the file to anybody, /maturity/app.js to any session.
ByFileName(r, data) == r.path \in PageFiles /\ data \in {"usersPage", "maturityPage"}

\* What is governed is disclosed to who holds the capability for it, whatever path,
\* method and configuration it was asked for with (docs/architecture/
\* SISTERD_SECURITY_BASELINE.md: routes fail closed), and is not kept by a cache.  The
\* administrative pages are behind their capability by their routes only: by the names of
\* their files these pages, but none of the accounts and documents they are to show, go
\* to who holds none.  Participation records and the subsystem's own answers carry no
\* header of sisterd: they are the exceptions to the second.
DisclosedUnderCapability ==
    \A w \in Workers : h[w].answer.data \in DOMAIN Needs =>
        /\ \/ h[w].actor # None /\ CapabilitiesForRole(h[w].actor) \cap Needs[h[w].answer.data] # {}
           \/ ByFileName(h[w].request, h[w].answer.data)
        /\ h[w].answer.data \notin {"participation", "reference"} => h[w].answer.cache = "no-store"

\* When the same origin is required, nothing is changed by a request that
\* shows another, nor by one of the methods that are not looked at.
ChangesAreSameOrigin ==
    \A w \in Workers : h[w].changed /\ config.requireSameOrigin =>
        /\ Unsafe(h[w].request.method)
        /\ LET f == h[w].request.headers
           IN  /\ f.host = "here"
               /\ f.origin \in {"absent", "here"}
               /\ f.origin = "absent" => f.referer \in {"absent", "here"}
               /\ f.origin = "absent" /\ f.referer = "absent" => f.site \in {"same-origin", "none"}

\* A call of libpq, made under authMutex or dbMutex.  The connections set no timeout:
\* nothing in the code makes such a call return.
InDatabase(w) == h[w].pc = "inside" /\ h[w].want \in {"auth", "db"}

\* In the end every request is answered or given up, except one whose call of libpq does
\* not return and those that wait for the mutex it holds.  No worker waits for ever for
\* any other reason: four mutexes taken in different orders, or one that an exception
\* left locked.
EveryRequestEnds ==
    <>[](\A w \in Workers :
           \/ h[w].pc \in {"idle", "done"} \/ InDatabase(w)
           \/ h[w].pc = "wait" /\ \E v \in Workers : mutex[h[w].want] = v /\ InDatabase(v))
=============================================================================
