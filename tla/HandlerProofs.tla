---------------------------- MODULE HandlerProofs ----------------------------
(***************************************************************************)
(* Theorems about the handlers of requests (ClientHandler), for any number *)
(* of workers, any requests and configurations and any limit of an answer. *)
(*                                                                         *)
(* The invariant is about one worker at a time (Sound): what it is doing   *)
(* was asked for by a method and path that lead there, by somebody who     *)
(* holds the capability, from an origin that is allowed.                   *)
(***************************************************************************)
EXTENDS ClientHandler, TLAPS

Holds(actor, capability) == actor # None /\ capability \in CapabilitiesForRole(actor)

\* Until it is done a worker has told nothing and changed nothing.
Unanswered(s) ==
    s.pc # "done" => /\ s.answers = 0 /\ s.thrown = "no" /\ s.answer = NoAnswer /\ s.changed = FALSE

\* AnsweredOnce of one worker.
EndsProperly(s) ==
    s.pc = "done" =>
        /\ s.thrown = "no" => s.answers = 1
        /\ s.thrown # "no" => s.answers = 0
        /\ s.thrown = "not_saved" => s.request.session # None
        /\ s.thrown = "no_identity" => s.request.path = "/api/auth/login" /\ s.request.complete
        /\ s.thrown = "out_of_range" => s.request.path = "/api/v1/participations" /\ s.request.method # "POST"

RelaysWhole(s) ==
    /\ s.answer.cache = "upstream" \/ s.confirmed => s.head = "whole"
    /\ s.confirmed => s.job = "record"

\* DisclosedUnderCapability of one worker.
MayTell(actor, answer) ==
    answer.data \in DOMAIN Needs =>
        /\ actor # None
        /\ CapabilitiesForRole(actor) \cap Needs[answer.data] # {}
        /\ answer.data \notin {"participation", "reference"} => answer.cache = "no-store"

\* ... and the exception, for the file of a page.
ByName(r, answer) ==
    /\ answer \in AnswerType /\ ByFileName(r, answer.data) /\ answer.cache = "no-store"

\* The jobs done under a mutex and those done at a subsystem.
LockJobs == {"bootstrap", "register", "login", "logout", "resolve", "propose", "show", "decide", "approved",
             "record", "list", "create", "update", "delete", "read"}
RemoteJobs == {"read", "echo", "execute", "context"}
Remote == {"upstream", "sending", "receiving"}

Placed(s) ==
    /\ s.pc \in {"idle", "received"} => s.job = "nothing"
    /\ s.pc = "route" => s.job = "resolve"
    /\ s.pc \in {"wait", "inside"} => s.job \in LockJobs /\ s.want \in Mutexes
    /\ s.pc \in Remote => s.job \in RemoteJobs

\* The capability a job was authorized with.
Authority ==
    [propose |-> "participation.propose", show |-> "participation.read",
     decide |-> "engineering.integration.decide",
     approved |-> "engineering.integration.execute", execute |-> "engineering.integration.execute",
     record |-> "engineering.integration.execute", list |-> "identity.users.manage",
     create |-> "identity.users.manage", update |-> "identity.users.manage", delete |-> "identity.users.manage",
     context |-> "workspace.context.read", echo |-> "reference.echo.execute"]

\* The jobs that change something, and those only a POST leads to.
Changing == {"register", "login", "logout", "propose", "decide", "record", "create", "update", "delete", "echo"}
Posting == (Changing \cup {"approved", "execute"}) \ {"update", "delete"}

\* Job may be done for request r of this actor, at this place.
Fits(r, actor, job, pc) ==
    /\ job \in Posting => r.method = "POST"
    /\ job = "update" => r.method \in {"PUT", "PATCH"}
    /\ job = "delete" => r.method = "DELETE"
    /\ job \in DOMAIN Authority => Holds(actor, Authority[job])
    /\ job = "read" /\ pc \in Remote => Holds(actor, "reference.identity.read")
    /\ job = "read" /\ pc \in {"wait", "inside"} /\ DataAt(r.path) \in DOMAIN Needs =>
          Holds(actor, ApiCapability(r.path))

Sound(s) ==
    /\ s.pc # "idle" => s.request \in RequestType
    /\ Unanswered(s)
    /\ EndsProperly(s)
    /\ RelaysWhole(s)
    /\ MayTell(s.actor, s.answer) \/ ByName(s.request, s.answer)
    /\ Placed(s)
    /\ Fits(s.request, s.actor, s.job, s.pc)
    /\ s.changed => s.job \in Changing

SoundHandlers == {s \in Handlers : Sound(s)}

\* The requests that pass the test of their origin: no other is worked on.
Local == {r \in RequestType : ~Foreign(r)}
WorksLocally == \A w \in Workers : h[w].job # "nothing" => h[w].request \in Local

\* A mutex is held by the worker that is inside its section.
Excluded == \A m \in Mutexes : \A w \in Workers : mutex[m] = w <=> h[w].pc = "inside" /\ h[w].want = m

HandlerInv ==
    /\ config \in ConfigType
    /\ mutex \in [Mutexes -> Workers \cup {None}]
    /\ h \in [Workers -> SoundHandlers]
    /\ Excluded /\ WorksLocally

-----------------------------------------------------------------------------
\* The configuration does not change.
LEMMA LocalStays == config' = config => Local' = Local
  BY Zenon DEF Local, Foreign, SameOrigin

\* The step of a worker outside of the sections leaves the others alone.
LEMMA WorkerStep ==
  ASSUME HandlerInv, NEW w \in Workers, NEW new \in SoundHandlers,
         h' = [h EXCEPT ![w] = new], config' = config, mutex' = mutex,
         h[w].pc # "inside", new.pc # "inside", new.job # "nothing" => new.request \in Local
  PROVE  HandlerInv'
  <1>1. h \in [Workers -> SoundHandlers]
    BY Zenon DEF HandlerInv
  <1>2. h' \in [Workers -> SoundHandlers] /\ h'[w] = new /\ \A v \in Workers \ {w} : h'[v] = h[v]
    BY <1>1, Zenon
  <1>3. Excluded'
    <2>1. ASSUME NEW m \in Mutexes, NEW v \in Workers
          PROVE  mutex'[m] = v <=> h'[v].pc = "inside" /\ h'[v].want = m
      <3>1. mutex[m] = v <=> h[v].pc = "inside" /\ h[v].want = m
        BY Zenon DEF HandlerInv, Excluded
      <3>2. CASE v = w
        BY <1>2, <3>1, <3>2, Zenon
      <3>3. CASE v # w
        BY <1>2, <3>1, <3>3, Zenon
      <3> QED BY <3>2, <3>3, Zenon
    <2> QED BY <2>1, Zenon DEF Excluded
  <1>4. WorksLocally'
    BY <1>2, LocalStays, Zenon DEF HandlerInv, WorksLocally
  <1> QED BY <1>2, <1>3, <1>4, Zenon DEF HandlerInv

-----------------------------------------------------------------------------
(* The ways a step leaves its worker. *)

\* The constant answers.
LEMMA Constants ==
  /\ NoAnswer \in AnswerType /\ NoAnswer.cache = "none" /\ NoAnswer.data \notin DOMAIN Needs
  /\ \A status \in Nat : /\ Error(status) \in AnswerType
                          /\ Error(status).cache = "no-store" /\ Error(status).data \notin DOMAIN Needs
  BY Zenon DEF NoAnswer, AnswerType, Error, Needs

\* An answer that a worker with this actor may give itself.
Proper(actor, answer) == answer \in AnswerType /\ MayTell(actor, answer) /\ answer.cache # "upstream"

LEMMA Refusal ==
  ASSUME NEW actor, NEW status \in Nat
  PROVE  Proper(actor, Error(status))
  BY Constants, Zenon DEF Proper, MayTell

LEMMA AtWorker ==
  ASSUME HandlerInv, NEW w \in Workers
  PROVE  h[w] \in Handlers /\ Sound(h[w])
  <1>1. h[w] \in SoundHandlers
    BY Zenon DEF HandlerInv
  <1> QED BY <1>1, Zenon DEF SoundHandlers

\* A step by which a worker is done.
LEMMA Ends ==
  ASSUME HandlerInv, NEW w \in Workers, NEW new \in Handlers, h' = [h EXCEPT ![w] = new], UNCHANGED <<config, mutex>>,
         h[w].pc \notin {"idle", "inside", "done"}, new.pc = "done",
         new.request = h[w].request, new.actor = h[w].actor, new.job = h[w].job,
         EndsProperly(new), RelaysWhole(new), MayTell(new.actor, new.answer) \/ ByName(new.request, new.answer),
         new.changed => new.job \in Changing
  PROVE  HandlerInv'
  <1>1. Sound(h[w])
    BY AtWorker, Zenon
  <1>2. Unanswered(new) /\ Placed(new)
    BY Zenon DEF Unanswered, Placed, Remote
  <1>3. Fits(new.request, new.actor, new.job, new.pc)
    BY <1>1, Zenon DEF Sound, Fits, Remote
  <1>4. new.request \in RequestType
    BY <1>1, Zenon DEF Sound
  <1>5. Sound(new)
    BY <1>2, <1>3, <1>4, Zenon DEF Sound
  <1>6. new.job # "nothing" => new.request \in Local
    BY Zenon DEF HandlerInv, WorksLocally
  <1> QED BY <1>5, <1>6, WorkerStep, Zenon DEF SoundHandlers

\* A step by which a worker goes on.
LEMMA Moves ==
  ASSUME HandlerInv, NEW w \in Workers, NEW new \in Handlers, h' = [h EXCEPT ![w] = new], UNCHANGED <<config, mutex>>,
         h[w].pc \notin {"idle", "inside", "done"}, new.pc \in {"wait"} \cup Remote,
         new.request = h[w].request, new.actor = h[w].actor, new.answer = h[w].answer, new.answers = h[w].answers,
         new.thrown = h[w].thrown, new.changed = h[w].changed,
         new.confirmed => new.head = "whole" /\ new.job = "record",
         Placed(new), Fits(new.request, new.actor, new.job, new.pc), new.request \in Local
  PROVE  HandlerInv'
  <1>1. Sound(h[w])
    BY AtWorker, Zenon
  <1>2. /\ new.pc # "done" /\ new.pc # "inside"
        /\ new.answers = 0 /\ new.thrown = "no" /\ new.answer = NoAnswer /\ new.changed = FALSE
    BY <1>1, Zenon DEF Sound, Unanswered, Remote
  <1>3. Unanswered(new) /\ EndsProperly(new)
    BY <1>2, Zenon DEF Unanswered, EndsProperly
  <1>4. RelaysWhole(new) /\ MayTell(new.actor, new.answer)
    BY <1>2, Constants, Zenon DEF RelaysWhole, MayTell
  <1>5. Sound(new)
    BY <1>2, <1>3, <1>4, Zenon DEF Sound, Local
  <1> QED BY <1>2, <1>5, WorkerStep, Zenon DEF SoundHandlers

LEMMA FinishKeeps ==
  ASSUME HandlerInv, NEW w \in Workers, NEW answer, Proper(h[w].actor, answer) \/ ByName(h[w].request, answer),
         h[w].pc \notin {"idle", "inside", "done"}, Finish(w, answer)
  PROVE  HandlerInv'
  <1> DEFINE new == [h[w] EXCEPT !.pc = "done", !.answer = answer, !.answers = @ + 1]
  <1>1. h[w] \in Handlers /\ Sound(h[w])
    BY AtWorker, Zenon
  <1>2. h[w].answers = 0 /\ h[w].thrown = "no" /\ h[w].changed = FALSE
    BY <1>1, Zenon DEF Sound, Unanswered
  <1>3. h' = [h EXCEPT ![w] = new] /\ UNCHANGED <<config, mutex>>
    BY Zenon DEF Finish
  <1>4. new \in Handlers
    <2>1. ASSUME NEW n \in 0..1, NEW pc \in Pcs
          PROVE  [h[w] EXCEPT !.pc = pc, !.answer = answer, !.answers = n] \in Handlers
      BY <1>1, Zenon DEF Handlers, Proper, ByName
    <2>2. "done" \in Pcs /\ 1 \in 0..1 /\ h[w].answers + 1 = 1
      BY <1>2 DEF Pcs
    <2> QED BY <2>1, <2>2, Zenon
  <1>5. /\ new.pc = "done" /\ new.answer = answer /\ new.answers = 1
        /\ new.request = h[w].request /\ new.actor = h[w].actor /\ new.job = h[w].job /\ new.thrown = h[w].thrown
        /\ new.changed = h[w].changed /\ new.head = h[w].head /\ new.confirmed = h[w].confirmed
    BY <1>1, <1>2 DEF Handlers
  <1> HIDE DEF new
  <1>6. EndsProperly(new)
    BY <1>2, <1>5, Zenon DEF EndsProperly
  <1>7. RelaysWhole(new) /\ (MayTell(new.actor, new.answer) \/ ByName(new.request, new.answer))
    BY <1>1, <1>5, Zenon DEF Sound, RelaysWhole, Proper, ByName
  <1> QED BY <1>2, <1>3, <1>4, <1>5, <1>6, <1>7, Ends, Zenon

\* A refusal discloses nothing.
LEMMA RefuseKeeps ==
  ASSUME HandlerInv, NEW w \in Workers, NEW status \in Nat, h[w].pc \in {"received", "route"} \cup Remote,
         Finish(w, Error(status))
  PROVE  HandlerInv'
  <1>1. Proper(h[w].actor, Error(status))
    BY Refusal, Zenon
  <1>2. h[w].pc \notin {"idle", "inside", "done"}
    BY Zenon DEF Remote
  <1> QED BY <1>1, <1>2, FinishKeeps, Zenon

LEMMA ThrowKeeps ==
  ASSUME HandlerInv, NEW w \in Workers, h[w].pc \in {"received", "route"},
         NEW exception \in {"no_identity", "out_of_range"}, Throw(w, exception),
         exception = "no_identity" => h[w].request.path = "/api/auth/login" /\ h[w].request.complete,
         exception = "out_of_range" => h[w].request.path = "/api/v1/participations" /\ h[w].request.method # "POST"
  PROVE  HandlerInv'
  <1> DEFINE new == [h[w] EXCEPT !.pc = "done", !.thrown = exception]
  <1>1. h[w] \in Handlers /\ Sound(h[w])
    BY AtWorker, Zenon
  <1>2. h[w].answers = 0 /\ h[w].changed = FALSE /\ h[w].answer = NoAnswer
    BY <1>1, Zenon DEF Sound, Unanswered
  <1>3. h' = [h EXCEPT ![w] = new] /\ UNCHANGED <<config, mutex>>
    BY Zenon DEF Throw
  <1>4. new \in Handlers
    BY <1>1, Zenon DEF Handlers, Pcs
  <1>5. /\ new.pc = "done" /\ new.answer = NoAnswer /\ new.answers = 0 /\ new.thrown = exception
        /\ new.request = h[w].request /\ new.actor = h[w].actor /\ new.job = h[w].job
        /\ new.changed = FALSE /\ new.head = h[w].head /\ new.confirmed = h[w].confirmed
    BY <1>1, <1>2, Zenon DEF Handlers
  <1> HIDE DEF new
  <1>6. EndsProperly(new)
    BY <1>5, Zenon DEF EndsProperly
  <1>7. RelaysWhole(new) /\ MayTell(new.actor, new.answer)
    BY <1>1, <1>5, Constants, Zenon DEF Sound, RelaysWhole, MayTell
  <1> QED BY <1>3, <1>4, <1>5, <1>6, <1>7, Ends, Zenon

LEMMA WaitForKeeps ==
  ASSUME HandlerInv, NEW w \in Workers, NEW m \in Mutexes, NEW job \in LockJobs,
         h[w].pc \in {"received", "route"} \cup Remote, h[w].request \in Local,
         Fits(h[w].request, h[w].actor, job, "wait"), WaitFor(w, m, job)
  PROVE  HandlerInv'
  <1> DEFINE new == [h[w] EXCEPT !.pc = "wait", !.want = m, !.job = job]
  <1>1. h[w] \in Handlers /\ Sound(h[w])
    BY AtWorker, Zenon
  <1>2. ~h[w].confirmed
    BY <1>1, Zenon DEF Sound, RelaysWhole, Placed, RemoteJobs
  <1>3. h' = [h EXCEPT ![w] = new] /\ UNCHANGED <<config, mutex>>
    BY Zenon DEF WaitFor
  <1>4. new \in Handlers
    <2>1. ASSUME NEW pc \in Pcs, NEW k \in Jobs PROVE [h[w] EXCEPT !.pc = pc, !.want = m, !.job = k] \in Handlers
      BY <1>1, Zenon DEF Handlers
    <2>2. "wait" \in Pcs /\ job \in Jobs
      BY Zenon DEF Pcs, Jobs, LockJobs
    <2> QED BY <2>1, <2>2, Zenon
  <1>5. /\ new.pc = "wait" /\ new.want = m /\ new.job = job
        /\ new.request = h[w].request /\ new.actor = h[w].actor /\ new.answer = h[w].answer
        /\ new.answers = h[w].answers /\ new.thrown = h[w].thrown /\ new.changed = h[w].changed
        /\ new.confirmed = h[w].confirmed
    BY <1>1, Zenon DEF Handlers
  <1> HIDE DEF new
  <1>6. Placed(new)
    BY <1>5, Zenon DEF Placed, Remote
  <1> QED BY <1>2, <1>3, <1>4, <1>5, <1>6, Moves, Zenon DEF Remote

LEMMA GoOnKeeps ==
  ASSUME HandlerInv, NEW w \in Workers, NEW job \in {"read", "echo", "context"}, h[w].pc = "route",
         h[w].request \in Local, Fits(h[w].request, h[w].actor, job, "upstream"), GoOn(w, job)
  PROVE  HandlerInv'
  <1> DEFINE new == [h[w] EXCEPT !.pc = "upstream", !.job = job]
  <1>1. h[w] \in Handlers /\ Sound(h[w])
    BY AtWorker, Zenon
  <1>2. ~h[w].confirmed
    BY <1>1, Zenon DEF Sound, RelaysWhole, Placed
  <1>3. h' = [h EXCEPT ![w] = new] /\ UNCHANGED <<config, mutex>>
    BY Zenon DEF GoOn
  <1>4. new \in Handlers
    <2>1. job \in Jobs
      BY Zenon DEF Jobs
    <2> QED BY <1>1, <2>1, Zenon DEF Handlers, Pcs
  <1>5. /\ new.pc = "upstream" /\ new.job = job
        /\ new.request = h[w].request /\ new.actor = h[w].actor /\ new.answer = h[w].answer
        /\ new.answers = h[w].answers /\ new.thrown = h[w].thrown /\ new.changed = h[w].changed
        /\ new.confirmed = h[w].confirmed
    BY <1>1, Zenon DEF Handlers
  <1> HIDE DEF new
  <1>6. Placed(new)
    BY <1>5, Zenon DEF Placed, Remote, RemoteJobs
  <1> QED BY <1>2, <1>3, <1>4, <1>5, <1>6, Moves, Zenon DEF Remote

LEMMA ExchangeKeeps ==
  ASSUME HandlerInv, NEW w \in Workers, h[w].pc \in Remote, NEW pc \in Remote,
         NEW got \in 0..ResponseLimit, NEW head \in Heads, Exchange(w, pc, got, head)
  PROVE  HandlerInv'
  <1> DEFINE new == [h[w] EXCEPT !.pc = pc, !.got = got, !.head = head]
  <1>1. h[w] \in Handlers /\ Sound(h[w])
    BY AtWorker, Zenon
  <1>2. ~h[w].confirmed /\ h[w].job \in RemoteJobs
    BY <1>1, Zenon DEF Sound, RelaysWhole, Placed, RemoteJobs
  <1>3. h' = [h EXCEPT ![w] = new] /\ UNCHANGED <<config, mutex>>
    BY Zenon DEF Exchange
  <1>4. new \in Handlers
    <2>1. pc \in Pcs
      BY Zenon DEF Pcs, Remote
    <2> QED BY <1>1, <2>1, Zenon DEF Handlers
  <1>5. /\ new.pc = pc /\ new.job = h[w].job
        /\ new.request = h[w].request /\ new.actor = h[w].actor /\ new.answer = h[w].answer
        /\ new.answers = h[w].answers /\ new.thrown = h[w].thrown /\ new.changed = h[w].changed
        /\ new.confirmed = h[w].confirmed
    BY <1>1, Zenon DEF Handlers
  <1> HIDE DEF new
  <1>6. Placed(new)
    BY <1>2, <1>5, Zenon DEF Placed, Remote
  <1>7. Fits(new.request, new.actor, new.job, new.pc)
    BY <1>1, <1>5, Zenon DEF Sound, Fits, Remote
  <1>8. new.request \in Local
    BY <1>2, <1>5, Zenon DEF HandlerInv, WorksLocally, RemoteJobs
  <1> QED BY <1>2, <1>3, <1>4, <1>5, <1>6, <1>7, <1>8, Moves, Zenon DEF Remote

LEMMA UnavailableKeeps ==
  ASSUME HandlerInv, NEW w \in Workers, h[w].pc \in Remote, Unavailable(w)
  PROVE  HandlerInv'
  <1>1. Sound(h[w]) /\ h[w].job \in RemoteJobs
    BY AtWorker, Zenon DEF Sound, Placed
  <1>2. CASE h[w].job = "execute"
    <2>1. WaitFor(w, "db", "record")
      BY <1>2, Zenon DEF Unavailable
    <2>2. "db" \in Mutexes /\ "record" \in LockJobs
      BY Zenon DEF Mutexes, LockJobs
    <2>3. h[w].request \in Local
      BY <1>2, Zenon DEF HandlerInv, WorksLocally
    <2>4. Fits(h[w].request, h[w].actor, "record", "wait")
      <3>1. h[w].request.method = "POST"
        BY <1>1, <1>2, Zenon DEF Sound, Fits, Posting, Changing
      <3>2. Holds(h[w].actor, Authority["execute"])
        BY <1>1, <1>2, Zenon DEF Sound, Fits, Authority
      <3>3. Authority["record"] = Authority["execute"]
        BY Zenon DEF Authority
      <3> QED BY <3>1, <3>2, <3>3, Zenon DEF Fits
    <2> QED BY <2>1, <2>2, <2>3, <2>4, WaitForKeeps, Zenon
  <1>3. CASE h[w].job # "execute"
    <2>1. Finish(w, Error(502)) /\ 502 \in Nat
      BY <1>3 DEF Unavailable
    <2> QED BY <2>1, RefuseKeeps
  <1> QED BY <1>2, <1>3, Zenon

-----------------------------------------------------------------------------
(* From the socket to the route. *)

LEMMA Accounts ==
  ASSUME NEW r \in RequestType, SectionOf(r) \in {"register", "login", "logout"}
  PROVE  r.method = "POST" /\ (SectionOf(r) = "login" => r.path = "/api/auth/login")
  BY Zenon DEF SectionOf

LEMMA AtDoor ==
  ASSUME HandlerInv, NEW w \in Workers, NEW name, Admitted(w, name)
  PROVE  h[w].pc = "received" /\ h[w].request \in Local /\ SectionOf(h[w].request) = name
  <1>1. Sound(h[w])
    BY AtWorker, Zenon
  <1> QED BY <1>1, Zenon DEF Admitted, Sound, Local

LEMMA UnreadableKeeps ==
  ASSUME HandlerInv, NEW w \in Workers, RefuseUnreadable(w) \/ RefuseForeign(w)
  PROVE  HandlerInv'
  <1>1. 400 \in Nat /\ 403 \in Nat
    OBVIOUS
  <1> QED BY <1>1, RefuseKeeps DEF RefuseUnreadable, RefuseForeign

\* What the sections before the route may wait for.
LEMMA AccountJobs ==
  ASSUME NEW r \in RequestType, NEW actor, NEW job \in {"bootstrap", "register", "login", "logout", "resolve"},
         job \in {"register", "login", "logout"} => r.method = "POST"
  PROVE  job \in LockJobs /\ "auth" \in Mutexes /\ Fits(r, actor, job, "wait")
  BY Zenon DEF LockJobs, Mutexes, Fits, Posting, Changing, Authority, Remote

LEMMA DoorKeeps ==
  ASSUME HandlerInv, NEW w \in Workers, Bootstrap(w) \/ Register(w) \/ Login(w) \/ Logout(w) \/ Resolve(w)
  PROVE  HandlerInv'
  <1>n. 400 \in Nat /\ 403 \in Nat /\ 429 \in Nat
    OBVIOUS
  <1>1. CASE Bootstrap(w)
    <2>1. h[w].pc = "received" /\ h[w].request \in Local
      BY <1>1, AtDoor, Zenon DEF Bootstrap
    <2>2. CASE WaitFor(w, "auth", "bootstrap")
      BY <2>1, <2>2, AccountJobs, WaitForKeeps, Zenon DEF Local
    <2>3. CASE Finish(w, Discloses(200, "nothing", "no-store"))
      <3>1. Discloses(200, "nothing", "no-store") = Error(200) /\ 200 \in Nat
        BY DEF Discloses, Error
      <3> QED BY <2>1, <2>3, <3>1, RefuseKeeps, Zenon
    <2> QED BY <1>1, <2>2, <2>3, Zenon DEF Bootstrap
  <1>2. CASE Register(w)
    <2>1. h[w].pc = "received" /\ h[w].request \in Local /\ h[w].request.method = "POST"
      BY <1>2, AtDoor, Accounts, Zenon DEF Register, Local
    <2>2. CASE WaitFor(w, "auth", "register")
      BY <2>1, <2>2, AccountJobs, WaitForKeeps, Zenon DEF Local
    <2>3. CASE Finish(w, Error(403)) \/ Finish(w, Error(400))
      BY <2>1, <2>3, <1>n, RefuseKeeps
    <2> QED BY <1>2, <2>2, <2>3, Zenon DEF Register
  <1>3. CASE Login(w)
    <2>1. /\ h[w].pc = "received" /\ h[w].request \in Local
          /\ h[w].request.method = "POST" /\ h[w].request.path = "/api/auth/login"
      BY <1>3, AtDoor, Accounts, Zenon DEF Login, Local
    <2>2. CASE WaitFor(w, "auth", "login")
      BY <2>1, <2>2, AccountJobs, WaitForKeeps, Zenon DEF Local
    <2>3. CASE Finish(w, Error(429)) \/ Finish(w, Error(400))
      BY <2>1, <2>3, <1>n, RefuseKeeps
    <2>4. CASE h[w].request.complete /\ Throw(w, "no_identity")
      BY <2>1, <2>4, ThrowKeeps, Zenon
    <2> QED BY <1>3, <2>2, <2>3, <2>4, Zenon DEF Login
  <1>4. CASE Logout(w)
    <2>1. h[w].pc = "received" /\ h[w].request \in Local /\ h[w].request.method = "POST"
      BY <1>4, AtDoor, Accounts, Zenon DEF Logout, Local
    <2> QED BY <1>4, <2>1, AccountJobs, WaitForKeeps, Zenon DEF Local, Logout
  <1>5. CASE Resolve(w)
    <2>1. h[w].pc = "received" /\ h[w].request \in Local
      BY <1>5, AtDoor, Zenon DEF Resolve
    <2> QED BY <1>5, <2>1, AccountJobs, WaitForKeeps, Zenon DEF Local, Resolve
  <1> QED BY <1>1, <1>2, <1>3, <1>4, <1>5, Zenon

-----------------------------------------------------------------------------
(* The routes. *)

Granted(actor, capability) == Authorize(actor, capability) = 200

\* The refusals, and the work that a route hands to a mutex.
Refuses(w) == \E status \in Nat : Finish(w, Error(status))

Assigned(w) ==
    LET actor == h[w].actor
        method == h[w].request.method
    IN  \/ Granted(actor, "participation.propose") /\ method = "POST" /\ WaitFor(w, "db", "propose")
        \/ Granted(actor, "participation.read") /\ WaitFor(w, "db", "show")
        \/ Granted(actor, "engineering.integration.decide") /\ method = "POST" /\ WaitFor(w, "db", "decide")
        \/ Granted(actor, "engineering.integration.execute") /\ method = "POST" /\ WaitFor(w, "db", "approved")
        \/ Granted(actor, "identity.users.manage") /\ WaitFor(w, "auth", "list")
        \/ Granted(actor, "identity.users.manage") /\ method = "POST" /\ WaitFor(w, "auth", "create")
        \/ Granted(actor, "identity.users.manage") /\ method \in {"PUT", "PATCH"} /\ WaitFor(w, "auth", "update")
        \/ Granted(actor, "identity.users.manage") /\ method = "DELETE" /\ WaitFor(w, "auth", "delete")

LEMMA Authorizing ==
  ASSUME NEW actor, NEW capability
  PROVE  /\ Authorize(actor, capability) \in Nat
         /\ Granted(actor, capability) => Holds(actor, capability)
  <1>1. Authorize(actor, capability) \in {200, 401, 403}
    BY DEF Authorize
  <1>2. CASE actor = None
    BY <1>2 DEF Authorize, Granted
  <1>3. CASE actor # None /\ capability \notin CapabilitiesForRole(actor)
    BY <1>3 DEF Authorize, Granted
  <1> QED BY <1>1, <1>2, <1>3 DEF Holds

LEMMA AtRoute ==
  ASSUME HandlerInv, NEW w \in Workers, NEW name, Section(w, name)
  PROVE  h[w].pc = "route" /\ h[w].request \in Local
  <1>1. h[w].pc = "route" /\ h[w].job = "resolve"
    BY AtWorker, Zenon DEF Section, Sound, Placed
  <1> QED BY <1>1, Zenon DEF HandlerInv, WorksLocally

LEMMA RefusesKeeps ==
  ASSUME HandlerInv, NEW w \in Workers, h[w].pc = "route", Refuses(w)
  PROVE  HandlerInv'
  BY RefuseKeeps, Zenon DEF Refuses

\* A job that is authorized by its own capability.
LEMMA Entitled ==
  ASSUME NEW r, NEW actor, NEW job \in DOMAIN Authority, NEW pc, Holds(actor, Authority[job]),
         job \in Posting => r.method = "POST", job = "update" => r.method \in {"PUT", "PATCH"},
         job = "delete" => r.method = "DELETE"
  PROVE  Fits(r, actor, job, pc)
  <1>1. job # "read"
    BY Zenon DEF Authority
  <1> QED BY <1>1, Zenon DEF Fits

LEMMA AssignedKeeps ==
  ASSUME HandlerInv, NEW w \in Workers, h[w].pc = "route", h[w].request \in Local, Assigned(w)
  PROVE  HandlerInv'
  <1>1. PICK job \in LockJobs \cap DOMAIN Authority, m \in Mutexes :
             /\ WaitFor(w, m, job) /\ Granted(h[w].actor, Authority[job])
             /\ job \in Posting => h[w].request.method = "POST"
             /\ job = "update" => h[w].request.method \in {"PUT", "PATCH"}
             /\ job = "delete" => h[w].request.method = "DELETE"
    BY DEF Assigned, LockJobs, Authority, Mutexes, Posting, Changing
  <1>2. Holds(h[w].actor, Authority[job])
    BY <1>1, Authorizing, Zenon
  <1>3. Fits(h[w].request, h[w].actor, job, "wait")
    BY <1>1, <1>2, Entitled, Zenon
  <1> QED BY <1>1, <1>3, WaitForKeeps, Zenon

LEMMA ParticipationKeeps ==
  ASSUME HandlerInv, NEW w \in Workers, Participation(w)
  PROVE  HandlerInv'
  <1>1. h[w].pc = "route" /\ h[w].request \in Local
    BY AtRoute, Zenon DEF Participation
  <1>2. \/ Refuses(w) \/ Assigned(w)
        \/ /\ h[w].request.path = "/api/v1/participations" /\ h[w].request.method # "POST"
           /\ Throw(w, "out_of_range")
    BY Authorizing DEF Participation, Authorized, Refuses, Assigned, Granted
  <1>3. CASE Throw(w, "out_of_range") /\ h[w].request.path = "/api/v1/participations" /\ h[w].request.method # "POST"
    BY <1>1, <1>3, ThrowKeeps, Zenon
  <1> QED BY <1>1, <1>2, <1>3, RefusesKeeps, AssignedKeeps, Zenon

LEMMA GovernanceKeeps ==
  ASSUME HandlerInv, NEW w \in Workers, Decision(w) \/ Execution(w) \/ Users(w) \/ Disabled(w)
  PROVE  HandlerInv'
  <1>1. h[w].pc = "route" /\ h[w].request \in Local
    BY AtRoute, Zenon DEF Decision, Execution, Users, Disabled
  <1>2. Decision(w) => Refuses(w) \/ Assigned(w)
    BY Authorizing DEF Decision, Authorized, Refuses, Assigned, Granted
  <1>3. Execution(w) => Refuses(w) \/ Assigned(w)
    BY Authorizing DEF Execution, Authorized, Refuses, Assigned, Granted
  <1>4. Users(w) => Refuses(w) \/ Assigned(w)
    BY Authorizing DEF Users, Authorized, Refuses, Assigned, Granted
  <1>5. Disabled(w) => Refuses(w)
    BY DEF Disabled, Refuses
  <1> QED BY <1>1, <1>2, <1>3, <1>4, <1>5, RefusesKeeps, AssignedKeeps, Zenon

\* What may be told to who holds the capability for it, and to everybody.
LEMMA Told ==
  ASSUME NEW actor, NEW data \in DOMAIN Needs, NEW capability \in Needs[data], Holds(actor, capability),
         NEW status \in Nat, NEW cache \in {"no-store", "none"}, data # "participation" => cache = "no-store"
  PROVE  Proper(actor, Discloses(status, data, cache))
  <1> DEFINE answer == Discloses(status, data, cache)
  <1>1. answer \in AnswerType /\ answer.data = data /\ answer.cache = cache
    BY Zenon DEF Discloses, AnswerType
  <1> HIDE DEF answer
  <1>2. MayTell(actor, answer)
    BY <1>1, Zenon DEF MayTell, Holds
  <1> QED BY <1>1, <1>2, Zenon DEF Proper, answer

LEMMA Public ==
  ASSUME NEW actor, NEW status \in Nat, NEW data \in {"nothing", "session"},
         NEW cache \in {"no-store", "no-cache", "public"}
  PROVE  Proper(actor, Discloses(status, data, cache))
  BY Zenon DEF Proper, MayTell, Discloses, AnswerType, Needs

\* The capability the general API declares is one for what the path discloses.
LEMMA ApiData ==
  ASSUME NEW path
  PROVE  /\ DataAt(path) \in DOMAIN Needs \cup {"nothing"} /\ "nothing" \notin DOMAIN Needs
         /\ DataAt(path) # "nothing" => ApiCapability(path) \in Needs[DataAt(path)]
  BY DEF DataAt, ApiCapability, Needs, PlanPaths, ReferenceUse

LEMMA MeKeeps ==
  ASSUME HandlerInv, NEW w \in Workers, Me(w)
  PROVE  HandlerInv'
  <1>1. h[w].pc = "route"
    BY AtRoute, Zenon DEF Me
  <1>2. Refuses(w) \/ (Granted(h[w].actor, "session.self.read") /\ Finish(w, Discloses(200, "self", "no-store")))
    BY Authorizing, Zenon DEF Me, Authorized, Refuses, Granted
  <1>3. "self" \in DOMAIN Needs /\ "session.self.read" \in Needs["self"]
    BY Zenon DEF Needs
  <1>4. Granted(h[w].actor, "session.self.read") => Proper(h[w].actor, Discloses(200, "self", "no-store"))
    BY <1>3, Authorizing, Told
  <1> QED BY <1>1, <1>2, <1>4, RefusesKeeps, FinishKeeps, Zenon

LEMMA MaturityKeeps ==
  ASSUME HandlerInv, NEW w \in Workers, Maturity(w)
  PROVE  HandlerInv'
  <1>1. h[w].pc = "route"
    BY AtRoute, Zenon DEF Maturity
  <1>2. \/ Refuses(w)
        \/ Granted(h[w].actor, "maturity.evidence.read") /\ Finish(w, Discloses(200, "maturity", "no-store"))
    BY Authorizing DEF Maturity, Authorized, Refuses, Granted
  <1>3. "maturity" \in DOMAIN Needs /\ "maturity.evidence.read" \in Needs["maturity"]
    BY Zenon DEF Needs
  <1>4. Granted(h[w].actor, "maturity.evidence.read") => Proper(h[w].actor, Discloses(200, "maturity", "no-store"))
    BY <1>3, Authorizing, Told
  <1> QED BY <1>1, <1>2, <1>4, RefusesKeeps, FinishKeeps, Zenon

LEMMA ReferenceKeeps ==
  ASSUME HandlerInv, NEW w \in Workers, Reference(w)
  PROVE  HandlerInv'
  <1>1. h[w].pc = "route" /\ h[w].request \in Local
    BY AtRoute, Zenon DEF Reference
  <1>2. \/ Refuses(w)
        \/ Granted(h[w].actor, "reference.identity.read") /\ GoOn(w, "read")
        \/ Granted(h[w].actor, "reference.echo.execute") /\ h[w].request.method = "POST" /\ GoOn(w, "echo")
    BY Authorizing DEF Reference, Authorized, Refuses, Granted
  <1>3. CASE Granted(h[w].actor, "reference.identity.read") /\ GoOn(w, "read")
    <2>1. Holds(h[w].actor, "reference.identity.read")
      BY <1>3, Authorizing, Zenon
    <2>2. "read" \notin DOMAIN Authority
      BY Zenon DEF Authority
    <2>3. Fits(h[w].request, h[w].actor, "read", "upstream")
      BY <2>1, <2>2, Zenon DEF Fits, Posting, Changing
    <2> QED BY <1>1, <1>3, <2>3, GoOnKeeps, Zenon
  <1>4. CASE Granted(h[w].actor, "reference.echo.execute") /\ h[w].request.method = "POST" /\ GoOn(w, "echo")
    <2>1. "echo" \in DOMAIN Authority /\ Authority["echo"] = "reference.echo.execute"
      BY Zenon DEF Authority
    <2>2. Fits(h[w].request, h[w].actor, "echo", "upstream")
      BY <1>4, <2>1, Authorizing, Entitled, Zenon
    <2> QED BY <1>1, <1>4, <2>2, GoOnKeeps, Zenon
  <1> QED BY <1>1, <1>2, <1>3, <1>4, RefusesKeeps, Zenon

LEMMA ApiKeeps ==
  ASSUME HandlerInv, NEW w \in Workers, Api(w)
  PROVE  HandlerInv'
  <1> DEFINE path == h[w].request.path
             allowed == Granted(h[w].actor, ApiCapability(path)) \/ path = "/api/health"
  <1>1. h[w].pc = "route" /\ h[w].request \in Local
    BY AtRoute, Zenon DEF Api
  <1>2. \/ Refuses(w)
        \/ path = "/api/v1/context-projection" /\ allowed /\ GoOn(w, "context")
        \/ ReadUnder(path) # "nothing" /\ allowed /\ WaitFor(w, ReadUnder(path), "read")
        \/ allowed /\ Finish(w, Discloses(200, DataAt(path), "no-store"))
    BY Authorizing DEF Api, Authorized, Refuses, Granted
  <1>3. DataAt(path) # "nothing" /\ allowed => Holds(h[w].actor, ApiCapability(path))
    <2>1. DataAt("/api/health") = "nothing"
      BY Zenon DEF DataAt, PlanPaths
    <2> QED BY <2>1, Authorizing, Zenon
  <1>4. CASE path = "/api/v1/context-projection" /\ allowed /\ GoOn(w, "context")
    <2>1. ApiCapability(path) = "workspace.context.read" /\ path # "/api/health"
      BY <1>4, Zenon DEF ApiCapability, PlanPaths
    <2>2. "context" \in DOMAIN Authority /\ Authority["context"] = "workspace.context.read" /\ "context" \notin Posting
      BY Zenon DEF Authority, Posting, Changing
    <2>3. Fits(h[w].request, h[w].actor, "context", "upstream")
      BY <1>4, <2>1, <2>2, Authorizing, Entitled, Zenon
    <2> QED BY <1>1, <1>4, <2>3, GoOnKeeps, Zenon
  <1>5. CASE ReadUnder(path) # "nothing" /\ allowed /\ WaitFor(w, ReadUnder(path), "read")
    <2>1. ReadUnder(path) \in Mutexes /\ "read" \in LockJobs
      BY <1>5, Zenon DEF ReadUnder, Mutexes, LockJobs
    <2>2. "read" \notin DOMAIN Authority
      BY Zenon DEF Authority
    <2>3. DataAt(path) \in DOMAIN Needs => Holds(h[w].actor, ApiCapability(path))
      BY <1>3, <1>5, ApiData, Zenon
    <2>4. Fits(h[w].request, h[w].actor, "read", "wait")
      BY <2>2, <2>3, Zenon DEF Fits, Posting, Changing, Remote
    <2> QED BY <1>1, <1>5, <2>1, <2>4, WaitForKeeps, Zenon
  <1>6. CASE allowed /\ Finish(w, Discloses(200, DataAt(path), "no-store"))
    <2>1. CASE DataAt(path) = "nothing"
      BY <2>1, <1>1, <1>6, Public, FinishKeeps
    <2>2. CASE DataAt(path) # "nothing"
      BY <2>2, <1>1, <1>3, <1>6, ApiData, Told, FinishKeeps
    <2> QED BY <2>1, <2>2, Zenon
  <1> QED BY <1>1, <1>2, <1>4, <1>5, <1>6, RefusesKeeps, Zenon

\* What the files of the pages disclose.
LEMMA Served ==
  ASSUME NEW path
  PROVE  /\ path \in EngineeringPages \cup AdminPages =>
              /\ path # "/other" /\ PageAt(path) \in DOMAIN Needs /\ PageAt(path) # "participation"
              /\ PageCapability(path) \in Needs[PageAt(path)]
         /\ path \in PageFiles =>
              /\ path # "/other"
              /\ \A r : r.path = path => ByName(r, Discloses(200, PageAt(path), "no-store"))
         /\ path \notin EngineeringPages \cup AdminPages \cup PageFiles => PageAt(path) = "nothing"
  <1>1. path \in EngineeringPages \cup AdminPages =>
              /\ path # "/other" /\ PageAt(path) \in DOMAIN Needs /\ PageAt(path) # "participation"
              /\ PageCapability(path) \in Needs[PageAt(path)]
    BY DEF PageAt, PageCapability, Needs, EngineeringPages, AdminPages
  <1>2. ASSUME path \in PageFiles, NEW r, r.path = path
        PROVE  path # "/other" /\ ByName(r, Discloses(200, PageAt(path), "no-store"))
    <2>1. path # "/other" /\ PageAt(path) \in {"usersPage", "maturityPage"}
      BY <1>2 DEF PageFiles, PageAt, EngineeringPages
    <2>2. "usersPage" \in DOMAIN Needs /\ "maturityPage" \in DOMAIN Needs /\ 200 \in Nat
      BY DEF Needs
    <2>3. Discloses(200, PageAt(path), "no-store") \in AnswerType
      BY <2>1, <2>2, Zenon DEF Discloses, AnswerType
    <2> QED BY <1>2, <2>1, <2>3, Zenon DEF ByName, ByFileName, Discloses
  <1>3. path \in PageFiles => path # "/other"
    BY Zenon DEF PageFiles
  <1>4. path \notin EngineeringPages \cup AdminPages \cup PageFiles => PageAt(path) = "nothing"
    BY DEF PageAt, EngineeringPages, AdminPages, PageFiles
  <1> QED BY <1>1, <1>2, <1>3, <1>4, Zenon

LEMMA PageKeeps ==
  ASSUME HandlerInv, NEW w \in Workers, Page(w)
  PROVE  HandlerInv'
  <1> DEFINE path == h[w].request.path
             governed == path \in EngineeringPages \cup AdminPages
  <1>1. h[w].pc = "route"
    BY AtRoute, Zenon DEF Page
  <1>2. Refuses(w) \/ (ServeFile(w) /\ (governed => Granted(h[w].actor, PageCapability(path))))
    BY Authorizing DEF Page, Authorized, Refuses, Granted
  <1>3. CASE ServeFile(w) /\ (governed => Granted(h[w].actor, PageCapability(path)))
    <2>1. \/ Refuses(w)
          \/ governed /\ path # "/other" /\ Finish(w, Discloses(200, PageAt(path), "no-store"))
          \/ path \in PageFiles /\ Finish(w, Discloses(200, PageAt(path), "no-store"))
          \/ \E cache \in {"no-store", "public"} : Finish(w, Discloses(200, "nothing", cache))
      BY <1>3, Served DEF ServeFile, Refuses
    <2>2. CASE governed /\ Finish(w, Discloses(200, PageAt(path), "no-store"))
      <3>1. /\ PageAt(path) \in DOMAIN Needs /\ PageAt(path) # "participation"
            /\ PageCapability(path) \in Needs[PageAt(path)]
        BY <2>2, Served, Zenon
      <3>2. Proper(h[w].actor, Discloses(200, PageAt(path), "no-store"))
        BY <1>3, <2>2, <3>1, Authorizing, Told
      <3> QED BY <1>1, <2>2, <3>2, FinishKeeps, Zenon
    <2>4. CASE path \in PageFiles /\ Finish(w, Discloses(200, PageAt(path), "no-store"))
      <3>1. ByName(h[w].request, Discloses(200, PageAt(path), "no-store"))
        BY <2>4, Served, Zenon
      <3> QED BY <1>1, <2>4, <3>1, FinishKeeps, Zenon
    <2>3. CASE \E cache \in {"no-store", "public"} : Finish(w, Discloses(200, "nothing", cache))
      BY <1>1, <2>3, Public, FinishKeeps
    <2> QED BY <1>1, <2>1, <2>2, <2>3, <2>4, RefusesKeeps, Zenon
  <1> QED BY <1>1, <1>2, <1>3, RefusesKeeps, Zenon

LEMMA RouteKeeps ==
  ASSUME HandlerInv, NEW w \in Workers, Route(w)
  PROVE  HandlerInv'
  BY ParticipationKeeps, GovernanceKeeps, ReferenceKeeps, MeKeeps, MaturityKeeps, ApiKeeps, PageKeeps, Zenon DEF Route

-----------------------------------------------------------------------------
(* Under a mutex. *)

LEMMA AcquireKeeps ==
  ASSUME HandlerInv, NEW w \in Workers, Acquire(w)
  PROVE  HandlerInv'
  <1> DEFINE new == [h[w] EXCEPT !.pc = "inside"]
  <1>1. h[w] \in Handlers /\ Sound(h[w])
    BY AtWorker, Zenon
  <1>2. h[w].pc = "wait" /\ h[w].want \in Mutexes /\ h[w].job \in LockJobs /\ mutex[h[w].want] = None
    BY <1>1, Zenon DEF Acquire, Sound, Placed
  <1>3. /\ h' = [h EXCEPT ![w] = new] /\ mutex' = [mutex EXCEPT ![h[w].want] = w] /\ config' = config
    BY Zenon DEF Acquire
  <1>4. new \in Handlers
    BY <1>1, Zenon DEF Handlers, Pcs
  <1>5. /\ new.pc = "inside" /\ new.want = h[w].want /\ new.job = h[w].job
        /\ new.request = h[w].request /\ new.actor = h[w].actor /\ new.answer = h[w].answer
        /\ new.answers = h[w].answers /\ new.thrown = h[w].thrown /\ new.changed = h[w].changed
        /\ new.confirmed = h[w].confirmed /\ new.head = h[w].head
    BY <1>1, Zenon DEF Handlers
  <1> HIDE DEF new
  <1>6. Sound(new)
    <2>1. Unanswered(new) /\ EndsProperly(new)
      BY <1>1, <1>2, <1>5, Zenon DEF Sound, Unanswered, EndsProperly
    <2>2. RelaysWhole(new) /\ (MayTell(new.actor, new.answer) \/ ByName(new.request, new.answer))
      BY <1>1, <1>5, Zenon DEF Sound, RelaysWhole
    <2>3. Placed(new)
      BY <1>2, <1>5, Zenon DEF Placed, Remote
    <2>4. Fits(new.request, new.actor, new.job, new.pc)
      BY <1>1, <1>2, <1>5, Zenon DEF Sound, Fits, Remote
    <2> QED BY <1>1, <1>2, <1>5, <2>1, <2>2, <2>3, <2>4, Zenon DEF Sound
  <1>7. new \in SoundHandlers
    BY <1>4, <1>6, Zenon DEF SoundHandlers
  <1>8. h' \in [Workers -> SoundHandlers] /\ h'[w] = new /\ \A v \in Workers \ {w} : h'[v] = h[v]
    BY <1>3, <1>7, Zenon DEF HandlerInv
  <1>9. /\ mutex' \in [Mutexes -> Workers \cup {None}] /\ mutex'[h[w].want] = w
        /\ \A m \in Mutexes \ {h[w].want} : mutex'[m] = mutex[m]
    BY <1>2, <1>3, Zenon DEF HandlerInv
  <1>10. Excluded'
    <2>1. ASSUME NEW m \in Mutexes, NEW v \in Workers
          PROVE  mutex'[m] = v <=> h'[v].pc = "inside" /\ h'[v].want = m
      <3>1. mutex[m] = v <=> h[v].pc = "inside" /\ h[v].want = m
        BY Zenon DEF HandlerInv, Excluded
      <3>2. v # None
        BY NothingAssumption, Zenon
      <3>3. CASE v = w
        BY <1>2, <1>5, <1>8, <1>9, <3>1, <3>2, <3>3, Zenon
      <3>4. CASE v # w
        BY <1>2, <1>8, <1>9, <3>1, <3>2, <3>4, Zenon
      <3> QED BY <3>3, <3>4, Zenon
    <2> QED BY <2>1, Zenon DEF Excluded
  <1>11. WorksLocally'
    BY <1>3, <1>5, <1>8, LocalStays, Zenon DEF HandlerInv, WorksLocally
  <1> QED BY <1>3, <1>8, <1>9, <1>10, <1>11, Zenon DEF HandlerInv

\* What may come of a job.
OutcomeFits(r, actor, job, o) ==
    /\ o.then \in {"done", "throw", "route", "upstream"} /\ o.changed \in BOOLEAN
    /\ o.then = "done" => Proper(actor, o.answer) /\ job # "resolve"
    /\ o.then # "done" => o.answer = NoAnswer /\ o.changed = FALSE
    /\ o.changed => job \in Changing
    /\ o.then = "throw" => r.session # None
    /\ o.then = "route" => job = "resolve"
    /\ o.then = "upstream" => job = "approved"

LEMMA RefusalFits ==
  ASSUME NEW r, NEW actor, NEW job, job # "resolve", NEW statuses \in SUBSET Nat, NEW o \in Refusals(statuses)
  PROVE  OutcomeFits(r, actor, job, o)
  <1>1. PICK s \in statuses : o = Answers(Error(s), FALSE)
    BY Zenon DEF Refusals
  <1>2. o.then = "done" /\ o.answer = Error(s) /\ o.changed = FALSE
    BY <1>1, Zenon DEF Answers
  <1> QED BY <1>2, Refusal, Zenon DEF OutcomeFits

\* The call succeeds, or one of the refusals is answered.
LEMMA AnswerFits ==
  ASSUME NEW r, NEW actor, NEW job, job # "resolve", NEW answer, Proper(actor, answer), NEW changed \in BOOLEAN,
         changed => job \in Changing, NEW statuses \in SUBSET Nat,
         NEW o \in {Answers(answer, changed)} \cup Refusals(statuses)
  PROVE  OutcomeFits(r, actor, job, o)
  <1>1. CASE o = Answers(answer, changed)
    <2>1. o.then = "done" /\ o.answer = answer /\ o.changed = changed
      BY <1>1, Zenon DEF Answers
    <2> QED BY <2>1, Zenon DEF OutcomeFits
  <1>2. CASE o \in Refusals(statuses)
    BY <1>2, RefusalFits, Zenon
  <1> QED BY <1>1, <1>2, Zenon

LEMMA OutcomesFit ==
  ASSUME NEW r \in RequestType, NEW actor, NEW job \in LockJobs, Fits(r, actor, job, "inside"),
         NEW o \in Outcomes(job, r)
  PROVE  OutcomeFits(r, actor, job, o)
  <1>c. /\ \A j \in {"register", "login", "logout", "propose", "decide", "record", "create", "update", "delete"} :
              j \in Changing
        /\ job \in DOMAIN Authority => Holds(actor, Authority[job])
    BY Zenon DEF Changing, Fits
  <1>1. CASE job = "bootstrap"
    <2> DEFINE answer == Discloses(200, "nothing", "no-store")
               statuses == {}
    <2>1. o \in {Answers(answer, FALSE)} \cup Refusals(statuses)
      <3>1. Outcomes("bootstrap", r) = {Answers(answer, FALSE)}
        BY DEF Outcomes, SessionOutcomes
      <3> HIDE DEF answer, statuses
      <3> QED BY <1>1, <3>1, Zenon
    <2>2. Proper(actor, answer) /\ statuses \in SUBSET Nat
      BY Public
    <2> HIDE DEF answer, statuses
    <2> QED BY <1>c, <1>1, <2>1, <2>2, AnswerFits, Zenon
  <1>2. CASE job = "register"
    <2> DEFINE answer == Discloses(201, "session", "no-store")
               statuses == {409, 500}
    <2>1. o \in {Answers(answer, TRUE)} \cup Refusals(statuses)
      <3>1. Outcomes("register", r) = {Answers(answer, TRUE)} \cup Refusals(statuses)
        BY DEF Outcomes, SessionOutcomes
      <3> HIDE DEF answer, statuses
      <3> QED BY <1>2, <3>1, Zenon
    <2>2. Proper(actor, answer) /\ statuses \in SUBSET Nat
      BY Public
    <2> HIDE DEF answer, statuses
    <2> QED BY <1>c, <1>2, <2>1, <2>2, AnswerFits, Zenon
  <1>3. CASE job = "login"
    <2> DEFINE answer == Discloses(200, "session", "no-store")
               statuses == {401, 500}
    <2>1. o \in {Answers(answer, TRUE)} \cup Refusals(statuses)
      <3>1. Outcomes("login", r) = {Answers(answer, TRUE)} \cup Refusals(statuses)
        BY DEF Outcomes, SessionOutcomes
      <3> HIDE DEF answer, statuses
      <3> QED BY <1>3, <3>1, Zenon
    <2>2. Proper(actor, answer) /\ statuses \in SUBSET Nat
      BY Public
    <2> HIDE DEF answer, statuses
    <2> QED BY <1>c, <1>3, <2>1, <2>2, AnswerFits, Zenon
  <1>4. CASE job = "propose"
    <2> DEFINE answer == Discloses(201, "participation", "none")
               statuses == {400, 503}
    <2>1. o \in {Answers(answer, TRUE)} \cup Refusals(statuses)
      <3>1. Outcomes("propose", r) = Refusals(statuses) \cup (IF r.complete THEN {Answers(answer, TRUE)} ELSE {})
        BY DEF Outcomes, GovernanceOutcomes
      <3> HIDE DEF answer, statuses
      <3> QED BY <1>4, <3>1, Zenon
    <2>2. Proper(actor, answer) /\ statuses \in SUBSET Nat
      <3>1. "propose" \in DOMAIN Authority /\ Authority["propose"] = "participation.propose"
        BY Zenon DEF Authority
      <3>2. "participation" \in DOMAIN Needs /\ "participation.propose" \in Needs["participation"]
        BY Zenon DEF Needs
      <3>3. Holds(actor, "participation.propose")
        BY <1>c, <1>4, <3>1, Zenon
      <3> QED BY <3>2, <3>3, Told
    <2> HIDE DEF answer, statuses
    <2> QED BY <1>c, <1>4, <2>1, <2>2, AnswerFits, Zenon
  <1>5. CASE job = "show"
    <2> DEFINE answer == Discloses(200, "participation", "none")
               statuses == {404, 503}
    <2>1. o \in {Answers(answer, FALSE)} \cup Refusals(statuses)
      <3>1. Outcomes("show", r) = {Answers(answer, FALSE)} \cup Refusals(statuses)
        BY DEF Outcomes, GovernanceOutcomes
      <3> HIDE DEF answer, statuses
      <3> QED BY <1>5, <3>1, Zenon
    <2>2. Proper(actor, answer) /\ statuses \in SUBSET Nat
      <3>1. "show" \in DOMAIN Authority /\ Authority["show"] = "participation.read"
        BY Zenon DEF Authority
      <3>2. "participation" \in DOMAIN Needs /\ "participation.read" \in Needs["participation"]
        BY Zenon DEF Needs
      <3>3. Holds(actor, "participation.read")
        BY <1>c, <1>5, <3>1, Zenon
      <3> QED BY <3>2, <3>3, Told
    <2> HIDE DEF answer, statuses
    <2> QED BY <1>c, <1>5, <2>1, <2>2, AnswerFits, Zenon
  <1>6. CASE job = "decide"
    <2> DEFINE answer == Discloses(200, "decision", "no-store")
               statuses == {409}
    <2>1. o \in {Answers(answer, TRUE)} \cup Refusals(statuses)
      <3>1. Outcomes("decide", r) = {Answers(answer, TRUE)} \cup Refusals(statuses)
        BY DEF Outcomes, GovernanceOutcomes
      <3> HIDE DEF answer, statuses
      <3> QED BY <1>6, <3>1, Zenon
    <2>2. Proper(actor, answer) /\ statuses \in SUBSET Nat
      <3>1. "decide" \in DOMAIN Authority /\ Authority["decide"] = "engineering.integration.decide"
        BY Zenon DEF Authority
      <3>2. "decision" \in DOMAIN Needs /\ "engineering.integration.decide" \in Needs["decision"]
        BY Zenon DEF Needs
      <3>3. Holds(actor, "engineering.integration.decide")
        BY <1>c, <1>6, <3>1, Zenon
      <3> QED BY <3>2, <3>3, Told
    <2> HIDE DEF answer, statuses
    <2> QED BY <1>c, <1>6, <2>1, <2>2, AnswerFits, Zenon
  <1>7. CASE job = "record"
    <2> DEFINE answer == Discloses(200, "execution", "no-store")
               statuses == {409}
    <2>1. o \in {Answers(answer, TRUE)} \cup Refusals(statuses)
      <3>1. Outcomes("record", r) = {Answers(answer, TRUE)} \cup Refusals(statuses)
        BY DEF Outcomes, GovernanceOutcomes
      <3> HIDE DEF answer, statuses
      <3> QED BY <1>7, <3>1, Zenon
    <2>2. Proper(actor, answer) /\ statuses \in SUBSET Nat
      <3>1. "record" \in DOMAIN Authority /\ Authority["record"] = "engineering.integration.execute"
        BY Zenon DEF Authority
      <3>2. "execution" \in DOMAIN Needs /\ "engineering.integration.execute" \in Needs["execution"]
        BY Zenon DEF Needs
      <3>3. Holds(actor, "engineering.integration.execute")
        BY <1>c, <1>7, <3>1, Zenon
      <3> QED BY <3>2, <3>3, Told
    <2> HIDE DEF answer, statuses
    <2> QED BY <1>c, <1>7, <2>1, <2>2, AnswerFits, Zenon
  <1>8. CASE job = "list"
    <2> DEFINE answer == Discloses(200, "accounts", "no-store")
               statuses == {}
    <2>1. o \in {Answers(answer, FALSE)} \cup Refusals(statuses)
      <3>1. Outcomes("list", r) = {Answers(answer, FALSE)}
        BY DEF Outcomes, AccountOutcomes
      <3> HIDE DEF answer, statuses
      <3> QED BY <1>8, <3>1, Zenon
    <2>2. Proper(actor, answer) /\ statuses \in SUBSET Nat
      <3>1. "list" \in DOMAIN Authority /\ Authority["list"] = "identity.users.manage"
        BY Zenon DEF Authority
      <3>2. "accounts" \in DOMAIN Needs /\ "identity.users.manage" \in Needs["accounts"]
        BY Zenon DEF Needs
      <3>3. Holds(actor, "identity.users.manage")
        BY <1>c, <1>8, <3>1, Zenon
      <3> QED BY <3>2, <3>3, Told
    <2> HIDE DEF answer, statuses
    <2> QED BY <1>c, <1>8, <2>1, <2>2, AnswerFits, Zenon
  <1>9. CASE job = "create"
    <2> DEFINE answer == Discloses(201, "accounts", "no-store")
               statuses == {400, 409, 500}
    <2>1. o \in {Answers(answer, TRUE)} \cup Refusals(statuses)
      <3>1. Outcomes("create", r) = {Answers(answer, TRUE)} \cup Refusals(statuses)
        BY DEF Outcomes, AccountOutcomes
      <3> HIDE DEF answer, statuses
      <3> QED BY <1>9, <3>1, Zenon
    <2>2. Proper(actor, answer) /\ statuses \in SUBSET Nat
      <3>1. "create" \in DOMAIN Authority /\ Authority["create"] = "identity.users.manage"
        BY Zenon DEF Authority
      <3>2. "accounts" \in DOMAIN Needs /\ "identity.users.manage" \in Needs["accounts"]
        BY Zenon DEF Needs
      <3>3. Holds(actor, "identity.users.manage")
        BY <1>c, <1>9, <3>1, Zenon
      <3> QED BY <3>2, <3>3, Told
    <2> HIDE DEF answer, statuses
    <2> QED BY <1>c, <1>9, <2>1, <2>2, AnswerFits, Zenon
  <1>10. CASE job = "update"
    <2> DEFINE answer == Discloses(200, "accounts", "no-store")
               statuses == {400, 404, 409, 500}
    <2>1. o \in {Answers(answer, TRUE)} \cup Refusals(statuses)
      <3>1. Outcomes("update", r) = {Answers(answer, TRUE)} \cup Refusals(statuses)
        BY DEF Outcomes, AccountOutcomes
      <3> HIDE DEF answer, statuses
      <3> QED BY <1>10, <3>1, Zenon
    <2>2. Proper(actor, answer) /\ statuses \in SUBSET Nat
      <3>1. "update" \in DOMAIN Authority /\ Authority["update"] = "identity.users.manage"
        BY Zenon DEF Authority
      <3>2. "accounts" \in DOMAIN Needs /\ "identity.users.manage" \in Needs["accounts"]
        BY Zenon DEF Needs
      <3>3. Holds(actor, "identity.users.manage")
        BY <1>c, <1>10, <3>1, Zenon
      <3> QED BY <3>2, <3>3, Told
    <2> HIDE DEF answer, statuses
    <2> QED BY <1>c, <1>10, <2>1, <2>2, AnswerFits, Zenon
  <1>11. CASE job = "delete"
    <2> DEFINE answer == Discloses(200, "nothing", "no-store")
               statuses == {400, 404, 500}
    <2>1. o \in {Answers(answer, TRUE)} \cup Refusals(statuses)
      <3>1. Outcomes("delete", r) = {Answers(answer, TRUE)} \cup Refusals(statuses)
        BY DEF Outcomes, AccountOutcomes
      <3> HIDE DEF answer, statuses
      <3> QED BY <1>11, <3>1, Zenon
    <2>2. Proper(actor, answer) /\ statuses \in SUBSET Nat
      BY Public
    <2> HIDE DEF answer, statuses
    <2> QED BY <1>c, <1>11, <2>1, <2>2, AnswerFits, Zenon
  <1>12. CASE job = "logout"
    <2> DEFINE answer == Discloses(204, "nothing", "no-store")
               went == r.session # None
    <2>1. Proper(actor, answer) /\ {} \in SUBSET Nat
      BY Public
    <2>2. Outcomes("logout", r) = {Answers(answer, went)} \cup (IF r.session = None THEN {} ELSE {Goes("throw")})
      BY DEF Outcomes, SessionOutcomes
    <2>3. went \in BOOLEAN /\ (went <=> r.session # None)
      OBVIOUS
    <2> HIDE DEF answer, went
    <2>4. o = Answers(answer, went) \/ (o = Goes("throw") /\ r.session # None)
      BY <1>12, <2>2, Zenon
    <2>5. CASE o = Answers(answer, went)
      BY <1>c, <1>12, <2>1, <2>3, <2>5, AnswerFits, Zenon
    <2>6. CASE o = Goes("throw") /\ r.session # None
      BY <2>6, Zenon DEF Goes, OutcomeFits
    <2> QED BY <2>4, <2>5, <2>6, Zenon
  <1>13. CASE job = "resolve"
    <2>1. Outcomes("resolve", r) = {Goes("route")} \cup (IF r.session = Stale THEN {Goes("throw")} ELSE {})
      BY DEF Outcomes, SessionOutcomes
    <2>2. o = Goes("route") \/ (o = Goes("throw") /\ r.session # None)
      BY <1>13, <2>1, NothingAssumption, Zenon
    <2>3. CASE o = Goes("route")
      BY <1>13, <2>3, Zenon DEF Goes, OutcomeFits
    <2>4. CASE o = Goes("throw") /\ r.session # None
      BY <2>4, Zenon DEF Goes, OutcomeFits
    <2> QED BY <2>2, <2>3, <2>4, Zenon
  <1>14. CASE job = "approved"
    <2> DEFINE statuses == {409}
    <2>1. Outcomes("approved", r) = {Goes("upstream")} \cup Refusals(statuses)
      BY DEF Outcomes, GovernanceOutcomes
    <2>2. statuses \in SUBSET Nat
      OBVIOUS
    <2> HIDE DEF statuses
    <2>3. CASE o = Goes("upstream")
      BY <1>14, <2>3, Zenon DEF Goes, OutcomeFits
    <2>4. CASE o \in Refusals(statuses)
      BY <1>14, <2>2, <2>4, RefusalFits, Zenon
    <2> QED BY <1>14, <2>1, <2>3, <2>4, Zenon
  <1>15. CASE job = "read"
    <2> DEFINE cache == IF r.path = "/api/health" THEN "no-cache" ELSE "no-store"
               answer == Discloses(200, DataAt(r.path), cache)
    <2>1. Outcomes("read", r) = {Answers(answer, FALSE)}
      BY DEF Outcomes
    <2>2. DataAt(r.path) \in DOMAIN Needs => Holds(actor, ApiCapability(r.path))
      BY <1>15, Zenon DEF Fits
    <2>3. DataAt("/api/health") = "nothing"
      BY Zenon DEF DataAt, PlanPaths
    <2>4. cache \in {"no-cache", "no-store"} /\ (DataAt(r.path) # "nothing" => cache = "no-store")
      BY <2>3, Zenon
    <2> HIDE DEF cache
    <2>5. Proper(actor, answer)
      <3>1. CASE DataAt(r.path) = "nothing"
        BY <2>4, <3>1, Public
      <3>2. CASE DataAt(r.path) # "nothing"
        BY <2>2, <2>4, <3>2, ApiData, Told
      <3> QED BY <3>1, <3>2, Zenon
    <2> HIDE DEF answer
    <2> QED BY <1>15, <2>1, <2>5, AnswerFits, Zenon
  <1> QED BY <1>1, <1>2, <1>3, <1>4, <1>5, <1>6, <1>7, <1>8, <1>9, <1>10, <1>11, <1>12, <1>13, <1>14, <1>15, Zenon DEF LockJobs

\* Everybody's session may be resolved.
LEMMA ResolveFits ==
  ASSUME NEW r, NEW actor, NEW pc
  PROVE  Fits(r, actor, "resolve", pc)
  BY Zenon DEF Fits, Posting, Changing, Authority

\* The end of a section: its mutex is free, for nobody else was inside.
LEMMA SectionEnds ==
  ASSUME HandlerInv, NEW w \in Workers, NEW new \in SoundHandlers, h[w].pc = "inside", h[w].want \in Mutexes,
         h' = [h EXCEPT ![w] = new], mutex' = [mutex EXCEPT ![h[w].want] = None], config' = config,
         new.pc # "inside", new.request \in Local
  PROVE  HandlerInv'
  <1>1. h' \in [Workers -> SoundHandlers] /\ h'[w] = new /\ \A v \in Workers \ {w} : h'[v] = h[v]
    BY Zenon DEF HandlerInv
  <1>2. /\ mutex' \in [Mutexes -> Workers \cup {None}] /\ mutex'[h[w].want] = None
        /\ \A m \in Mutexes \ {h[w].want} : mutex'[m] = mutex[m]
    BY Zenon DEF HandlerInv
  <1>3. Excluded'
    <2>1. ASSUME NEW m \in Mutexes, NEW v \in Workers
          PROVE  mutex'[m] = v <=> h'[v].pc = "inside" /\ h'[v].want = m
      <3>1. /\ mutex[m] = v <=> h[v].pc = "inside" /\ h[v].want = m
            /\ mutex[m] = w <=> h[w].pc = "inside" /\ h[w].want = m
        BY Zenon DEF HandlerInv, Excluded
      <3>2. v # None
        BY NothingAssumption, Zenon
      <3>3. CASE v = w
        BY <1>1, <1>2, <3>1, <3>2, <3>3, Zenon
      <3>4. CASE v # w
        BY <1>1, <1>2, <3>1, <3>2, <3>4, Zenon
      <3> QED BY <3>3, <3>4, Zenon
    <2> QED BY <2>1, Zenon DEF Excluded
  <1>4. WorksLocally'
    BY <1>1, LocalStays, Zenon DEF HandlerInv, WorksLocally
  <1> QED BY <1>1, <1>2, <1>3, <1>4, Zenon DEF HandlerInv

LEMMA InsideKeeps ==
  ASSUME HandlerInv, NEW w \in Workers, Inside(w)
  PROVE  HandlerInv'
  <1> DEFINE s == h[w]
  <1>1. s \in Handlers /\ Sound(s)
    BY AtWorker, Zenon
  <1>2. /\ s.pc = "inside" /\ s.want \in Mutexes /\ s.job \in LockJobs /\ s.request \in RequestType
        /\ s.answers = 0 /\ s.thrown = "no" /\ s.changed = FALSE /\ Fits(s.request, s.actor, s.job, "inside")
    BY <1>1, Zenon DEF Inside, Sound, Placed, Unanswered
  <1>3. PICK o \in Outcomes(s.job, s.request) : h' = [h EXCEPT ![w] = After(w, o)]
    BY Zenon DEF Inside
  <1>4. OutcomeFits(s.request, s.actor, s.job, o)
    BY <1>2, OutcomesFit, Zenon
  <1> DEFINE new == After(w, o)
             actor == IF s.job = "resolve" /\ s.request.session # Stale THEN s.request.session ELSE s.actor
             job == IF o.then = "upstream" THEN "execute" ELSE s.job
             pc == IF o.then = "throw" THEN "done" ELSE o.then
             thrown == IF o.then = "throw" THEN "not_saved" ELSE "no"
             answers == IF o.then = "done" THEN 1 ELSE 0
  <1>5. new = [s EXCEPT !.pc = pc, !.thrown = thrown, !.actor = actor, !.job = job, !.answer = o.answer,
                        !.answers = answers, !.changed = o.changed]
    <2>1. s.answers + 1 = 1
      BY <1>2
    <2>2. (s.changed \/ o.changed) = o.changed
      BY <1>2, <1>4, Zenon DEF OutcomeFits
    <2> QED BY <1>2, <2>1, <2>2, Zenon DEF After
  <1>6. /\ pc \in Pcs /\ thrown \in {"no", "not_saved"} /\ job \in Jobs /\ o.answer \in AnswerType
        /\ o.changed \in BOOLEAN
    BY <1>1, <1>2, <1>4, Constants, Zenon DEF OutcomeFits, Pcs, Jobs, LockJobs, Proper
  <1>7. actor \in Roles \cup {None} /\ answers \in 0..1
    BY <1>1, <1>2 DEF Handlers, RequestType
  <1> HIDE DEF s, new, actor, job, pc, thrown, answers
  <1>8. new \in Handlers
    BY <1>1, <1>5, <1>6, <1>7, Zenon DEF Handlers
  <1>9. /\ new.pc = pc /\ new.thrown = thrown /\ new.actor = actor /\ new.job = job /\ new.answer = o.answer
        /\ new.answers = answers /\ new.changed = o.changed
        /\ new.request = s.request /\ new.head = s.head /\ new.confirmed = s.confirmed
    BY <1>1, <1>5, Zenon DEF Handlers
  <1>10. Sound(new) /\ new.pc # "inside"
    <2>c. s.confirmed => s.job = "record" /\ s.head = "whole"
      BY <1>1, Zenon DEF Sound, RelaysWhole
    <2>1. CASE o.then = "done"
      <3>1. pc = "done" /\ thrown = "no" /\ actor = s.actor /\ job = s.job /\ answers = 1
        BY <1>4, <2>1, Zenon DEF OutcomeFits, pc, thrown, actor, job, answers
      <3>2. Unanswered(new) /\ EndsProperly(new) /\ Placed(new)
        BY <1>9, <3>1, Zenon DEF Unanswered, EndsProperly, Placed, Remote
      <3>3. RelaysWhole(new) /\ MayTell(new.actor, new.answer)
        BY <1>4, <1>9, <2>1, <2>c, <3>1, Zenon DEF OutcomeFits, RelaysWhole, Proper
      <3>4. Fits(new.request, new.actor, new.job, new.pc)
        BY <1>2, <1>9, <3>1, Zenon DEF Fits, Remote
      <3>5. new.changed => new.job \in Changing
        BY <1>4, <1>9, <3>1, Zenon DEF OutcomeFits
      <3> QED BY <1>2, <1>9, <3>1, <3>2, <3>3, <3>4, <3>5, Zenon DEF Sound
    <2>2. CASE o.then = "throw"
      <3>1. pc = "done" /\ thrown = "not_saved" /\ job = s.job /\ answers = 0
        BY <2>2, Zenon DEF pc, thrown, job, answers
      <3>2. o.answer = NoAnswer /\ o.changed = FALSE /\ s.request.session # None
        BY <1>4, <2>2, Zenon DEF OutcomeFits
      <3>3. Unanswered(new) /\ EndsProperly(new) /\ Placed(new)
        BY <1>9, <3>1, <3>2, Zenon DEF Unanswered, EndsProperly, Placed, Remote
      <3>4. RelaysWhole(new) /\ MayTell(new.actor, new.answer)
        BY <1>9, <2>c, <3>1, <3>2, Constants, Zenon DEF RelaysWhole, MayTell
      <3>5. Fits(new.request, new.actor, new.job, new.pc)
        <4>1. CASE s.job = "resolve"
          BY <1>9, <3>1, <4>1, ResolveFits, Zenon
        <4>2. CASE s.job # "resolve"
          BY <1>2, <1>9, <3>1, <4>2, Zenon DEF Fits, Remote, actor
        <4> QED BY <4>1, <4>2, Zenon
      <3> QED BY <1>2, <1>9, <3>1, <3>2, <3>3, <3>4, <3>5, Zenon DEF Sound
    <2>3. CASE o.then = "route"
      <3>1. pc = "route" /\ thrown = "no" /\ job = "resolve" /\ answers = 0
        BY <1>4, <2>3, Zenon DEF OutcomeFits, pc, thrown, job, answers
      <3>2. o.answer = NoAnswer /\ o.changed = FALSE /\ ~s.confirmed
        BY <1>4, <2>3, <2>c, Zenon DEF OutcomeFits
      <3>3. Unanswered(new) /\ EndsProperly(new) /\ Placed(new)
        BY <1>9, <3>1, <3>2, Zenon DEF Unanswered, EndsProperly, Placed, Remote
      <3>4. RelaysWhole(new) /\ MayTell(new.actor, new.answer)
        BY <1>9, <3>2, Constants, Zenon DEF RelaysWhole, MayTell
      <3>5. Fits(new.request, new.actor, new.job, new.pc)
        BY <1>9, <3>1, ResolveFits, Zenon
      <3> QED BY <1>2, <1>9, <3>1, <3>2, <3>3, <3>4, <3>5, Zenon DEF Sound
    <2>4. CASE o.then = "upstream"
      <3>1. pc = "upstream" /\ thrown = "no" /\ job = "execute" /\ answers = 0 /\ actor = s.actor
        BY <1>4, <2>4, Zenon DEF OutcomeFits, pc, thrown, job, answers, actor
      <3>2. o.answer = NoAnswer /\ o.changed = FALSE /\ ~s.confirmed /\ s.job = "approved"
        BY <1>4, <2>4, <2>c, Zenon DEF OutcomeFits
      <3>3. Unanswered(new) /\ EndsProperly(new) /\ Placed(new)
        BY <1>9, <3>1, <3>2, Zenon DEF Unanswered, EndsProperly, Placed, Remote, RemoteJobs
      <3>4. RelaysWhole(new) /\ MayTell(new.actor, new.answer)
        BY <1>9, <3>2, Constants, Zenon DEF RelaysWhole, MayTell
      <3>5. Fits(new.request, new.actor, new.job, new.pc)
        <4>1. Authority["approved"] = Authority["execute"] /\ {"approved", "execute"} \subseteq DOMAIN Authority
          BY Zenon DEF Authority
        <4>2. s.request.method = "POST" /\ Holds(s.actor, Authority["execute"])
          BY <1>2, <3>2, <4>1, Zenon DEF Fits, Posting
        <4> QED BY <1>9, <3>1, <4>1, <4>2, Entitled, Zenon
      <3> QED BY <1>2, <1>9, <3>1, <3>2, <3>3, <3>4, <3>5, Zenon DEF Sound
    <2> QED BY <1>4, <2>1, <2>2, <2>3, <2>4, Zenon DEF OutcomeFits
  <1>11. new.request \in Local
    BY <1>2, <1>9, Zenon DEF HandlerInv, WorksLocally, LockJobs, s
  <1> QED BY <1>2, <1>3, <1>8, <1>10, <1>11, SectionEnds, Zenon DEF SoundHandlers, Inside, s, new

-----------------------------------------------------------------------------
(* At a subsystem. *)

LEMMA AnswerEndsKeeps ==
  ASSUME HandlerInv, NEW w \in Workers, AnswerEnds(w)
  PROVE  HandlerInv'
  <1> DEFINE s == h[w]
  <1>1. s \in Handlers /\ Sound(s)
    BY AtWorker, Zenon
  <1>2. /\ s.pc = "receiving" /\ s.pc \in Remote /\ s.job \in RemoteJobs
        /\ s.answers = 0 /\ s.thrown = "no" /\ Fits(s.request, s.actor, s.job, s.pc)
    BY <1>1, Zenon DEF AnswerEnds, Sound, Placed, Unanswered, Remote
  <1>3. s.request \in Local /\ ~s.confirmed
    BY <1>1, <1>2, Zenon DEF HandlerInv, WorksLocally, RemoteJobs, Sound, RelaysWhole
  <1>4. CASE s.job = "execute"
    <2>1. PICK confirmed \in {FALSE, s.head = "whole"} :
              h' = [h EXCEPT ![w] = [h[w] EXCEPT !.pc = "wait", !.want = "db", !.job = "record",
                                                 !.confirmed = confirmed]]
      BY <1>4, Zenon DEF AnswerEnds
    <2> DEFINE new == [h[w] EXCEPT !.pc = "wait", !.want = "db", !.job = "record", !.confirmed = confirmed]
    <2>2. UNCHANGED <<config, mutex>>
      BY <1>4, Zenon DEF AnswerEnds
    <2>3. new \in Handlers
      <3>1. ASSUME NEW pc \in Pcs, NEW m \in Mutexes, NEW k \in Jobs, NEW b \in BOOLEAN
            PROVE  [s EXCEPT !.pc = pc, !.want = m, !.job = k, !.confirmed = b] \in Handlers
        BY <1>1, Zenon DEF Handlers
      <3>2. "wait" \in Pcs /\ "db" \in Mutexes /\ "record" \in Jobs /\ confirmed \in BOOLEAN
        BY Zenon DEF Pcs, Mutexes, Jobs
      <3> QED BY <3>1, <3>2, Zenon
    <2>4. /\ new.pc = "wait" /\ new.want = "db" /\ new.job = "record" /\ new.confirmed = confirmed
          /\ new.request = s.request /\ new.actor = s.actor /\ new.answer = s.answer /\ new.head = s.head
          /\ new.answers = s.answers /\ new.thrown = s.thrown /\ new.changed = s.changed
      BY <1>1, Zenon DEF Handlers
    <2> HIDE DEF new
    <2>5. Placed(new)
      BY <2>4, Zenon DEF Placed, Remote, LockJobs, Mutexes
    <2>6. Fits(new.request, new.actor, new.job, new.pc)
      <3>1. Authority["record"] = Authority["execute"] /\ {"record", "execute"} \subseteq DOMAIN Authority
        BY Zenon DEF Authority
      <3>2. s.request.method = "POST" /\ Holds(s.actor, Authority["execute"])
        BY <1>2, <1>4, <3>1, Zenon DEF Fits, Posting
      <3> QED BY <2>4, <3>1, <3>2, Entitled, Zenon
    <2>7. new.confirmed => new.head = "whole" /\ new.job = "record"
      BY <2>4, Zenon
    <2>8. h' = [h EXCEPT ![w] = new]
      BY <2>1, Zenon DEF new
    <2> QED BY <1>2, <1>3, <2>2, <2>3, <2>4, <2>5, <2>6, <2>7, <2>8, Moves, Zenon DEF Remote
  <1>5. CASE s.job = "context"
    <2>1. Unavailable(w) \/ Finish(w, Discloses(200, "context", "no-store"))
      BY <1>5, Zenon DEF AnswerEnds
    <2>2. Proper(s.actor, Discloses(200, "context", "no-store"))
      <3>1. /\ "context" \in DOMAIN Authority /\ Authority["context"] = "workspace.context.read"
            /\ "context" \in DOMAIN Needs /\ "workspace.context.read" \in Needs["context"]
        BY Zenon DEF Authority, Needs
      <3>2. Holds(s.actor, "workspace.context.read")
        BY <1>2, <1>5, <3>1, Zenon DEF Fits
      <3> QED BY <3>1, <3>2, Told
    <2> QED BY <1>2, <2>1, <2>2, UnavailableKeeps, FinishKeeps, Zenon
  <1>6. CASE s.job \in {"read", "echo"} /\ s.head # "whole"
    <2>1. Unavailable(w)
      BY <1>6, Zenon DEF AnswerEnds
    <2> QED BY <1>2, <2>1, UnavailableKeeps, Zenon
  <1>7. CASE s.job \in {"read", "echo"} /\ s.head = "whole"
    <2> DEFINE answer == Discloses(200, "reference", "upstream")
               echoes == s.job = "echo"
               new == [s EXCEPT !.pc = "done", !.answers = 1, !.answer = answer, !.changed = echoes]
    <2>1. h' = [h EXCEPT ![w] = new] /\ UNCHANGED <<config, mutex>>
      <3>1. /\ h' = [h EXCEPT ![w] = [s EXCEPT !.pc = "done", !.answers = s.answers + 1, !.answer = answer,
                                               !.changed = echoes]]
            /\ UNCHANGED <<config, mutex>>
        BY <1>7, Zenon DEF AnswerEnds
      <3>2. s.answers + 1 = 1
        BY <1>2
      <3> QED BY <3>1, <3>2, Zenon
    <2>2. /\ answer \in AnswerType /\ answer.data = "reference" /\ answer.cache = "upstream"
          /\ "reference" \in DOMAIN Needs /\ Needs["reference"] = ReferenceUse /\ 1 \in 0..1
      BY DEF Discloses, AnswerType, Needs
    <2>3. Holds(s.actor, IF s.job = "read" THEN "reference.identity.read" ELSE "reference.echo.execute")
      <3>1. "echo" \in DOMAIN Authority /\ Authority["echo"] = "reference.echo.execute"
        BY Zenon DEF Authority
      <3> QED BY <1>2, <1>7, <3>1, Zenon DEF Fits
    <2> HIDE DEF answer
    <2>4. MayTell(s.actor, answer)
      BY <2>2, <2>3, Zenon DEF MayTell, Holds, ReferenceUse
    <2>5. new \in Handlers
      <3>1. ASSUME NEW pc \in Pcs, NEW n \in 0..1, NEW b \in BOOLEAN
            PROVE  [s EXCEPT !.pc = pc, !.answers = n, !.answer = answer, !.changed = b] \in Handlers
        BY <1>1, <2>2, Zenon DEF Handlers
      <3>2. "done" \in Pcs /\ echoes \in BOOLEAN
        BY Zenon DEF Pcs
      <3> QED BY <2>2, <3>1, <3>2, Zenon
    <2>6. /\ new.pc = "done" /\ new.answers = 1 /\ new.answer = answer /\ new.changed = echoes
          /\ new.request = s.request /\ new.actor = s.actor /\ new.job = s.job /\ new.thrown = s.thrown
          /\ new.head = s.head /\ new.confirmed = s.confirmed
      BY <1>1, Zenon DEF Handlers
    <2> HIDE DEF new
    <2>7. EndsProperly(new)
      BY <1>2, <2>6, Zenon DEF EndsProperly
    <2>8. RelaysWhole(new) /\ MayTell(new.actor, new.answer)
      BY <1>3, <1>7, <2>4, <2>6, Zenon DEF RelaysWhole
    <2>9. new.changed => new.job \in Changing
      BY <2>6, Zenon DEF Changing
    <2> QED BY <1>2, <2>1, <2>5, <2>6, <2>7, <2>8, <2>9, Ends, Zenon
  <1> QED BY <1>2, <1>4, <1>5, <1>6, <1>7, Zenon DEF RemoteJobs

LEMMA UpstreamKeeps ==
  ASSUME HandlerInv, NEW w \in Workers, Upstream(w)
  PROVE  HandlerInv'
  <1>1. {"upstream", "sending", "receiving"} = Remote /\ "none" \in Heads /\ 0 \in 0..ResponseLimit
    BY LoadsAssumption DEF Remote, Heads
  <1>2. CASE Connect(w)
    BY <1>1, <1>2, ExchangeKeeps, UnavailableKeeps, Zenon DEF Connect
  <1>3. CASE Forward(w)
    BY <1>1, <1>3, ExchangeKeeps, UnavailableKeeps, Zenon DEF Forward
  <1>4. CASE Receive(w)
    <2>1. h[w] \in Handlers
      BY AtWorker, Zenon
    <2>2. \A head \in Heads : Longer(head) \subseteq Heads
      BY Zenon DEF Longer, Heads
    <2>3. ASSUME NEW head \in Longer(h[w].head), h[w].got < ResponseLimit, Exchange(w, "receiving", h[w].got + 1, head)
          PROVE  HandlerInv'
      <3>1. h[w].head \in Heads /\ h[w].got \in 0..ResponseLimit
        BY <2>1, Zenon DEF Handlers
      <3>2. head \in Heads /\ h[w].pc \in Remote /\ "receiving" \in Remote
        BY <1>1, <1>4, <2>2, <3>1, Zenon DEF Receive
      <3>3. h[w].got + 1 \in 0..ResponseLimit
        BY <2>3, <3>1, LoadsAssumption
      <3> QED BY <2>3, <3>2, <3>3, ExchangeKeeps, Zenon
    <2> QED BY <1>1, <1>4, <2>3, UnavailableKeeps, Zenon DEF Receive
  <1> QED BY <1>2, <1>3, <1>4, AnswerEndsKeeps, Zenon DEF Upstream

-----------------------------------------------------------------------------
(* The theorems. *)

LEMMA IdleIsSound == Idle \in SoundHandlers
  <1>1. /\ Idle.pc = "idle" /\ Idle.job = "nothing" /\ Idle.answer = NoAnswer /\ Idle.answers = 0
        /\ Idle.thrown = "no" /\ Idle.changed = FALSE /\ Idle.confirmed = FALSE
    BY Zenon DEF Idle
  <1>2. Idle \in Handlers
    BY Constants, LoadsAssumption DEF Idle, Handlers, Pcs, Heads, Jobs
  <1>3. Fits(Idle.request, Idle.actor, "nothing", "idle")
    BY Zenon DEF Fits, Posting, Changing, Authority
  <1>4. Unanswered(Idle) /\ EndsProperly(Idle) /\ RelaysWhole(Idle) /\ MayTell(Idle.actor, Idle.answer)
    BY <1>1, Constants, Zenon DEF Unanswered, EndsProperly, RelaysWhole, MayTell
  <1>5. Placed(Idle)
    BY <1>1, Zenon DEF Placed, Remote
  <1> QED BY <1>1, <1>2, <1>3, <1>4, <1>5, Zenon DEF SoundHandlers, Sound

LEMMA TakenIsSound ==
  ASSUME NEW r \in RequestType
  PROVE  Taken(r) \in SoundHandlers /\ Taken(r).job = "nothing" /\ Taken(r).pc = "received"
  <1> DEFINE s == Taken(r)
  <1>1. Idle \in Handlers /\ Sound(Idle)
    BY IdleIsSound, Zenon DEF SoundHandlers
  <1>2. /\ s.pc = "received" /\ s.job = "nothing" /\ s.answer = NoAnswer /\ s.answers = 0
        /\ s.thrown = "no" /\ s.changed = FALSE /\ s.confirmed = FALSE /\ s.request = r
    BY Zenon DEF Idle, Taken
  <1>3. s \in Handlers
    <2>1. \A pc \in Pcs : [Idle EXCEPT !.pc = pc, !.request = r] \in Handlers
      BY <1>1, Zenon DEF Handlers
    <2>2. "received" \in Pcs
      BY Zenon DEF Pcs
    <2> QED BY <2>1, <2>2, Zenon DEF Taken
  <1> HIDE DEF s
  <1>4. Fits(s.request, s.actor, "nothing", "received")
    BY Zenon DEF Fits, Posting, Changing, Authority
  <1>5. Unanswered(s) /\ EndsProperly(s) /\ RelaysWhole(s) /\ MayTell(s.actor, s.answer)
    BY <1>2, Constants, Zenon DEF Unanswered, EndsProperly, RelaysWhole, MayTell
  <1>6. Placed(s)
    BY <1>2, Zenon DEF Placed, Remote
  <1> QED BY <1>2, <1>3, <1>4, <1>5, <1>6, Zenon DEF SoundHandlers, Sound, s

LEMMA WaitingIsSound ==
  ASSUME NEW r \in RequestType, NEW m, m # "nothing", MayWait(r, m)
  PROVE  Waiting(r, m) \in SoundHandlers /\ Waiting(r, m).request \in Local /\ Waiting(r, m).pc = "wait"
  <1> DEFINE s == Waiting(r, m)
  <1>1. Taken(r) \in Handlers
    BY TakenIsSound, Zenon DEF SoundHandlers
  <1>2. /\ s.pc = "wait" /\ s.job = "read" /\ s.answer = NoAnswer /\ s.answers = 0 /\ s.want = m
        /\ s.thrown = "no" /\ s.changed = FALSE /\ s.confirmed = FALSE /\ s.request = r /\ s.actor = r.session
    BY Zenon DEF Idle, Taken, Waiting
  <1>3. m \in Mutexes /\ r.session \in Roles
    BY Zenon DEF MayWait, ReadUnder, Mutexes
  <1>4. s \in Handlers
    <2>1. ASSUME NEW pc \in Pcs, NEW k \in Jobs
          PROVE  [Taken(r) EXCEPT !.pc = pc, !.actor = r.session, !.want = m, !.job = k] \in Handlers
      BY <1>1, <1>3, Zenon DEF Handlers
    <2>2. "wait" \in Pcs /\ "read" \in Jobs
      BY Zenon DEF Pcs, Jobs
    <2> QED BY <2>1, <2>2, Zenon DEF Waiting
  <1> HIDE DEF s
  <1>5. Fits(r, r.session, "read", "wait")
    <2>1. Holds(r.session, ApiCapability(r.path))
      BY <1>3, NothingAssumption, Zenon DEF Holds, MayWait
    <2>2. "read" \notin DOMAIN Authority
      BY Zenon DEF Authority
    <2> QED BY <2>1, <2>2, Zenon DEF Fits, Posting, Changing, Remote
  <1>6. Unanswered(s) /\ EndsProperly(s) /\ RelaysWhole(s) /\ MayTell(s.actor, s.answer)
    BY <1>2, Constants, Zenon DEF Unanswered, EndsProperly, RelaysWhole, MayTell
  <1>7. Placed(s)
    BY <1>2, <1>3, Zenon DEF Placed, Remote, LockJobs
  <1>8. r \in Local
    BY Zenon DEF MayWait, Reads, Local, Foreign, SameOrigin, Unsafe
  <1> QED BY <1>2, <1>4, <1>5, <1>6, <1>7, <1>8, Zenon DEF SoundHandlers, Sound, s

LEMMA InitInv == HandlerInit => HandlerInv
  <1> SUFFICES ASSUME HandlerInit PROVE HandlerInv
    OBVIOUS
  <1>0. PICK loads \in Loads : \E load \in loads : InitWith(load)
    BY Zenon DEF HandlerInit
  <1>1. PICK load \in loads : InitWith(load)
    BY <1>0, Zenon
  <1>2. /\ load.config \in ConfigType
        /\ \A w \in Workers : load.requests[w] # None =>
              /\ load.requests[w] \in RequestType
              /\ load.waiting # "nothing" => MayWait(load.requests[w], load.waiting)
    BY LoadsAssumption, Zenon
  <1>3. /\ config \in ConfigType /\ mutex = [m \in Mutexes |-> None]
    BY <1>1, <1>2, Zenon DEF InitWith
  <1>4. ASSUME NEW w \in Workers
        PROVE  h[w] \in SoundHandlers /\ h[w].pc # "inside" /\ (h[w].job # "nothing" => h[w].request \in Local)
    <2>1. CASE load.requests[w] = None
      <3>1. h[w] = Idle
        BY <1>1, <2>1, Zenon DEF InitWith
      <3>2. Idle.pc = "idle" /\ Idle.job = "nothing"
        BY Zenon DEF Idle
      <3> QED BY <3>1, <3>2, IdleIsSound, Zenon
    <2>2. CASE load.requests[w] # None /\ load.waiting # "nothing"
      <3>1. h[w] = Waiting(load.requests[w], load.waiting)
        BY <1>1, <2>2, Zenon DEF InitWith
      <3> QED BY <1>2, <2>2, <3>1, WaitingIsSound, Zenon
    <2>3. CASE load.requests[w] # None /\ load.waiting = "nothing"
      <3>1. h[w] = Taken(load.requests[w])
        BY <1>1, <2>3, Zenon DEF InitWith
      <3> QED BY <1>2, <2>3, <3>1, TakenIsSound, Zenon
    <2> QED BY <2>1, <2>2, <2>3, Zenon
  <1>5. h \in [Workers -> SoundHandlers]
    <2>1. h = [w \in Workers |-> h[w]]
      BY <1>1, Zenon DEF InitWith
    <2> QED BY <1>4, <2>1, Zenon
  <1>6. Excluded /\ WorksLocally
    <2>1. \A w \in Workers : w # None
      BY NothingAssumption, Zenon
    <2> QED BY <1>3, <1>4, <2>1, Zenon DEF Excluded, WorksLocally
  <1>7. mutex \in [Mutexes -> Workers \cup {None}]
    BY <1>3, Zenon
  <1> QED BY <1>3, <1>5, <1>6, <1>7, Zenon DEF HandlerInv

LEMMA NextInv == HandlerInv /\ [\E w \in Workers : Work(w)]_handlerVars => HandlerInv'
  <1> SUFFICES ASSUME HandlerInv, [\E w \in Workers : Work(w)]_handlerVars PROVE HandlerInv'
    OBVIOUS
  <1>1. CASE UNCHANGED handlerVars
    <2>1. config' = config /\ mutex' = mutex /\ h' = h
      BY <1>1, Zenon DEF handlerVars
    <2>2. Excluded'
      <3>1. Excluded
        BY Zenon DEF HandlerInv
      <3> QED BY <2>1, <3>1 DEF Excluded
    <2>3. WorksLocally'
      BY <2>1, LocalStays, Zenon DEF HandlerInv, WorksLocally
    <2> QED BY <2>1, <2>2, <2>3, Zenon DEF HandlerInv
  <1>2. ASSUME NEW w \in Workers, Work(w) PROVE HandlerInv'
    BY <1>2, UnreadableKeeps, DoorKeeps, RouteKeeps, AcquireKeeps, InsideKeeps, UpstreamKeeps, Zenon DEF Work
  <1> QED BY <1>1, <1>2, Zenon

\* Every state of the handlers is sound: HandlerInv is inductive.
THEOREM HandlersAreSound == HandlerSpec => []HandlerInv
  BY InitInv, NextInv, PTL DEF HandlerSpec

\* AnsweredOnce holds of every behaviour of the handlers: whatever the store, the
\* database and the subsystems do, handleClient ends with one answer, or with none
\* for one of the three exceptions, and relays only what had a whole header.
THEOREM EveryEndIsProper == HandlerSpec => []AnsweredOnce
  <1>1. HandlerInv => AnsweredOnce
    <2> SUFFICES ASSUME HandlerInv PROVE AnsweredOnce
      OBVIOUS
    <2>1. HandlerTypeOK
      <3>1. h \in [Workers -> Handlers]
        BY Zenon DEF HandlerInv, SoundHandlers
      <3> QED BY <3>1, Zenon DEF HandlerInv, HandlerTypeOK
    <2>2. ASSUME NEW w \in Workers
          PROVE  h[w].thrown \in {"no", "not_saved", "no_identity", "out_of_range"} /\ EndsProperly(h[w]) /\ RelaysWhole(h[w])
      BY AtWorker, Zenon DEF Handlers, Sound
    <2> QED BY <2>1, <2>2, Zenon DEF AnsweredOnce, EndsProperly, RelaysWhole
  <1> QED BY <1>1, HandlersAreSound, PTL

\* DisclosedUnderCapability holds of every behaviour: by any of the routes, what is
\* governed reaches only who holds the capability for it, and no cache; the pages of the
\* administration, not their data, go to anybody by the names of their files.
THEOREM OnlyTheEntitledAreTold == HandlerSpec => []DisclosedUnderCapability
  <1>1. HandlerInv => DisclosedUnderCapability
    BY AtWorker, Zenon DEF Sound, MayTell, ByName, DisclosedUnderCapability
  <1> QED BY <1>1, HandlersAreSound, PTL

\* The methods of the jobs that change something are looked at.
LEMMA ChangesAreLookedAt ==
  ASSUME NEW r, NEW actor, NEW job \in Changing, NEW pc, Fits(r, actor, job, pc)
  PROVE  Unsafe(r.method)
  BY Zenon DEF Fits, Posting, Changing, Unsafe

\* ChangesAreSameOrigin holds of every behaviour: the test of the origin comes before
\* everything that changes something, and covers every method that does.
THEOREM ChangesComeFromHere == HandlerSpec => []ChangesAreSameOrigin
  <1>1. HandlerInv => ChangesAreSameOrigin
    <2> SUFFICES ASSUME HandlerInv, NEW w \in Workers, h[w].changed, config.requireSameOrigin
                 PROVE  /\ Unsafe(h[w].request.method)
                        /\ h[w].request.headers.host = "here"
                        /\ h[w].request.headers.origin \in {"absent", "here"}
                        /\ h[w].request.headers.origin = "absent" => h[w].request.headers.referer \in {"absent", "here"}
                        /\ h[w].request.headers.origin = "absent" /\ h[w].request.headers.referer = "absent" =>
                              h[w].request.headers.site \in {"same-origin", "none"}
      BY Zenon DEF ChangesAreSameOrigin
    <2>1. h[w].job \in Changing /\ Fits(h[w].request, h[w].actor, h[w].job, h[w].pc)
      BY AtWorker, Zenon DEF Sound
    <2>2. Unsafe(h[w].request.method)
      BY <2>1, ChangesAreLookedAt, Zenon
    <2>3. h[w].request \in Local
      BY <2>1, Zenon DEF HandlerInv, WorksLocally, Changing
    <2>4. SameOrigin(h[w].request)
      BY <2>3, Zenon DEF Local, Foreign
    <2> QED BY <2>2, <2>4, Zenon DEF SameOrigin
  <1> QED BY <1>1, HandlersAreSound, PTL

\* A mutex is held by the one worker inside its section, also after an exception there.
THEOREM SectionsExclude == HandlerSpec => []Excluded
  <1>1. HandlerInv => Excluded
    BY Zenon DEF HandlerInv
  <1> QED BY <1>1, HandlersAreSound, PTL

=============================================================================
