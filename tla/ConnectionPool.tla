---------------------------- MODULE ConnectionPool ----------------------------
(***************************************************************************)
(* The connection thread pool of sisterd                                   *)
(* (apps/sisterd/runtime/connection_thread_pool.cpp) together with the     *)
(* accept loop that feeds and stops it (apps/sisterd/main.cpp).            *)
(*                                                                         *)
(* One main thread accepts connections and submits them; the workers take  *)
(* them from a bounded queue, run the handler behind an exception barrier  *)
(* and close them.  mutex_ is never held across two steps of this module,  *)
(* so every critical section is one action; what is between two critical   *)
(* sections is a step of its own.  The condition variable is the set of    *)
(* workers asleep on it: a notification reaches only those.                *)
(***************************************************************************)
EXTENDS Naturals, Sequences

CONSTANTS Workers,      \* the threads of workers_
          Conns,        \* the connections clients open
          QueueLimit,   \* queueLimit_
          NoConn        \* "no connection held"

\* SISTER_WORKERS is parsed in 1..64 and SISTER_QUEUE_LIMIT in 16..4096.
ASSUME PoolAssumption ==
    /\ Workers # {}
    /\ QueueLimit \in Nat \ {0}
    /\ NoConn \notin Conns

VARIABLES
    keepRunning,    \* gKeepRunning
    mainPc,         \* where the main thread is
    inHand,         \* clientFd between accept() and submit() or close()
    backlog,        \* connections the listener has not handed over yet
    jobs,           \* jobs_
    stopping,       \* stopping_
    workerPc,       \* where each worker is
    workerJob,      \* the job each worker holds
    closes,         \* how many times each connection was closed
    served          \* history: connections a worker handled and closed

poolVars == <<jobs, stopping, workerPc, workerJob>>
vars == <<keepRunning, mainPc, inHand, backlog, jobs, stopping,
          workerPc, workerJob, closes, served>>

MainPcs == {"select", "submit", "refuse", "stop", "notify", "join", "drain",
            "destroy", "exit"}
WorkerPcs == {"check", "asleep", "handling", "closing", "exited"}

Asleep == {w \in Workers : workerPc[w] = "asleep"}
Queued == {jobs[i] : i \in 1..Len(jobs)}
Working == {workerJob[w] : w \in Workers} \ {NoConn}
Places == {"listener", "main", "queue", "worker", "nobody"}

Init ==
    /\ keepRunning = TRUE
    /\ mainPc = "select"
    /\ inHand = NoConn
    /\ backlog = Conns
    /\ jobs = <<>>
    /\ stopping = FALSE
    /\ workerPc = [w \in Workers |-> "check"]
    /\ workerJob = [w \in Workers |-> NoConn]
    /\ closes = [c \in Conns |-> 0]
    /\ served = {}

CloseFd(c) == closes' = [closes EXCEPT ![c] = @ + 1]

-----------------------------------------------------------------------------
(***************************************************************************)
(* The main thread.                                                        *)
(***************************************************************************)

\* SIGINT or SIGTERM: the handler only clears the flag.
HandleSignal ==
    /\ keepRunning
    /\ keepRunning' = FALSE
    /\ UNCHANGED <<mainPc, inHand, backlog, poolVars, closes, served>>

\* select() reports a connection and accept() returns it.  A peer of an
\* unexpected address family is closed by the loop itself.
Accept(c) ==
    /\ mainPc = "select"
    /\ keepRunning
    /\ c \in backlog
    /\ backlog' = backlog \ {c}
    /\ inHand' = c
    /\ mainPc' \in {"submit", "refuse"}
    /\ UNCHANGED <<keepRunning, poolVars, closes, served>>

\* The loop ends on the flag, or on an error of select() or accept().
LeaveLoop ==
    /\ mainPc = "select"
    /\ mainPc' = "stop"
    /\ UNCHANGED <<keepRunning, inHand, backlog, poolVars, closes, served>>

\* Mutant: submit() forgets to notify.
NotifyOneForgotten == workerPc' = workerPc

\* notify_one: any one of the sleepers, or nobody when none sleeps.
NotifyOne ==
    \/ \E w \in Asleep : workerPc' = [workerPc EXCEPT ![w] = "check"]
    \/ Asleep = {} /\ workerPc' = workerPc

\* Mutant: the job is pushed twice.
EnqueueTwice(c) == jobs' = jobs \o <<c, c>> /\ NotifyOne

Enqueue(c) == jobs' = Append(jobs, c) /\ NotifyOne

QueueFull == Len(jobs) >= QueueLimit

\* The critical section of submit() when the job is refused.
SubmitRefused ==
    /\ mainPc = "submit"
    /\ stopping \/ QueueFull
    /\ mainPc' = "refuse"
    /\ UNCHANGED <<keepRunning, inHand, backlog, poolVars, closes, served>>

\* The critical section of submit() when the job is queued.
SubmitQueued ==
    /\ mainPc = "submit"
    /\ ~stopping
    /\ ~QueueFull
    /\ Enqueue(inHand)
    /\ inHand' = NoConn
    /\ mainPc' = "select"
    /\ UNCHANGED <<keepRunning, backlog, stopping, workerJob, closes, served>>

\* main closes what submit() did not take.
Refuse ==
    /\ mainPc = "refuse"
    /\ CloseFd(inHand)
    /\ inHand' = NoConn
    /\ mainPc' = "select"
    /\ UNCHANGED <<keepRunning, backlog, poolVars, served>>

\* stop(): the critical section that sets stopping_.
StopBegin ==
    /\ mainPc = "stop"
    /\ ~stopping
    /\ stopping' = TRUE
    /\ mainPc' = "notify"
    /\ UNCHANGED <<keepRunning, inHand, backlog, jobs, workerPc, workerJob,
                   closes, served>>

NotifyAll ==
    workerPc' = [w \in Workers |-> IF w \in Asleep THEN "check" ELSE workerPc[w]]

\* stop(): notify_all, after the lock was released.
StopNotify ==
    /\ mainPc = "notify"
    /\ NotifyAll
    /\ mainPc' = "join"
    /\ UNCHANGED <<keepRunning, inHand, backlog, jobs, stopping, workerJob,
                   closes, served>>

\* stop(): every worker has been joined.
StopJoin ==
    /\ mainPc = "join"
    /\ \A w \in Workers : workerPc[w] = "exited"
    /\ mainPc' = "drain"
    /\ UNCHANGED <<keepRunning, inHand, backlog, poolVars, closes, served>>

\* stop(): what is still queued is closed without being handled.
StopDrain ==
    /\ mainPc = "drain"
    /\ closes' = [c \in Conns |-> IF c \in Queued THEN closes[c] + 1 ELSE closes[c]]
    /\ jobs' = <<>>
    /\ mainPc' = "destroy"
    /\ UNCHANGED <<keepRunning, inHand, backlog, stopping, workerPc, workerJob,
                   served>>

\* The destructor calls stop() again, which returns at once.
Destroy ==
    /\ mainPc = "destroy"
    /\ stopping
    /\ mainPc' = "exit"
    /\ UNCHANGED <<keepRunning, inHand, backlog, poolVars, closes, served>>

-----------------------------------------------------------------------------
(***************************************************************************)
(* workerLoop() of worker w.                                               *)
(***************************************************************************)

\* cv_.wait finds its predicate false and sleeps, releasing the lock.
WorkerSleeps(w) ==
    /\ workerPc[w] = "check"
    /\ ~stopping /\ jobs = <<>>
    /\ workerPc' = [workerPc EXCEPT ![w] = "asleep"]
    /\ UNCHANGED <<keepRunning, mainPc, inHand, backlog, jobs, stopping,
                   workerJob, closes, served>>

\* A condition variable may wake a thread nobody notified.
SpuriousWakeup(w) ==
    /\ workerPc[w] = "asleep"
    /\ workerPc' = [workerPc EXCEPT ![w] = "check"]
    /\ UNCHANGED <<keepRunning, mainPc, inHand, backlog, jobs, stopping,
                   workerJob, closes, served>>

WorkerTakes(w) ==
    /\ workerPc[w] = "check"
    /\ jobs # <<>>
    /\ workerJob' = [workerJob EXCEPT ![w] = Head(jobs)]
    /\ jobs' = Tail(jobs)
    /\ workerPc' = [workerPc EXCEPT ![w] = "handling"]
    /\ UNCHANGED <<keepRunning, mainPc, inHand, backlog, stopping, closes, served>>

\* Mutant: a worker leaves as soon as the pool stops.
MayLeaveEarly == stopping

MayLeave == stopping /\ jobs = <<>>


WorkerExits(w) ==
    /\ workerPc[w] = "check"
    /\ MayLeave
    /\ workerPc' = [workerPc EXCEPT ![w] = "exited"]
    /\ UNCHANGED <<keepRunning, mainPc, inHand, backlog, jobs, stopping,
                   workerJob, closes, served>>

\* The exception is caught and logged (the logger's own exception too).
Contained(w) == workerPc' = [workerPc EXCEPT ![w] = "closing"]

HandlerReturns(w) ==
    /\ workerPc[w] = "handling"
    /\ workerPc' = [workerPc EXCEPT ![w] = "closing"]
    /\ UNCHANGED <<keepRunning, mainPc, inHand, backlog, jobs, stopping,
                   workerJob, closes, served>>

HandlerThrows(w) ==
    /\ workerPc[w] = "handling"
    /\ Contained(w)
    /\ UNCHANGED <<keepRunning, mainPc, inHand, backlog, jobs, stopping,
                   workerJob, closes, served>>

\* Mutant: close() is repeated as long as it is interrupted.
WorkerClosesRetrying(w) == workerPc[w] = "closing" /\ UNCHANGED vars

WorkerCloses(w) ==
    /\ workerPc[w] = "closing"
    /\ CloseFd(workerJob[w])
    /\ served' = served \cup {workerJob[w]}
    /\ workerJob' = [workerJob EXCEPT ![w] = NoConn]
    /\ workerPc' = [workerPc EXCEPT ![w] = "check"]
    /\ UNCHANGED <<keepRunning, mainPc, inHand, backlog, jobs, stopping>>

-----------------------------------------------------------------------------
MainStep ==
    \/ \E c \in Conns : Accept(c)
    \/ SubmitRefused \/ SubmitQueued \/ Refuse
    \/ StopBegin \/ StopNotify \/ StopJoin \/ StopDrain \/ Destroy

WorkerStep(w) ==
    \/ WorkerSleeps(w) \/ WorkerTakes(w) \/ WorkerExits(w)
    \/ HandlerReturns(w) \/ HandlerThrows(w) \/ WorkerCloses(w)

\* The process has returned from main.
Exited == mainPc = "exit" /\ UNCHANGED vars

Next ==
    \/ HandleSignal
    \/ LeaveLoop
    \/ MainStep
    \/ \E w \in Workers : WorkerStep(w) \/ SpuriousWakeup(w)
    \/ Exited

Spec == Init /\ [][Next]_vars

(***************************************************************************)
(* The scheduler keeps running the threads.  select() times out every      *)
(* second, so the main thread reaches the loop's condition; a handler      *)
(* returns because its sockets have receive and send timeouts.             *)
(***************************************************************************)
Fairness ==
    /\ WF_vars(MainStep)
    /\ WF_vars(~keepRunning /\ LeaveLoop)
    /\ \A w \in Workers : WF_vars(WorkerStep(w))

FairSpec == Spec /\ Fairness

-----------------------------------------------------------------------------
TypeOK ==
    /\ keepRunning \in BOOLEAN
    /\ mainPc \in MainPcs
    /\ inHand \in Conns \cup {NoConn}
    /\ backlog \subseteq Conns
    /\ jobs \in Seq(Conns)
    /\ stopping \in BOOLEAN
    /\ workerPc \in [Workers -> WorkerPcs]
    /\ workerJob \in [Workers -> Conns \cup {NoConn}]
    /\ closes \in [Conns -> Nat]
    /\ served \subseteq Conns

(***************************************************************************)
(* Every connection has exactly one owner at any time (the listener, the   *)
(* accept loop, one place in the queue, one worker) until it is closed,    *)
(* and then none: a descriptor is never closed twice, used after close()   *)
(* or handled by two workers, whatever submit, stop and the workers do     *)
(* between each other's critical sections.                                 *)
(***************************************************************************)
Owns(place, c) ==
    \/ place = "listener" /\ c \in backlog
    \/ place = "main" /\ inHand = c
    \/ place = "queue" /\ c \in Queued
    \/ place = "worker" /\ c \in Working
    \/ place = "nobody" /\ closes[c] = 1

SingleOwner ==
    /\ \A c \in Conns : \E p \in Places :
          Owns(p, c) /\ \A q \in Places \ {p} : ~Owns(q, c)
    /\ \A c \in Conns : closes[c] <= 1
    /\ \A i, j \in 1..Len(jobs) : jobs[i] = jobs[j] => i = j
    /\ \A v, w \in Workers :
          workerJob[v] = workerJob[w] /\ workerJob[v] # NoConn => v = w

\* submit() refuses above queueLimit_, and nothing else fills the queue.
QueueBounded == Len(jobs) <= QueueLimit

(***************************************************************************)
(* No wakeup is lost: work never waits while every worker sleeps, and      *)
(* after stop()'s notify_all nobody sleeps, so join() cannot hang on a     *)
(* sleeper.                                                                *)
(***************************************************************************)
NoLostWakeup ==
    /\ jobs # <<>> => Asleep # Workers
    /\ mainPc \in {"join", "drain", "destroy", "exit"} => Asleep = {}

(***************************************************************************)
(* ADR-0019: an exception of a handler does not take its worker away, so   *)
(* workers leave only in a shutdown, and only with the queue empty.  The   *)
(* loop at the end of stop() therefore never finds a job to close: every   *)
(* admitted connection was handled.                                        *)
(***************************************************************************)
WorkersOutliveJobs ==
    (\E w \in Workers : workerPc[w] = "exited") => stopping /\ jobs = <<>>

-----------------------------------------------------------------------------
\* What a client has been promised, read off the pool's state.
Held(c) == inHand = c
PhaseOf(c) ==
    CASE c \in backlog -> "waiting"
      [] Held(c) -> "held"
      [] c \notin backlog /\ ~Held(c) /\ closes[c] = 0 -> "admitted"
      [] c \in served -> "served"
      [] OTHER -> "refused"

Service == INSTANCE ConnectionService
             WITH phase <- [c \in Conns |-> PhaseOf(c)]

(***************************************************************************)
(* The pool implements the service: in particular a job that submit()      *)
(* accepted is never closed unhandled by stop(), and (under FairSpec)      *)
(* every connection taken from the listener is eventually closed.          *)
(***************************************************************************)
ServiceSafety == Service!Spec
ServiceFairness == Service!FairSpec

=============================================================================
