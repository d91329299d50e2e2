------------------------------ MODULE CoreProcess ------------------------------
(***************************************************************************)
(* The one sisterd of an environment as scripts start and stop it:         *)
(* app/serve.sh, app/stop.sh --core-only and runtime.sh start, stop and    *)
(* restart, over the PID file that app/process_identity.py writes and      *)
(* compares with /proc.  Processes end by themselves, their numbers are    *)
(* given to others, the executable is built again while sisterd runs,      *)
(* somebody starts a sisterd by hand, and a script may be killed between   *)
(* two steps.                                                              *)
(***************************************************************************)
EXTENDS Naturals, FiniteSets

CONSTANTS
    Invocations,  \* of the scripts, one at a time
    Pids,         \* numbers of processes
    MaxStarts,    \* bound on the processes started
    Nothing       \* no process, no file, no number

\* Nobody else has the name of an invocation.
ASSUME CoreAssumption ==
    /\ MaxStarts \in Nat
    /\ "other" \notin Invocations
    /\ Nothing \notin [pid : Pids, start : 1..MaxStarts]
    /\ Nothing \notin [by : Invocations \cup {"other"}, start : 1..MaxStarts,
                       program : {"sisterd", "another"}, exe : {"same", "replaced"},
                       phase : {"loading", "listening", "ending"}]

VARIABLES
    process,    \* /proc: number -> process or Nothing
    starts,     \* how many processes were started; start_ticks of the last one
    pidFile,    \* sisterd-<environment>.pid, or Nothing
    script,     \* invocation -> where it is and what it holds
    abandoned,  \* sisterd processes whose serve.sh was killed before they were recorded
    signalled   \* processes of others that terminate_process signalled

coreVars == <<process, starts, pidFile, script, abandoned, signalled>>

\* `program' is what cmdline and environ tell: this worktree's sisterd for this
\* environment, or not, as before exec.  `exe' is replaced once sisterd is built again.
\* A process listens, or does not yet; a signalled one ends in its time.
Processes ==
    [by : Invocations \cup {"other"}, start : 1..MaxStarts, program : {"sisterd", "another"},
     exe : {"same", "replaced"}, phase : {"loading", "listening", "ending"}]

\* The fields of the record that two processes can differ in.
Records == [pid : Pids, start : 1..MaxStarts]

Over == {"new", "done", "failed", "killed"}
Commands == {"serve", "stop", "start", "runtime stop", "restart"}
Steps ==
    {"build", "health", "owned", "exists", "open", "observe", "signal", "confirm", "unlink",
     "spawn", "record", "kill", "wait", "ready", "alive", "smoke"}

Left(how) == [at |-> how, then |-> "none", pid |-> Nothing, record |-> Nothing, fd |-> 0,
              command |-> "none"]

Scripts ==
    [at : Over \cup Steps, then : {"none", "spawn", "fail", "pass", "report", "health"},
     pid : Pids \cup {Nothing}, record : Records \cup {Nothing},
     fd : 0..MaxStarts, command : Commands \cup {"none"}]

CoreTypeOK ==
    /\ process \in [Pids -> Processes \cup {Nothing}]
    /\ starts \in 0..MaxStarts
    /\ pidFile \in Records \cup {Nothing}
    /\ script \in [Invocations -> Scripts]
    /\ abandoned \subseteq 1..MaxStarts
    /\ signalled \subseteq 1..MaxStarts

CoreInit ==
    /\ process = [p \in Pids |-> Nothing]
    /\ starts = 0
    /\ pidFile = Nothing
    /\ script = [i \in Invocations |-> Left("new")]
    /\ abandoned = {}
    /\ signalled = {}

Alive(p) == process[p] # Nothing
Listening == {p \in Pids : Alive(p) /\ process[p].phase = "listening"}

IsAt(i, step) == script[i].at = step

\* The script goes on at a step with what it holds, or is over.
Continue(i, step, held) ==
    script' = [script EXCEPT ![i] = IF step \in Over THEN Left(step) ELSE [held EXCEPT !.at = step]]
StepTo(i, step) == Continue(i, step, script[i])

-----------------------------------------------------------------------------
(* The machine *)

Begun(p, by, program) ==
    /\ ~ Alive(p)
    /\ starts < MaxStarts
    /\ starts' = starts + 1
    /\ process' = [process EXCEPT ![p] =
          [by |-> by, start |-> starts + 1, program |-> program, exe |-> "same", phase |-> "loading"]]

\* Somebody else starts something, perhaps a sisterd by hand.  The number of a child
\* that serve.sh is recording is not given to another sisterd within those 2 s.
OthersBegin(p, program) ==
    /\ program = "sisterd" => \A i \in Invocations : ~(IsAt(i, "record") /\ script[i].pid = p)
    /\ Begun(p, "other", program)
    /\ UNCHANGED <<pidFile, script, abandoned, signalled>>

\* The child of serve.sh: shell, setsid and env become sisterd.
Execs(p) ==
    /\ Alive(p) /\ process[p].by # "other" /\ process[p].program = "another"
    /\ process' = [process EXCEPT ![p].program = "sisterd"]
    /\ UNCHANGED <<starts, pidFile, script, abandoned, signalled>>

\* The port belongs to one process at a time; who finds it taken ends.
Listens(p) ==
    /\ Alive(p) /\ process[p].program = "sisterd" /\ process[p].phase = "loading"
    /\ Listening = {}
    /\ process' = [process EXCEPT ![p].phase = "listening"]
    /\ UNCHANGED <<starts, pidFile, script, abandoned, signalled>>

Ends(p) ==
    /\ Alive(p)
    /\ process' = [process EXCEPT ![p] = Nothing]
    /\ UNCHANGED <<starts, pidFile, script, abandoned, signalled>>

-----------------------------------------------------------------------------
(* process_identity.py *)

\* Mutant: a process of the same command line and environment will do.
IsRecordedByName(record) ==
    Alive(record.pid) /\ process[record.pid].program = "sisterd"

\* observe() of a process that is to be stopped, against its record: the executable
\* may have been replaced since.
IsRecorded(record) ==
    /\ Alive(record.pid)
    /\ process[record.pid].program = "sisterd"
    /\ process[record.pid].start = record.start

\* validate_process, which ends with 0.
Validates == pidFile # Nothing /\ IsRecorded(pidFile)

-----------------------------------------------------------------------------
(* stop.sh --core-only, alone or called by the others; `then' is what the caller does
   next: go on only if it succeeded (spawn), fail in any case (fail), succeed in any
   case (pass), give its result (report), or go on in any case (health). *)

StopReturns(i, ok) ==
    StepTo(i, CASE script[i].then = "spawn" -> IF ok THEN "spawn" ELSE "failed"
                [] script[i].then = "fail" -> "failed"
                [] script[i].then = "pass" -> "done"
                [] script[i].then = "report" -> IF ok THEN "done" ELSE "failed"
                [] script[i].then = "health" -> "health")

CallStop(i, then) == Continue(i, "exists", [script[i] EXCEPT !.then = then])

machine == <<process, starts, abandoned>>

Exists(i) ==
    /\ IsAt(i, "exists")
    /\ IF pidFile = Nothing THEN StopReturns(i, TRUE) ELSE StepTo(i, "open")
    /\ UNCHANGED <<machine, pidFile, signalled>>

\* terminate_process reads the record and opens a descriptor of the process that has
\* the number now: 4 when there is none.
Open(i) ==
    /\ IsAt(i, "open")
    /\ IF Alive(pidFile.pid)
         THEN Continue(i, "observe", [script[i] EXCEPT !.record = pidFile,
                                                       !.fd = process[pidFile.pid].start])
         ELSE StepTo(i, "unlink")
    /\ UNCHANGED <<machine, pidFile, signalled>>

\* Ends with 3 unless the process with that number is the one recorded.
Observe(i) ==
    /\ IsAt(i, "observe")
    /\ IF IsRecorded(script[i].record) THEN StepTo(i, "signal") ELSE StopReturns(i, FALSE)
    /\ UNCHANGED <<machine, pidFile, signalled>>

\* SIGTERM through the descriptor: 3 when that process is gone by now.
Signal(i) ==
    /\ IsAt(i, "signal")
    /\ \/ /\ \A p \in Pids : Alive(p) => process[p].start # script[i].fd
          /\ StopReturns(i, FALSE)
          /\ UNCHANGED <<process, signalled>>
       \/ \E p \in Pids :
             /\ Alive(p) /\ process[p].start = script[i].fd
             /\ process' = [process EXCEPT ![p].phase = "ending"]
             /\ signalled' = IF process[p].by = "other" THEN signalled \cup {script[i].fd} ELSE signalled
             /\ StepTo(i, "confirm")
    /\ UNCHANGED <<starts, abandoned, pidFile>>

\* Up to 40 validations; any that fails means that the process has stopped.
Confirm(i) ==
    /\ IsAt(i, "confirm")
    /\ IF Validates THEN StopReturns(i, FALSE) ELSE StepTo(i, "unlink")
    /\ UNCHANGED <<machine, pidFile, signalled>>

RemovePidFile(i) ==
    /\ IsAt(i, "unlink")
    /\ pidFile' = Nothing
    /\ StopReturns(i, TRUE)
    /\ UNCHANGED <<machine, signalled>>

-----------------------------------------------------------------------------
(* The scripts *)

Invoke(i, command) ==
    /\ IsAt(i, "new")
    /\ \A j \in Invocations : script[j].at \in Over
    /\ LET held == [script[i] EXCEPT !.command = command]
       IN  CASE command = "serve" -> Continue(i, "build", held)
             [] command = "start" -> Continue(i, "health", held)
             [] command = "stop" -> Continue(i, "exists", [held EXCEPT !.then = "report"])
             [] command = "runtime stop" -> Continue(i, "exists", [held EXCEPT !.then = "pass"])
             [] command = "restart" -> Continue(i, "exists", [held EXCEPT !.then = "health"])
    /\ UNCHANGED <<machine, pidFile, signalled>>

\* serve.sh: the build replaces the executable, finds nothing to do, or fails.
Build(i) ==
    /\ IsAt(i, "build")
    /\ \/ /\ process' = [p \in Pids |->
                IF Alive(p) /\ process[p].program = "sisterd"
                  THEN [process[p] EXCEPT !.exe = "replaced"] ELSE process[p]]
          /\ CallStop(i, "spawn")
       \/ UNCHANGED process /\ (CallStop(i, "spawn") \/ StepTo(i, "failed"))
    /\ UNCHANGED <<starts, abandoned, pidFile, signalled>>

Spawn(i, p) ==
    /\ IsAt(i, "spawn")
    /\ Begun(p, i, "another")
    /\ Continue(i, "record", [script[i] EXCEPT !.pid = p])
    /\ UNCHANGED <<abandoned, pidFile, signalled>>

\* record_process: within 2 s the number belongs to a sisterd with the executable as it
\* is now, and the file is replaced; or not.
Record(i) ==
    /\ IsAt(i, "record")
    /\ LET p == script[i].pid
       IN  \/ /\ Alive(p) /\ process[p].program = "sisterd" /\ process[p].exe = "same"
              /\ pidFile' = [pid |-> p, start |-> process[p].start]
              /\ StepTo(i, "ready")
           \/ StepTo(i, "kill") /\ UNCHANGED pidFile
    /\ UNCHANGED <<machine, signalled>>

\* kill and wait; the shell has reaped a child that ended, and the number may be
\* another's.
KillChild(i) ==
    /\ IsAt(i, "kill")
    /\ process' = IF Alive(script[i].pid)
                    THEN [process EXCEPT ![script[i].pid].phase = "ending"] ELSE process
    /\ StepTo(i, "wait")
    /\ UNCHANGED <<starts, abandoned, pidFile, signalled>>

WaitChild(i) ==
    /\ IsAt(i, "wait")
    /\ \A p \in Pids : Alive(p) => process[p].by # i
    /\ StepTo(i, "failed")
    /\ UNCHANGED <<machine, pidFile, signalled>>

\* Until whoever listens answers, the number is free, or 20 rounds have passed.
Ready(i) ==
    /\ IsAt(i, "ready")
    /\ \/ Listening # {} /\ StepTo(i, "alive")
       \/ CallStop(i, "fail")
    /\ UNCHANGED <<machine, pidFile, signalled>>

StillAlive(i) ==
    /\ IsAt(i, "alive")
    /\ IF ~ Alive(script[i].pid) THEN CallStop(i, "fail")
       ELSE StepTo(i, IF script[i].command = "serve" THEN "done" ELSE "smoke")
    /\ UNCHANGED <<machine, pidFile, signalled>>

\* runtime.sh start: what answers already is owned, or it is refused; otherwise the
\* database is brought up, which may fail, and serve.sh --no-build is called.
HealthOk(i) ==
    /\ IsAt(i, "health")
    /\ \/ Listening # {} /\ StepTo(i, "owned")
       \/ CallStop(i, "spawn")
       \/ StepTo(i, "failed")
    /\ UNCHANGED <<machine, pidFile, signalled>>

Owned(i) ==
    /\ IsAt(i, "owned")
    /\ StepTo(i, IF Validates THEN "done" ELSE "failed")
    /\ UNCHANGED <<machine, pidFile, signalled>>

\* smoke.sh and a last look at the port; a failed smoke test stops sisterd again.
Smoke(i) ==
    /\ IsAt(i, "smoke")
    /\ \/ Listening # {} /\ StepTo(i, "done")
       \/ CallStop(i, "fail")
       \/ StepTo(i, "failed")
    /\ UNCHANGED <<machine, pidFile, signalled>>

\* SIGKILL.
KillScript(i) ==
    /\ script[i].at \notin Over
    /\ abandoned' = IF script[i].at \in {"record", "kill", "wait"}
                      THEN abandoned \cup {process[p].start : p \in {q \in Pids : Alive(q) /\ process[q].by = i}}
                      ELSE abandoned
    /\ StepTo(i, "killed")
    /\ UNCHANGED <<process, starts, pidFile, signalled>>

CoreStep(i) ==
    \/ \E command \in Commands : Invoke(i, command)
    \/ Exists(i) \/ Open(i) \/ Observe(i) \/ Signal(i) \/ Confirm(i) \/ RemovePidFile(i)
    \/ Build(i) \/ (\E p \in Pids : Spawn(i, p)) \/ Record(i) \/ KillChild(i) \/ WaitChild(i)
    \/ Ready(i) \/ StillAlive(i) \/ HealthOk(i) \/ Owned(i) \/ Smoke(i) \/ KillScript(i)

CoreNext ==
    \/ \E p \in Pids : Execs(p) \/ Listens(p) \/ Ends(p)
    \/ \E p \in Pids, program \in {"sisterd", "another"} : OthersBegin(p, program)
    \/ \E i \in Invocations : CoreStep(i)

CoreSpec == CoreInit /\ [][CoreNext]_coreVars

-----------------------------------------------------------------------------
(***************************************************************************)
(* All state has its type, and the scripts keep hold of their own sisterd, *)
(* every one of them, and stop no process by its record alone              *)
(* (docs/evidence/operations/DEV-ORCH-02.md).  A sisterd that serve.sh     *)
(* started and that runs is named by the PID file, or serve.sh is still    *)
(* about to record it: no stop removed the file from under it and no start *)
(* wrote over it, unless serve.sh was killed before it recorded.  And      *)
(* terminate_process never signals a process that others started, whatever *)
(* numbers were reused since the record was made.  serve.sh's own kill of  *)
(* a child that it could not record (KillChild) names a bare number and is *)
(* not part of this claim.                                                 *)
(***************************************************************************)
StopsItsOwn ==
    /\ CoreTypeOK
    /\ \A p \in Pids :
          Alive(p) /\ process[p].by # "other" =>
              \/ pidFile = [pid |-> p, start |-> process[p].start]
              \/ script[process[p].by].at \in {"record", "kill", "wait"}
              \/ process[p].start \in abandoned
    /\ signalled = {}
================================================================================
