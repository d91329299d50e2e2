---------------------------- MODULE SisterdProofs ----------------------------
(***************************************************************************)
(* Theorems about the process sisterd: its pool of connections, for any    *)
(* number of workers and connections and any queue limit; what a process   *)
(* that listens has been started with, for every set of environments; that *)
(* the process keeps what the pool promises; and what the scripts that     *)
(* start and stop the process signal (CoreProcess), for any numbers of     *)
(* invocations and process numbers.                                        *)
(***************************************************************************)
EXTENDS Sisterd, CoreProcess, TLAPS

(* The scripts around the process. *)

StopSteps == {"exists", "open", "observe", "signal", "confirm", "unlink"}

\* Processes started one after the other differ in their start_ticks.
StartsInv ==
    /\ \A p \in Pids : Alive(p) => process[p].start <= starts
    /\ \A p, q \in Pids : Alive(p) /\ Alive(q) /\ process[p].start = process[q].start => p = q

\* The process of the record, if it runs, has its number and is a sisterd of serve.sh.
RecordInv ==
    pidFile # Nothing =>
        /\ pidFile.start <= starts
        /\ \A p \in Pids : Alive(p) /\ process[p].start = pidFile.start =>
              p = pidFile.pid /\ process[p].by # "other" /\ process[p].program = "sisterd"

\* The process of the record does not run.
RecordedIsGone == pidFile # Nothing => \A p \in Pids : Alive(p) => process[p].start # pidFile.start

\* What invocation i has started does not run.
NoneOf(i) == \A p \in Pids : Alive(p) => process[p].by # i

\* A script that has not come to its spawn.
BeforeSpawn(s) ==
    \/ s.at \in {"new", "build", "health", "owned", "spawn"}
    \/ s.at \in StopSteps /\ s.then # "fail"

\* What the script s of invocation i knows at each of its steps, as no other script
\* runs meanwhile.
Knows(i, s) ==
    /\ s.at \in StopSteps => s.then # "none"
    /\ s.at \in {"open", "observe", "signal"} => pidFile # Nothing
    /\ s.at \in {"observe", "signal"} => s.record = pidFile
    /\ s.at = "observe" /\ s.fd # pidFile.start => RecordedIsGone
    /\ s.at = "signal" => s.fd = pidFile.start
    /\ s.at = "unlink" => RecordedIsGone
    /\ s.at \in {"spawn", "record", "kill", "wait"} => pidFile = Nothing
    /\ BeforeSpawn(s) => NoneOf(i)
    /\ s.at \in {"record", "kill", "wait"} =>
          s.pid \in Pids /\ \A p \in Pids : Alive(p) /\ process[p].by = i => p = s.pid
    /\ s.at = "record" /\ Alive(s.pid) =>
          process[s.pid].by = i \/ (process[s.pid].by = "other" /\ process[s.pid].program = "another")

\* The scripts run one at a time.
OneScript == \A i, j \in Invocations : script[i].at \notin Over /\ script[j].at \notin Over => i = j

\* The second part of StopsItsOwn, for one process.
Accounted(p) ==
    Alive(p) /\ process[p].by # "other" =>
        \/ pidFile = [pid |-> p, start |-> process[p].start]
        \/ script[process[p].by].at \in {"record", "kill", "wait"}
        \/ process[p].start \in abandoned

CoreInv ==
    /\ CoreTypeOK
    /\ StartsInv
    /\ RecordInv
    /\ OneScript
    /\ \A i \in Invocations : Knows(i, script[i])
    /\ \A p \in Pids : Accounted(p)
    /\ signalled = {}

LEMMA CoreInvStopsItsOwn == CoreInv => StopsItsOwn
  BY Zenon DEF CoreInv, StopsItsOwn, Accounted

LEMMA CoreInvInit == CoreInit => CoreInv
  <1> SUFFICES ASSUME CoreInit PROVE CoreInv OBVIOUS
  <1> USE CoreAssumption
  <1>1. CoreTypeOK
    BY DEF CoreInit, CoreTypeOK, Scripts, Left, Over, Steps, Commands
  <1>2. \A p \in Pids : ~ Alive(p)
    BY Zenon DEF CoreInit, Alive
  <1>3. \A i \in Invocations : script[i].at = "new"
    BY Zenon DEF CoreInit, Left
  <1>4. StartsInv /\ RecordInv /\ OneScript /\ \A p \in Pids : Accounted(p)
    BY <1>2, <1>3, Zenon DEF CoreInit, StartsInv, RecordInv, OneScript, Accounted, Over
  <1>5. \A i \in Invocations : Knows(i, script[i])
    BY <1>2, <1>3, Zenon DEF Knows, StopSteps, BeforeSpawn, NoneOf
  <1> QED BY <1>1, <1>4, <1>5, Zenon DEF CoreInv, CoreInit

\* The same processes run, what they are may have changed in exe and phase.
Alike ==
    /\ process' \in [Pids -> Processes \cup {Nothing}]
    /\ \A p \in Pids : Alive(p)' <=> Alive(p)
    /\ \A p \in Pids : Alive(p) =>
          /\ process'[p].by = process[p].by
          /\ process'[p].start = process[p].start
          /\ process'[p].program = process[p].program

\* A step of one script that leaves the processes alike, and the PID file as it is or
\* removes one whose process is gone.
LEMMA ScriptStep ==
  ASSUME CoreInv, NEW i \in Invocations, NEW new \in Scripts,
         script' = [script EXCEPT ![i] = new],
         Alike, starts' = starts, signalled' = signalled, abandoned' = abandoned,
         pidFile' = pidFile \/ (pidFile' = Nothing /\ RecordedIsGone),
         \A j \in Invocations \ {i} : script[j].at \in Over,
         script[i].at \in {"record", "kill", "wait"} =>
             new.at \in {"record", "kill", "wait"} \/ NoneOf(i),
         Knows(i, new)'
  PROVE  CoreInv'
  <1> USE CoreAssumption
  <1>1. CoreTypeOK'
    BY Zenon DEF CoreInv, CoreTypeOK, Alike
  <1>2. StartsInv'
    BY Zenon DEF CoreInv, StartsInv, Alike
  <1>3. RecordInv'
    BY Zenon DEF CoreInv, RecordInv, Alike
  <1>4. /\ script'[i] = new
        /\ \A j \in Invocations \ {i} : script'[j] = script[j]
    BY Zenon DEF CoreInv, CoreTypeOK
  <1>5. OneScript'
    BY <1>4, Zenon DEF CoreInv, OneScript
  <1>6. ASSUME NEW j \in Invocations PROVE Knows(j, script[j])'
    <2>1. CASE j = i
      BY <2>1, <1>4, SMTT(60)
    <2>2. CASE j # i
      <3>1. script[j].at \in Over /\ Knows(j, script[j])
        BY <2>2, Zenon DEF CoreInv
      <3>2. NoneOf(j)' <=> NoneOf(j)
        BY Zenon DEF NoneOf, Alike
      <3> QED BY <3>1, <3>2, <1>4, <2>2, Zenon DEF Knows, Over, StopSteps, BeforeSpawn
    <2> QED BY <2>1, <2>2, Zenon
  <1>7. ASSUME NEW p \in Pids PROVE Accounted(p)'
    <2> SUFFICES ASSUME Alive(p), process[p].by # "other"
                 PROVE  \/ pidFile' = [pid |-> p, start |-> process[p].start]
                        \/ script'[process[p].by].at \in {"record", "kill", "wait"}
                        \/ process[p].start \in abandoned
      BY Zenon DEF Accounted, Alike
    <2>1. process[p].by \in Invocations
      BY Zenon DEF CoreInv, CoreTypeOK, Alive, Processes
    <2>2. CASE pidFile = [pid |-> p, start |-> process[p].start]
      BY <2>2, Zenon DEF RecordedIsGone
    <2>3. CASE script[process[p].by].at \in {"record", "kill", "wait"}
      BY <2>1, <2>3, <1>4, Zenon DEF NoneOf
    <2> QED BY <2>2, <2>3, Zenon DEF CoreInv, Accounted
  <1> QED BY <1>1, <1>2, <1>3, <1>5, <1>6, <1>7, Zenon DEF CoreInv

-----------------------------------------------------------------------------
(* The machine. *)

LEMMA ExecsKeeps ==
  ASSUME CoreInv, NEW p \in Pids, Execs(p)
  PROVE  CoreInv'
  <1> USE CoreAssumption
  <1>1. CoreTypeOK'
    BY DEF CoreInv, CoreTypeOK, Execs, Alive, Processes
  <1>2. \A q \in Pids : Alive(q)' <=> Alive(q)
    BY <1>1 DEF CoreInv, CoreTypeOK, Execs, Alive, Processes
  <1>3. \A q \in Pids : Alive(q) =>
           /\ process'[q].by = process[q].by /\ process'[q].start = process[q].start
           /\ process'[q].program = process[q].program
              \/ (process'[q].program = "sisterd" /\ process[q].by # "other")
    BY Zenon DEF CoreInv, CoreTypeOK, Execs, Alive, Processes
  <1>4. UNCHANGED <<starts, pidFile, script, abandoned, signalled>>
    BY Zenon DEF Execs
  <1>5. StartsInv' /\ RecordInv' /\ OneScript'
    BY <1>2, <1>3, <1>4 DEF CoreInv, StartsInv, RecordInv, OneScript
  <1>6. ASSUME NEW i \in Invocations PROVE Knows(i, script[i])'
    <2>1. Knows(i, script[i])
      BY Zenon DEF CoreInv
    <2>2. (NoneOf(i)' <=> NoneOf(i)) /\ (RecordedIsGone' <=> RecordedIsGone)
      BY <1>2, <1>3, <1>4, Zenon DEF NoneOf, RecordedIsGone
    <2> QED BY <2>1, <2>2, <1>2, <1>3, <1>4 DEF Knows, BeforeSpawn
  <1>7. \A q \in Pids : Accounted(q)'
    BY <1>2, <1>3, <1>4, Zenon DEF CoreInv, Accounted
  <1> QED BY <1>1, <1>4, <1>5, <1>6, <1>7, Zenon DEF CoreInv

LEMMA ListensKeeps ==
  ASSUME CoreInv, NEW p \in Pids, Listens(p)
  PROVE  CoreInv'
  <1> USE CoreAssumption
  <1>1. CoreTypeOK'
    BY DEF CoreInv, CoreTypeOK, Listens, Alive, Processes
  <1>2. \A q \in Pids : Alive(q)' <=> Alive(q)
    BY <1>1 DEF CoreInv, CoreTypeOK, Listens, Alive, Processes
  <1>3. \A q \in Pids : Alive(q) =>
           /\ process'[q].by = process[q].by /\ process'[q].start = process[q].start
           /\ process'[q].program = process[q].program
    BY Zenon DEF CoreInv, CoreTypeOK, Listens, Alive, Processes
  <1>4. UNCHANGED <<starts, pidFile, script, abandoned, signalled>>
    BY Zenon DEF Listens
  <1>5. StartsInv' /\ RecordInv' /\ OneScript'
    BY <1>2, <1>3, <1>4 DEF CoreInv, StartsInv, RecordInv, OneScript
  <1>6. ASSUME NEW i \in Invocations PROVE Knows(i, script[i])'
    <2>1. Knows(i, script[i])
      BY Zenon DEF CoreInv
    <2>2. (NoneOf(i)' <=> NoneOf(i)) /\ (RecordedIsGone' <=> RecordedIsGone)
      BY <1>2, <1>3, <1>4, Zenon DEF NoneOf, RecordedIsGone
    <2> QED BY <2>1, <2>2, <1>2, <1>3, <1>4, Zenon DEF Knows, BeforeSpawn
  <1>7. \A q \in Pids : Accounted(q)'
    BY <1>2, <1>3, <1>4, Zenon DEF CoreInv, Accounted
  <1> QED BY <1>1, <1>4, <1>5, <1>6, <1>7, Zenon DEF CoreInv

LEMMA EndsKeeps ==
  ASSUME CoreInv, NEW p \in Pids, Ends(p)
  PROVE  CoreInv'
  <1> USE CoreAssumption
  <1>1. CoreTypeOK'
    BY Zenon DEF CoreInv, CoreTypeOK, Ends
  <1>2. \A q \in Pids : Alive(q)' => Alive(q) /\ process'[q] = process[q]
    BY Zenon DEF CoreInv, CoreTypeOK, Ends, Alive
  <1>3. UNCHANGED <<starts, pidFile, script, abandoned, signalled>>
    BY Zenon DEF Ends
  <1>4. StartsInv' /\ RecordInv' /\ OneScript'
    BY <1>2, <1>3 DEF CoreInv, StartsInv, RecordInv, OneScript
  <1>5. ASSUME NEW i \in Invocations PROVE Knows(i, script[i])'
    <2>1. Knows(i, script[i])
      BY Zenon DEF CoreInv
    <2>2. (NoneOf(i) => NoneOf(i)') /\ (RecordedIsGone => RecordedIsGone')
      BY <1>2, <1>3, Zenon DEF NoneOf, RecordedIsGone
    <2> QED BY <2>1, <2>2, <1>2, <1>3, Zenon DEF Knows, BeforeSpawn
  <1>6. \A q \in Pids : Accounted(q)'
    BY <1>2, <1>3, Zenon DEF CoreInv, Accounted
  <1> QED BY <1>1, <1>3, <1>4, <1>5, <1>6, Zenon DEF CoreInv

\* A process that begins has a start_ticks no process and no record has had.
LEMMA BegunIsNew ==
  ASSUME CoreInv, NEW p \in Pids, NEW by \in Invocations \cup {"other"},
         NEW program \in {"sisterd", "another"}, Begun(p, by, program)
  PROVE  /\ process' \in [Pids -> Processes \cup {Nothing}]
         /\ starts' \in 0..MaxStarts /\ starts' = starts + 1
         /\ Alive(p)' /\ ~ Alive(p)
         /\ process'[p].by = by /\ process'[p].program = program /\ process'[p].start = starts + 1
         /\ \A q \in Pids \ {p} : process'[q] = process[q]
         /\ StartsInv'
         /\ (pidFile' = pidFile => RecordInv' /\ (RecordedIsGone => RecordedIsGone'))
  <1> USE CoreAssumption
  <1> DEFINE it == [by |-> by, start |-> starts + 1, program |-> program, exe |-> "same",
                    phase |-> "loading"]
  <1>1. starts' \in 0..MaxStarts /\ starts' = starts + 1 /\ starts \in Nat
    BY DEF CoreInv, CoreTypeOK, Begun
  <1>2. it \in Processes /\ it # Nothing
    BY <1>1 DEF Begun, Processes
  <1>3. /\ process' \in [Pids -> Processes \cup {Nothing}]
        /\ process'[p] = it
        /\ \A q \in Pids \ {p} : process'[q] = process[q]
    BY <1>2, Zenon DEF CoreInv, CoreTypeOK, Begun
  <1>4. Alive(p)' /\ ~ Alive(p)
    BY <1>2, <1>3, Zenon DEF Alive, Begun
  <1>5. \A q \in Pids : Alive(q) => process[q].start \in Nat /\ process[q].start <= starts
    BY DEF CoreInv, CoreTypeOK, StartsInv, Alive, Processes
  <1>6. \A q \in Pids \ {p} : Alive(q)' <=> Alive(q)
    BY <1>3, Zenon DEF Alive
  <1>7. StartsInv'
    BY <1>1, <1>3, <1>4, <1>5, <1>6 DEF CoreInv, StartsInv
  <1>8. pidFile # Nothing => pidFile.start \in Nat /\ pidFile.start <= starts
    BY DEF CoreInv, CoreTypeOK, RecordInv, Records
  <1>9. ASSUME pidFile' = pidFile PROVE RecordInv' /\ (RecordedIsGone => RecordedIsGone')
    BY <1>9, <1>1, <1>3, <1>4, <1>6, <1>8, SMTT(60) DEF CoreInv, RecordInv, RecordedIsGone
  <1> QED BY <1>1, <1>3, <1>4, <1>7, <1>9

LEMMA OthersBeginKeeps ==
  ASSUME CoreInv, NEW p \in Pids, NEW program \in {"sisterd", "another"}, OthersBegin(p, program)
  PROVE  CoreInv'
  <1> USE CoreAssumption
  <1>1. Begun(p, "other", program) /\ UNCHANGED <<pidFile, script, abandoned, signalled>>
    BY Zenon DEF OthersBegin
  <1>2. /\ process' \in [Pids -> Processes \cup {Nothing}]
        /\ starts' \in 0..MaxStarts /\ starts' = starts + 1
        /\ Alive(p)' /\ ~ Alive(p)
        /\ process'[p].by = "other" /\ process'[p].program = program /\ process'[p].start = starts + 1
        /\ \A q \in Pids \ {p} : process'[q] = process[q]
        /\ StartsInv' /\ RecordInv' /\ (RecordedIsGone => RecordedIsGone')
    BY <1>1, BegunIsNew
  <1>3. \A q \in Pids \ {p} : Alive(q)' <=> Alive(q)
    BY <1>2, Zenon DEF Alive
  <1>4. CoreTypeOK' /\ OneScript'
    BY <1>1, <1>2, SMTT(60) DEF CoreInv, CoreTypeOK, OneScript
  <1>5. ASSUME NEW i \in Invocations PROVE Knows(i, script[i])'
    <2>1. Knows(i, script[i])
      BY Zenon DEF CoreInv
    <2>2. NoneOf(i) => NoneOf(i)'
      BY <1>2, <1>3, Zenon DEF NoneOf
    <2>3. script[i].at = "record" /\ script[i].pid = p => program = "another"
      BY Zenon DEF OthersBegin, IsAt
    <2> QED BY <2>1, <2>2, <2>3, <1>1, <1>2, <1>3 DEF Knows, BeforeSpawn
  <1>6. \A q \in Pids : Accounted(q)'
    BY <1>1, <1>2, <1>3, Zenon DEF CoreInv, Accounted
  <1> QED BY <1>1, <1>2, <1>4, <1>5, <1>6, Zenon DEF CoreInv

-----------------------------------------------------------------------------
(* The scripts. *)

\* While a script runs the others have ended or have not begun.
LEMMA OthersAreOver ==
  ASSUME CoreInv, NEW i \in Invocations, script[i].at \notin Over
  PROVE  \A j \in Invocations \ {i} : script[j].at \in Over
  BY Zenon DEF CoreInv, OneScript

\* What Continue makes of a script.
LEMMA Continues ==
  ASSUME NEW i, NEW step \in Over \cup Steps, NEW held \in Scripts, Continue(i, step, held)
  PROVE  \E new \in Scripts :
            /\ script' = [script EXCEPT ![i] = new]
            /\ new.at = step
            /\ step \notin Over => /\ new.then = held.then /\ new.pid = held.pid
                                   /\ new.record = held.record /\ new.fd = held.fd
  <1> USE CoreAssumption
  <1>1. CASE step \in Over
    <2>1. Left(step) \in Scripts /\ Left(step).at = step
      BY <1>1 DEF Left, Scripts, Over, Steps
    <2> QED BY <1>1, <2>1, Zenon DEF Continue
  <1>2. CASE step \notin Over
    <2>1. [held EXCEPT !.at = step] \in Scripts
      BY Zenon DEF Scripts
    <2>2. [held EXCEPT !.at = step].at = step
      BY Zenon DEF Scripts
    <2> QED BY <1>2, <2>1, <2>2, Zenon DEF Continue, Scripts
  <1> QED BY <1>1, <1>2, Zenon

\* What a return of stop.sh makes of it: the spawn follows only a stop that succeeded.
LEMMA Returns ==
  ASSUME CoreInv, NEW i \in Invocations, script[i].at \in StopSteps, NEW ok \in BOOLEAN,
         StopReturns(i, ok)
  PROVE  \E new \in Scripts :
            /\ script' = [script EXCEPT ![i] = new]
            /\ new.at \in {"spawn", "health", "done", "failed"}
            /\ new.at = "spawn" => ok
            /\ new.at \in {"spawn", "health"} => script[i].then # "fail"
  <1> DEFINE step == CASE script[i].then = "spawn" -> IF ok THEN "spawn" ELSE "failed"
                       [] script[i].then = "fail" -> "failed"
                       [] script[i].then = "pass" -> "done"
                       [] script[i].then = "report" -> IF ok THEN "done" ELSE "failed"
                       [] script[i].then = "health" -> "health"
  <1>1. script[i] \in Scripts /\ script[i].then # "none"
    BY Zenon DEF CoreInv, CoreTypeOK, Knows
  <1>2. script[i].then \in {"spawn", "fail", "pass", "report", "health"}
    BY <1>1, Zenon DEF Scripts
  <1>3. /\ step \in {"spawn", "health", "done", "failed"}
        /\ step = "spawn" => ok
        /\ step \in {"spawn", "health"} => script[i].then # "fail"
    BY <1>2, Zenon
  <1>4. step \in Over \cup Steps
    BY <1>3, Zenon DEF Over, Steps
  <1>5. Continue(i, step, script[i])
    BY Zenon DEF StopReturns, StepTo
  <1> HIDE DEF step
  <1>6. PICK new \in Scripts : script' = [script EXCEPT ![i] = new] /\ new.at = step
    BY <1>1, <1>4, <1>5, Continues
  <1> QED BY <1>3, <1>6, Zenon

LEMMA NothingMoved == CoreInv /\ UNCHANGED process => Alike
  BY Zenon DEF CoreInv, CoreTypeOK, Alike, Alive

\* A return of stop.sh that succeeds without a PID file or fails, the file unchanged.
LEMMA ReturnKeeps ==
  ASSUME CoreInv, NEW i \in Invocations, script[i].at \in StopSteps, NEW ok \in BOOLEAN,
         StopReturns(i, ok), UNCHANGED <<process, starts, abandoned, signalled>>,
         \/ pidFile' = pidFile /\ (ok => pidFile = Nothing)
         \/ pidFile' = Nothing /\ RecordedIsGone
  PROVE  CoreInv'
  <1>1. PICK new \in Scripts :
            /\ script' = [script EXCEPT ![i] = new]
            /\ new.at \in {"spawn", "health", "done", "failed"}
            /\ new.at = "spawn" => ok
            /\ new.at \in {"spawn", "health"} => script[i].then # "fail"
    BY Returns, Zenon
  <1>2. \A j \in Invocations \ {i} : script[j].at \in Over
    BY OthersAreOver, Zenon DEF StopSteps, Over
  <1>3. Knows(i, script[i])
    BY Zenon DEF CoreInv
  <1>4. NoneOf(i)' <=> NoneOf(i)
    BY Zenon DEF NoneOf, Alive
  <1>5. Knows(i, new)'
    BY <1>1, <1>3, <1>4, Zenon DEF Knows, StopSteps, BeforeSpawn
  <1>6. Alike
    BY NothingMoved, Zenon
  <1> QED BY <1>1, <1>2, <1>5, <1>6, ScriptStep, Zenon DEF StopSteps

LEMMA ExistsKeeps ==
  ASSUME CoreInv, NEW i \in Invocations, Exists(i)
  PROVE  CoreInv'
  <1>1. script[i].at = "exists" /\ UNCHANGED <<process, starts, abandoned, pidFile, signalled>>
    BY Zenon DEF Exists, IsAt, machine
  <1>2. CASE pidFile = Nothing
    BY <1>1, <1>2, ReturnKeeps, Zenon DEF Exists, StopSteps
  <1>3. CASE pidFile # Nothing
    <2>1. script[i] \in Scripts /\ Knows(i, script[i])
      BY Zenon DEF CoreInv, CoreTypeOK
    <2>2. PICK new \in Scripts : /\ script' = [script EXCEPT ![i] = new]
                                 /\ new.at = "open" /\ new.then = script[i].then
      BY <1>3, <2>1, Continues DEF Exists, StepTo, Steps, Over
    <2>3. NoneOf(i)' <=> NoneOf(i)
      BY <1>1, SMTT(60) DEF NoneOf, Alive
    <2>4. Knows(i, new)'
      BY <1>1, <1>3, <2>1, <2>2, <2>3, Zenon DEF Knows, StopSteps, BeforeSpawn
    <2> QED BY <1>1, <2>2, <2>4, OthersAreOver, NothingMoved, ScriptStep, Zenon DEF Over
  <1> QED BY <1>2, <1>3, Zenon

LEMMA OpenKeeps ==
  ASSUME CoreInv, NEW i \in Invocations, Open(i)
  PROVE  CoreInv'
  <1>1. script[i].at = "open" /\ UNCHANGED <<process, starts, abandoned, pidFile, signalled>>
    BY Zenon DEF Open, IsAt, machine
  <1>2. script[i] \in Scripts /\ Knows(i, script[i]) /\ pidFile # Nothing
    BY <1>1, Zenon DEF CoreInv, CoreTypeOK, Knows
  <1>3. pidFile \in Records /\ pidFile.pid \in Pids
    BY <1>2, Zenon DEF CoreInv, CoreTypeOK, Records
  <1>4. NoneOf(i)' <=> NoneOf(i)
    BY <1>1, Zenon DEF NoneOf, Alive
  <1>5. CASE Alive(pidFile.pid)
    <2> DEFINE fd == process[pidFile.pid].start
               held == [script[i] EXCEPT !.record = pidFile, !.fd = fd]
    <2>1. fd \in 0..MaxStarts
      BY <1>3, <1>5, CoreAssumption DEF CoreInv, CoreTypeOK, Alive, Processes
    <2>2. held \in Scripts /\ held.record = pidFile /\ held.fd = fd /\ held.then = script[i].then
      BY <1>2, <1>3, <2>1, Zenon DEF Scripts
    <2>3. Continue(i, "observe", held)
      BY <1>5, Zenon DEF Open
    <2>4. fd # pidFile.start => RecordedIsGone'
      BY <1>1, <1>2, <1>5, Zenon DEF CoreInv, RecordInv, RecordedIsGone, Alive
    <2> HIDE DEF held, fd
    <2>5. PICK new \in Scripts :
             /\ script' = [script EXCEPT ![i] = new] /\ new.at = "observe"
             /\ new.then = held.then /\ new.record = held.record /\ new.fd = held.fd
      BY <2>2, <2>3, Continues DEF Steps, Over
    <2>6. Knows(i, new)'
      BY <1>1, <1>2, <1>4, <2>2, <2>5, <2>4, Zenon DEF Knows, StopSteps, BeforeSpawn
    <2> QED BY <1>1, <2>5, <2>6, OthersAreOver, NothingMoved, ScriptStep, Zenon DEF Over
  <1>6. CASE ~ Alive(pidFile.pid)
    <2>1. PICK new \in Scripts : /\ script' = [script EXCEPT ![i] = new]
                                 /\ new.at = "unlink" /\ new.then = script[i].then
      BY <1>2, <1>6, Continues DEF Open, StepTo, Steps, Over
    <2>2. RecordedIsGone'
      BY <1>1, <1>2, <1>6, Zenon DEF CoreInv, RecordInv, RecordedIsGone, Alive
    <2>3. Knows(i, new)'
      BY <1>1, <1>2, <1>4, <2>1, <2>2, Zenon DEF Knows, StopSteps, BeforeSpawn
    <2> QED BY <1>1, <2>1, <2>3, OthersAreOver, NothingMoved, ScriptStep, ZenonT(40) DEF Over
  <1> QED BY <1>5, <1>6, Zenon

LEMMA ObserveKeeps ==
  ASSUME CoreInv, NEW i \in Invocations, Observe(i)
  PROVE  CoreInv'
  <1>1. script[i].at = "observe" /\ UNCHANGED <<process, starts, abandoned, pidFile, signalled>>
    BY Zenon DEF Observe, IsAt, machine
  <1>2. /\ script[i] \in Scripts /\ Knows(i, script[i])
        /\ pidFile # Nothing /\ script[i].record = pidFile
    BY <1>1, Zenon DEF CoreInv, CoreTypeOK, Knows
  <1>3. pidFile.pid \in Pids
    BY <1>2, Zenon DEF CoreInv, CoreTypeOK, Records
  <1>4. NoneOf(i)' <=> NoneOf(i)
    BY <1>1, Zenon DEF NoneOf, Alive
  <1>5. CASE IsRecorded(pidFile)
    <2>1. PICK new \in Scripts :
             /\ script' = [script EXCEPT ![i] = new] /\ new.at = "signal"
             /\ new.then = script[i].then /\ new.record = pidFile /\ new.fd = script[i].fd
      BY <1>2, <1>5, Continues DEF Observe, StepTo, Steps, Over
    <2>2. ~ RecordedIsGone
      BY <1>2, <1>3, <1>5, Zenon DEF IsRecorded, RecordedIsGone
    <2>3. script[i].fd = pidFile.start
      BY <1>1, <1>2, <2>2, Zenon DEF Knows
    <2>4. Knows(i, new)'
      BY <1>1, <1>2, <1>4, <2>1, <2>3, SMTT(60) DEF Knows, StopSteps, BeforeSpawn
    <2> QED BY <1>1, <2>1, <2>4, OthersAreOver, NothingMoved, ScriptStep, Zenon DEF Over
  <1>6. CASE ~ IsRecorded(pidFile)
    BY <1>1, <1>2, <1>6, ReturnKeeps, Zenon DEF Observe, StopSteps
  <1> QED BY <1>5, <1>6, Zenon

LEMMA ConfirmKeeps ==
  ASSUME CoreInv, NEW i \in Invocations, Confirm(i)
  PROVE  CoreInv'
  <1>1. script[i].at = "confirm" /\ UNCHANGED <<process, starts, abandoned, pidFile, signalled>>
    BY Zenon DEF Confirm, IsAt, machine
  <1>2. script[i] \in Scripts /\ Knows(i, script[i])
    BY Zenon DEF CoreInv, CoreTypeOK
  <1>3. CASE Validates
    BY <1>1, <1>3, ReturnKeeps, Zenon DEF Confirm, StopSteps
  <1>4. CASE ~ Validates
    <2>1. PICK new \in Scripts : /\ script' = [script EXCEPT ![i] = new]
                                 /\ new.at = "unlink" /\ new.then = script[i].then
      BY <1>2, <1>4, Continues DEF Confirm, StepTo, Steps, Over
    <2>2. RecordedIsGone'
      BY <1>1, <1>4, Zenon DEF CoreInv, RecordInv, RecordedIsGone, Alive, Validates, IsRecorded
    <2>3. NoneOf(i)' <=> NoneOf(i)
      BY <1>1, Zenon DEF NoneOf, Alive
    <2>4. Knows(i, new)'
      BY <1>1, <1>2, <2>1, <2>2, <2>3, Zenon DEF Knows, StopSteps, BeforeSpawn
    <2> QED BY <1>1, <2>1, <2>4, OthersAreOver, NothingMoved, ScriptStep, Zenon DEF Over
  <1> QED BY <1>3, <1>4, Zenon

LEMMA RemovePidFileKeeps ==
  ASSUME CoreInv, NEW i \in Invocations, RemovePidFile(i)
  PROVE  CoreInv'
  <1>1. script[i].at = "unlink" /\ RecordedIsGone
    BY Zenon DEF CoreInv, Knows, RemovePidFile, IsAt
  <1> QED BY <1>1, ReturnKeeps, Zenon DEF RemovePidFile, StopSteps, machine

\* A script goes on to a step without looking at the PID file, or ends, and has nothing
\* started that is not recorded.
LEMMA MoveKeeps ==
  ASSUME CoreInv, NEW i \in Invocations, Alike, NEW held \in Scripts,
         NEW step \in {"exists", "build", "health", "owned", "alive", "smoke"} \cup (Over \ {"new"}),
         Continue(i, step, held), UNCHANGED <<starts, abandoned, pidFile, signalled>>,
         \A j \in Invocations \ {i} : script[j].at \in Over,
         script[i].at \in {"record", "kill", "wait"} => NoneOf(i),
         step = "exists" => held.then # "none",
         step \in {"build", "health", "owned"} \/ (step = "exists" /\ held.then # "fail") => NoneOf(i)
  PROVE  CoreInv'
  <1>1. step \in Over \cup Steps
    BY Zenon DEF Steps
  <1>2. PICK new \in Scripts :
           /\ script' = [script EXCEPT ![i] = new]
           /\ new.at = step
           /\ step \notin Over => new.then = held.then
    BY <1>1, Continues
  <1>3. NoneOf(i)' <=> NoneOf(i)
    BY Zenon DEF NoneOf, Alike
  <1>4. Knows(i, new)'
    BY <1>2, <1>3, Zenon DEF Knows, StopSteps, BeforeSpawn, Over
  <1> QED BY <1>2, <1>4, ScriptStep, Zenon

\* A call of stop.sh.
LEMMA CallStopKeeps ==
  ASSUME CoreInv, NEW i \in Invocations, Alike, NEW then \in {"spawn", "fail"},
         CallStop(i, then), UNCHANGED <<starts, abandoned, pidFile, signalled>>,
         script[i].at \notin Over \cup {"record", "kill", "wait"},
         then = "spawn" => NoneOf(i)
  PROVE  CoreInv'
  <1>1. script[i] \in Scripts
    BY Zenon DEF CoreInv, CoreTypeOK
  <1> DEFINE held == [script[i] EXCEPT !.then = then]
  <1>2. held \in Scripts /\ held.then = then
    BY <1>1, Zenon DEF Scripts
  <1>3. Continue(i, "exists", held)
    BY Zenon DEF CallStop
  <1> HIDE DEF held
  <1> QED BY <1>2, <1>3, MoveKeeps, OthersAreOver, Zenon

LEMMA InvokeKeeps ==
  ASSUME CoreInv, NEW i \in Invocations, NEW command \in Commands, Invoke(i, command)
  PROVE  CoreInv'
  <1>1. /\ script[i].at = "new" /\ UNCHANGED <<process, starts, abandoned, pidFile, signalled>>
        /\ \A j \in Invocations : script[j].at \in Over
    BY ZenonT(40) DEF Invoke, IsAt, machine
  <1>2. script[i] \in Scripts /\ NoneOf(i) /\ Alike
    BY <1>1, NothingMoved, Zenon DEF CoreInv, CoreTypeOK, Knows, BeforeSpawn
  <1> DEFINE held == [script[i] EXCEPT !.command = command]
             then(t) == [held EXCEPT !.then = t]
  <1>3. held \in Scripts
    BY <1>2, Zenon DEF Scripts
  <1>4. \A t \in {"report", "pass", "health"} : then(t) \in Scripts /\ then(t).then = t
    BY <1>3, Zenon DEF Scripts
  <1>5. \/ Continue(i, "build", held)
        \/ Continue(i, "health", held)
        \/ \E t \in {"report", "pass", "health"} : Continue(i, "exists", then(t))
    BY Zenon DEF Invoke, Commands
  <1> HIDE DEF held, then
  <1> QED BY <1>1, <1>2, <1>3, <1>4, <1>5, MoveKeeps, Zenon

LEMMA BuildKeeps ==
  ASSUME CoreInv, NEW i \in Invocations, Build(i)
  PROVE  CoreInv'
  <1>1. script[i].at = "build" /\ UNCHANGED <<starts, abandoned, pidFile, signalled>>
    BY Zenon DEF Build, IsAt
  <1>2. script[i] \in Scripts /\ NoneOf(i)
    BY <1>1, Zenon DEF CoreInv, CoreTypeOK, Knows, BeforeSpawn
  <1>3. ASSUME process' = [p \in Pids |-> IF Alive(p) /\ process[p].program = "sisterd"
                             THEN [process[p] EXCEPT !.exe = "replaced"] ELSE process[p]]
        PROVE  Alike
    <2>1. \A p \in Pids : Alive(p) => process[p] \in Processes
      BY Zenon DEF CoreInv, CoreTypeOK, Alive
    <2>2. \A x \in Processes : /\ [x EXCEPT !.exe = "replaced"] \in Processes
                               /\ [x EXCEPT !.exe = "replaced"].by = x.by
                               /\ [x EXCEPT !.exe = "replaced"].start = x.start
                               /\ [x EXCEPT !.exe = "replaced"].program = x.program
      BY Zenon DEF Processes
    <2>3. Nothing \notin Processes
      BY CoreAssumption, Zenon DEF Processes
    <2> QED BY <1>3, <2>1, <2>2, <2>3 DEF Alike, Alive, CoreInv, CoreTypeOK
  <1>4. Alike
    BY <1>3, NothingMoved, Zenon DEF Build
  <1>5. CallStop(i, "spawn") \/ StepTo(i, "failed")
    BY Zenon DEF Build
  <1>6. CASE CallStop(i, "spawn")
    BY <1>1, <1>2, <1>4, <1>6, CallStopKeeps, SMTT(60) DEF Over
  <1>7. CASE StepTo(i, "failed")
    BY <1>1, <1>2, <1>4, <1>7, MoveKeeps, OthersAreOver, SMTT(60) DEF StepTo, Over
  <1> QED BY <1>5, <1>6, <1>7, Zenon

LEMMA SpawnKeeps ==
  ASSUME CoreInv, NEW i \in Invocations, NEW p \in Pids, Spawn(i, p)
  PROVE  CoreInv'
  <1>1. script[i].at = "spawn" /\ UNCHANGED <<abandoned, pidFile, signalled>>
    BY SMTT(60) DEF Spawn, IsAt
  <1>2. script[i] \in Scripts /\ NoneOf(i) /\ pidFile = Nothing
    BY <1>1, Zenon DEF CoreInv, CoreTypeOK, Knows, BeforeSpawn
  <1>3. /\ process' \in [Pids -> Processes \cup {Nothing}]
        /\ starts' \in 0..MaxStarts
        /\ Alive(p)' /\ process'[p].by = i
        /\ \A q \in Pids \ {p} : process'[q] = process[q]
        /\ StartsInv' /\ RecordInv'
    BY <1>1, BegunIsNew, Zenon DEF Spawn
  <1>4. \A q \in Pids \ {p} : Alive(q)' <=> Alive(q)
    BY <1>3, Zenon DEF Alive
  <1> DEFINE held == [script[i] EXCEPT !.pid = p]
  <1>5. held \in Scripts /\ held.pid = p
    BY <1>2, Zenon DEF Scripts
  <1>6. Continue(i, "record", held)
    BY Zenon DEF Spawn
  <1> HIDE DEF held
  <1>7. "record" \in Over \cup Steps /\ "record" \notin Over
    BY Zenon DEF Steps, Over
  <1>8. PICK new \in Scripts : /\ script' = [script EXCEPT ![i] = new]
                               /\ new.at = "record" /\ new.pid = held.pid
    <2>1. \E new \in Scripts :
             /\ script' = [script EXCEPT ![i] = new]
             /\ new.at = "record"
             /\ "record" \notin Over => /\ new.then = held.then /\ new.pid = held.pid
                                        /\ new.record = held.record /\ new.fd = held.fd
      BY <1>5, <1>6, <1>7, Continues
    <2> QED BY <1>7, <2>1, Zenon
  <1>9. /\ script'[i] = new
        /\ \A j \in Invocations \ {i} : script'[j] = script[j] /\ script[j].at \in Over
    BY <1>1, <1>8, OthersAreOver, Zenon DEF CoreInv, CoreTypeOK, Over
  <1>10. CoreTypeOK'
    BY <1>1, <1>3, <1>8, Zenon DEF CoreInv, CoreTypeOK
  <1>11. OneScript'
    BY <1>9, Zenon DEF OneScript
  <1>12. ASSUME NEW j \in Invocations PROVE Knows(j, script[j])'
    <2>1. CASE j = i
      BY <2>1, <1>1, <1>2, <1>3, <1>4, <1>5, <1>8, <1>9 DEF Knows, StopSteps, BeforeSpawn, NoneOf
    <2>2. CASE j # i
      <3>1. Knows(j, script[j])
        BY Zenon DEF CoreInv
      <3>2. NoneOf(j) => NoneOf(j)'
        BY <2>2, <1>3, <1>4, Zenon DEF NoneOf
      <3> QED BY <2>2, <3>1, <3>2, <1>9, Zenon DEF Knows, Over, StopSteps, BeforeSpawn
    <2> QED BY <2>1, <2>2, Zenon
  <1>13. ASSUME NEW q \in Pids PROVE Accounted(q)'
    <2>1. CASE q = p
      BY <2>1, <1>3, <1>8, <1>9, Zenon DEF Accounted
    <2>2. CASE q # p
      <3>1. Alive(q) /\ process[q].by # "other" =>
               process[q].by \in Invocations \ {i} \/ process[q].start \in abandoned
        BY <1>2, Zenon DEF CoreInv, CoreTypeOK, Alive, Processes, NoneOf
      <3> QED BY <2>2, <3>1, <1>1, <1>2, <1>3, <1>4, <1>9 DEF CoreInv, Accounted
    <2> QED BY <2>1, <2>2, Zenon
  <1> QED BY <1>1, <1>3, <1>10, <1>11, <1>12, <1>13, Zenon DEF CoreInv

\* record_process: the number belongs to a sisterd only if it is the child's still.
LEMMA RecordKeeps ==
  ASSUME CoreInv, NEW i \in Invocations, Record(i)
  PROVE  CoreInv'
  <1> DEFINE p == script[i].pid
  <1>1. /\ script[i].at = "record" /\ UNCHANGED <<process, starts, abandoned, signalled>>
        /\ \A j \in Invocations \ {i} : script[j].at \in Over
    BY OthersAreOver, SMTT(60) DEF Record, IsAt, machine, Over
  <1>2. /\ script[i] \in Scripts /\ Knows(i, script[i]) /\ pidFile = Nothing /\ p \in Pids
        /\ \A q \in Pids : Alive(q) /\ process[q].by = i => q = p
    BY <1>1, Zenon DEF CoreInv, CoreTypeOK, Knows
  <1>3. CASE StepTo(i, "kill") /\ UNCHANGED pidFile
    <2>1. PICK new \in Scripts : /\ script' = [script EXCEPT ![i] = new]
                                 /\ new.at = "kill" /\ new.pid = p
      BY <1>2, <1>3, Continues DEF StepTo, Steps, Over
    <2>2. Knows(i, new)'
      BY <1>1, <1>2, <1>3, <2>1, ZenonT(40) DEF Knows, StopSteps, BeforeSpawn, Alive
    <2> QED BY <1>1, <1>3, <2>1, <2>2, NothingMoved, ScriptStep, Zenon
  <1>4. CASE /\ Alive(p) /\ process[p].program = "sisterd"
             /\ pidFile' = [pid |-> p, start |-> process[p].start]
             /\ StepTo(i, "ready")
    <2>1. PICK new \in Scripts : script' = [script EXCEPT ![i] = new] /\ new.at = "ready"
      BY <1>2, <1>4, Continues, SMTT(60) DEF StepTo, Steps, Over
    <2>2. /\ process[p] \in Processes /\ process[p].by = i /\ process[p].by # "other"
      BY <1>1, <1>2, <1>4, CoreAssumption, SMTT(60) DEF CoreInv, CoreTypeOK, Knows, Alive
    <2>3. /\ pidFile' \in Records /\ pidFile'.pid = p /\ pidFile'.start = process[p].start
      BY <1>2, <1>4, <2>2, Zenon DEF Records, Processes
    <2>4. CoreTypeOK'
      BY <1>1, <2>1, <2>3, SMTT(60) DEF CoreInv, CoreTypeOK
    <2>5. StartsInv' /\ RecordInv'
      BY <1>1, <1>2, <1>4, <2>2, <2>3, Zenon DEF CoreInv, StartsInv, RecordInv, Alive
    <2>6. /\ script'[i] = new
          /\ \A j \in Invocations \ {i} : script'[j] = script[j]
      BY <2>1, SMTT(60) DEF CoreInv, CoreTypeOK
    <2>7. OneScript'
      BY <1>1, <2>6, Zenon DEF OneScript
    <2>8. ASSUME NEW j \in Invocations PROVE Knows(j, script[j])'
      <3>1. CASE j = i
        BY <3>1, <2>1, <2>6, SMTT(60) DEF Knows, StopSteps, BeforeSpawn
      <3>2. CASE j # i
        <4>1. Knows(j, script[j]) /\ (NoneOf(j)' <=> NoneOf(j))
          BY <1>1, Zenon DEF CoreInv, NoneOf, Alive
        <4> QED BY <3>2, <4>1, <1>1, <2>6, Zenon DEF Knows, Over, StopSteps, BeforeSpawn
      <3> QED BY <3>1, <3>2, Zenon
    <2>9. ASSUME NEW q \in Pids PROVE Accounted(q)'
      <3>1. CASE q = p
        BY <3>1, <1>1, <1>4, SMTT(60) DEF Accounted
      <3>2. CASE q # p
        <4> SUFFICES ASSUME Alive(q), process[q].by # "other"
                     PROVE  process[q].start \in abandoned
          BY <1>1, Zenon DEF Accounted, Alive
        <4>1. process[q].by \in Invocations \ {i} /\ [pid |-> q, start |-> process[q].start] # Nothing
          BY <3>2, <1>2, CoreAssumption DEF CoreInv, CoreTypeOK, Alive, Processes
        <4>2. script[process[q].by].at \in Over
          BY <4>1, <1>1, Zenon
        <4> QED BY <4>1, <4>2, <1>2, Zenon DEF CoreInv, Accounted, Over
      <3> QED BY <3>1, <3>2, SMTT(60)
    <2> QED BY <1>1, <2>4, <2>5, <2>7, <2>8, <2>9, Zenon DEF CoreInv
  <1> QED BY <1>3, <1>4, Zenon DEF Record

\* A process is signalled: only its phase changes.
LEMMA SignalledIsAlike ==
  ASSUME CoreInv, NEW p \in Pids, Alive(p), process' = [process EXCEPT ![p].phase = "ending"]
  PROVE  Alike
  <1>1. process[p] \in Processes /\ process'[p] = [process[p] EXCEPT !.phase = "ending"]
    BY Zenon DEF CoreInv, CoreTypeOK, Alive
  <1>2. /\ process'[p] \in Processes /\ process'[p].by = process[p].by
        /\ process'[p].start = process[p].start /\ process'[p].program = process[p].program
    BY <1>1 DEF Processes
  <1>3. \A q \in Pids \ {p} : process'[q] = process[q]
    BY Zenon DEF CoreInv, CoreTypeOK
  <1>4. process' \in [Pids -> Processes \cup {Nothing}]
    BY <1>2, <1>3, Zenon DEF CoreInv, CoreTypeOK
  <1>5. Nothing \notin Processes
    BY CoreAssumption, Zenon DEF Processes
  <1> QED BY <1>2, <1>3, <1>4, <1>5, Zenon DEF Alike, Alive

LEMMA KillChildKeeps ==
  ASSUME CoreInv, NEW i \in Invocations, KillChild(i)
  PROVE  CoreInv'
  <1>1. /\ script[i].at = "kill" /\ UNCHANGED <<starts, abandoned, pidFile, signalled>>
        /\ \A j \in Invocations \ {i} : script[j].at \in Over
    BY OthersAreOver, Zenon DEF KillChild, IsAt, Over
  <1>2. /\ script[i] \in Scripts /\ Knows(i, script[i]) /\ pidFile = Nothing /\ script[i].pid \in Pids
    BY <1>1, Zenon DEF CoreInv, CoreTypeOK, Knows
  <1>3. Alike
    BY <1>2, SignalledIsAlike, NothingMoved, Zenon DEF KillChild
  <1>4. PICK new \in Scripts : /\ script' = [script EXCEPT ![i] = new]
                               /\ new.at = "wait" /\ new.pid = script[i].pid
    BY <1>2, Continues, SMTT(60) DEF KillChild, StepTo, Steps, Over
  <1>5. Knows(i, new)'
    BY <1>1, <1>2, <1>3, <1>4, Zenon DEF Knows, StopSteps, BeforeSpawn, Alike
  <1> QED BY <1>1, <1>3, <1>4, <1>5, ScriptStep, Zenon

LEMMA SignalKeeps ==
  ASSUME CoreInv, NEW i \in Invocations, Signal(i)
  PROVE  CoreInv'
  <1>1. /\ script[i].at = "signal" /\ UNCHANGED <<starts, abandoned, pidFile>>
        /\ \A j \in Invocations \ {i} : script[j].at \in Over
    BY OthersAreOver, Zenon DEF Signal, IsAt, Over
  <1>2. /\ script[i] \in Scripts /\ Knows(i, script[i])
        /\ pidFile # Nothing /\ script[i].fd = pidFile.start
    BY <1>1, Zenon DEF CoreInv, CoreTypeOK, Knows
  <1>3. CASE StopReturns(i, FALSE) /\ UNCHANGED <<process, signalled>>
    BY <1>1, <1>3, ReturnKeeps, Zenon DEF StopSteps
  <1>4. ASSUME NEW p \in Pids, Alive(p), process[p].start = script[i].fd,
               process' = [process EXCEPT ![p].phase = "ending"],
               signalled' = IF process[p].by = "other" THEN signalled \cup {script[i].fd} ELSE signalled,
               StepTo(i, "confirm")
        PROVE  CoreInv'
    <2>1. process[p].by # "other"
      BY <1>2, <1>4, Zenon DEF CoreInv, RecordInv
    <2>2. Alike
      BY <1>4, SignalledIsAlike, ZenonT(40)
    <2>3. PICK new \in Scripts : /\ script' = [script EXCEPT ![i] = new]
                                 /\ new.at = "confirm" /\ new.then = script[i].then
      BY <1>2, <1>4, Continues DEF StepTo, Steps, Over
    <2>4. NoneOf(i)' <=> NoneOf(i)
      BY <2>2, Zenon DEF NoneOf, Alike
    <2>5. Knows(i, new)'
      BY <1>1, <1>2, <2>3, <2>4, Zenon DEF Knows, StopSteps, BeforeSpawn
    <2> QED BY <1>1, <1>4, <2>1, <2>2, <2>3, <2>5, ScriptStep, Zenon
  <1> QED BY <1>3, <1>4, Zenon DEF Signal

LEMMA WaitChildKeeps ==
  ASSUME CoreInv, NEW i \in Invocations, WaitChild(i)
  PROVE  CoreInv'
  <1>1. /\ script[i].at = "wait" /\ NoneOf(i) /\ script[i] \in Scripts
        /\ UNCHANGED <<process, starts, abandoned, pidFile, signalled>>
    BY Zenon DEF WaitChild, IsAt, machine, NoneOf, CoreInv, CoreTypeOK
  <1>2. \A j \in Invocations \ {i} : script[j].at \in Over
    BY <1>1, OthersAreOver, Zenon DEF Over
  <1>3. Continue(i, "failed", script[i]) /\ Alike
    BY <1>1, NothingMoved, SMTT(60) DEF WaitChild, StepTo
  <1> QED BY <1>1, <1>2, <1>3, MoveKeeps, Zenon DEF Over

\* What the steps that only look at the machine have in common.
LEMMA LookKeeps ==
  ASSUME CoreInv, NEW i \in Invocations,
         script[i].at \in {"ready", "alive", "smoke", "health", "owned"},
         UNCHANGED <<machine, pidFile, signalled>>,
         \/ CallStop(i, "fail")
         \/ script[i].at = "health" /\ (CallStop(i, "spawn") \/ StepTo(i, "owned"))
         \/ \E step \in {"alive", "smoke", "done", "failed"} : StepTo(i, step)
  PROVE  CoreInv'
  <1>1. /\ script[i] \in Scripts /\ UNCHANGED <<process, starts, abandoned, pidFile, signalled>>
        /\ script[i].at \notin Over \cup {"record", "kill", "wait"}
    BY Zenon DEF CoreInv, CoreTypeOK, machine, Over
  <1>2. Alike /\ \A j \in Invocations \ {i} : script[j].at \in Over
    BY <1>1, OthersAreOver, NothingMoved, SMTT(60)
  <1>3. script[i].at = "health" => NoneOf(i)
    BY SMTT(60) DEF CoreInv, Knows, BeforeSpawn
  <1>4. CASE CallStop(i, "fail")
    BY <1>1, <1>2, <1>4, CallStopKeeps, Zenon
  <1>5. CASE script[i].at = "health" /\ CallStop(i, "spawn")
    BY <1>1, <1>2, <1>3, <1>5, CallStopKeeps, Zenon
  <1>6. CASE script[i].at = "health" /\ StepTo(i, "owned")
    BY <1>1, <1>2, <1>3, <1>6, MoveKeeps, Zenon DEF StepTo
  <1>7. ASSUME NEW step \in {"alive", "smoke", "done", "failed"}, StepTo(i, step)
        PROVE  CoreInv'
    <2>1. /\ step \in {"exists", "build", "health", "owned", "alive", "smoke"} \cup (Over \ {"new"})
          /\ step \notin {"exists", "build", "health", "owned"}
      BY Zenon DEF Over
    <2>2. Continue(i, step, script[i])
      BY <1>7, Zenon DEF StepTo
    <2> QED BY <1>1, <1>2, <2>1, <2>2, MoveKeeps, Zenon
  <1> QED BY <1>4, <1>5, <1>6, <1>7, Zenon

\* A killed script leaves what it had not recorded yet.
LEMMA KillScriptKeeps ==
  ASSUME CoreInv, NEW i \in Invocations, KillScript(i)
  PROVE  CoreInv'
  <1>1. script[i].at \notin Over /\ UNCHANGED <<process, starts, pidFile, signalled>>
    BY Zenon DEF KillScript
  <1>2. script[i] \in Scripts /\ \A j \in Invocations \ {i} : script[j].at \in Over
    BY <1>1, OthersAreOver, Zenon DEF CoreInv, CoreTypeOK
  <1>3. PICK new \in Scripts : script' = [script EXCEPT ![i] = new] /\ new.at = "killed"
    BY <1>2, Continues DEF KillScript, StepTo, Steps, Over
  <1>4. /\ script'[i] = new
        /\ \A j \in Invocations \ {i} : script'[j] = script[j]
    BY <1>3, Zenon DEF CoreInv, CoreTypeOK
  <1>5. /\ abandoned \subseteq abandoned' /\ abandoned' \subseteq 1..MaxStarts
        /\ script[i].at \in {"record", "kill", "wait"} =>
              \A p \in Pids : Alive(p) /\ process[p].by = i => process[p].start \in abandoned'
    BY ZenonT(40) DEF KillScript, CoreInv, CoreTypeOK, Alive, Processes
  <1>6. CoreTypeOK'
    BY <1>1, <1>3, <1>5, Zenon DEF CoreInv, CoreTypeOK
  <1>7. StartsInv' /\ RecordInv' /\ OneScript'
    BY <1>1, <1>2, <1>3, <1>4, Zenon DEF CoreInv, StartsInv, RecordInv, OneScript, Alive, Over
  <1>8. ASSUME NEW j \in Invocations PROVE Knows(j, script[j])'
    <2>1. CASE j = i
      BY <2>1, <1>3, <1>4, SMTT(60) DEF Knows, StopSteps, BeforeSpawn
    <2>2. CASE j # i
      <3>1. Knows(j, script[j]) /\ (NoneOf(j)' <=> NoneOf(j))
        BY <1>1, Zenon DEF CoreInv, NoneOf, Alive
      <3> QED BY <2>2, <3>1, <1>2, <1>4, Zenon DEF Knows, Over, StopSteps, BeforeSpawn
    <2> QED BY <2>1, <2>2, Zenon
  <1>9. ASSUME NEW q \in Pids PROVE Accounted(q)'
    <2>1. CASE Alive(q) /\ process[q].by # "other"
      <3>1. process[q].by \in Invocations
        BY <2>1, Zenon DEF CoreInv, CoreTypeOK, Alive, Processes
      <3> QED BY <2>1, <3>1, <1>1, <1>4, <1>5, Zenon DEF CoreInv, Accounted, Alive
    <2>2. CASE ~(Alive(q) /\ process[q].by # "other")
      BY <2>2, <1>1, Zenon DEF Accounted, Alive
    <2> QED BY <2>1, <2>2, SMTT(60)
  <1> QED BY <1>1, <1>6, <1>7, <1>8, <1>9, Zenon DEF CoreInv

LEMMA CoreInvStep == CoreInv /\ [CoreNext]_coreVars => CoreInv'
  <1> SUFFICES ASSUME CoreInv, [CoreNext]_coreVars PROVE CoreInv' OBVIOUS
  <1>1. ASSUME NEW p \in Pids, Execs(p) \/ Listens(p) \/ Ends(p) PROVE CoreInv'
    BY <1>1, ExecsKeeps, ListensKeeps, EndsKeeps, Zenon
  <1>2. ASSUME NEW p \in Pids, NEW program \in {"sisterd", "another"}, OthersBegin(p, program)
        PROVE  CoreInv'
    BY <1>2, OthersBeginKeeps, Zenon
  <1>3. ASSUME NEW i \in Invocations, CoreStep(i) PROVE CoreInv'
    <2>1. ASSUME NEW command \in Commands, Invoke(i, command) PROVE CoreInv'
      BY <2>1, InvokeKeeps, Zenon
    <2>2. CASE Exists(i) \/ Open(i) \/ Observe(i) \/ Signal(i) \/ Confirm(i) \/ RemovePidFile(i)
      BY <2>2, ExistsKeeps, OpenKeeps, ObserveKeeps, SignalKeeps, ConfirmKeeps, RemovePidFileKeeps, Zenon
    <2>3. ASSUME NEW p \in Pids, Spawn(i, p) PROVE CoreInv'
      BY <2>3, SpawnKeeps, Zenon
    <2>4. CASE Build(i) \/ Record(i) \/ KillChild(i) \/ WaitChild(i) \/ KillScript(i)
      BY <2>4, BuildKeeps, RecordKeeps, KillChildKeeps, WaitChildKeeps, KillScriptKeeps, Zenon
    <2>5. CASE Ready(i)
      BY <2>5, LookKeeps, Zenon DEF Ready, IsAt
    <2>6. CASE StillAlive(i)
      BY <2>6, LookKeeps, Zenon DEF StillAlive, IsAt
    <2>7. CASE HealthOk(i)
      BY <2>7, LookKeeps, Zenon DEF HealthOk, IsAt
    <2>8. CASE Owned(i)
      BY <2>8, LookKeeps, Zenon DEF Owned, IsAt
    <2>9. CASE Smoke(i)
      BY <2>9, LookKeeps, Zenon DEF Smoke, IsAt
    <2> QED BY <1>3, <2>1, <2>2, <2>3, <2>4, <2>5, <2>6, <2>7, <2>8, <2>9, Zenon DEF CoreStep
  <1>4. CASE UNCHANGED coreVars
    <2>1. UNCHANGED <<process, starts, pidFile, script, abandoned, signalled>>
      BY <1>4, Zenon DEF coreVars
    <2>2. CoreTypeOK' /\ StartsInv' /\ RecordInv' /\ OneScript'
      BY <2>1, SMTT(60) DEF CoreInv, CoreTypeOK, StartsInv, RecordInv, OneScript, Alive
    <2>3. \A i \in Invocations : Knows(i, script[i])'
      BY <2>1, SMTT(60) DEF CoreInv, Knows, NoneOf, RecordedIsGone, Alive, BeforeSpawn
    <2>4. \A p \in Pids : Accounted(p)'
      BY <2>1, Zenon DEF CoreInv, Accounted, Alive
    <2> QED BY <2>1, <2>2, <2>3, <2>4, Zenon DEF CoreInv
  <1> QED BY <1>1, <1>2, <1>3, <1>4, Zenon DEF CoreNext

\* For any number of invocations, one after the other and each killed at any step, and
\* any reuse of process numbers: a running sisterd of serve.sh is in the PID file, is about
\* to be recorded, or was abandoned by a killed serve.sh; and terminate_process never
\* signals a process of others.
THEOREM ScriptsStopTheirOwn == CoreSpec => []StopsItsOwn
  BY CoreInvInit, CoreInvStep, CoreInvStopsItsOwn, PTL DEF CoreSpec
-----------------------------------------------------------------------------
(* The pool and the start. *)

(***************************************************************************)
(* What each thread holds agrees with where it is.                         *)
(***************************************************************************)
ControlInv ==
    /\ mainPc \in {"submit", "refuse"} <=> inHand # NoConn
    /\ mainPc \in {"select", "submit", "refuse", "stop"} <=> ~stopping
    /\ \A w \in Workers :
          workerPc[w] \in {"handling", "closing"} <=> workerJob[w] # NoConn
    /\ mainPc \in {"drain", "destroy", "exit"} =>
          \A w \in Workers : workerPc[w] = "exited"

(***************************************************************************)
(* SingleOwner spelled out place by place, as the provers want it.         *)
(***************************************************************************)
OwnerInv ==
    /\ \A i, j \in 1..Len(jobs) : jobs[i] = jobs[j] => i = j
    /\ \A v, w \in Workers :
          workerJob[v] = workerJob[w] /\ workerJob[v] # NoConn => v = w
    /\ \A c \in backlog : inHand # c /\ closes[c] = 0
    /\ \A i \in 1..Len(jobs) :
          jobs[i] \notin backlog /\ jobs[i] # inHand /\ closes[jobs[i]] = 0
    /\ \A w \in Workers : workerJob[w] # NoConn =>
          /\ workerJob[w] \notin backlog
          /\ workerJob[w] # inHand
          /\ closes[workerJob[w]] = 0
    /\ \A w \in Workers : \A i \in 1..Len(jobs) : jobs[i] # workerJob[w]
    /\ inHand # NoConn => closes[inHand] = 0
    /\ \A c \in Conns : closes[c] \in {0, 1}
    /\ \A c \in Conns : c \notin backlog /\ c # inHand /\ closes[c] = 0 =>
          \/ \E i \in 1..Len(jobs) : jobs[i] = c
          \/ \E w \in Workers : workerJob[w] = c
    /\ \A c \in served : closes[c] = 1

IInv == TypeOK /\ ControlInv /\ OwnerInv /\ NoLostWakeup /\ WorkersOutliveJobs

-----------------------------------------------------------------------------
\* Init establishes the type invariant.
LEMMA InitType == Init => TypeOK
<1> SUFFICES ASSUME Init PROVE TypeOK
  OBVIOUS
<1>1. keepRunning \in BOOLEAN /\ stopping \in BOOLEAN
  BY Zenon DEF Init
<1>2. jobs \in Seq(Conns)
  BY DEF Init
<1>3. workerPc \in [Workers -> WorkerPcs]
  BY Zenon DEF Init, WorkerPcs
<1>4. QED
  BY <1>1, <1>2, <1>3, Zenon DEF Init, TypeOK, MainPcs

\* One step keeps every variable in its type.
LEMMA StepType == TypeOK /\ ControlInv /\ [Next]_vars => TypeOK'
<1> SUFFICES ASSUME TypeOK, ControlInv, [Next]_vars PROVE TypeOK'
  OBVIOUS
<1> USE PoolAssumption DEF TypeOK, MainPcs, WorkerPcs
<1>1. CASE HandleSignal
  BY <1>1, Zenon DEF HandleSignal, poolVars
<1>2. CASE LeaveLoop
  BY <1>2, Zenon DEF LeaveLoop, poolVars
<1>3. CASE \E c \in Conns : Accept(c)
  BY <1>3, Zenon DEF Accept, poolVars
<1>4. CASE SubmitRefused
  BY <1>4, Zenon DEF SubmitRefused, poolVars
<1>5. CASE SubmitQueued
  <2>1. inHand \in Conns
    BY <1>5, Zenon DEF SubmitQueued, Enqueue, ControlInv
  <2>2. workerPc' \in [Workers -> WorkerPcs]
    BY <1>5, Zenon DEF SubmitQueued, Enqueue, NotifyOne, Asleep
  <2>3. QED
    BY <1>5, <2>1, <2>2 DEF SubmitQueued, Enqueue
<1>6. CASE Refuse
  BY <1>6 DEF Refuse, CloseFd, ControlInv, poolVars
<1>7. CASE StopBegin
  BY <1>7, Zenon DEF StopBegin
<1>8. CASE StopNotify
  BY <1>8, Zenon DEF StopNotify, NotifyAll
<1>9. CASE StopJoin
  BY <1>9, Zenon DEF StopJoin, poolVars
<1>10. CASE StopDrain
  BY <1>10 DEF StopDrain
<1>11. CASE Destroy
  BY <1>11, Zenon DEF Destroy, poolVars
<1>12. ASSUME NEW w \in Workers, WorkerStep(w) \/ SpuriousWakeup(w)
       PROVE  TypeOK'
  <2>1. CASE WorkerTakes(w)
    <3>1. Head(jobs) \in Conns /\ Tail(jobs) \in Seq(Conns)
      BY <2>1 DEF WorkerTakes
    <3>2. QED
      BY <2>1, <3>1, Zenon DEF WorkerTakes
  <2>2. CASE WorkerCloses(w)
    <3>1. workerJob[w] \in Conns
      BY <2>2, Zenon DEF WorkerCloses, ControlInv
    <3>2. QED
      BY <2>2, <3>1 DEF WorkerCloses, CloseFd
  <2>3. QED
    BY <1>12, <2>1, <2>2, SMTT(60) DEF WorkerStep, WorkerSleeps, WorkerExits,
       Contained, HandlerReturns, HandlerThrows, SpuriousWakeup
<1>13. CASE UNCHANGED vars
  BY <1>13, Zenon DEF vars
<1>14. QED
  BY <1>1, <1>2, <1>3, <1>4, <1>5, <1>6, <1>7, <1>8, <1>9, <1>10, <1>11,
     <1>12, <1>13, Zenon DEF Next, MainStep, Exited

\* One step keeps the threads' places and holdings in agreement.
LEMMA StepControl == TypeOK /\ ControlInv /\ [Next]_vars => ControlInv'
<1> SUFFICES ASSUME TypeOK, ControlInv, [Next]_vars PROVE ControlInv'
  OBVIOUS
<1> USE PoolAssumption DEF TypeOK, ControlInv, MainPcs, WorkerPcs
<1>1. CASE HandleSignal
  BY <1>1, Zenon DEF HandleSignal, poolVars
<1>2. CASE LeaveLoop
  BY <1>2, Zenon DEF LeaveLoop, poolVars
<1>3. CASE \E c \in Conns : Accept(c)
  BY <1>3 DEF Accept, poolVars
<1>4. CASE SubmitRefused
  BY <1>4, Zenon DEF SubmitRefused, poolVars
<1>5. CASE SubmitQueued
  BY <1>5, Zenon DEF SubmitQueued, Enqueue, NotifyOne, Asleep
<1>6. CASE Refuse
  BY <1>6, Zenon DEF Refuse, poolVars
<1>7. CASE StopBegin
  BY <1>7, Zenon DEF StopBegin
<1>8. CASE StopNotify
  BY <1>8, Zenon DEF StopNotify, NotifyAll, Asleep
<1>9. CASE StopJoin
  BY <1>9, Zenon DEF StopJoin, poolVars
<1>10. CASE StopDrain
  BY <1>10, Zenon DEF StopDrain
<1>11. CASE Destroy
  BY <1>11, Zenon DEF Destroy, poolVars
<1>12. ASSUME NEW w \in Workers, WorkerStep(w) \/ SpuriousWakeup(w)
       PROVE  ControlInv'
  <2>1. CASE WorkerTakes(w)
    <3>1. Head(jobs) \in Conns
      BY <2>1 DEF WorkerTakes
    <3>2. QED
      BY <2>1, <3>1, Zenon DEF WorkerTakes
  <2>2. QED
    BY <1>12, <2>1 DEF WorkerStep, WorkerSleeps, WorkerExits, Contained,
       HandlerReturns, HandlerThrows, WorkerCloses, SpuriousWakeup
<1>13. CASE UNCHANGED vars
  BY <1>13, Zenon DEF vars
<1>14. QED
  BY <1>1, <1>2, <1>3, <1>4, <1>5, <1>6, <1>7, <1>8, <1>9, <1>10, <1>11,
     <1>12, <1>13, Zenon DEF Next, MainStep, Exited

\* Init: every connection is the listener's.
LEMMA InitOwner == Init => ControlInv /\ OwnerInv /\ NoLostWakeup /\ WorkersOutliveJobs
  BY PoolAssumption DEF Init, ControlInv, OwnerInv, NoLostWakeup,
     WorkersOutliveJobs, Asleep

\* One step leaves every connection with exactly one owner.
LEMMA StepOwner ==
    TypeOK /\ ControlInv /\ OwnerInv /\ WorkersOutliveJobs /\ [Next]_vars => OwnerInv'
<1> SUFFICES ASSUME TypeOK, ControlInv, OwnerInv, WorkersOutliveJobs, [Next]_vars
             PROVE  OwnerInv'
  OBVIOUS
<1> USE PoolAssumption DEF TypeOK
<1>1. CASE UNCHANGED <<inHand, backlog, jobs, workerJob, closes, served>>
  BY <1>1 DEF OwnerInv
<1>2. CASE HandleSignal \/ LeaveLoop \/ SubmitRefused
  BY <1>1, <1>2, Zenon DEF HandleSignal, LeaveLoop, SubmitRefused, poolVars
<1>3. ASSUME NEW c \in Conns, Accept(c) PROVE OwnerInv'
  <2>1. /\ c \in backlog /\ backlog' = backlog \ {c} /\ inHand' = c
        /\ inHand = NoConn
        /\ UNCHANGED <<jobs, workerJob, closes, served>>
    BY <1>3, Zenon DEF Accept, ControlInv, poolVars
  <2>2. QED
    BY <2>1 DEF OwnerInv
<1>4. CASE SubmitQueued
  <2>1. /\ inHand \in Conns /\ inHand' = NoConn
        /\ jobs' = Append(jobs, inHand)
        /\ UNCHANGED <<backlog, workerJob, closes, served>>
    BY <1>4, Zenon DEF SubmitQueued, Enqueue, ControlInv
  <2>2. /\ Len(jobs') = Len(jobs) + 1
        /\ \A i \in 1..Len(jobs) : jobs'[i] = jobs[i]
        /\ jobs'[Len(jobs) + 1] = inHand
        /\ Len(jobs) \in Nat
    BY <2>1
  <2>3. \A i \in 1..Len(jobs') : i \in 1..Len(jobs) \/ i = Len(jobs) + 1
    BY <2>2
  <2>4. ASSUME NEW c \in Conns,
               c \notin backlog' /\ c # inHand' /\ closes'[c] = 0
        PROVE  \/ \E i \in 1..Len(jobs') : jobs'[i] = c
               \/ \E v \in Workers : workerJob'[v] = c
    <3>1. CASE c = inHand
      <4>1. Len(jobs) + 1 \in 1..Len(jobs')
        BY <2>2
      <4>2. QED
        BY <3>1, <4>1, <2>2, Zenon
    <3>2. CASE c # inHand
      BY <3>2, <2>1, <2>2, <2>4 DEF OwnerInv
    <3>3. QED
      BY <3>1, <3>2, Zenon
  <2>5. \A i, j \in 1..Len(jobs') : jobs'[i] = jobs'[j] => i = j
    BY <2>2, <2>3 DEF OwnerInv
  <2>6. \A i \in 1..Len(jobs') :
           jobs'[i] \notin backlog' /\ jobs'[i] # inHand' /\ closes'[jobs'[i]] = 0
    BY <2>1, <2>2, <2>3 DEF OwnerInv
  <2>7. \A w \in Workers : \A i \in 1..Len(jobs') : jobs'[i] # workerJob'[w]
    BY <2>1, <2>2, <2>3 DEF OwnerInv
  <2>8. /\ \A v, w \in Workers :
              workerJob'[v] = workerJob'[w] /\ workerJob'[v] # NoConn => v = w
        /\ \A c \in backlog' : inHand' # c /\ closes'[c] = 0
        /\ \A w \in Workers : workerJob'[w] # NoConn =>
              /\ workerJob'[w] \notin backlog'
              /\ workerJob'[w] # inHand'
              /\ closes'[workerJob'[w]] = 0
        /\ inHand' # NoConn => closes'[inHand'] = 0
        /\ \A c \in Conns : closes'[c] \in {0, 1}
        /\ \A c \in served' : closes'[c] = 1
    BY <2>1 DEF OwnerInv
  <2>9. \A c \in Conns : c \notin backlog' /\ c # inHand' /\ closes'[c] = 0 =>
          \/ \E i \in 1..Len(jobs') : jobs'[i] = c
          \/ \E w \in Workers : workerJob'[w] = c
    BY <2>4, Zenon
  <2>10. QED
    BY <2>5, <2>6, <2>7, <2>8, <2>9, Zenon DEF OwnerInv
<1>5. CASE Refuse
  <2>4. inHand \in Conns
    BY <1>5, Zenon DEF Refuse, ControlInv
  <2>1. inHand' = NoConn /\ UNCHANGED <<backlog, jobs, workerJob, served>>
    BY <1>5, Zenon DEF Refuse, poolVars
  <2>2. \A c \in Conns : closes'[c] = IF c = inHand THEN 1 ELSE closes[c]
    BY <1>5, <2>4 DEF Refuse, CloseFd, OwnerInv
  <2>3. QED
    BY <2>4, <2>1, <2>2 DEF OwnerInv
<1>6. CASE StopBegin \/ StopNotify \/ StopJoin \/ Destroy
  BY <1>1, <1>6, Zenon DEF StopBegin, StopNotify, StopJoin, Destroy, poolVars
<1>7. CASE StopDrain
  <2>1. jobs = <<>>
    BY <1>7, Zenon DEF StopDrain, ControlInv, WorkersOutliveJobs
  <2>2. closes' = closes /\ jobs' = jobs
    BY <1>7, <2>1 DEF StopDrain, Queued
  <2>3. QED
    BY <1>1, <1>7, <2>2, Zenon DEF StopDrain
<1>8. ASSUME NEW w \in Workers, WorkerTakes(w) PROVE OwnerInv'
  <2>1. /\ jobs # <<>> /\ jobs' = Tail(jobs)
        /\ workerJob' = [workerJob EXCEPT ![w] = jobs[1]]
        /\ workerJob[w] = NoConn
        /\ UNCHANGED <<inHand, backlog, closes, served>>
    BY <1>8 DEF WorkerTakes, ControlInv
  <2>2. /\ Len(jobs) \in Nat \ {0}
        /\ Len(jobs') = Len(jobs) - 1
        /\ \A i \in 1..Len(jobs') : jobs'[i] = jobs[i + 1]
    BY <2>1
  <2>3. jobs[1] \in Conns
    BY <2>1, <2>2
  <2>4. \A i \in 1..Len(jobs') : i + 1 \in 1..Len(jobs) /\ i + 1 # 1
    BY <2>2
  <2>5. \A i \in 1..Len(jobs) : i # 1 => i - 1 \in 1..Len(jobs') /\ jobs'[i - 1] = jobs[i]
    BY <2>2
  <2>6. ASSUME NEW c \in Conns,
               c \notin backlog' /\ c # inHand' /\ closes'[c] = 0
        PROVE  \/ \E i \in 1..Len(jobs') : jobs'[i] = c
               \/ \E v \in Workers : workerJob'[v] = c
    <3>1. CASE \E i \in 1..Len(jobs) : jobs[i] = c
      BY <3>1, <2>1, <2>5, Zenon
    <3>2. CASE \E v \in Workers : workerJob[v] = c
      BY <3>2, <2>1, Zenon
    <3>3. QED
      BY <2>1, <2>6, <3>1, <3>2, Zenon DEF OwnerInv
  <2>7. QED
    BY <2>1, <2>2, <2>3, <2>4, <2>6 DEF OwnerInv
<1>9. ASSUME NEW w \in Workers, WorkerCloses(w) PROVE OwnerInv'
  <2>1. /\ workerJob[w] \in Conns
        /\ workerJob' = [workerJob EXCEPT ![w] = NoConn]
        /\ served' = served \cup {workerJob[w]}
        /\ UNCHANGED <<inHand, backlog, jobs>>
    BY <1>9, Zenon DEF WorkerCloses, ControlInv
  <2>2. \A c \in Conns : closes'[c] = IF c = workerJob[w] THEN 1 ELSE closes[c]
    BY <1>9, <2>1 DEF WorkerCloses, CloseFd, OwnerInv
  <2>3. QED
    BY <2>1, <2>2, SMTT(60) DEF OwnerInv
<1>10. ASSUME NEW w \in Workers,
              \/ WorkerSleeps(w) \/ WorkerExits(w) \/ HandlerReturns(w)
              \/ HandlerThrows(w) \/ SpuriousWakeup(w)
       PROVE  OwnerInv'
  BY <1>1, <1>10, Zenon DEF WorkerSleeps, WorkerExits, HandlerReturns, HandlerThrows,
     SpuriousWakeup
<1>11. CASE UNCHANGED vars
  BY <1>1, <1>11, Zenon DEF vars
<1>12. QED
  BY <1>2, <1>3, <1>4, <1>5, <1>6, <1>7, <1>8, <1>9, <1>10, <1>11
    , Zenon DEF Next, MainStep, WorkerStep, Exited

\* One step loses no wakeup and leaves no job behind the last worker.
LEMMA StepWorkers ==
    IInv /\ [Next]_vars => NoLostWakeup' /\ WorkersOutliveJobs'
<1> SUFFICES ASSUME IInv, [Next]_vars PROVE NoLostWakeup' /\ WorkersOutliveJobs'
  OBVIOUS
<1> USE PoolAssumption DEF IInv, TypeOK, ControlInv, NoLostWakeup,
        WorkersOutliveJobs, Asleep, MainPcs, WorkerPcs
<1>1. CASE HandleSignal \/ LeaveLoop \/ SubmitRefused \/ Refuse
  BY <1>1, Zenon DEF HandleSignal, LeaveLoop, SubmitRefused, Refuse, poolVars
<1>2. CASE \E c \in Conns : Accept(c)
  BY <1>2, Zenon DEF Accept, poolVars
<1>3. CASE SubmitQueued
  BY <1>3, Zenon DEF SubmitQueued, Enqueue, NotifyOne
<1>4. CASE StopBegin
  BY <1>4, Zenon DEF StopBegin
<1>5. CASE StopNotify
  BY <1>5, Zenon DEF StopNotify, NotifyAll
<1>6. CASE StopJoin \/ Destroy
  BY <1>6, Zenon DEF StopJoin, Destroy, poolVars
<1>7. CASE StopDrain
  BY <1>7, Zenon DEF StopDrain
<1>8. ASSUME NEW w \in Workers, WorkerStep(w) \/ SpuriousWakeup(w)
      PROVE  NoLostWakeup' /\ WorkersOutliveJobs'
  BY <1>8 DEF WorkerStep, WorkerSleeps, WorkerTakes, WorkerExits, MayLeave,
     Contained, HandlerReturns,
     HandlerThrows, WorkerCloses, SpuriousWakeup
<1>9. CASE UNCHANGED vars
  BY <1>9, Zenon DEF vars
<1>10. QED
  BY <1>1, <1>2, <1>3, <1>4, <1>5, <1>6, <1>7, <1>8, <1>9, Zenon DEF Next, MainStep, Exited

\* The inductive invariant holds in every reachable state.
LEMMA Inductive == Spec => []IInv
<1>1. Init => IInv
  BY InitType, InitOwner, Zenon DEF IInv
<1>2. IInv /\ [Next]_vars => IInv'
  BY StepType, StepControl, StepOwner, StepWorkers, Zenon DEF IInv
<1>3. QED
  BY <1>1, <1>2, PTL DEF Spec

-----------------------------------------------------------------------------
\* Every variable of the pool and the accept loop keeps its type.
THEOREM TypeCorrect == Spec => []TypeOK
  BY Inductive, PTL DEF IInv

(***************************************************************************)
(* A connection has one owner until it is closed and is closed at most     *)
(* once: no double close() and no use after it, for any number of workers. *)
(***************************************************************************)
THEOREM OneOwner == Spec => []SingleOwner
<1>1. IInv => SingleOwner
  <2> SUFFICES ASSUME IInv PROVE SingleOwner
    OBVIOUS
  <2>1. ASSUME NEW c \in Conns
        PROVE  \E p \in Places : Owns(p, c) /\ \A q \in Places \ {p} : ~Owns(q, c)
    <3> USE PoolAssumption DEF IInv, TypeOK, OwnerInv, Places, Owns, Queued, Working
    <3>1. CASE c \in backlog
      BY <3>1
    <3>2. CASE inHand = c
      BY <3>2
    <3>3. CASE c \in Queued
      BY <3>3
    <3>4. CASE c \in Working
      BY <3>4
    <3>5. CASE closes[c] = 1
      BY <3>5, SMTT(60)
    <3>6. QED
      BY <3>1, <3>2, <3>3, <3>4, <3>5, SMTT(60)
  <2>2. \A c \in Conns : closes[c] <= 1
    <3>1. \A c \in Conns : closes[c] \in {0, 1}
      BY Zenon DEF IInv, OwnerInv
    <3> QED BY <3>1
  <2>3. QED
    BY <2>1, <2>2, Zenon DEF IInv, OwnerInv, SingleOwner
<1>2. QED
  BY <1>1, Inductive, PTL

\* The queue never exceeds queueLimit_.
THEOREM QueueStaysBounded == Spec => []QueueBounded
<1>1. Init => QueueBounded
  BY PoolAssumption DEF Init, QueueBounded
<1>2. IInv /\ QueueBounded /\ [Next]_vars => QueueBounded'
  <2> SUFFICES ASSUME IInv, QueueBounded, [Next]_vars PROVE QueueBounded'
    OBVIOUS
  <2>1. CASE jobs' = jobs
    BY <2>1, Zenon DEF QueueBounded
  <2>2. CASE SubmitQueued
    BY <2>2, PoolAssumption DEF SubmitQueued, Enqueue, QueueFull, QueueBounded, IInv, TypeOK
  <2>3. CASE StopDrain
    BY <2>3, PoolAssumption DEF StopDrain, QueueBounded
  <2>4. ASSUME NEW w \in Workers, WorkerTakes(w) PROVE QueueBounded'
    BY <2>4, PoolAssumption DEF WorkerTakes, QueueBounded, IInv, TypeOK
  <2>5. QED
    BY <2>1, <2>2, <2>3, <2>4, Zenon DEF Next, MainStep, WorkerStep, HandleSignal,
       LeaveLoop, Accept, SubmitRefused, Refuse, StopBegin, StopNotify, StopJoin,
       Destroy, WorkerSleeps, WorkerExits, HandlerReturns, HandlerThrows,
       WorkerCloses, SpuriousWakeup, Exited, vars, poolVars
<1>3. QED
  BY <1>1, <1>2, Inductive, PTL DEF Spec

\* No wakeup of submit() or stop() is lost.
THEOREM WakeupsArrive == Spec => []NoLostWakeup
  BY Inductive, PTL DEF IInv

\* No worker leaves while there is work, and stop() has nothing to discard.
THEOREM WorkersStay == Spec => []WorkersOutliveJobs
  BY Inductive, PTL DEF IInv

-----------------------------------------------------------------------------
\* Every step of the pool is a step of the service or leaves it unchanged.
LEMMA StepService ==
    IInv /\ [Next]_vars => [Service!Next]_([c \in Conns |-> PhaseOf(c)])
<1> DEFINE phase == [c \in Conns |-> PhaseOf(c)]
<1> SUFFICES ASSUME IInv, [Next]_vars PROVE Service!Next \/ phase' = phase
  OBVIOUS
<1> USE PoolAssumption DEF IInv, TypeOK
<1>1. CASE UNCHANGED <<inHand, backlog, closes, served>>
  BY <1>1 DEF PhaseOf, Held
<1>2. ASSUME NEW c \in Conns, Accept(c) PROVE Service!Next
  <2>1. /\ c \in backlog /\ backlog' = backlog \ {c} /\ inHand' = c
        /\ inHand = NoConn /\ UNCHANGED <<closes, served>>
    BY <1>2, Zenon DEF Accept, ControlInv
  <2>2. PhaseOf(c) = "waiting"
    BY <2>1 DEF PhaseOf, Held, OwnerInv
  <2>3. ASSUME NEW d \in Conns
        PROVE  PhaseOf(d)' = IF d = c THEN "held" ELSE PhaseOf(d)
    BY <2>1 DEF PhaseOf, Held, OwnerInv
  <2>4. Service!Take(c)
    BY <2>2, <2>3, Zenon DEF Service!Take, Service!Move
  <2>5. QED
    BY <2>4, Zenon DEF Service!Next
<1>3. CASE SubmitQueued
  <2>1. /\ inHand \in Conns /\ inHand' = NoConn
        /\ UNCHANGED <<backlog, closes, served>>
    BY <1>3, Zenon DEF SubmitQueued, Enqueue, ControlInv
  <2>2. PhaseOf(inHand) = "held"
    BY <2>1 DEF PhaseOf, Held, OwnerInv
  <2>3. ASSUME NEW d \in Conns
        PROVE  PhaseOf(d)' = IF d = inHand THEN "admitted" ELSE PhaseOf(d)
    BY <2>1 DEF PhaseOf, Held, OwnerInv
  <2>4. Service!Admit(inHand)
    BY <2>1, <2>2, <2>3, Zenon DEF Service!Admit, Service!Move
  <2>5. QED
    BY <2>1, <2>4, Zenon DEF Service!Next
<1>4. CASE Refuse
  <2>1. inHand \in Conns /\ inHand' = NoConn /\ UNCHANGED <<backlog, served>>
    BY <1>4, Zenon DEF Refuse, ControlInv
  <2>2. \A d \in Conns : closes'[d] = IF d = inHand THEN 1 ELSE closes[d]
    BY <1>4, <2>1 DEF Refuse, CloseFd, OwnerInv
  <2>3. PhaseOf(inHand) = "held"
    BY <2>1 DEF PhaseOf, Held, OwnerInv
  <2>4. ASSUME NEW d \in Conns
        PROVE  PhaseOf(d)' = IF d = inHand THEN "refused" ELSE PhaseOf(d)
    BY <2>1, <2>2 DEF PhaseOf, Held, OwnerInv
  <2>5. Service!Refuse(inHand)
    BY <2>1, <2>3, <2>4, Zenon DEF Service!Refuse, Service!Move
  <2>6. QED
    BY <2>1, <2>5, Zenon DEF Service!Next
<1>5. ASSUME NEW w \in Workers, WorkerCloses(w) PROVE Service!Next
  <2>1. /\ workerJob[w] \in Conns
        /\ served' = served \cup {workerJob[w]}
        /\ UNCHANGED <<inHand, backlog>>
    BY <1>5, Zenon DEF WorkerCloses, ControlInv
  <2>2. \A d \in Conns : closes'[d] = IF d = workerJob[w] THEN 1 ELSE closes[d]
    BY <1>5, <2>1 DEF WorkerCloses, CloseFd, OwnerInv
  <2>3. PhaseOf(workerJob[w]) = "admitted"
    BY <2>1 DEF PhaseOf, Held, OwnerInv
  <2>4. ASSUME NEW d \in Conns
        PROVE  PhaseOf(d)' = IF d = workerJob[w] THEN "served" ELSE PhaseOf(d)
    BY <2>1, <2>2 DEF PhaseOf, Held, OwnerInv
  <2>5. Service!Serve(workerJob[w])
    BY <2>1, <2>3, <2>4, Zenon DEF Service!Serve, Service!Move
  <2>6. QED
    BY <2>1, <2>5, Zenon DEF Service!Next
<1>6. CASE StopDrain
  <2>1. closes' = closes
    BY <1>6 DEF StopDrain, ControlInv, WorkersOutliveJobs, Queued
  <2>2. QED
    BY <1>1, <1>6, <2>1, Zenon DEF StopDrain
<1>7. QED
  BY <1>1, <1>2, <1>3, <1>4, <1>5, <1>6, Zenon DEF Next, MainStep, WorkerStep,
     HandleSignal, LeaveLoop, SubmitRefused, StopBegin, StopNotify, StopJoin,
     Destroy, WorkerSleeps, WorkerTakes, WorkerExits, HandlerReturns,
     HandlerThrows, SpuriousWakeup, Exited, vars

(***************************************************************************)
(* The pool implements the service: submit()'s "true" is a promise that    *)
(* the handler runs, which the shutdown keeps too.                         *)
(***************************************************************************)
THEOREM PoolImplementsService == Spec => ServiceSafety
<1>1. Init => Service!Init
  BY PoolAssumption DEF Init, Service!Init, PhaseOf, Held
<1>2. QED
  BY <1>1, StepService, Inductive, PTL DEF Spec, ServiceSafety, Service!Spec

-----------------------------------------------------------------------------
(***************************************************************************)
(* The start.                                                              *)
(***************************************************************************)
Named == {"SISTER_ENV", "SISTER_LISTENER_MODE", "SISTER_ACTIVATED_SOCKET_PATH", "SISTER_BIND_HOST",
          "SISTER_ENABLE_HTTP_BOOTSTRAP", "SISTER_ENABLE_LEGACY_PROXY", "SISTER_ENABLE_LEGACY_WEBSOCKET_PROXY",
          "LISTEN_PID", "LISTEN_FDS", "LISTEN_FDNAMES", "descriptor", "permissions"}

\* The settings the listener depends on exist.
LEMMA NamedSettings == Named \subseteq DOMAIN Settings
  BY DEF Named, Settings, Texts, Flags

\* A variable of the activation protocol may be unset.
LEMMA ActivationMayBeAbsent == \A s \in ActivationVariables : "absent" \in Settings[s]
  <1>1. \A s \in ActivationVariables : s \notin Flags /\ s \notin Numbers /\ s \notin OptionalNumbers
    BY Zenon DEF ActivationVariables, Flags, Numbers, OptionalNumbers
  <1>2. ActivationVariables \subseteq DOMAIN Texts
    BY Zenon DEF ActivationVariables, Texts
  <1>3. "absent" \in Texts["LISTEN_PID"]
    BY Zenon DEF Texts
  <1>4. "absent" \in Texts["LISTEN_FDS"]
    BY Zenon DEF Texts
  <1>5. "absent" \in Texts["LISTEN_FDNAMES"]
    BY Zenon DEF Texts
  <1> QED
    BY <1>1, <1>2, <1>3, <1>4, <1>5, Zenon DEF Settings, ActivationVariables

-----------------------------------------------------------------------------
(***************************************************************************)
(* The inductive invariant: what loadConfig accepted stays true of the     *)
(* environment until the listener is there, and what the listener was      *)
(* tested for stays true until the pool is.                                *)
(***************************************************************************)
Reading == {"load", "signals", "listen", "state", "pool"}

StartInv ==
    /\ stage \in Stages /\ listener \in {"none", "unix", "tcp"}
    /\ stage \in Reading => Typed(env)
    /\ env = Forgotten \/ Typed(env)
    /\ stage \in {"signals", "listen"} => ListenerAllowed /\ FeaturesAllowed
    /\ stage \in {"state", "pool"} => ListenerFits /\ listener # "none"
    /\ stage = "serving" => listener # "none"

LEMMA StartInvInit == StartupInit => StartInv
  BY EnvironmentsAssumption, Zenon DEF StartupInit, StartInv, Stages

\* What the start tested is about the environment alone.
LEMMA SettingsStay ==
  ASSUME env' = env
  PROVE  /\ Typed(env)' <=> Typed(env)
         /\ ListenerAllowed' <=> ListenerAllowed
         /\ FeaturesAllowed' <=> FeaturesAllowed
  <1>1. Typed(env)' <=> Typed(env)
    BY Zenon DEF Typed
  <1>2. ListenerAllowed' <=> ListenerAllowed
    BY Zenon DEF ListenerAllowed, Production, Activated, Flag
  <1>3. FeaturesAllowed' <=> FeaturesAllowed
    BY Zenon DEF FeaturesAllowed, Production, Flag, BootstrapEnabled, LegacyProxyEnabled, LegacyWebSocketEnabled,
                 NexoEnabled
  <1> QED BY <1>1, <1>2, <1>3, Zenon

LEMMA StartInvBoot == StartInv /\ Boot => StartInv'
  <1> SUFFICES ASSUME StartInv, Boot
               PROVE  StartInv'
    OBVIOUS
  <1>1. CASE LoadConfig
    BY <1>1, SettingsStay, Zenon DEF LoadConfig, StartInv, Stages, Reading
  <1>2. CASE InstallHandlers
    BY <1>2, SettingsStay, Zenon DEF InstallHandlers, StartInv, Stages, Reading
  <1>3. CASE AcquireActivatedUnixListener
    <2>1. Typed(env) /\ stage = "listen" /\ ListenerAllowed /\ FeaturesAllowed
      BY <1>3, Zenon DEF AcquireActivatedUnixListener, StartInv, Reading
    <2>2. Typed(env')
      BY <1>3, <2>1, ActivationMayBeAbsent, Zenon DEF AcquireActivatedUnixListener, Typed, WithoutActivation
    <2>3. CASE ~ActivationValid
      BY <1>3, <2>2, <2>3, Zenon DEF AcquireActivatedUnixListener, StartInv, Stages, Reading
    <2>4. CASE ActivationValid
      <3>1. env' = WithoutActivation /\ stage' = "state" /\ listener' = "unix"
        BY <1>3, <2>4, Zenon DEF AcquireActivatedUnixListener, ActivationValid
      <3>2. \A s \in Named \ ActivationVariables : env'[s] = env[s]
        BY <3>1, <2>1, NamedSettings, Zenon DEF WithoutActivation, Typed
      <3>3. \A s \in ActivationVariables : env'[s] = "absent"
        BY <3>1, <2>1, NamedSettings, Zenon DEF WithoutActivation, Typed, Named, ActivationVariables
      <3>4. /\ env'.SISTER_ENV = env.SISTER_ENV
            /\ env'.SISTER_ACTIVATED_SOCKET_PATH = env.SISTER_ACTIVATED_SOCKET_PATH
            /\ env'.descriptor = env.descriptor /\ env'.permissions = env.permissions
            /\ env'["SISTER_ENABLE_HTTP_BOOTSTRAP"] = env["SISTER_ENABLE_HTTP_BOOTSTRAP"]
            /\ env'["SISTER_ENABLE_LEGACY_PROXY"] = env["SISTER_ENABLE_LEGACY_PROXY"]
            /\ env'["SISTER_ENABLE_LEGACY_WEBSOCKET_PROXY"] = env["SISTER_ENABLE_LEGACY_WEBSOCKET_PROXY"]
        BY <3>2, Zenon DEF Named, ActivationVariables
      <3>5. /\ Production' = Production /\ BootstrapEnabled' = BootstrapEnabled
            /\ LegacyProxyEnabled' = LegacyProxyEnabled /\ LegacyWebSocketEnabled' = LegacyWebSocketEnabled
        BY <3>4, Zenon DEF Production, BootstrapEnabled, LegacyProxyEnabled, LegacyWebSocketEnabled, Flag
      <3>6. Production => /\ env.SISTER_ACTIVATED_SOCKET_PATH = "/run/sister/sisterd.sock"
                          /\ ~BootstrapEnabled /\ ~LegacyProxyEnabled /\ ~LegacyWebSocketEnabled
        BY <2>1, Zenon DEF ListenerAllowed, FeaturesAllowed
      <3>7. env.descriptor = env.SISTER_ACTIVATED_SOCKET_PATH /\ (Production => env.permissions = "right")
        BY <2>4, Zenon DEF ActivationValid
      <3>8. ListenerFits'
        BY <3>1, <3>3, <3>4, <3>5, <3>6, <3>7, Zenon DEF ListenerFits
      <3> QED
        BY <3>1, <3>8, <2>2, Zenon DEF StartInv, Stages, Reading
    <2> QED
      BY <2>3, <2>4, Zenon
  <1>4. CASE CreateTcpLoopbackListener
    <2>1. Typed(env) /\ stage = "listen" /\ ListenerAllowed /\ UNCHANGED env
      BY <1>4, Zenon DEF CreateTcpLoopbackListener, StartInv, Reading
    <2>2. CASE stage' = "failed" /\ UNCHANGED listener
      BY <2>1, <2>2, Zenon DEF StartInv, Stages, Reading
    <2>3. CASE env.SISTER_BIND_HOST # "elsewhere" /\ stage' = "state" /\ listener' = "tcp"
      <3>1. ~Production
        BY <1>4, <2>1, Zenon DEF CreateTcpLoopbackListener, ListenerAllowed
      <3> QED
        BY <2>1, <2>3, <3>1, Zenon DEF StartInv, Stages, Reading, ListenerFits, Production
    <2> QED
      BY <1>4, <2>2, <2>3, Zenon DEF CreateTcpLoopbackListener
  <1>5. CASE CreateState
    BY <1>5, Zenon DEF CreateState, StartInv, Stages, Reading, Typed, ListenerFits, Production, Flag,
                BootstrapEnabled, LegacyProxyEnabled, LegacyWebSocketEnabled
  <1>6. CASE StartPool
    BY <1>6, Zenon DEF StartPool, StartInv, Stages, Reading
  <1> QED
    BY <1>1, <1>2, <1>3, <1>4, <1>5, <1>6, Zenon DEF Boot

LEMMA StartInvStutter == StartInv /\ UNCHANGED startupVars => StartInv'
  <1> SUFFICES ASSUME StartInv, UNCHANGED startupVars PROVE StartInv'
    OBVIOUS
  <1>1. stage' = stage /\ env' = env /\ listener' = listener
    BY Zenon DEF startupVars
  <1> USE DEF Production, Activated, Flag, BootstrapEnabled, LegacyProxyEnabled, LegacyWebSocketEnabled, NexoEnabled
  <1>2. ListenerAllowed => ListenerAllowed'
    BY <1>1, Zenon DEF ListenerAllowed
  <1>3. FeaturesAllowed => FeaturesAllowed'
    BY <1>1, Zenon DEF FeaturesAllowed
  <1>4. ListenerFits => ListenerFits'
    BY <1>1, Zenon DEF ListenerFits
  <1>5. Typed(env) => Typed(env')
    BY <1>1, Zenon
  <1> QED
    BY <1>1, <1>2, <1>3, <1>4, <1>5, Zenon DEF StartInv

\* main()'s other steps before the loop leave the configuration as it is.
LEMMA StartInvNext == StartInv /\ [ProcessNext]_<<vars, startupVars>> => StartInv'
  <1> SUFFICES ASSUME StartInv, [ProcessNext]_<<vars, startupVars>>
               PROVE  StartInv'
    OBVIOUS
  <1>1. CASE Starting
    BY <1>1, StartInvBoot, Zenon DEF Starting
  <1>2. CASE SignalTooEarly
    BY <1>2, Zenon DEF SignalTooEarly, Killed, StartInv, Stages, Reading
  <1>3. CASE UNCHANGED startupVars
    BY <1>3, StartInvStutter, Zenon
  <1> QED
    BY <1>1, <1>2, <1>3, Zenon DEF ProcessNext, SignalWhileStarting, Serving, ProcessOver

-----------------------------------------------------------------------------
\* Whatever the process does before, during and after its start, its pool
\* and accept loop behave as the module of the pool says.
THEOREM ProcessRunsPool == ProcessSpec => Spec
  <1>1. ProcessInit => Init
    BY Zenon DEF ProcessInit
  <1>2. [ProcessNext]_<<vars, startupVars>> => [Next]_vars
    BY Zenon DEF ProcessNext, Starting, SignalTooEarly, SignalWhileStarting, Serving, ProcessOver, Next
  <1> QED
    BY <1>1, <1>2, PTL DEF ProcessSpec, Spec

\* For every set of environments: a production process listens on the
\* activated production socket only, TCP is loopback and never production,
\* and the state keeps its type.
THEOREM ListensOnlyAsAllowed == ProcessSpec => []ListensAsAllowed
  <1>1. ProcessInit => StartInv
    BY StartInvInit, Zenon DEF ProcessInit
  <1>2. StartInv => StartupTypeOK /\ (stage \in {"state", "pool"} => ListenerFits)
                    /\ (stage = "serving" => listener # "none")
    BY Zenon DEF StartInv, StartupTypeOK
  <1> QED
    BY <1>1, <1>2, StartInvNext, ProcessRunsPool, TypeCorrect, PTL DEF ProcessSpec, ListensAsAllowed

\* The process, signals during its start included, keeps one owner for every
\* descriptor.
THEOREM ProcessKeepsOneOwner == ProcessSpec => []SingleOwner
  BY ProcessRunsPool, OneOwner, PTL
=============================================================================
