--------------------------- MODULE ExecutionLifecycle ---------------------------
(***************************************************************************)
(* One environment's executions: scripts/run_all.sh brings the database    *)
(* up, records the execution (execution_lifecycle.py begin), ensures the   *)
(* subsystems of the profile (subsystems/ensure.py), records what the      *)
(* execution owns (finalize), and on a failure stops it again; app/stop.sh *)
(* stops it later.  What is owned is worked out from two listings of the   *)
(* running containers, one at begin and one at finalize, and from the      *)
(* report of ensure.py.  The state is the file active-<environment>.json;  *)
(* every program may be killed between two steps, and other users of the   *)
(* machine start containers of their own.                                  *)
(*                                                                         *)
(* sisterd itself, stopped through its PID file, is CoreProcess; the       *)
(* gateway is left out.  The outcome of stopping either is ignored here.   *)
(***************************************************************************)
EXTENDS Naturals, Sequences, FiniteSets, Functions

CONSTANTS
    Runs,       \* invocations of run_all.sh
    Stops,      \* invocations of app/stop.sh by an operator
    Projects,   \* the profile's subsystems, in the order of the registry; each has a
                \* container of the same name
    Required,   \* those whose failure blocks the run
    Faults,     \* which of "runtime", "stubborn", "stop" can happen
    AtOnce,     \* how many invocations run at a time
    NoFile

ASSUME ProjectsAssumption ==
    /\ Projects \in Seq(Range(Projects)) /\ IsInjective(Projects)
    /\ Required \subseteq Range(Projects)
ASSUME FaultsAssumption == Faults \subseteq {"runtime", "stubborn", "stop"}

Subsystems == Range(Projects)
Database == "db"
Containers == Subsystems \cup {Database}
Actors == Runs \cup Stops
Groups == Runs \X Subsystems

VARIABLES
    container, \* container -> "down", the run that started it, "other" (somebody else did,
               \* before the execution of now) or "meanwhile" (during it)
    group,     \* process group -> "none", "up" (some member runs), "dead" or "stranger"
               \* (its number is that of somebody else's group)
    active,    \* active-<environment>.json
    report,    \* .run/maturity/subsystems.json: what ensure did for each project
    history,   \* the STOPPED records: the run, and the status its execution had
    slipped,   \* what the scripts cannot know of: groups and containers that they did not
               \* record or that did not stop, and numbers reused between the look at the
               \* members of a group and the signal to it
    program    \* actor -> its program: where it is (pc), why it is in stop (purpose),
               \* the state file as it read or is building it (payload), what ensure
               \* has collected (results), whether a required project failed, the
               \* recorded groups that stop has not done with (todo) and the one it is at

vars == <<container, group, active, report, history, slipped, program>>

\* Not begun, ended with 0, ended otherwise (a kill included), refused by begin.
Ended == {"new", "done", "failed", "refused"}
Working == {a \in Actors : program[a].pc \notin Ended}

\* The steps of run_all.sh under the EXIT trap.
Trapped == {"ensure", "report", "read", "finalize", "conclude"}

State(r, before) ==
    [run |-> r, status |-> "STARTING", before |-> before, owned |-> {}, groups |-> {}]

StateType ==
    [run : Runs, status : {"STARTING", "RUNNING"}, before : SUBSET Containers,
     owned : SUBSET Containers, groups : SUBSET Groups]

ResultType == [project : Subsystems, status : {"READY", "DEGRADED"}, group : Groups \cup {NoFile}]

\* A program is in one of these places.
Places ==
    Ended \cup Trapped \cup
    {"db", "begin", "write", "exists", "groups", "signal", "wait", "containers", "history", "unlink"}

Programs ==
    [pc : Places, purpose : {"none", "first", "cleanup", "operator"},
     payload : StateType \cup {NoFile}, results : SUBSET ResultType, blocked : BOOLEAN,
     todo : SUBSET Groups, target : Groups \cup {NoFile}]

\* A stop that has read the state file.
StopReads == {"groups", "signal", "wait", "containers", "history", "unlink"}

\* The steps of a run from which finalize is still to list the containers.
Unlisted == {"ensure", "report", "read", "finalize"}

SlippedType == [groups : SUBSET Groups, containers : SUBSET Containers, numbers : SUBSET Groups]

ASSUME NamesAssumption ==
    /\ Runs \cap {"down", "other", "meanwhile"} = {} /\ Database \notin Subsystems
    /\ NoFile \notin StateType /\ NoFile \notin Groups
    /\ \A results \in SUBSET ResultType : results # NoFile

TypeOK ==
    /\ container \in [Containers -> Runs \cup {"down", "other", "meanwhile"}]
    /\ group \in [Groups -> {"none", "up", "dead", "stranger"}]
    /\ active \in StateType \cup {NoFile}
    /\ report \in (SUBSET ResultType) \cup {NoFile}
    /\ history \subseteq [run : Runs, status : {"STARTING", "RUNNING"}]
    /\ slipped \in SlippedType
    /\ program \in [Actors -> Programs]
    /\ \A a \in Actors : program[a].pc \in StopReads => program[a].payload # NoFile

\* A program that has not begun or has ended holds nothing, nor one at its first step.
Gone(how) ==
    [pc |-> how, purpose |-> "none", payload |-> NoFile, results |-> {}, blocked |-> FALSE,
     todo |-> {}, target |-> NoFile]

Init ==
    /\ container = [c \in Containers |-> "down"]
    /\ group = [g \in Groups |-> "none"]
    /\ active = NoFile
    /\ report = NoFile
    /\ history = {}
    /\ slipped = [groups |-> {}, containers |-> {}, numbers |-> {}]
    /\ program = [a \in Actors |-> Gone("new")]

At(a, where) == program[a].pc = where

\* The program goes on there with what it holds now, or ends.
GoWith(a, where, held) ==
    program' = [program EXCEPT ![a] = IF where \in Ended THEN Gone(where) ELSE [held EXCEPT !.pc = where]]

Goto(a, where) == GoWith(a, where, program[a])

\* exec stop, or the trap's call of it.
EnterStop(a, why) == GoWith(a, "exists", [Gone("exists") EXCEPT !.purpose = why])

world == <<container, group>>
files == <<active, report, history, slipped>>

-----------------------------------------------------------------------------
(* The machine *)

Up == {c \in Containers : container[c] # "down"}

\* running_containers: the listing, or nothing when no runtime answers in 10 s.
RunningContainers == {Up} \cup (IF "runtime" \in Faults THEN {{}} ELSE {})

\* Somebody else starts a container.
OthersStart(c) ==
    /\ container[c] = "down"
    /\ container' = [container EXCEPT ![c] = "meanwhile"]
    /\ UNCHANGED <<group, files, program>>

\* A group ends by itself.
GroupEnds(g) ==
    /\ group[g] = "up"
    /\ group' = [group EXCEPT ![g] = "dead"]
    /\ UNCHANGED <<container, files, program>>

\* A group starts its project's container, later than the run waited for: finalize has
\* made its listing.
StartsContainer(g) ==
    /\ group[g] = "up" /\ container[g[2]] = "down"
    /\ container' = [container EXCEPT ![g[2]] = g[1]]
    /\ slipped' = IF program[g[1]].pc \in Unlisted
                    THEN slipped ELSE [slipped EXCEPT !.containers = @ \cup {g[2]}]
    /\ UNCHANGED <<group, active, report, history, program>>

\* A stop has looked at the members of the group and is about to signal it.
AboutToSignal(g) == \E a \in Actors : At(a, "signal") /\ program[a].target = g

\* The number of a group that ended is given to somebody else's, of which no process
\* has this SisTer's SISTER_HOME.
NumberReused(g) ==
    /\ group[g] = "dead"
    /\ group' = [group EXCEPT ![g] = "stranger"]
    /\ slipped' = IF AboutToSignal(g) THEN [slipped EXCEPT !.numbers = @ \cup {g}] ELSE slipped
    /\ UNCHANGED <<container, active, report, history, program>>

-----------------------------------------------------------------------------
(* run_all.sh *)

\* The environment is stopped first.
Start(r) ==
    /\ At(r, "new")
    /\ Cardinality(Working) < AtOnce
    /\ EnterStop(r, "first")
    /\ UNCHANGED <<world, files>>

\* db/up.sh; the migrations, the checks and the quality run may fail, before the trap
\* is set.
DbUp(r, passes) ==
    /\ At(r, "db")
    /\ container' = [container EXCEPT ![Database] = IF @ = "down" THEN r ELSE @]
    /\ Goto(r, IF passes THEN "begin" ELSE "failed")
    /\ UNCHANGED <<group, files>>

\* What others started by now precedes the execution that begins.
Preceding == [c \in Containers |-> IF container[c] = "meanwhile" THEN "other" ELSE container[c]]

\* begin: refuses an environment with an active execution, then lists the containers.
Begin(r, before) ==
    /\ At(r, "begin")
    /\ IF active # NoFile
         THEN Goto(r, "refused") /\ UNCHANGED container
         ELSE /\ before \in RunningContainers
              /\ container' = Preceding
              /\ GoWith(r, "write", [program[r] EXCEPT !.payload = State(r, before)])
    /\ UNCHANGED <<group, files>>

\* write_state replaces the file; run_all sets its trap and removes the old report.
WriteState(r) ==
    /\ At(r, "write")
    /\ active' = program[r].payload
    /\ report' = NoFile
    /\ Goto(r, IF Projects = <<>> THEN "read" ELSE "ensure")
    /\ UNCHANGED <<world, history, slipped>>

-----------------------------------------------------------------------------
(* ensure.py *)

\* The next project: the first one without a result.
Pending(r) == {i \in DOMAIN Projects : \A x \in program[r].results : x.project # Projects[i]}
NextProject(r) == Projects[CHOOSE i \in Pending(r) : \A j \in Pending(r) : i <= j]

\* health_result: a group that runs may not have opened its port yet; without one the
\* port is free or somebody else's.
Health(p) ==
    {"unavailable", "occupied"} \cup
    (IF (\E r \in Runs : group[<<r, p>>] = "up") \/ container[p] # "down" THEN {"healthy"} ELSE {})

\* component_result
Result(p, status, g) == [project |-> p, status |-> status, group |-> g]

Collect(r, result) ==
    GoWith(r, IF Cardinality(Pending(r)) = 1 THEN "report" ELSE "ensure",
           [program[r] EXCEPT
              !.results = @ \cup {result},
              !.blocked = @ \/ (result.status = "DEGRADED" /\ result.project \in Required)])

\* preflight failed, or the port is occupied, or the project is healthy already.
EnsureAsIs(r) ==
    /\ At(r, "ensure")
    /\ \E status \in {"READY", "DEGRADED"} :
         /\ status = "READY" => "healthy" \in Health(NextProject(r))
         /\ Collect(r, Result(NextProject(r), status, NoFile))
    /\ UNCHANGED <<world, files>>

\* start_project starts a group in a session of its own, and the group may start the
\* project's container.  READY: the project is healthy in time, whether the command
\* runs on or has ended with 0 (the only way when a healthy project is refreshed).
\* DEGRADED: the command ended with an error, its refresh was not confirmed, the
\* deadline passed, or an error after the start; nobody ends what it started, and the
\* number of the group is not reported though a process of it may run.
EnsureStarts(r, status, left, starts) ==
    LET p == NextProject(r)
        g == <<r, p>>
    IN  /\ At(r, "ensure")
        /\ group' = [group EXCEPT ![g] = left]
        /\ container' = [container EXCEPT ![p] = IF @ = "down" /\ starts THEN r ELSE @]
        /\ Collect(r, Result(p, status, IF status = "READY" THEN g ELSE NoFile))
        /\ slipped' = IF status = "DEGRADED" /\ left = "up"
                        THEN [slipped EXCEPT !.groups = @ \cup {g}] ELSE slipped
        /\ UNCHANGED <<active, report, history>>

\* ensure.py writes its report and ends with 0 or 2, or is killed in between.
WriteReport(r) ==
    /\ At(r, "report")
    /\ report' = program[r].results
    /\ \E blocked \in {program[r].blocked, FALSE} :
         GoWith(r, "read", [program[r] EXCEPT !.blocked = blocked])
    /\ UNCHANGED <<world, active, history, slipped>>

\* ensure.py ends without a report and with another code than 3: an OSError that nobody
\* catches (the digest or the report cannot be written), or a signal.  run_all.sh goes
\* on as if the subsystems had been ready.
EnsureFails(r) ==
    /\ program[r].pc \in {"ensure", "report"}
    /\ GoWith(r, "read", [program[r] EXCEPT !.results = {}, !.blocked = FALSE])
    /\ UNCHANGED <<world, files>>

-----------------------------------------------------------------------------
(* finalize *)

\* The state file is read; without it the run fails.
ReadState(r) ==
    /\ At(r, "read")
    /\ IF active = NoFile
         THEN EnterStop(r, "cleanup")
         ELSE GoWith(r, "finalize", [program[r] EXCEPT !.payload = active])
    /\ UNCHANGED <<world, files>>

Reported == IF report = NoFile THEN {} ELSE report

\* candidate_containers: the resources of SisTer and of the projects named.
CandidateContainers(projects) == {Database} \cup projects

\* Mutant: the difference of the two listings is taken the wrong way round.
OwnedContainersSwapped(after, before, candidates) == (before \ after) \cap candidates

\* What is new between the two listings, among the candidates.
OwnedContainers(after, before, candidates) == (after \ before) \cap candidates

\* Without a report nothing that the run started is recorded.
Unreported(r) ==
    IF report = NoFile
      THEN [slipped EXCEPT !.groups = @ \cup {g \in {r} \X Subsystems : group[g] = "up"},
                           !.containers = @ \cup {p \in Subsystems : container[p] = r}]
      ELSE slipped

Finalize(r, after) ==
    /\ At(r, "finalize")
    /\ after \in RunningContainers
    /\ active' = [program[r].payload EXCEPT
                    !.status = "RUNNING",
                    !.owned = OwnedContainers(after, program[r].payload.before,
                                CandidateContainers({x.project : x \in Reported})),
                    !.groups = {x.group : x \in Reported} \ {NoFile}]
    /\ slipped' = Unreported(r)
    /\ Goto(r, "conclude")
    /\ UNCHANGED <<world, report, history>>

\* The summary, a gateway that failed, a required project that failed: the run ends, or
\* its trap stops the execution.
Conclude(r) ==
    /\ At(r, "conclude")
    /\ \/ ~ program[r].blocked /\ Goto(r, "done")
       \/ EnterStop(r, "cleanup")
    /\ UNCHANGED <<world, files>>

\* A command fails, ensure.py ends with 3 (an error of configuration), or the run is
\* interrupted: the EXIT trap runs.
Interrupted(r) ==
    /\ program[r].pc \in Trapped
    /\ EnterStop(r, "cleanup")
    /\ UNCHANGED <<world, files>>

-----------------------------------------------------------------------------
(* stop *)

\* app/stop.sh by an operator.
Operate(s) ==
    /\ At(s, "new")
    /\ Cardinality(Working) < AtOnce
    /\ EnterStop(s, "operator")
    /\ UNCHANGED <<world, files>>

\* Where stop returns to: the trap ignores how it went, run_all's first step does not.
Return(a, ok) ==
    LET where == CASE program[a].purpose = "first" -> IF ok THEN "db" ELSE "failed"
                   [] program[a].purpose = "cleanup" -> "failed"
                   [] program[a].purpose = "operator" -> IF ok THEN "done" ELSE "failed"
    IN  GoWith(a, where, Gone(where))

\* Without a state file only sisterd is stopped.
StopExists(a) ==
    /\ At(a, "exists")
    /\ IF active = NoFile
         THEN Return(a, TRUE)
         ELSE GoWith(a, IF active.groups = {} THEN "containers" ELSE "groups",
                     [program[a] EXCEPT !.payload = active, !.todo = active.groups])
    /\ UNCHANGED <<world, files>>

\* stop_group returned, for whichever reason; the next group, or the containers.
GroupDone(a, g) ==
    GoWith(a, IF program[a].todo \subseteq {g} THEN "containers" ELSE "groups",
           [program[a] EXCEPT !.todo = @ \ {g}, !.target = NoFile])

\* The groups are visited in the reverse order of the report.
Position(g) == CHOOSE i \in DOMAIN Projects : Projects[i] = g[2]
IsLast(g, groups) == g \in groups /\ \A h \in groups : Position(h) <= Position(g)

\* Mutant: only whether the group has members is looked at, not whose they are.
CheckGroupBlindly(a, g) ==
    /\ At(a, "groups") /\ IsLast(g, program[a].todo)
    /\ \/ group[g] \in {"none", "dead"} /\ GroupDone(a, g)
       \/ group[g] \in {"up", "stranger"} /\ GoWith(a, "signal", [program[a] EXCEPT !.target = g])
    /\ UNCHANGED <<world, files>>

\* The members of the group: without any it is skipped; one that is not of this SisTer,
\* or that ends before its environment is read, makes stop give up.
CheckGroup(a, g) ==
    /\ At(a, "groups") /\ IsLast(g, program[a].todo)
    /\ \/ group[g] \in {"none", "dead"} /\ GroupDone(a, g)
       \/ group[g] = "up" /\ GoWith(a, "signal", [program[a] EXCEPT !.target = g])
       \/ group[g] \in {"up", "stranger"} /\ Return(a, FALSE)
    /\ UNCHANGED <<world, files>>

\* killpg, to whatever has the number by now; another user's group refuses the signal.
SignalGroup(a, g) ==
    /\ At(a, "signal") /\ program[a].target = g
    /\ \/ group[g] \in {"none", "dead"} /\ GroupDone(a, g) /\ UNCHANGED group
       \/ /\ group[g] \in {"up", "stranger"}
          /\ \E left \in {"dead", group[g]} :
               /\ left # "dead" => "stubborn" \in Faults
               /\ group' = [group EXCEPT ![g] = left]
          /\ Goto(a, "wait")
       \/ group[g] = "stranger" /\ Return(a, FALSE) /\ UNCHANGED group
    /\ UNCHANGED <<container, files>>

\* The group is gone, or outlives the 5 s; a number that another user has got meanwhile
\* makes stop give up.
WaitGroup(a, g) ==
    /\ At(a, "wait") /\ program[a].target = g
    /\ \/ GroupDone(a, g)
       \/ group[g] = "stranger" /\ Return(a, FALSE)
    /\ slipped' = IF group[g] = "up" THEN [slipped EXCEPT !.groups = @ \cup {g}] ELSE slipped
    /\ UNCHANGED <<world, active, report, history>>

\* The containers to stop: those recorded, and for an execution that was not finalized
\* those that are new among the environment's candidates; as far as they are running.
ToStop(p, current) ==
    current \cap
    (p.owned \cup IF p.status = "STARTING"
                    THEN OwnedContainers(current, p.before, CandidateContainers(Subsystems))
                    ELSE {})

StopContainers(a, current) ==
    /\ At(a, "containers")
    /\ current \in RunningContainers
    /\ \E left \in SUBSET ToStop(program[a].payload, current) :
         /\ left # {} => "stop" \in Faults
         /\ container' = [c \in Containers |->
              IF c \in ToStop(program[a].payload, current) \ left THEN "down" ELSE container[c]]
         /\ slipped' = [slipped EXCEPT !.containers = @ \cup left]
    /\ Goto(a, "history")
    /\ UNCHANGED <<group, active, report, history>>

WriteHistory(a) ==
    /\ At(a, "history")
    /\ history' = history \cup {[run |-> program[a].payload.run, status |-> program[a].payload.status]}
    /\ Goto(a, "unlink")
    /\ UNCHANGED <<world, active, report, slipped>>

\* Mutant: the state of an execution that never ran stays for inspection.
UnlinkRunning(a) ==
    /\ At(a, "unlink")
    /\ active' = IF program[a].payload.status = "STARTING" THEN active ELSE NoFile
    /\ Return(a, TRUE)
    /\ UNCHANGED <<world, report, history, slipped>>

\* path.unlink() raises when another stop was faster.
Unlink(a) ==
    /\ At(a, "unlink")
    /\ active' = NoFile
    /\ Return(a, active # NoFile)
    /\ UNCHANGED <<world, report, history, slipped>>

\* SIGKILL: no trap.
Kill(a) ==
    /\ a \in Working
    /\ Goto(a, "failed")
    /\ UNCHANGED <<world, files>>

-----------------------------------------------------------------------------
RunStep(r) ==
    \/ Start(r)
    \/ \E passes \in BOOLEAN : DbUp(r, passes)
    \/ \E seen \in RunningContainers : Begin(r, seen) \/ Finalize(r, seen)
    \/ WriteState(r) \/ EnsureAsIs(r)
    \/ \E status \in {"READY", "DEGRADED"}, left \in {"up", "dead"}, starts \in BOOLEAN :
          EnsureStarts(r, status, left, starts)
    \/ WriteReport(r) \/ EnsureFails(r) \/ ReadState(r) \/ Conclude(r) \/ Interrupted(r)

StopStep(a) ==
    \/ StopExists(a)
    \/ \E g \in Groups : CheckGroup(a, g) \/ SignalGroup(a, g) \/ WaitGroup(a, g)
    \/ \E current \in RunningContainers : StopContainers(a, current)
    \/ WriteHistory(a) \/ Unlink(a) \/ Kill(a)

Next ==
    \/ \E c \in Containers : OthersStart(c)
    \/ \E g \in Groups : GroupEnds(g) \/ StartsContainer(g) \/ NumberReused(g)
    \/ \E r \in Runs : RunStep(r)
    \/ \E s \in Stops : Operate(s)
    \/ \E a \in Actors : StopStep(a)

Spec == Init /\ [][Next]_vars

-----------------------------------------------------------------------------
(* Properties *)

\* What belongs to others is left alone, whatever was killed on the way: no run and no
\* stop ever stops a container that somebody else had started before the execution
\* began (docs/architecture/ENVIRONMENTS.md: preexisting resources are preserved), nor
\* signals a process group whose number was somebody else's when stop_group looked at
\* its members.  The look and the signal are two steps: a group that ends between them
\* and whose number is reused at once is signalled, and is the one exception.
OthersPreserved ==
    [][/\ \A c \in Containers : container[c] = "other" => container'[c] = "other"
       /\ \A g \in Groups \ slipped.numbers : group[g] = "stranger" => group'[g] = "stranger"]_vars

\* All state has its type, and the full cycle is symmetric
\* (docs/architecture/ENVIRONMENTS.md): when an execution that had been finalized was
\* stopped, by whom ever and after whatever was killed, none of the groups its run
\* started runs and none of the containers it started for its subsystems is up.
\* What may run on is what stop cannot know of or cannot end, and only that: the
\* processes of a project whose start ensure.py counts as failed, a container that its
\* project started after finalize's listing, everything when ensure.py ended without
\* a report (the run goes on and records nothing), and what outlived its signal or
\* failed to stop.
CycleIsSymmetric ==
    /\ TypeOK
    /\ \A r \in Runs :
          [run |-> r, status |-> "RUNNING"] \in history =>
              \A p \in Subsystems :
                  /\ group[<<r, p>>] = "up" => <<r, p>> \in slipped.groups
                  /\ container[p] = r => p \in slipped.containers

\* Whatever killed an earlier run or stop, a run that is alone is not refused for an
\* execution that is still recorded: its first step cleared the record.
RerunNotRefused ==
    \A r \in Runs : ~ At(r, "refused")
=============================================================================
