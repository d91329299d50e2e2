---------------------------- MODULE LifecycleProofs ----------------------------
EXTENDS ExecutionLifecycle, FiniteSetTheorems, WellFoundedInduction, TLAPS

(***************************************************************************)
(* What the execution scripts of ExecutionLifecycle guarantee when they    *)
(* run one at a time: for any set of runs, stop commands, subsystems and   *)
(* projects, a cycle leaves nothing running that it recorded and could     *)
(* stop, a rerun is not refused, and what somebody else started is left as *)
(* it was.                                                                 *)
(*                                                                         *)
(* LifecycleInv is the inductive invariant: what each place of a program   *)
(* relies on (Relies), that programs do not overlap (Alone), what the      *)
(* state file accounts for (Owns) and what a closed execution has left     *)
(* behind (Closed).                                                        *)
(***************************************************************************)

\* No listing of the containers fails.
Listed == "runtime" \notin Faults

StopPlaces == {"exists"} \cup StopReads

\* A run that has not come to ensure.py, and one that is behind its finalize.
Unborn(s) == s.pc \in {"new", "db", "begin", "write"} \/ (s.pc \in StopPlaces /\ s.purpose = "first")
Past(s) == ~ Unborn(s) /\ s.pc \notin Unlisted

\* ensure.py has no result for the project; it has one for each.
Without(results, p) == \A x \in results : x.project # p
Complete(results) == \A p \in Subsystems : ~ Without(results, p)

Untouched(r, p) == group[<<r, p>>] = "none" /\ container[p] # r

\* The state file of an execution that has begun.
Starting(r, state) ==
    /\ state \in StateType
    /\ state.run = r /\ state.status = "STARTING"
    /\ \A p \in Subsystems : p \in state.before => container[p] \notin {"down", r}

\* What others had running is listed as preceding and not as owned.
Preceded(state) ==
    Listed => \A c \in Containers : container[c] = "other" => c \in state.before /\ c \notin state.owned

\* Every group of the run that runs is reported, unless its start counts as failed.
Covered(r, results) ==
    \A p \in Subsystems : group[<<r, p>>] = "up" =>
        <<r, p>> \in slipped.groups \/ \E x \in results : x.group = <<r, p>>

\* Of the groups, and of the containers of subsystems, that the run started, there runs
\* only what a fault let slip.
GroupsStopped(r) == \A p \in Subsystems : group[<<r, p>>] = "up" => <<r, p>> \in slipped.groups
ContainersStopped(r) ==
    Listed => \A p \in Subsystems : container[p] = r => p \in slipped.containers

\* Of the groups that the run started, there runs what stop has not come to yet.
Remaining(r, todo) ==
    \A p \in Subsystems : group[<<r, p>>] = "up" => <<r, p>> \in slipped.groups \cup todo

\* What program a, in state s, can rely on, as it runs alone.
FileRelies(a, s) ==
    /\ s.pc \in Ended => s.payload = NoFile
    /\ s.pc \in {"db", "begin", "write"} => active = NoFile
    /\ s.pc = "write" => Starting(a, s.payload) /\ Preceded(s.payload)
    /\ s.pc \in Unlisted => Starting(a, active)
    /\ s.pc = "finalize" => s.payload = active
    /\ s.pc \in StopReads => active # NoFile /\ s.payload = active

StopRelies(s) ==
    /\ s.pc \in StopPlaces => s.purpose # "none"
    /\ s.pc \in {"groups", "signal", "wait"} /\ active.status = "RUNNING" => Remaining(active.run, s.todo)
    /\ s.pc = "signal" => s.target \in Groups /\ (group[s.target] = "stranger" => s.target \in slipped.numbers)
    /\ s.pc \in {"containers", "history", "unlink"} /\ active.status = "RUNNING" => GroupsStopped(active.run)
    /\ s.pc \in {"history", "unlink"} /\ active.status = "RUNNING" => ContainersStopped(active.run)

EnsureRelies(a, s) ==
    /\ Unborn(s) => s.results = {}
    /\ a \in Runs /\ (Unborn(s) \/ s.pc = "ensure") =>
          \A p \in Subsystems : Without(s.results, p) => Untouched(a, p)
    /\ s.pc = "ensure" => ~ Complete(s.results)
    /\ s.pc \in {"ensure", "report"} => Covered(a, s.results) /\ report = NoFile
    /\ s.pc = "report" => Complete(s.results)
    /\ s.pc \in {"read", "finalize"} /\ report # NoFile => Covered(a, Reported) /\ Complete(Reported)

Relies(a, s) == FileRelies(a, s) /\ StopRelies(s) /\ EnsureRelies(a, s)

\* The programs run one at a time.
Alone == \A a, b \in Actors : a \in Working /\ b \in Working => a = b

\* The state file of an execution that was finalized names all that its run started.
Owns ==
    active # NoFile /\ active.status = "RUNNING" =>
        LET r == active.run
        IN  /\ Past(program[r])
            /\ \A p \in Subsystems :
                  group[<<r, p>>] = "up" => <<r, p>> \in slipped.groups \cup active.groups
            /\ Listed => \A p \in Subsystems :
                  container[p] = r => p \in slipped.containers \cup active.owned

Closed ==
    \A r \in Runs : [run |-> r, status |-> "RUNNING"] \in history =>
        Past(program[r]) /\ GroupsStopped(r) /\ ContainersStopped(r)

LifecycleInv ==
    /\ TypeOK
    /\ Alone
    /\ \A a \in Actors : Relies(a, program[a])
    /\ active # NoFile => Preceded(active)
    /\ Owns
    /\ Closed
    /\ RerunNotRefused

\* What a step leaves alone of a run that is not the one that takes it.
Quiet(r) ==
    \A p \in Subsystems :
        /\ group'[<<r, p>>] = "up" => group[<<r, p>>] = "up"
        /\ container'[p] = r => container[p] = r
        /\ Untouched(r, p) => Untouched(r, p)'

SlipsOnly ==
    /\ slipped.groups \subseteq slipped'.groups
    /\ slipped.containers \subseteq slipped'.containers
    /\ slipped.numbers \subseteq slipped'.numbers

LEMMA RunNames == \A r \in Runs : r # "down" /\ r # "other" /\ r # "meanwhile"
  BY NamesAssumption, Zenon

LEMMA OthersEnded ==
  ASSUME LifecycleInv, NEW a \in Actors, program[a].pc \notin Ended
  PROVE  \A b \in Actors \ {a} : program[b].pc \in Ended
  BY Zenon DEF LifecycleInv, Alone, Working

\* A program starts only when no other runs.
LEMMA NobodyWorks ==
  ASSUME LifecycleInv, AtOnce = 1, Cardinality(Working) < AtOnce
  PROVE  \A b \in Actors : program[b].pc \in Ended
  <1> SUFFICES ASSUME NEW a \in Working PROVE FALSE
    BY Zenon DEF Working
  <1>1. Working = {a}
    BY Zenon DEF LifecycleInv, Alone, Working
  <1>2. Cardinality({a}) = 1
    BY FS_Singleton, Zenon
  <1> QED BY <1>1, <1>2

LEMMA LifecycleInvInit == Init => LifecycleInv
  <1> SUFFICES ASSUME Init PROVE LifecycleInv OBVIOUS
  <1> USE NamesAssumption
  <1>1. Gone("new") \in Programs /\ Gone("new").pc = "new" /\ Gone("new").payload = NoFile
        /\ Gone("new").results = {}
    BY Zenon DEF Gone, Programs, Places, Ended
  <1>2. \A a \in Actors : program[a] = Gone("new")
    BY Zenon DEF Init
  <1>3. TypeOK
    <2>1. container \in [Containers -> Runs \cup {"down", "other", "meanwhile"}]
      BY Zenon DEF Init
    <2>2. group \in [Groups -> {"none", "up", "dead", "stranger"}]
      BY Zenon DEF Init
    <2>3. program \in [Actors -> Programs]
      BY <1>1, Zenon DEF Init
    <2>4. slipped \in SlippedType
      BY Zenon DEF Init, SlippedType
    <2>5. active = NoFile /\ report = NoFile /\ history = {}
      BY Zenon DEF Init
    <2>6. \A a \in Actors : program[a].pc \notin StopReads
      BY <1>1, <1>2, Zenon DEF StopReads
    <2> QED BY <2>1, <2>2, <2>3, <2>4, <2>5, <2>6, Zenon DEF TypeOK
  <1>4. Working = {}
    BY <1>1, <1>2, Zenon DEF Working, Ended
  <1>5. ASSUME NEW a \in Actors PROVE Relies(a, program[a])
    <2>1. \A p \in Subsystems : a \in Runs => Untouched(a, p)
      BY Zenon DEF Init, Untouched, Groups, Containers
    <2> QED BY <1>1, <1>2, <2>1, Zenon DEF Relies, FileRelies, StopRelies, EnsureRelies, Unborn, StopPlaces, StopReads, Unlisted, Ended
  <1>6. active = NoFile /\ history = {}
    BY Zenon DEF Init
  <1> QED BY <1>1, <1>2, <1>3, <1>4, <1>5, <1>6, Zenon DEF LifecycleInv, Alone, Owns, Closed, RerunNotRefused, At, Actors

\* What a step of program a has to keep.
LEMMA ActorStep ==
  ASSUME LifecycleInv, NEW a \in Actors, NEW new \in Programs,
         program' = [program EXCEPT ![a] = new], new.pc # "refused",
         \A b \in Actors \ {a} : program[b].pc \in Ended,
         container' \in [Containers -> Runs \cup {"down", "other", "meanwhile"}],
         group' \in [Groups -> {"none", "up", "dead", "stranger"}],
         active' \in StateType \cup {NoFile},
         report' \in (SUBSET ResultType) \cup {NoFile},
         history' \subseteq [run : Runs, status : {"STARTING", "RUNNING"}],
         slipped' \in SlippedType,
         \A r \in Runs \ {a} : Quiet(r),
         Relies(a, new)', (active # NoFile => Preceded(active))', Owns', Closed'
  PROVE  LifecycleInv'
  <1>1. /\ program'[a] = new /\ program' \in [Actors -> Programs]
        /\ \A b \in Actors \ {a} : program'[b] = program[b]
    BY Zenon DEF LifecycleInv, TypeOK
  <1>2. ASSUME NEW b \in Actors PROVE Relies(b, program[b])'
    <2>1. CASE b = a
      BY <1>1, <2>1, SMTT(60)
    <2>2. CASE b # a
      <3>1. program[b].pc \in Ended /\ program'[b] = program[b] /\ Relies(b, program[b])
        BY <1>1, <2>2, Zenon DEF LifecycleInv
      <3>2. b \in Runs => \A p \in Subsystems : Untouched(b, p) => Untouched(b, p)'
        BY <2>2, Zenon DEF Quiet
      <3> QED BY <3>1, <3>2, Zenon DEF Relies, FileRelies, StopRelies, EnsureRelies, Ended, Unborn, StopPlaces, StopReads, Unlisted
    <2> QED BY <2>1, <2>2, Zenon
  <1>3. TypeOK'
    <2>1. \A b \in Actors :
             program'[b].pc \in StopReads => program'[b].payload # NoFile
      BY <1>2, Zenon DEF Relies, FileRelies, StopRelies, EnsureRelies
    <2> QED BY <1>1, <2>1, Zenon DEF TypeOK
  <1>4. Alone'
    BY <1>1, Zenon DEF Alone, Working
  <1>5. RerunNotRefused'
    BY <1>1, Zenon DEF LifecycleInv, RerunNotRefused, At, Actors
  <1> QED BY <1>2, <1>3, <1>4, <1>5, Zenon DEF LifecycleInv

LEMMA ClosedKept ==
  ASSUME LifecycleInv, NEW a \in Actors, NEW new, program' = [program EXCEPT ![a] = new],
         Past(program[a]) => Past(new), history' = history, SlipsOnly,
         \A r \in Runs : r # a \/ Past(program[a]) => Quiet(r)
  PROVE  Closed'
  <1> SUFFICES ASSUME NEW r \in Runs, [run |-> r, status |-> "RUNNING"] \in history
               PROVE  Past(program'[r]) /\ GroupsStopped(r)' /\ ContainersStopped(r)'
    BY Zenon DEF Closed
  <1>1. Past(program[r]) /\ GroupsStopped(r) /\ ContainersStopped(r)
    BY Zenon DEF LifecycleInv, Closed
  <1>2. Past(program'[r]) /\ Quiet(r)
    BY <1>1, Zenon DEF LifecycleInv, TypeOK, Actors
  <1> QED BY <1>1, <1>2, Zenon DEF Quiet, SlipsOnly, GroupsStopped, ContainersStopped

LEMMA OwnsKept ==
  ASSUME LifecycleInv, NEW a \in Actors, NEW new, program' = [program EXCEPT ![a] = new],
         Past(program[a]) => Past(new), active' = active, SlipsOnly,
         \A r \in Runs : r # a \/ Past(program[a]) => Quiet(r)
  PROVE  Owns'
  <1> SUFFICES ASSUME active # NoFile, active.status = "RUNNING" PROVE Owns'
    BY Zenon DEF Owns
  <1> DEFINE r == active.run
  <1>1. r \in Runs /\ Past(program[r])
    BY Zenon DEF LifecycleInv, TypeOK, StateType, Owns
  <1>2. Past(program'[r]) /\ Quiet(r)
    BY <1>1, Zenon DEF LifecycleInv, TypeOK, Actors
  <1> QED BY <1>1, <1>2, ZenonT(40) DEF LifecycleInv, Owns, Quiet, SlipsOnly

\* Only programs move.
LEMMA SameWorld ==
  ASSUME UNCHANGED <<container, group, active, report, slipped>>, NEW a, NEW s
  PROVE  Relies(a, s)' <=> Relies(a, s)
  BY DEF Relies, FileRelies, StopRelies, EnsureRelies, Starting, Preceded, GroupsStopped, ContainersStopped, Remaining, Untouched, Covered, Reported

LEMMA NothingHappens ==
  ASSUME UNCHANGED <<container, group, slipped>>
  PROVE  (\A r : Quiet(r)) /\ SlipsOnly
  BY Zenon DEF Quiet, SlipsOnly, Untouched

LEMMA PlainStep ==
  ASSUME LifecycleInv, NEW a \in Actors, NEW new \in Programs,
         program' = [program EXCEPT ![a] = new], new.pc # "refused",
         \A b \in Actors \ {a} : program[b].pc \in Ended,
         UNCHANGED <<container, group, active, report, history, slipped>>,
         Relies(a, new), Past(program[a]) => Past(new)
  PROVE  LifecycleInv'
  <1>1. Relies(a, new)'
    BY SameWorld, Zenon
  <1>2. Owns' /\ Closed'
    BY NothingHappens, OwnsKept, ClosedKept, Zenon
  <1>3. (active # NoFile => Preceded(active))'
    BY Zenon DEF LifecycleInv, Preceded
  <1> QED BY <1>1, <1>2, <1>3, NothingHappens, ActorStep, Zenon DEF LifecycleInv, TypeOK

\* Program a goes on as `new'.
Into(a, where, held, new) ==
    /\ program' = [program EXCEPT ![a] = new]
    /\ new.pc = where
    /\ where \in Ended => new.payload = NoFile
    /\ where \notin Ended => /\ new.purpose = held.purpose /\ new.payload = held.payload
                             /\ new.results = held.results
                             /\ new.todo = held.todo /\ new.target = held.target

LEMMA Goes ==
  ASSUME NEW a, NEW where \in Places, NEW held \in Programs, GoWith(a, where, held)
  PROVE  \E new \in Programs : Into(a, where, held, new)
  <1>1. CASE where \in Ended
    <2>1. Gone(where) \in Programs /\ Gone(where).pc = where /\ Gone(where).payload = NoFile
      BY Zenon DEF Gone, Programs
    <2> QED BY <1>1, <2>1, Zenon DEF GoWith, Into
  <1>2. CASE where \notin Ended
    <2> DEFINE new == [held EXCEPT !.pc = where]
    <2>1. /\ new \in Programs /\ new.pc = where /\ new.purpose = held.purpose
          /\ new.payload = held.payload /\ new.results = held.results
          /\ new.todo = held.todo /\ new.target = held.target
      BY Zenon DEF Programs
    <2>2. program' = [program EXCEPT ![a] = new]
      BY <1>2, Zenon DEF GoWith
    <2> HIDE DEF new
    <2> QED BY <1>2, <2>1, <2>2, Zenon DEF Into
  <1> QED BY <1>1, <1>2, Zenon

LEMMA EndedRelies ==
  ASSUME NEW a, NEW s, s.pc \in Ended \ {"new"}, s.payload = NoFile
  PROVE  Relies(a, s) /\ Past(s)
  BY Zenon DEF Relies, FileRelies, StopRelies, EnsureRelies, Past, Unborn, Ended, StopPlaces, StopReads, Unlisted

LEMMA Least ==
  ASSUME NEW T \in SUBSET Nat, T # {}
  PROVE  \E x \in T : \A y \in T : x <= y
  <1> DEFINE R == OpToRel(<, Nat)
  <1>1. IsWellFoundedOn(R, Nat)
    BY NatLessThanWellFounded, Zenon
  <1>2. \A x, y \in Nat : x < y => <<x, y>> \in R
    BY Zenon DEF OpToRel
  <1> HIDE DEF R
  <1>3. PICK x \in T : \A y \in T : ~ (<<y, x>> \in R)
    BY <1>1, WFMin, Zenon
  <1>4. \A y \in T : ~ (y < x)
    BY <1>2, <1>3, Zenon
  <1>5. x \in Nat /\ \A y \in T : y \in Nat
    OBVIOUS
  <1> QED BY <1>4, <1>5

LEMMA StopEntered ==
  ASSUME LifecycleInv, NEW a \in Actors, NEW why \in {"first", "cleanup", "operator"},
         EnterStop(a, why), UNCHANGED <<world, files>>,
         \A b \in Actors \ {a} : program[b].pc \in Ended,
         why = "first" => program[a].pc = "new"
  PROVE  LifecycleInv'
  <1>1. program[a] \in Programs /\ Relies(a, program[a])
    BY Zenon DEF LifecycleInv, TypeOK
  <1> DEFINE held == [Gone("exists") EXCEPT !.purpose = why]
  <1>2. held \in Programs /\ held.purpose = why /\ held.results = {}
    BY Zenon DEF Programs, Gone, Places
  <1>3. GoWith(a, "exists", held)
    BY Zenon DEF EnterStop
  <1> HIDE DEF held
  <1>4. "exists" \in Places /\ "exists" \notin Ended
    BY Zenon DEF Places, Ended
  <1>5. PICK new \in Programs :
           /\ program' = [program EXCEPT ![a] = new]
           /\ new.pc = "exists" /\ new.purpose = held.purpose /\ new.results = held.results
    BY <1>2, <1>3, <1>4, Goes, SMTT(60) DEF Into
  <1>6. Relies(a, new)
    BY <1>1, <1>2, <1>4, <1>5, Zenon DEF Relies, FileRelies, StopRelies, EnsureRelies, Unborn, StopPlaces, StopReads, Unlisted
  <1>7. Past(program[a]) => Past(new)
    BY <1>2, <1>5, Zenon DEF Past, Unborn, StopPlaces, StopReads, Unlisted
  <1> QED BY <1>5, <1>6, <1>7, PlainStep, Zenon DEF world, files

LEMMA StartKeeps ==
  ASSUME LifecycleInv, AtOnce = 1, NEW r \in Runs, Start(r)
  PROVE  LifecycleInv'
  BY NobodyWorks, StopEntered, Zenon DEF Start, At, Actors

LEMMA OperateKeeps ==
  ASSUME LifecycleInv, AtOnce = 1, NEW s \in Stops, Operate(s)
  PROVE  LifecycleInv'
  BY NobodyWorks, StopEntered, Zenon DEF Operate, At, Actors

LEMMA InterruptedKeeps ==
  ASSUME LifecycleInv, NEW r \in Runs, Interrupted(r)
  PROVE  LifecycleInv'
  BY OthersEnded, StopEntered, Zenon DEF Interrupted, Trapped, Ended, Actors

\* A program ends, whatever became of the machine's part of the state meanwhile.
LEMMA EndKeeps ==
  ASSUME LifecycleInv, NEW a \in Actors, NEW how \in Ended \ {"new", "refused"},
         Goto(a, how), UNCHANGED <<world, files>>, program[a].pc \notin Ended
  PROVE  LifecycleInv'
  <1>1. program[a] \in Programs /\ how \in Places
    BY Zenon DEF LifecycleInv, TypeOK, Places
  <1>2. PICK new \in Programs :
           program' = [program EXCEPT ![a] = new] /\ new.pc = how /\ new.payload = NoFile
    BY <1>1, Goes DEF Goto, Into
  <1>3. Relies(a, new) /\ Past(new)
    BY <1>2, EndedRelies, Zenon
  <1> QED BY <1>2, <1>3, PlainStep, OthersEnded, Zenon DEF world, files

LEMMA KillKeeps ==
  ASSUME LifecycleInv, NEW a \in Actors, Kill(a)
  PROVE  LifecycleInv'
  BY EndKeeps, Zenon DEF Kill, Working, Ended

LEMMA ConcludeKeeps ==
  ASSUME LifecycleInv, NEW r \in Runs, Conclude(r)
  PROVE  LifecycleInv'
  <1>1. program[r].pc \notin Ended /\ r \in Actors
    BY Zenon DEF Conclude, At, Ended, Actors
  <1>2. CASE Goto(r, "done")
    BY <1>1, <1>2, EndKeeps, Zenon DEF Conclude, Ended
  <1>3. CASE EnterStop(r, "cleanup")
    BY <1>1, <1>3, StopEntered, OthersEnded, Zenon DEF Conclude
  <1> QED BY <1>2, <1>3, Zenon DEF Conclude

LEMMA ReadStateKeeps ==
  ASSUME LifecycleInv, NEW r \in Runs, ReadState(r)
  PROVE  LifecycleInv'
  <1>1. /\ program[r].pc = "read" /\ "read" \notin Ended /\ r \in Actors
        /\ program[r] \in Programs /\ Relies(r, program[r])
    BY Zenon DEF ReadState, At, Ended, Actors, LifecycleInv, TypeOK
  <1>2. CASE active = NoFile
    BY <1>1, <1>2, StopEntered, OthersEnded, Zenon DEF ReadState
  <1>3. CASE active # NoFile
    <2> DEFINE held == [program[r] EXCEPT !.payload = active]
    <2>1. held \in Programs /\ held.payload = active
      BY <1>1, <1>3, Zenon DEF Programs, LifecycleInv, TypeOK
    <2>2. GoWith(r, "finalize", held)
      BY <1>3, Zenon DEF ReadState
    <2> HIDE DEF held
    <2>3. "finalize" \in Places /\ "finalize" \notin Ended
      BY Zenon DEF Places, Ended, Trapped
    <2>4. PICK new \in Programs : Into(r, "finalize", held, new)
      BY <2>1, <2>2, <2>3, Goes, Zenon
    <2>5. /\ program' = [program EXCEPT ![r] = new]
          /\ new.pc = "finalize" /\ new.payload = held.payload
      BY <2>3, <2>4, Zenon DEF Into
    <2>6. Relies(r, new)
      BY <1>1, <2>1, <2>3, <2>5, Zenon DEF Relies, FileRelies, StopRelies, EnsureRelies, Unborn, StopPlaces, StopReads, Unlisted
    <2>7. ~ Past(program[r])
      BY <1>1, Zenon DEF Past, Unlisted
    <2> QED BY <1>1, <2>5, <2>6, <2>7, PlainStep, OthersEnded, Zenon DEF ReadState, world, files
  <1> QED BY <1>2, <1>3, Zenon

\* What a return from stop makes of a program.
LEMMA StopReturnsTo ==
  ASSUME LifecycleInv, NEW a \in Actors, program[a].pc \in StopPlaces, NEW ok \in BOOLEAN, Return(a, ok),
         ok => active' = NoFile,
         a \in Runs => \A p \in Subsystems : Untouched(a, p) => Untouched(a, p)'
  PROVE  \E new \in Programs :
            /\ program' = [program EXCEPT ![a] = new]
            /\ new.pc # "refused"
            /\ Relies(a, new)'
            /\ Past(program[a]) => Past(new)
  <1>1. program[a] \in Programs /\ Relies(a, program[a])
    BY SMTT(60) DEF LifecycleInv, TypeOK
  <1>2. program[a].purpose \in {"first", "cleanup", "operator"}
    BY <1>1, Zenon DEF Programs, Relies, FileRelies, StopRelies, EnsureRelies
  <1>3. CASE program[a].purpose = "first" /\ ok
    <2>1. GoWith(a, "db", Gone("db")) /\ "db" \in Places /\ "db" \notin Ended
      BY <1>3, Zenon DEF Return, Places, Ended
    <2>2. PICK new \in Programs : /\ program' = [program EXCEPT ![a] = new]
                                  /\ new.pc = "db" /\ new.results = {}
      <3>1. Gone("db") \in Programs /\ Gone("db").results = {}
        BY <2>1, Zenon DEF Gone, Programs
      <3>2. PICK new \in Programs : Into(a, "db", Gone("db"), new)
        BY <2>1, <3>1, Goes, Zenon
      <3> QED BY <2>1, <3>1, <3>2, Zenon DEF Into
    <2>3. program[a].results = {} /\ ~ Past(program[a])
      BY <1>1, <1>3, Zenon DEF Relies, FileRelies, StopRelies, EnsureRelies, Unborn, Past
    <2>4. a \in Runs => \A p \in Subsystems : Untouched(a, p)'
      BY <1>1, <1>3, <2>3, Zenon DEF Relies, FileRelies, StopRelies, EnsureRelies, Unborn, Without
    <2>5. Relies(a, new)'
      BY <1>3, <2>1, <2>2, <2>3, <2>4, Zenon DEF Relies, FileRelies, StopRelies, EnsureRelies, Unborn, StopPlaces, StopReads, Unlisted, Without
    <2> QED BY <2>2, <2>3, <2>5, ZenonT(40)
  <1>4. CASE ~(program[a].purpose = "first" /\ ok)
    <2>1. PICK how \in {"failed", "done"} : GoWith(a, how, Gone(how))
      BY <1>2, <1>4, Zenon DEF Return
    <2>2. how \in Places /\ how \in Ended \ {"new"} /\ Gone(how) \in Programs
      BY Zenon DEF Places, Ended, Gone, Programs
    <2>3. PICK new \in Programs : Into(a, how, Gone(how), new)
      BY <2>1, <2>2, Goes, Zenon
    <2>4. program' = [program EXCEPT ![a] = new] /\ new.pc = how /\ new.payload = NoFile
      BY <2>2, <2>3, Zenon DEF Into
    <2>5. Relies(a, new)' /\ Past(new)
      BY <2>2, <2>4, EndedRelies, Zenon DEF Relies, FileRelies, StopRelies, EnsureRelies, Past, Unborn, Ended, StopPlaces, StopReads, Unlisted
    <2> QED BY <2>1, <2>4, <2>5, Zenon
  <1> QED BY <1>3, <1>4, Zenon

LEMMA StopExistsKeeps ==
  ASSUME LifecycleInv, NEW a \in Actors, StopExists(a)
  PROVE  LifecycleInv'
  <1>1. /\ program[a].pc = "exists" /\ "exists" \notin Ended
        /\ program[a] \in Programs /\ Relies(a, program[a])
        /\ UNCHANGED <<container, group, active, report, history, slipped>>
    BY Zenon DEF StopExists, At, Ended, LifecycleInv, TypeOK, world, files
  <1>2. CASE active = NoFile
    <2>1. PICK new \in Programs :
            /\ program' = [program EXCEPT ![a] = new]
            /\ new.pc # "refused"
            /\ Relies(a, new)'
            /\ Past(program[a]) => Past(new)
      BY <1>1, <1>2, StopReturnsTo, Zenon DEF StopExists, StopPlaces, Untouched
    <2>2. Relies(a, new)
      BY <1>1, <2>1, SameWorld, Zenon
    <2> QED BY <1>1, <2>1, <2>2, PlainStep, OthersEnded, Zenon
  <1>3. CASE active # NoFile
    <2> DEFINE held == [program[a] EXCEPT !.payload = active, !.todo = active.groups]
               where == IF active.groups = {} THEN "containers" ELSE "groups"
    <2>1. /\ held \in Programs /\ held.payload = active /\ held.results = program[a].results
          /\ held.purpose = program[a].purpose /\ held.todo = active.groups
      <3>1. active \in StateType /\ active.groups \in SUBSET Groups
        BY <1>3, Zenon DEF LifecycleInv, TypeOK, StateType
      <3> QED BY <1>1, <3>1, Zenon DEF Programs
    <2>2. GoWith(a, where, held)
      BY <1>3, Zenon DEF StopExists
    <2> HIDE DEF held
    <2>3. where \in Places /\ where \notin Ended /\ where \in {"groups", "containers"}
          /\ (where = "containers" => active.groups = {})
      BY Zenon DEF Places, Ended
    <2> HIDE DEF where
    <2>4. PICK new \in Programs : Into(a, where, held, new)
      BY <2>1, <2>2, <2>3, Goes, Zenon
    <2>5. /\ program' = [program EXCEPT ![a] = new] /\ new.pc = where
          /\ new.payload = active /\ new.results = program[a].results /\ new.purpose = program[a].purpose
          /\ new.todo = active.groups
      BY <2>1, <2>3, <2>4, Zenon DEF Into
    <2>6. active.status = "RUNNING" =>
             Remaining(active.run, new.todo) /\ (where = "containers" => GroupsStopped(active.run))
      BY <1>3, <2>3, <2>5, Zenon DEF LifecycleInv, Owns, Remaining, GroupsStopped
    <2>7. FileRelies(a, new) /\ StopRelies(new) /\ EnsureRelies(a, new)
      <3>1. FileRelies(a, new)
        BY <1>3, <2>3, <2>5, Zenon DEF FileRelies, StopReads, Unlisted, Ended
      <3>2. StopRelies(new)
        BY <1>1, <2>3, <2>5, <2>6, Zenon DEF Relies, StopRelies, StopPlaces, StopReads
      <3>3. EnsureRelies(a, new)
        BY <1>1, <2>3, <2>5, Zenon DEF Relies, EnsureRelies, Unborn, StopPlaces, StopReads
      <3> QED BY <3>1, <3>2, <3>3, Zenon
    <2>8. Past(program[a]) => Past(new)
      BY <1>1, <2>3, <2>5, Zenon DEF Past, Unborn, StopPlaces, StopReads, Unlisted
    <2> QED BY <1>1, <2>3, <2>5, <2>7, <2>8, PlainStep, OthersEnded, Zenon DEF Relies
  <1> QED BY <1>2, <1>3, Zenon

\* The next project has no result; with its result the last one missing is there, or
\* another is missing still.
LEMMA NextIsPending ==
  ASSUME LifecycleInv, NEW r \in Runs, At(r, "ensure")
  PROVE  /\ NextProject(r) \in Subsystems
         /\ Without(program[r].results, NextProject(r))
         /\ \A x : x.project = NextProject(r) =>
               (Cardinality(Pending(r)) = 1 <=> Complete(program[r].results \cup {x}))
  <1>1. DOMAIN Projects \in SUBSET Nat /\ IsFiniteSet(DOMAIN Projects)
    BY ProjectsAssumption, FS_Interval
  <1>2. \A i \in DOMAIN Projects : i \in Pending(r) <=> Without(program[r].results, Projects[i])
    BY Zenon DEF Pending, Without
  <1>3. \A p : p \in Subsystems <=> \E i \in DOMAIN Projects : p = Projects[i]
    BY SMTT(60) DEF Subsystems, Range
  <1>4. ~ Complete(program[r].results)
    BY Zenon DEF LifecycleInv, Relies, FileRelies, StopRelies, EnsureRelies, At, Actors
  <1>5. Pending(r) \subseteq DOMAIN Projects
    BY Zenon DEF Pending
  <1>6. Pending(r) # {}
    BY <1>2, <1>3, <1>4, Zenon DEF Complete
  <1>7. \E i \in Pending(r) : \A j \in Pending(r) : i <= j
    BY <1>1, <1>5, <1>6, Least, Zenon
  <1> DEFINE n == CHOOSE i \in Pending(r) : \A j \in Pending(r) : i <= j
  <1>8. n \in Pending(r) /\ NextProject(r) = Projects[n]
    BY <1>7, Zenon DEF NextProject
  <1> HIDE DEF n
  <1>9. NextProject(r) \in Subsystems /\ Without(program[r].results, NextProject(r))
    BY <1>2, <1>3, <1>5, <1>8, Zenon
  <1>10. IsFiniteSet(Pending(r))
    BY <1>1, <1>5, FS_Subset, Zenon
  <1>11. Cardinality(Pending(r)) = 1 <=> Pending(r) = {n}
    <2>1. Cardinality({n}) = 1
      BY FS_Singleton, Zenon
    <2>2. Cardinality(Pending(r)) = 1 => \E x : Pending(r) = {x}
      BY <1>10, FS_Singleton, Zenon
    <2> QED BY <1>8, <2>1, <2>2, Zenon
  <1>12. ASSUME NEW x, x.project = NextProject(r)
         PROVE  Pending(r) = {n} <=> Complete(program[r].results \cup {x})
    <2>1. \A i \in DOMAIN Projects : Projects[i] = Projects[n] => i = n
      BY <1>5, <1>8, ProjectsAssumption, Zenon DEF IsInjective
    <2>2. \A p : Without(program[r].results \cup {x}, p) <=>
                    Without(program[r].results, p) /\ p # Projects[n]
      BY <1>8, <1>12, Zenon DEF Without
    <2>3. ASSUME Pending(r) = {n} PROVE Complete(program[r].results \cup {x})
      BY <1>2, <1>3, <2>2, <2>3, Zenon DEF Complete
    <2>4. ASSUME Pending(r) # {n} PROVE ~ Complete(program[r].results \cup {x})
      <3>1. PICK j \in Pending(r) : j # n
        BY <1>8, <2>4, Zenon
      <3>2. Projects[j] \in Subsystems /\ Without(program[r].results \cup {x}, Projects[j])
        BY <1>2, <1>3, <1>5, <2>1, <2>2, <3>1, Zenon
      <3> QED BY <3>2, Zenon DEF Complete
    <2> QED BY <2>3, <2>4, Zenon
  <1> QED BY <1>9, <1>11, <1>12, Zenon

\* What ensure.py makes of a run with the result of the next project.
LEMMA Collects ==
  ASSUME LifecycleInv, NEW r \in Runs, At(r, "ensure"), NEW result \in ResultType,
         result.project = NextProject(r), Collect(r, result)
  PROVE  \E new \in Programs :
            /\ program' = [program EXCEPT ![r] = new]
            /\ new.results = program[r].results \cup {result}
            /\ \/ new.pc = "ensure" /\ ~ Complete(new.results)
               \/ new.pc = "report" /\ Complete(new.results)
  <1>1. program[r] \in Programs
    BY Zenon DEF LifecycleInv, TypeOK, Actors
  <1> DEFINE b == program[r].blocked \/ (result.status = "DEGRADED" /\ result.project \in Required)
             held == [program[r] EXCEPT !.results = @ \cup {result}, !.blocked = b]
             where == IF Cardinality(Pending(r)) = 1 THEN "report" ELSE "ensure"
  <1>2. GoWith(r, where, held)
    BY Zenon DEF Collect
  <1>3. b \in BOOLEAN
    BY <1>1, Zenon DEF Programs
  <1> HIDE DEF b
  <1>4. held \in Programs /\ held.results = program[r].results \cup {result}
    BY <1>1, <1>3, Zenon DEF Programs
  <1> HIDE DEF held
  <1>5. where \in Places /\ where \notin Ended
    BY Zenon DEF Places, Trapped, Ended
  <1>6. \/ where = "ensure" /\ ~ Complete(held.results)
        \/ where = "report" /\ Complete(held.results)
    BY <1>4, NextIsPending, Zenon
  <1> HIDE DEF where
  <1>7. PICK new \in Programs : Into(r, where, held, new)
    BY <1>2, <1>4, <1>5, Goes, Zenon
  <1> QED BY <1>4, <1>5, <1>6, <1>7, Zenon DEF Into

LEMMA EnsureAsIsKeeps ==
  ASSUME LifecycleInv, NEW r \in Runs, EnsureAsIs(r)
  PROVE  LifecycleInv'
  <1>1. /\ program[r].pc = "ensure" /\ At(r, "ensure") /\ "ensure" \notin Ended /\ r \in Actors
        /\ program[r] \in Programs /\ Relies(r, program[r])
    BY Zenon DEF EnsureAsIs, At, Ended, Actors, LifecycleInv, TypeOK
  <1>2. PICK status \in {"READY", "DEGRADED"} : Collect(r, Result(NextProject(r), status, NoFile))
    BY Zenon DEF EnsureAsIs
  <1> DEFINE result == Result(NextProject(r), status, NoFile)
  <1>3. result \in ResultType /\ result.project = NextProject(r)
    BY <1>1, NextIsPending, Zenon DEF Result, ResultType
  <1> HIDE DEF result
  <1>4. PICK new \in Programs :
            /\ program' = [program EXCEPT ![r] = new]
            /\ new.results = program[r].results \cup {result}
            /\ \/ new.pc = "ensure" /\ ~ Complete(new.results)
               \/ new.pc = "report" /\ Complete(new.results)
    BY <1>1, <1>2, <1>3, Collects, SMTT(60) DEF result
  <1>5. /\ \A p : Without(new.results, p) => Without(program[r].results, p)
        /\ Covered(r, new.results)
    BY <1>1, <1>4, SMTT(60) DEF Without, Relies, FileRelies, StopRelies, EnsureRelies, Covered
  <1>6. Relies(r, new)
    BY <1>1, <1>4, <1>5, Zenon DEF Relies, FileRelies, StopRelies, EnsureRelies, Unborn, StopPlaces, StopReads, Unlisted, Ended
  <1>7. ~ Past(program[r])
    BY <1>1, SMTT(60) DEF Past, Unlisted
  <1> QED BY <1>1, <1>4, <1>6, <1>7, PlainStep, OthersEnded, Zenon DEF EnsureAsIs, world, files

LEMMA EnsureStartsKeeps ==
  ASSUME LifecycleInv, NEW r \in Runs, NEW status \in {"READY", "DEGRADED"},
         NEW left \in {"up", "dead"}, NEW starts \in BOOLEAN,
         EnsureStarts(r, status, left, starts)
  PROVE  LifecycleInv'
  <1> USE RunNames
  <1> DEFINE p == NextProject(r)
             g == <<r, p>>
             result == Result(p, status, IF status = "READY" THEN g ELSE NoFile)
  <1>1. /\ program[r].pc = "ensure" /\ At(r, "ensure") /\ "ensure" \notin Ended /\ r \in Actors
        /\ program[r] \in Programs /\ Relies(r, program[r])
    BY Zenon DEF EnsureStarts, At, Ended, Actors, LifecycleInv, TypeOK
  <1>2. p \in Subsystems /\ p \in Containers /\ g \in Groups /\ Without(program[r].results, p)
    BY <1>1, NextIsPending, Zenon DEF Groups, Containers
  <1>3. /\ result \in ResultType /\ result.project = p
        /\ status = "READY" => result.group = g
    BY <1>2, Zenon DEF Result, ResultType
  <1>4. /\ group' = [group EXCEPT ![g] = left]
        /\ container' = [container EXCEPT ![p] = IF @ = "down" /\ starts THEN r ELSE @]
        /\ slipped' = IF status = "DEGRADED" /\ left = "up"
                        THEN [slipped EXCEPT !.groups = @ \cup {g}] ELSE slipped
        /\ Collect(r, result)
        /\ UNCHANGED <<active, report, history>>
    BY Zenon DEF EnsureStarts
  <1> HIDE DEF result
  <1>5. PICK new \in Programs :
            /\ program' = [program EXCEPT ![r] = new]
            /\ new.results = program[r].results \cup {result}
            /\ \/ new.pc = "ensure" /\ ~ Complete(new.results)
               \/ new.pc = "report" /\ Complete(new.results)
    BY <1>1, <1>3, <1>4, Collects, Zenon
  <1> HIDE DEF p, g
  <1>6. /\ group' \in [Groups -> {"none", "up", "dead", "stranger"}]
        /\ group'[g] = left
        /\ \A h \in Groups \ {g} : group'[h] = group[h]
    BY <1>2, <1>4, Zenon DEF LifecycleInv, TypeOK
  <1>7. /\ container' \in [Containers -> Runs \cup {"down", "other", "meanwhile"}]
        /\ \A c \in Containers : container'[c] = container[c] \/
              (c = p /\ container[c] = "down" /\ container'[c] = r)
    BY <1>2, <1>4, Zenon DEF LifecycleInv, TypeOK
  <1>8. /\ slipped' \in SlippedType
        /\ SlipsOnly
        /\ status = "DEGRADED" /\ left = "up" => g \in slipped'.groups
    BY <1>2, <1>4, Zenon DEF LifecycleInv, TypeOK, SlipsOnly, SlippedType
  <1>9. \A q \in Subsystems : q \in Containers /\ \A b \in Runs : <<b, q>> \in Groups /\ (<<b, q>> = g <=> b = r /\ q = p)
    BY <1>2, Zenon DEF Containers, Groups, g
  <1>10. \A b \in Runs \ {r} : Quiet(b)
    BY <1>6, <1>7, <1>9, Zenon DEF Quiet, Untouched
  <1>11. ~ Past(program[r]) /\ \A b \in Runs : b # r \/ Past(program[r]) => Quiet(b)
    BY <1>1, <1>10, Zenon DEF Past, Unlisted
  <1>12. Owns' /\ Closed'
    BY <1>1, <1>4, <1>5, <1>8, <1>11, OwnsKept, ClosedKept, Zenon
  <1>13. (active # NoFile => Preceded(active))'
    BY <1>4, <1>7, Zenon DEF LifecycleInv, Preceded
  <1>14. Starting(r, active)'
    <2>1. Starting(r, active)
      BY <1>1, Zenon DEF Relies, FileRelies, Unlisted
    <2> QED BY <1>4, <1>7, <1>9, <2>1, Zenon DEF Starting
  <1>15. ASSUME NEW q \in Subsystems, Without(new.results, q) PROVE Untouched(r, q)'
    <2>1. Without(program[r].results, q) /\ q # p
      BY <1>3, <1>5, <1>15, Zenon DEF Without
    <2> QED BY <1>1, <1>6, <1>7, <1>9, <2>1 DEF Relies, FileRelies, StopRelies, EnsureRelies, Untouched
  <1>16. Covered(r, new.results)'
    <2> SUFFICES ASSUME NEW q \in Subsystems, group'[<<r, q>>] = "up"
                 PROVE  <<r, q>> \in slipped'.groups \/ \E x \in new.results : x.group = <<r, q>>
      BY Zenon DEF Covered
    <2>1. CASE q = p
      BY <1>3, <1>5, <1>6, <1>8, <2>1, SMTT(60) DEF g
    <2>2. CASE q # p
      BY <1>1, <1>5, <1>6, <1>8, <1>9, <2>2, Zenon DEF Relies, FileRelies, StopRelies, EnsureRelies, Covered, SlipsOnly
    <2> QED BY <2>1, <2>2, Zenon
  <1>17. Relies(r, new)'
    <2>1. FileRelies(r, new)'
      BY <1>5, <1>14, Zenon DEF FileRelies, StopReads, Unlisted, Ended
    <2>2. StopRelies(new)'
      BY <1>5, Zenon DEF StopRelies, StopPlaces, StopReads
    <2>3. report' = NoFile
      BY <1>1, <1>4, Zenon DEF Relies, EnsureRelies
    <2>4. EnsureRelies(r, new)'
      BY <1>5, <1>15, <1>16, <2>3, Zenon DEF EnsureRelies, Unborn, StopPlaces, StopReads
    <2> QED BY <2>1, <2>2, <2>4, Zenon DEF Relies
  <1>18. /\ active' \in StateType \cup {NoFile}
         /\ report' \in (SUBSET ResultType) \cup {NoFile}
         /\ history' \subseteq [run : Runs, status : {"STARTING", "RUNNING"}]
         /\ \A b \in Actors \ {r} : program[b].pc \in Ended
    BY <1>1, <1>4, OthersEnded, SMTT(60) DEF LifecycleInv, TypeOK
  <1>19. new.pc # "refused"
    BY <1>5, SMTT(60)
  <1> QED BY <1>1, <1>5, <1>6, <1>7, <1>8, <1>10, <1>12, <1>13, <1>17, <1>18, <1>19, ActorStep, Zenon

LEMMA WriteReportKeeps ==
  ASSUME LifecycleInv, NEW r \in Runs, WriteReport(r)
  PROVE  LifecycleInv'
  <1>1. /\ program[r].pc = "report" /\ "report" \notin Ended /\ r \in Actors
        /\ program[r] \in Programs /\ Relies(r, program[r])
        /\ UNCHANGED <<container, group, active, history, slipped>>
        /\ report' = program[r].results
    BY Zenon DEF WriteReport, At, Ended, Actors, LifecycleInv, TypeOK, world
  <1>2. report' \in SUBSET ResultType /\ Reported' = program[r].results
    BY <1>1, NamesAssumption, Zenon DEF Programs, Reported
  <1>3. "read" \in Places /\ "read" \notin Ended
    BY Zenon DEF Places, Trapped, Ended
  <1>4. PICK blocked \in {program[r].blocked, FALSE} :
           GoWith(r, "read", [program[r] EXCEPT !.blocked = blocked])
    BY Zenon DEF WriteReport
  <1> DEFINE held == [program[r] EXCEPT !.blocked = blocked]
  <1>20. held \in Programs
    BY <1>1, Zenon DEF Programs
  <1> HIDE DEF held
  <1>5. PICK new \in Programs : Into(r, "read", held, new)
    BY <1>3, <1>4, <1>20, Goes, Zenon DEF held
  <1>6. program' = [program EXCEPT ![r] = new] /\ new.pc = "read"
    BY <1>5, SMTT(60) DEF Into
  <1>7. Covered(r, Reported)' /\ Complete(Reported)'
    BY <1>1, <1>2, SMTT(60) DEF Relies, FileRelies, StopRelies, EnsureRelies, Covered, Complete
  <1>8. Starting(r, active)'
    <2>1. Starting(r, active)
      BY <1>1, Zenon DEF Relies, FileRelies, Unlisted
    <2> QED BY <1>1, <2>1, Zenon DEF Starting
  <1>9. Relies(r, new)'
    BY <1>3, <1>6, <1>7, <1>8, SMTT(60) DEF Relies, FileRelies, StopRelies, EnsureRelies, Unborn, StopPlaces, StopReads, Unlisted
  <1>10. Owns' /\ Closed'
    BY <1>1, <1>6, NothingHappens, OwnsKept, ClosedKept, Zenon DEF Past, Unlisted
  <1>11. (active # NoFile => Preceded(active))'
    BY <1>1, Zenon DEF LifecycleInv, Preceded
  <1>12. \A b \in Actors \ {r} : program[b].pc \in Ended
    BY <1>1, OthersEnded, Zenon
  <1> QED BY <1>1, <1>2, <1>6, <1>9, <1>10, <1>11, <1>12, NothingHappens, ActorStep, Zenon
          DEF LifecycleInv, TypeOK

LEMMA EnsureFailsKeeps ==
  ASSUME LifecycleInv, NEW r \in Runs, EnsureFails(r)
  PROVE  LifecycleInv'
  <1>1. /\ program[r].pc \in {"ensure", "report"} /\ program[r].pc \notin Ended /\ r \in Actors
        /\ program[r] \in Programs /\ Relies(r, program[r]) /\ report = NoFile
    BY Zenon DEF EnsureFails, Ended, Actors, LifecycleInv, TypeOK, Relies, EnsureRelies
  <1> DEFINE held == [program[r] EXCEPT !.results = {}, !.blocked = FALSE]
  <1>2. held \in Programs
    BY <1>1, Zenon DEF Programs
  <1>3. GoWith(r, "read", held)
    BY Zenon DEF EnsureFails
  <1> HIDE DEF held
  <1>4. "read" \in Places /\ "read" \notin Ended
    BY Zenon DEF Places, Trapped, Ended
  <1>5. PICK new \in Programs : Into(r, "read", held, new)
    BY <1>2, <1>3, <1>4, Goes, Zenon
  <1>6. program' = [program EXCEPT ![r] = new] /\ new.pc = "read"
    BY <1>5, Zenon DEF Into
  <1>7. Relies(r, new)
    BY <1>1, <1>4, <1>6, Zenon DEF Relies, FileRelies, StopRelies, EnsureRelies, Unborn, StopPlaces, StopReads, Unlisted
  <1>8. ~ Past(program[r])
    BY <1>1, Zenon DEF Past, Unlisted
  <1> QED BY <1>1, <1>6, <1>7, <1>8, PlainStep, OthersEnded, Zenon DEF EnsureFails, world, files

LEMMA DbUpKeeps ==
  ASSUME LifecycleInv, NEW r \in Runs, NEW passes \in BOOLEAN, DbUp(r, passes)
  PROVE  LifecycleInv'
  <1> USE RunNames
  <1>1. /\ program[r].pc = "db" /\ "db" \notin Ended /\ r \in Actors
        /\ program[r] \in Programs /\ Relies(r, program[r]) /\ active = NoFile
        /\ UNCHANGED <<group, active, report, history, slipped>>
    BY Zenon DEF DbUp, At, Ended, Actors, LifecycleInv, TypeOK, files, Relies, FileRelies, StopRelies, EnsureRelies
  <1>2. /\ container' \in [Containers -> Runs \cup {"down", "other", "meanwhile"}]
        /\ \A c \in Containers \ {Database} : container'[c] = container[c]
    BY Zenon DEF DbUp, LifecycleInv, TypeOK, Containers
  <1>3. \A p \in Subsystems : container'[p] = container[p]
    <2> SUFFICES ASSUME NEW p \in Subsystems PROVE container'[p] = container[p]
      OBVIOUS
    <2>1. p \in Containers \ {Database}
      BY NamesAssumption, SMTT(60) DEF Containers
    <2> QED BY <1>2, <2>1, Zenon
  <1>4. (\A b \in Runs : Quiet(b)) /\ SlipsOnly
    BY <1>1, <1>3, Zenon DEF Quiet, SlipsOnly, Untouched
  <1>5. \E new \in Programs :
           /\ program' = [program EXCEPT ![r] = new] /\ new.pc # "refused" /\ Relies(r, new)'
    <2>1. CASE passes
      <3>1. "begin" \in Places /\ "begin" \notin Ended
        BY Zenon DEF Places, Ended
      <3>2. GoWith(r, "begin", program[r])
        BY <2>1, Zenon DEF DbUp, Goto
      <3>3. PICK new \in Programs : Into(r, "begin", program[r], new)
        BY <1>1, <3>1, <3>2, Goes, Zenon
      <3>4. /\ program' = [program EXCEPT ![r] = new]
            /\ new.pc = "begin" /\ new.results = program[r].results
        BY <3>1, <3>3, Zenon DEF Into
      <3>5. new.results = {} /\ \A p \in Subsystems : Untouched(r, p)'
        BY <1>1, <1>3, <3>4, Zenon DEF Relies, EnsureRelies, Unborn, Without, Untouched
      <3>6. Relies(r, new)'
        BY <1>1, <3>1, <3>4, <3>5, Zenon DEF Relies, FileRelies, StopRelies, EnsureRelies, Unborn, StopPlaces, StopReads, Unlisted
      <3> QED BY <3>4, <3>6, ZenonT(40)
    <2>2. CASE ~ passes
      <3>1. "failed" \in Places /\ "failed" \in Ended \ {"new"}
        BY Zenon DEF Places, Ended
      <3>2. GoWith(r, "failed", program[r])
        BY <2>2, Zenon DEF DbUp, Goto
      <3>3. PICK new \in Programs : Into(r, "failed", program[r], new)
        BY <1>1, <3>1, <3>2, Goes, Zenon
      <3>4. /\ program' = [program EXCEPT ![r] = new]
            /\ new.pc = "failed" /\ new.payload = NoFile
        BY <3>1, <3>3, Zenon DEF Into
      <3>5. Relies(r, new)'
        BY <3>1, <3>4, Zenon DEF Relies, FileRelies, StopRelies, EnsureRelies, Unborn, StopPlaces, StopReads, Unlisted
      <3> QED BY <3>4, <3>5, Zenon
    <2> QED BY <2>1, <2>2, Zenon
  <1>6. PICK new \in Programs :
           /\ program' = [program EXCEPT ![r] = new] /\ new.pc # "refused" /\ Relies(r, new)'
    BY <1>5, Zenon
  <1>7. Owns' /\ Closed'
    BY <1>1, <1>4, <1>6, ClosedKept, Zenon DEF Owns, Past, Unborn, Unlisted
  <1>8. \A b \in Actors \ {r} : program[b].pc \in Ended
    BY <1>1, OthersEnded, Zenon
  <1>9. (active # NoFile => Preceded(active))'
    BY <1>1, SMTT(60)
  <1> QED BY <1>1, <1>2, <1>4, <1>6, <1>7, <1>8, <1>9, ActorStep, Zenon DEF LifecycleInv, TypeOK

LEMMA BeginKeeps ==
  ASSUME LifecycleInv, NEW r \in Runs, NEW before \in RunningContainers, Begin(r, before)
  PROVE  LifecycleInv'
  <1> USE RunNames
  <1>1. /\ program[r].pc = "begin" /\ "begin" \notin Ended /\ r \in Actors
        /\ program[r] \in Programs /\ Relies(r, program[r]) /\ active = NoFile
        /\ UNCHANGED <<group, active, report, history, slipped>>
        /\ container' = Preceding
    BY Zenon DEF Begin, At, Ended, Actors, LifecycleInv, TypeOK, files, Relies, FileRelies, StopRelies, EnsureRelies
  <1>2. /\ container' \in [Containers -> Runs \cup {"down", "other", "meanwhile"}]
        /\ \A c \in Containers : container'[c] = IF container[c] = "meanwhile" THEN "other" ELSE container[c]
    BY <1>1, SMTT(60) DEF Preceding, LifecycleInv, TypeOK
  <1>3. (\A b \in Runs : Quiet(b)) /\ SlipsOnly
    BY <1>1, <1>2, Zenon DEF Quiet, SlipsOnly, Untouched, Containers
  <1>4. /\ before \in SUBSET Containers
        /\ \A c \in before : container[c] # "down"
        /\ Listed => \A c \in Containers : container[c] # "down" => c \in before
    BY SMTT(60) DEF RunningContainers, Up, Listed
  <1> DEFINE state == State(r, before)
             held == [program[r] EXCEPT !.payload = state]
  <1>5. /\ state \in StateType /\ state.run = r /\ state.status = "STARTING"
        /\ state.before = before /\ state.owned = {}
    BY <1>4, Zenon DEF State, StateType
  <1>6. GoWith(r, "write", held)
    BY <1>1, Zenon DEF Begin
  <1> HIDE DEF state
  <1>7. held \in Programs /\ held.payload = state /\ held.results = program[r].results
    BY <1>1, <1>5, Zenon DEF Programs
  <1> HIDE DEF held
  <1>8. "write" \in Places /\ "write" \notin Ended
    BY Zenon DEF Places, Ended
  <1>9. PICK new \in Programs : Into(r, "write", held, new)
    BY <1>6, <1>7, <1>8, Goes, Zenon
  <1>10. /\ program' = [program EXCEPT ![r] = new] /\ new.pc = "write"
        /\ new.payload = held.payload /\ new.results = held.results
    BY <1>8, <1>9, SMTT(60) DEF Into
  <1>11. new.results = {} /\ \A p \in Subsystems : Untouched(r, p) /\ Untouched(r, p)'
    BY <1>1, <1>3, <1>7, <1>10, ZenonT(40) DEF Relies, FileRelies, StopRelies, EnsureRelies, Unborn, Without, Quiet
  <1>12. Starting(r, new.payload)'
    <2>1. \A p \in Subsystems : p \in Containers /\ container[p] # r
      BY <1>11, ZenonT(40) DEF Containers, Untouched
    <2>2. \A p \in Subsystems : p \in before => container'[p] \notin {"down", r}
      BY <1>2, <1>4, <2>1, Zenon
    <2> QED BY <1>5, <1>7, <1>10, <2>2, Zenon DEF Starting
  <1>13. Preceded(new.payload)'
    BY <1>2, <1>4, <1>5, <1>7, <1>10, Zenon DEF Preceded
  <1>14. Relies(r, new)'
    BY <1>1, <1>8, <1>10, <1>11, <1>12, <1>13, Zenon DEF Relies, FileRelies, StopRelies, EnsureRelies, Unborn, StopPlaces, StopReads, Unlisted
  <1>15. Owns' /\ Closed'
    BY <1>1, <1>3, <1>10, ClosedKept, Zenon DEF Owns, Past, Unborn, Unlisted
  <1>16. \A b \in Actors \ {r} : program[b].pc \in Ended
    BY <1>1, OthersEnded, Zenon
  <1>17. (active # NoFile => Preceded(active))'
    BY <1>1, SMTT(60)
  <1> QED BY <1>1, <1>2, <1>3, <1>10, <1>14, <1>15, <1>16, <1>17, ActorStep, ZenonT(40) DEF LifecycleInv, TypeOK

LEMMA WriteStateKeeps ==
  ASSUME LifecycleInv, NEW r \in Runs, WriteState(r)
  PROVE  LifecycleInv'
  <1> USE RunNames
  <1>1. /\ program[r].pc = "write" /\ "write" \notin Ended /\ r \in Actors
        /\ program[r] \in Programs /\ Relies(r, program[r])
        /\ UNCHANGED <<container, group, history, slipped>>
        /\ active' = program[r].payload /\ report' = NoFile
    BY ZenonT(40) DEF WriteState, At, Ended, Actors, LifecycleInv, TypeOK, world
  <1>2. Starting(r, active)' /\ Preceded(active)' /\ active' \in StateType
    BY <1>1, Zenon DEF Relies, FileRelies, StopRelies, EnsureRelies, Starting, Preceded
  <1> DEFINE where == IF Projects = <<>> THEN "read" ELSE "ensure"
  <1>3. where \in Places /\ where \notin Ended /\ where \in {"read", "ensure"}
    BY Zenon DEF Places, Ended, Trapped
  <1>4. GoWith(r, where, program[r])
    BY Zenon DEF WriteState, Goto
  <1>5. where = "ensure" => ~ Complete({})
    <2>1. Projects # <<>> => 1 \in DOMAIN Projects
      BY ProjectsAssumption
    <2>2. \A p : p \in Subsystems <=> \E i \in DOMAIN Projects : p = Projects[i]
      BY Zenon DEF Subsystems, Range
    <2> QED BY <2>1, <2>2, Zenon DEF Complete, Without
  <1> HIDE DEF where
  <1>6. PICK new \in Programs : Into(r, where, program[r], new)
    BY <1>1, <1>3, <1>4, Goes, SMTT(60)
  <1>7. new.results = {} /\ \A p \in Subsystems : Untouched(r, p)'
    BY <1>1, <1>3, <1>6, Zenon DEF Relies, FileRelies, StopRelies, EnsureRelies, Unborn, Without, Untouched, Into
  <1>8. Covered(r, {})'
    BY <1>7, Zenon DEF Covered, Untouched
  <1>10. Relies(r, new)'
    BY <1>1, <1>2, <1>3, <1>5, <1>6, <1>7, <1>8, SMTT(60) DEF Relies, FileRelies, StopRelies, EnsureRelies, Unborn, StopPlaces, StopReads, Unlisted, Into
  <1>11. Owns' /\ Closed'
    BY <1>1, <1>2, <1>6, NothingHappens, ClosedKept, Zenon DEF Owns, Past, Unborn, Starting, Into
  <1>12. \A b \in Actors \ {r} : program[b].pc \in Ended
    BY <1>1, OthersEnded, Zenon
  <1>13. new.pc # "refused"
    BY <1>3, <1>6, Zenon DEF Into
  <1>14. program' = [program EXCEPT ![r] = new]
    BY <1>6, Zenon DEF Into
  <1> QED BY <1>1, <1>2, <1>14, <1>10, <1>11, <1>12, <1>13, NothingHappens, ActorStep, ZenonT(40) DEF LifecycleInv, TypeOK

LEMMA FinalizeKeeps ==
  ASSUME LifecycleInv, NEW r \in Runs, NEW after \in RunningContainers, Finalize(r, after)
  PROVE  LifecycleInv'
  <1> USE RunNames
  <1> DEFINE read == program[r].payload
             owned == OwnedContainers(after, read.before, CandidateContainers({x.project : x \in Reported}))
             groups == {x.group : x \in Reported} \ {NoFile}
  <1>1. /\ program[r].pc = "finalize" /\ "finalize" \notin Ended /\ r \in Actors
        /\ program[r] \in Programs /\ Relies(r, program[r]) /\ read = active
        /\ UNCHANGED <<container, group, report, history>> /\ slipped' = Unreported(r)
        /\ active' = [read EXCEPT !.status = "RUNNING", !.owned = owned, !.groups = groups]
    BY Zenon DEF Finalize, At, Ended, Actors, LifecycleInv, TypeOK, world, Relies, FileRelies, StopRelies, EnsureRelies
  <1>2. /\ Starting(r, active) /\ active # NoFile
        /\ report # NoFile => Covered(r, Reported) /\ Complete(Reported)
    BY <1>1, NamesAssumption, Zenon DEF Relies, FileRelies, EnsureRelies, Starting, Unlisted
  <1>3. after \subseteq Containers /\ (Listed => \A c \in Containers : container[c] # "down" => c \in after)
    BY Zenon DEF RunningContainers, Up, Listed
  <1>4. Reported \in SUBSET ResultType
    BY Zenon DEF Reported, LifecycleInv, TypeOK
  <1>5. owned \in SUBSET Containers /\ groups \in SUBSET Groups
    BY <1>3, <1>4, Zenon DEF OwnedContainers, ResultType
  <1>6. /\ \A c \in owned : c \notin active.before
        /\ report # NoFile =>
              \A p \in Subsystems : p \in after /\ p \notin active.before => p \in owned
    BY <1>1, <1>2, Zenon DEF OwnedContainers, CandidateContainers, Complete, Without
  <1>7. \A p \in Subsystems : (\E x \in Reported : x.group = <<r, p>>) => <<r, p>> \in groups
    BY NamesAssumption DEF Groups
  <1> HIDE DEF owned, groups
  <1>8. /\ active' \in StateType /\ active'.run = r /\ active'.status = "RUNNING"
        /\ active'.before = active.before /\ active'.owned = owned /\ active'.groups = groups
    BY <1>1, <1>2, <1>5, Zenon DEF Starting, StateType
  <1>9. "conclude" \in Places /\ "conclude" \notin Ended
    BY Zenon DEF Places, Ended, Trapped
  <1>10. GoWith(r, "conclude", program[r])
    BY Zenon DEF Finalize, Goto
  <1>11. PICK new \in Programs : Into(r, "conclude", program[r], new)
    BY <1>1, <1>9, <1>10, Goes, Zenon
  <1>12. program' = [program EXCEPT ![r] = new] /\ new.pc = "conclude"
    BY <1>11, Zenon DEF Into
  <1>20. slipped' \in SlippedType /\ SlipsOnly
    <2>1. CASE report = NoFile
      <3> DEFINE G == {g \in {r} \X Subsystems : group[g] = "up"}
                 C == {p \in Subsystems : container[p] = r}
      <3>1. G \in SUBSET Groups /\ C \in SUBSET Containers
        BY Zenon DEF Groups, Containers
      <3>2. slipped' = [slipped EXCEPT !.groups = @ \cup G, !.containers = @ \cup C]
        BY <1>1, <2>1, Zenon DEF Unreported
      <3> HIDE DEF G, C
      <3> QED BY <3>1, <3>2, Zenon DEF LifecycleInv, TypeOK, SlippedType, SlipsOnly
    <2>2. CASE report # NoFile
      BY <1>1, <2>2, Zenon DEF Unreported, LifecycleInv, TypeOK, SlipsOnly
    <2> QED BY <2>1, <2>2, Zenon
  <1>21. report = NoFile => /\ \A p \in Subsystems : group[<<r, p>>] = "up" => <<r, p>> \in slipped'.groups
                            /\ \A p \in Subsystems : container[p] = r => p \in slipped'.containers
    <2> SUFFICES ASSUME report = NoFile
                 PROVE  /\ \A p \in Subsystems : group[<<r, p>>] = "up" => <<r, p>> \in slipped'.groups
                        /\ \A p \in Subsystems : container[p] = r => p \in slipped'.containers
      BY Zenon
    <2> DEFINE G == {g \in {r} \X Subsystems : group[g] = "up"}
               C == {p \in Subsystems : container[p] = r}
    <2>1. slipped' = [slipped EXCEPT !.groups = @ \cup G, !.containers = @ \cup C]
      BY <1>1, Zenon DEF Unreported
    <2>2. /\ \A p \in Subsystems : group[<<r, p>>] = "up" => <<r, p>> \in G
          /\ \A p \in Subsystems : container[p] = r => p \in C
      BY Zenon
    <2> HIDE DEF G, C
    <2>3. G \subseteq slipped'.groups /\ C \subseteq slipped'.containers
      BY <2>1, Zenon DEF LifecycleInv, TypeOK, SlippedType
    <2> QED BY <2>2, <2>3, Zenon
  <1>22. \A b \in Runs : Quiet(b)
    BY <1>1, Zenon DEF Quiet, Untouched
  <1>13. Relies(r, new)' /\ Past(new)
    BY <1>9, <1>12, Zenon DEF Relies, FileRelies, StopRelies, EnsureRelies, Past, Unborn, StopPlaces, StopReads, Unlisted
  <1>14. Preceded(active)'
    BY <1>1, <1>2, <1>6, <1>8, SMTT(60) DEF LifecycleInv, Preceded
  <1>15. Owns'
    <2>1. Past(program'[r])
      BY <1>1, <1>12, <1>13, Zenon DEF LifecycleInv, TypeOK
    <2>2. \A p \in Subsystems : group'[<<r, p>>] = "up" => <<r, p>> \in slipped'.groups \cup active'.groups
      <3>1. CASE report = NoFile
        BY <1>1, <1>21, <3>1, Zenon
      <3>2. CASE report # NoFile
        BY <1>1, <1>2, <1>7, <1>8, <1>20, <3>2, Zenon DEF Covered, SlipsOnly
      <3> QED BY <3>1, <3>2, Zenon
    <2>3. ASSUME Listed, NEW p \in Subsystems, container'[p] = r
          PROVE  p \in slipped'.containers \cup active'.owned
      <3>1. container[p] = r /\ p \in Containers /\ r # "down"
        BY <1>1, <2>3, Zenon DEF Containers
      <3>2. p \in after /\ p \notin active.before
        BY <1>2, <1>3, <2>3, <3>1, Zenon DEF Starting
      <3> QED BY <1>6, <1>8, <1>21, <3>1, <3>2, Zenon
    <2> QED BY <1>8, <2>1, <2>2, <2>3, Zenon DEF Owns
  <1>16. Closed'
    BY <1>1, <1>12, <1>13, <1>20, <1>22, ClosedKept, Zenon
  <1>17. \A b \in Actors \ {r} : program[b].pc \in Ended
    BY <1>1, OthersEnded, Zenon
  <1> QED BY <1>1, <1>8, <1>12, <1>13, <1>14, <1>15, <1>16, <1>17, <1>20, <1>22, ActorStep, Zenon
          DEF LifecycleInv, TypeOK

LEMMA WriteHistoryKeeps ==
  ASSUME LifecycleInv, NEW a \in Actors, WriteHistory(a)
  PROVE  LifecycleInv'
  <1> DEFINE entry == [run |-> program[a].payload.run, status |-> program[a].payload.status]
  <1>1. /\ program[a].pc = "history" /\ "history" \notin Ended
        /\ program[a] \in Programs /\ Relies(a, program[a])
        /\ active # NoFile /\ program[a].payload = active
        /\ UNCHANGED <<container, group, active, report, slipped>>
        /\ history' = history \cup {entry}
    BY ZenonT(40) DEF WriteHistory, At, Ended, LifecycleInv, TypeOK, world, Relies, FileRelies, StopReads
  <1>2. active.run \in Runs /\ active.status \in {"STARTING", "RUNNING"}
    BY <1>1, ZenonT(40) DEF LifecycleInv, TypeOK, StateType
  <1>3. history' \subseteq [run : Runs, status : {"STARTING", "RUNNING"}]
    BY <1>1, <1>2 DEF LifecycleInv, TypeOK
  <1>4. "unlink" \in Places /\ "unlink" \notin Ended
    BY Zenon DEF Places, Ended
  <1>5. GoWith(a, "unlink", program[a])
    BY SMTT(60) DEF WriteHistory, Goto
  <1>6. PICK new \in Programs : Into(a, "unlink", program[a], new)
    BY <1>1, <1>4, <1>5, Goes, SMTT(60)
  <1>7. /\ program' = [program EXCEPT ![a] = new] /\ new.pc = "unlink" /\ new.payload = active
        /\ new.purpose = program[a].purpose /\ new.results = program[a].results
    BY <1>1, <1>4, <1>6, SMTT(60) DEF Into
  <1>8. Relies(a, new)
    BY <1>1, <1>4, <1>7, Zenon DEF Relies, FileRelies, StopRelies, EnsureRelies, Unborn, StopPlaces, StopReads, Unlisted
  <1>9. Relies(a, new)'
    BY <1>1, <1>8, SameWorld, SMTT(60)
  <1>10. Past(program[a]) => Past(new)
    BY <1>1, <1>7, SMTT(60) DEF Past, Unborn, StopPlaces, StopReads, Unlisted
  <1>11. Owns'
    BY <1>1, <1>7, <1>10, NothingHappens, OwnsKept, Zenon
  <1>12. Closed'
    <2> SUFFICES ASSUME NEW r \in Runs, [run |-> r, status |-> "RUNNING"] \in history'
                 PROVE  Past(program'[r]) /\ GroupsStopped(r)' /\ ContainersStopped(r)'
      BY SMTT(60) DEF Closed
    <2>1. Past(program[r]) /\ GroupsStopped(r) /\ ContainersStopped(r)
      <3>1. CASE [run |-> r, status |-> "RUNNING"] \in history
        BY <3>1, SMTT(60) DEF LifecycleInv, Closed
      <3>2. CASE [run |-> r, status |-> "RUNNING"] = entry
        <4>1. active.run = r /\ active.status = "RUNNING"
          BY <1>1, <3>2, ZenonT(40)
        <4> QED BY <1>1, <4>1, ZenonT(40) DEF LifecycleInv, Owns, Relies, FileRelies, StopRelies, EnsureRelies
      <3> QED BY <1>1, <3>1, <3>2, Zenon
    <2>2. Past(program'[r])
      BY <1>7, <1>10, <2>1, SMTT(60) DEF LifecycleInv, TypeOK, Actors
    <2> QED BY <1>1, <2>1, <2>2, Zenon DEF GroupsStopped, ContainersStopped
  <1>13. (active # NoFile => Preceded(active))'
    BY <1>1, SMTT(60) DEF LifecycleInv, Preceded
  <1>14. \A b \in Actors \ {a} : program[b].pc \in Ended
    BY <1>1, OthersEnded, SMTT(60)
  <1> QED BY <1>1, <1>3, <1>7, <1>9, <1>11, <1>12, <1>13, <1>14, NothingHappens, ActorStep, ZenonT(40)
          DEF LifecycleInv, TypeOK

LEMMA UnlinkKeeps ==
  ASSUME LifecycleInv, NEW a \in Actors, Unlink(a)
  PROVE  LifecycleInv'
  <1>1. /\ program[a].pc = "unlink" /\ "unlink" \notin Ended /\ program[a].pc \in StopPlaces
        /\ UNCHANGED <<container, group, report, history, slipped>> /\ active' = NoFile
        /\ Return(a, active # NoFile)
    BY Zenon DEF Unlink, At, Ended, StopPlaces, StopReads, Unlisted, world
  <1>2. PICK new \in Programs :
            /\ program' = [program EXCEPT ![a] = new]
            /\ new.pc # "refused"
            /\ Relies(a, new)'
            /\ Past(program[a]) => Past(new)
    <2>1. \A p : Untouched(a, p) => Untouched(a, p)'
      BY <1>1, Zenon DEF Untouched
    <2>2. (active # NoFile) \in BOOLEAN
      OBVIOUS
    <2> QED BY <1>1, <2>1, <2>2, StopReturnsTo, ZenonT(40)
  <1>3. Owns' /\ Closed' /\ (active # NoFile => Preceded(active))'
    BY <1>1, <1>2, NothingHappens, ClosedKept, Zenon DEF Owns
  <1>4. \A b \in Actors \ {a} : program[b].pc \in Ended
    BY <1>1, OthersEnded, Zenon
  <1> QED BY <1>1, <1>2, <1>3, <1>4, NothingHappens, ActorStep, ZenonT(40) DEF LifecycleInv, TypeOK

\* What a step of stop_group has to keep.
LEMMA GroupStep ==
  ASSUME LifecycleInv, NEW a \in Actors, program[a].pc \in {"groups", "signal", "wait"},
         UNCHANGED <<container, active, report, history>>,
         group' \in [Groups -> {"none", "up", "dead", "stranger"}],
         \A g \in Groups : group'[g] = group[g] \/ (group[g] \in {"up", "stranger"} /\ group'[g] = "dead"),
         slipped' \in SlippedType, SlipsOnly,
         NEW new \in Programs, program' = [program EXCEPT ![a] = new], new.pc # "refused",
         Relies(a, new)', Past(program[a]) => Past(new)
  PROVE  LifecycleInv'
  <1>1. program[a].pc \notin Ended
    BY Zenon DEF Ended
  <1>2. \A b \in Actors \ {a} : program[b].pc \in Ended
    BY <1>1, OthersEnded, Zenon
  <1>3. (active # NoFile => Preceded(active))'
    BY Zenon DEF LifecycleInv, Preceded
  <1>4. \A r \in Runs : Quiet(r)
    <2>1. \A r \in Runs, p \in Subsystems : <<r, p>> \in Groups
      BY Zenon DEF Groups
    <2> QED BY <2>1, Zenon DEF Quiet, Untouched
  <1>5. Owns' /\ Closed'
    BY <1>4, OwnsKept, ClosedKept, Zenon
  <1> QED BY <1>2, <1>3, <1>4, <1>5, ActorStep, ZenonT(40) DEF LifecycleInv, TypeOK

\* stop_group raises.
LEMMA GivesUp ==
  ASSUME LifecycleInv, NEW a \in Actors, program[a].pc \in {"groups", "signal", "wait"},
         UNCHANGED <<container, group, active, report, history, slipped>>, Return(a, FALSE)
  PROVE  LifecycleInv'
  <1>1. program[a].pc \in StopPlaces
    BY Zenon DEF StopPlaces, StopReads
  <1>2. \A p : Untouched(a, p) => Untouched(a, p)'
    BY Zenon DEF Untouched
  <1>3. PICK new \in Programs :
            /\ program' = [program EXCEPT ![a] = new]
            /\ new.pc # "refused"
            /\ Relies(a, new)'
            /\ Past(program[a]) => Past(new)
    BY <1>1, <1>2, StopReturnsTo, Zenon
  <1> QED BY <1>3, NothingHappens, GroupStep, Zenon DEF LifecycleInv, TypeOK

\* stop_group goes on, or returns: what is still to do covers what runs.
LEMMA GoesOn ==
  ASSUME LifecycleInv, NEW a \in Actors, program[a].pc \in {"groups", "signal", "wait"},
         UNCHANGED <<container, active, report, history>>,
         group' \in [Groups -> {"none", "up", "dead", "stranger"}],
         \A g \in Groups : group'[g] = group[g] \/ (group[g] \in {"up", "stranger"} /\ group'[g] = "dead"),
         slipped' \in SlippedType, SlipsOnly,
         NEW where \in {"groups", "signal", "wait", "containers"}, NEW held \in Programs,
         GoWith(a, where, held), held.payload = program[a].payload,
         held.purpose = program[a].purpose, held.results = program[a].results,
         \A g \in Groups : g \in program[a].todo /\ group'[g] = "up" => g \in slipped'.groups \cup held.todo,
         where = "containers" => held.todo = {},
         where = "signal" => /\ held.target \in Groups
                             /\ group'[held.target] = "stranger" => held.target \in slipped'.numbers
  PROVE  LifecycleInv'
  <1>1. where \in Places /\ where \notin Ended
    BY Zenon DEF Places, Ended
  <1>2. PICK new \in Programs : Into(a, where, held, new)
    BY <1>1, Goes, Zenon
  <1>3. /\ program' = [program EXCEPT ![a] = new] /\ new.pc = where
        /\ new.payload = program[a].payload /\ new.purpose = program[a].purpose
        /\ new.results = program[a].results /\ new.todo = held.todo /\ new.target = held.target
    BY <1>1, <1>2, Zenon DEF Into
  <1>4. /\ Relies(a, program[a]) /\ active # NoFile /\ program[a].payload = active
        /\ active \in StateType /\ active.run \in Runs
    BY Zenon DEF LifecycleInv, TypeOK, Relies, FileRelies, StopReads, StateType
  <1>5. active.status = "RUNNING" => Remaining(active.run, held.todo)'
    <2> SUFFICES ASSUME active.status = "RUNNING", NEW p \in Subsystems, group'[<<active.run, p>>] = "up"
                 PROVE  <<active.run, p>> \in slipped'.groups \cup held.todo
      BY Zenon DEF Remaining
    <2>1. <<active.run, p>> \in Groups
      BY <1>4, Zenon DEF Groups
    <2>2. group[<<active.run, p>>] = "up"
      BY <2>1, Zenon
    <2>3. <<active.run, p>> \in slipped.groups \cup program[a].todo
      BY <1>4, <2>2, Zenon DEF Relies, StopRelies, Remaining
    <2> QED BY <2>1, <2>3, Zenon DEF SlipsOnly
  <1>6. active.status = "RUNNING" /\ where = "containers" => GroupsStopped(active.run)'
    BY <1>5, Zenon DEF Remaining, GroupsStopped
  <1>7. \A r \in Runs, p \in Subsystems : Untouched(r, p) => Untouched(r, p)'
    <2>1. \A r \in Runs, p \in Subsystems : <<r, p>> \in Groups
      BY Zenon DEF Groups
    <2> QED BY <2>1, Zenon DEF Untouched
  <1>8. FileRelies(a, new)'
    BY <1>1, <1>3, <1>4, Zenon DEF FileRelies, StopReads, Unlisted
  <1>9. StopRelies(new)'
    BY <1>3, <1>4, <1>5, <1>6, Zenon DEF Relies, StopRelies, StopPlaces, StopReads
  <1>10. EnsureRelies(a, new)'
    BY <1>3, <1>4, <1>7, Zenon DEF Relies, EnsureRelies, Unborn, StopPlaces, StopReads
  <1>11. Past(program[a]) => Past(new)
    BY <1>3, Zenon DEF Past, Unborn, StopPlaces, StopReads, Unlisted
  <1>12. Relies(a, new)' /\ new.pc # "refused"
    BY <1>3, <1>8, <1>9, <1>10, Zenon DEF Relies
  <1> QED BY <1>3, <1>11, <1>12, GroupStep, Zenon

LEMMA GroupDoneKeeps ==
  ASSUME LifecycleInv, NEW a \in Actors, program[a].pc \in {"groups", "signal", "wait"},
         UNCHANGED <<container, group, active, report, history>>,
         slipped' \in SlippedType, SlipsOnly, NEW g \in Groups, GroupDone(a, g),
         group[g] = "up" => g \in slipped'.groups
  PROVE  LifecycleInv'
  <1> DEFINE held == [program[a] EXCEPT !.todo = @ \ {g}, !.target = NoFile]
             where == IF program[a].todo \subseteq {g} THEN "containers" ELSE "groups"
  <1>1. program[a] \in Programs
    BY Zenon DEF LifecycleInv, TypeOK
  <1>2. /\ held \in Programs /\ held.payload = program[a].payload /\ held.purpose = program[a].purpose
        /\ held.results = program[a].results /\ held.todo = program[a].todo \ {g}
    BY <1>1, Zenon DEF Programs
  <1>3. GoWith(a, where, held)
    BY Zenon DEF GroupDone
  <1> HIDE DEF held
  <1>4. /\ where \in {"groups", "signal", "wait", "containers"} /\ where # "signal"
        /\ where = "containers" => held.todo = {}
    BY <1>2, Zenon
  <1>5. \A h \in Groups : h \in program[a].todo /\ group'[h] = "up" => h \in slipped'.groups \cup held.todo
    BY <1>2, Zenon
  <1>6. group' \in [Groups -> {"none", "up", "dead", "stranger"}] /\ \A h \in Groups : group'[h] = group[h]
    BY Zenon DEF LifecycleInv, TypeOK
  <1> HIDE DEF where
  <1>7. \A h \in Groups : group'[h] = group[h] \/ (group[h] \in {"up", "stranger"} /\ group'[h] = "dead")
    BY <1>6, Zenon
  <1> QED BY <1>2, <1>3, <1>4, <1>5, <1>6, <1>7, GoesOn, ZenonT(120)

LEMMA CheckGroupKeeps ==
  ASSUME LifecycleInv, NEW a \in Actors, NEW g \in Groups, CheckGroup(a, g)
  PROVE  LifecycleInv'
  <1>1. /\ program[a].pc \in {"groups", "signal", "wait"} /\ program[a] \in Programs
        /\ UNCHANGED <<container, group, active, report, history, slipped>>
        /\ group \in [Groups -> {"none", "up", "dead", "stranger"}] /\ slipped \in SlippedType
    BY Zenon DEF CheckGroup, At, world, files, LifecycleInv, TypeOK
  <1>2. CASE group[g] \in {"none", "dead"} /\ GroupDone(a, g)
    BY <1>1, <1>2, NothingHappens, GroupDoneKeeps, Zenon
  <1>3. CASE group[g] = "up" /\ GoWith(a, "signal", [program[a] EXCEPT !.target = g])
    <2> DEFINE held == [program[a] EXCEPT !.target = g]
    <2>1. /\ held \in Programs /\ held.payload = program[a].payload /\ held.purpose = program[a].purpose
          /\ held.results = program[a].results /\ held.todo = program[a].todo /\ held.target = g
      BY <1>1, Zenon DEF Programs
    <2>2. GoWith(a, "signal", held)
      BY <1>3, Zenon
    <2> HIDE DEF held
    <2>3. /\ group' \in [Groups -> {"none", "up", "dead", "stranger"}] /\ \A h \in Groups : group'[h] = group[h]
          /\ slipped' \in SlippedType /\ SlipsOnly
          /\ \A h \in Groups : h \in program[a].todo => h \in held.todo
          /\ held.target \in Groups /\ group'[held.target] # "stranger"
      BY <1>1, <1>3, <2>1, NothingHappens, Zenon
    <2> QED BY <1>1, <2>1, <2>2, <2>3, GoesOn, Zenon
  <1>4. CASE Return(a, FALSE)
    BY <1>1, <1>4, GivesUp, Zenon
  <1> QED BY <1>2, <1>3, <1>4, Zenon DEF CheckGroup

LEMMA SignalGroupKeeps ==
  ASSUME LifecycleInv, NEW a \in Actors, NEW g \in Groups, SignalGroup(a, g)
  PROVE  LifecycleInv'
  <1>1. /\ program[a].pc \in {"groups", "signal", "wait"} /\ program[a] \in Programs
        /\ UNCHANGED <<container, active, report, history, slipped>>
        /\ group \in [Groups -> {"none", "up", "dead", "stranger"}] /\ slipped \in SlippedType
    BY Zenon DEF SignalGroup, At, files, LifecycleInv, TypeOK
  <1>2. SlipsOnly
    BY <1>1, Zenon DEF SlipsOnly
  <1>3. CASE group[g] \in {"none", "dead"} /\ GroupDone(a, g) /\ UNCHANGED group
    BY <1>1, <1>2, <1>3, GroupDoneKeeps, Zenon
  <1>4. ASSUME group[g] \in {"up", "stranger"}, NEW left \in {"dead", group[g]},
               group' = [group EXCEPT ![g] = left], Goto(a, "wait")
        PROVE  LifecycleInv'
    <2>1. /\ group' \in [Groups -> {"none", "up", "dead", "stranger"}]
          /\ \A h \in Groups : group'[h] = group[h] \/ (group[h] \in {"up", "stranger"} /\ group'[h] = "dead")
      BY <1>1, <1>4, Zenon
    <2>2. GoWith(a, "wait", program[a])
      BY <1>4, Zenon DEF Goto
    <2> QED BY <1>1, <1>2, <2>1, <2>2, GoesOn, Zenon
  <1>5. CASE Return(a, FALSE) /\ UNCHANGED group
    BY <1>1, <1>5, GivesUp, Zenon
  <1> QED BY <1>3, <1>4, <1>5, Zenon DEF SignalGroup

LEMMA WaitGroupKeeps ==
  ASSUME LifecycleInv, NEW a \in Actors, NEW g \in Groups, WaitGroup(a, g)
  PROVE  LifecycleInv'
  <1>1. /\ program[a].pc \in {"groups", "signal", "wait"}
        /\ UNCHANGED <<container, group, active, report, history>>
        /\ slipped' = IF group[g] = "up" THEN [slipped EXCEPT !.groups = @ \cup {g}] ELSE slipped
    BY Zenon DEF WaitGroup, At, world
  <1>2. slipped' \in SlippedType /\ SlipsOnly /\ (group[g] = "up" => g \in slipped'.groups)
    BY <1>1, Zenon DEF LifecycleInv, TypeOK, SlippedType, SlipsOnly
  <1>3. CASE GroupDone(a, g)
    BY <1>1, <1>2, <1>3, GroupDoneKeeps, Zenon
  <1>4. CASE group[g] = "stranger" /\ Return(a, FALSE)
    BY <1>1, <1>4, GivesUp, Zenon
  <1> QED BY <1>3, <1>4, Zenon DEF WaitGroup

\* Among the containers to stop are those recorded and running, and none that others
\* had running before.
LEMMA StopsOwned ==
  ASSUME LifecycleInv, active # NoFile, Listed, NEW current \in RunningContainers
  PROVE  /\ \A c \in ToStop(active, current) : c \in Containers => container[c] # "other"
         /\ active.status = "RUNNING" =>
               \A c \in Containers : c \in active.owned /\ container[c] # "down" => c \in ToStop(active, current)
  <1>1. current = Up
    BY Zenon DEF RunningContainers, Listed
  <1>2. Preceded(active)
    BY SMTT(60) DEF LifecycleInv
  <1> QED BY <1>1, <1>2, Zenon DEF ToStop, OwnedContainers, Up, Preceded

LEMMA StopContainersKeeps ==
  ASSUME LifecycleInv, NEW a \in Actors, NEW current \in RunningContainers, StopContainers(a, current)
  PROVE  LifecycleInv'
  <1> USE RunNames
  <1>1. /\ program[a].pc = "containers" /\ "containers" \notin Ended /\ program[a].pc \in StopPlaces
        /\ program[a] \in Programs /\ Relies(a, program[a])
        /\ active # NoFile /\ program[a].payload = active
        /\ UNCHANGED <<group, active, report, history>>
    BY Zenon DEF StopContainers, At, Ended, StopPlaces, StopReads, Unlisted, LifecycleInv, TypeOK, Relies, FileRelies, StopRelies, EnsureRelies
  <1>2. PICK left \in SUBSET ToStop(active, current) :
           /\ container' = [c \in Containers |->
                IF c \in ToStop(active, current) \ left THEN "down" ELSE container[c]]
           /\ slipped' = [slipped EXCEPT !.containers = @ \cup left]
    BY <1>1, Zenon DEF StopContainers
  <1>3. ToStop(active, current) \subseteq Containers
    BY Zenon DEF ToStop, RunningContainers, Up
  <1>4. /\ container' \in [Containers -> Runs \cup {"down", "other", "meanwhile"}]
        /\ \A c \in Containers : container'[c] = container[c] \/ container'[c] = "down"
        /\ \A c \in Containers : c \in ToStop(active, current) /\ container'[c] # "down" => c \in left
    BY <1>2, Zenon DEF LifecycleInv, TypeOK
  <1>5. /\ slipped' \in SlippedType
        /\ SlipsOnly /\ left \subseteq slipped'.containers /\ slipped'.groups = slipped.groups
    BY <1>2, <1>3, Zenon DEF LifecycleInv, TypeOK, SlipsOnly, SlippedType
  <1>6. \A p \in Subsystems : p \in Containers
    BY SMTT(60) DEF Containers
  <1>7. \A r \in Runs : Quiet(r)
    BY <1>1, <1>4, <1>6, Zenon DEF Quiet, Untouched
  <1>8. "history" \in Places /\ "history" \notin Ended /\ GoWith(a, "history", program[a])
    BY SMTT(60) DEF Places, Ended, Goto, StopContainers
  <1>9. PICK new \in Programs : Into(a, "history", program[a], new)
    BY <1>1, <1>8, Goes, SMTT(60)
  <1>10. /\ program' = [program EXCEPT ![a] = new] /\ new.pc = "history" /\ new.payload = active
         /\ new.purpose = program[a].purpose /\ new.results = program[a].results
    BY <1>1, <1>8, <1>9, SMTT(60) DEF Into
  <1>11. Past(program[a]) => Past(new)
    BY <1>1, <1>10, SMTT(60) DEF Past, Unborn, StopPlaces, StopReads, Unlisted
  <1>12. Owns' /\ Closed'
    BY <1>1, <1>5, <1>7, <1>10, <1>11, OwnsKept, ClosedKept, ZenonT(40)
  <1>13. Preceded(active)'
    BY <1>1, <1>4, Zenon DEF LifecycleInv, Preceded
  <1>14. active.status = "RUNNING" => GroupsStopped(active.run)'
    BY <1>1, <1>5, ZenonT(40) DEF Relies, FileRelies, StopRelies, EnsureRelies, GroupsStopped
  <1>15. active.status = "RUNNING" => ContainersStopped(active.run)'
    <2> SUFFICES ASSUME active.status = "RUNNING", Listed, NEW p \in Subsystems,
                        container'[p] = active.run
                 PROVE  p \in slipped'.containers
      BY <1>1, ZenonT(40) DEF ContainersStopped
    <2>1. active.run \in Runs /\ active.run # "down"
      BY <1>1, Zenon DEF LifecycleInv, TypeOK, StateType
    <2>2. container[p] = active.run
      BY <1>4, <1>6, <2>1, SMTT(60)
    <2>3. p \in slipped.containers \cup active.owned
      BY <1>1, <2>2, ZenonT(40) DEF LifecycleInv, Owns
    <2>4. p \in active.owned => p \in left
      BY <1>1, <1>4, <1>6, <2>1, <2>2, StopsOwned, SMTT(60)
    <2> QED BY <1>5, <2>3, <2>4, SMTT(60) DEF SlipsOnly
  <1>16. a \in Runs /\ Unborn(new) => \A p \in Subsystems : Untouched(a, p)'
    BY <1>1, <1>7, <1>10, ZenonT(40) DEF Relies, FileRelies, StopRelies, EnsureRelies, Unborn, StopPlaces, StopReads, Unlisted, Quiet, Without
  <1>17. Relies(a, new)'
    BY <1>1, <1>8, <1>10, <1>14, <1>15, <1>16, ZenonT(40) DEF Relies, FileRelies, StopRelies, EnsureRelies, Unborn, StopPlaces, StopReads, Unlisted
  <1>18. \A b \in Actors \ {a} : program[b].pc \in Ended
    BY <1>1, OthersEnded, Zenon
  <1> QED BY <1>1, <1>4, <1>5, <1>7, <1>10, <1>12, <1>13, <1>17, <1>18, ActorStep, ZenonT(40) DEF LifecycleInv, TypeOK

\* The machine moves by itself, or nothing moves.
LEMMA MachineStep ==
  ASSUME LifecycleInv, UNCHANGED <<active, report, history, program>>,
         slipped' \in SlippedType, SlipsOnly,
         group' \in [Groups -> {"none", "up", "dead", "stranger"}],
         container' \in [Containers -> Runs \cup {"down", "other", "meanwhile"}],
         \A g \in Groups : /\ group'[g] = "up" => group[g] = "up"
                           /\ group[g] = "none" => group'[g] = "none"
                           /\ group'[g] = "stranger" => \/ group[g] = "stranger"
                                                        \/ ~ AboutToSignal(g)
                                                        \/ g \in slipped'.numbers,
         \A c \in Containers :
            \/ container'[c] = container[c]
            \/ container[c] = "down" /\ container'[c] = "meanwhile"
            \/ /\ container[c] = "down" /\ container'[c] \in Runs
               /\ group[<<container'[c], c>>] = "up"
               /\ Past(program[container'[c]]) => c \in slipped'.containers
  PROVE  LifecycleInv'
  <1> USE RunNames
  <1>1. \A p \in Subsystems : p \in Containers /\ \A r \in Runs : <<r, p>> \in Groups
    BY Zenon DEF Containers, Groups
  <1>2. ASSUME NEW r \in Runs, NEW p \in Subsystems
        PROVE  /\ group'[<<r, p>>] = "up" => group[<<r, p>>] = "up"
               /\ container'[p] = r => container[p] = r \/ ~ Past(program[r]) \/ p \in slipped'.containers
               /\ Untouched(r, p) => Untouched(r, p)'
    <2>1. p \in Containers /\ <<r, p>> \in Groups
      BY <1>1, Zenon
    <2>2. container'[p] = r => \/ container[p] = r
                              \/ /\ group[<<r, p>>] = "up"
                                 /\ Past(program[r]) => p \in slipped'.containers
      BY <2>1, Zenon
    <2>3. group[<<r, p>>] = "none" => group[<<r, p>>] # "up"
      BY Zenon
    <2> QED BY <2>1, <2>2, <2>3, Zenon DEF Untouched
  <1>3. \A state : Preceded(state) => Preceded(state)'
    <2>1. \A c \in Containers : container'[c] = "other" => container[c] = "other"
      BY Zenon
    <2> QED BY <2>1, Zenon DEF Preceded
  <1>4. ASSUME NEW r \in Runs
        PROVE  /\ GroupsStopped(r) => GroupsStopped(r)'
               /\ Past(program[r]) /\ ContainersStopped(r) => ContainersStopped(r)'
               /\ \A results : Covered(r, results) => Covered(r, results)'
               /\ \A todo : Remaining(r, todo) => Remaining(r, todo)'
    <2>1. \A p \in Subsystems :
             /\ group'[<<r, p>>] = "up" => group[<<r, p>>] = "up"
             /\ container'[p] = r => container[p] = r \/ ~ Past(program[r]) \/ p \in slipped'.containers
      BY <1>2, Zenon
    <2>2. GroupsStopped(r) => GroupsStopped(r)'
      BY <2>1, Zenon DEF GroupsStopped, SlipsOnly
    <2>3. Past(program[r]) /\ ContainersStopped(r) => ContainersStopped(r)'
      BY <2>1, Zenon DEF ContainersStopped, SlipsOnly
    <2>4. \A results : Covered(r, results) => Covered(r, results)'
      BY <2>1, Zenon DEF Covered, SlipsOnly
    <2>5. \A todo : Remaining(r, todo) => Remaining(r, todo)'
      BY <2>1, Zenon DEF Remaining, SlipsOnly
    <2> QED BY <2>2, <2>3, <2>4, <2>5, Zenon
  <1>5. ASSUME NEW r \in Runs, NEW state, Starting(r, state) PROVE Starting(r, state)'
    <2>1. ASSUME NEW p \in Subsystems, p \in state.before PROVE container'[p] \notin {"down", r}
      <3>1. container[p] \notin {"down", r} /\ p \in Containers
        BY <1>1, <1>5, <2>1, Zenon DEF Starting
      <3>2. container'[p] = container[p]
        BY <3>1, Zenon
      <3> QED BY <3>1, <3>2, Zenon
    <2> QED BY <1>5, <2>1, Zenon DEF Starting
  <1>6. Reported' = Reported
    BY Zenon DEF Reported
  <1>12. active # NoFile /\ active.status = "RUNNING" => active.run \in Runs /\ Past(program[active.run])
    BY Zenon DEF LifecycleInv, TypeOK, StateType, Owns
  <1>7. ASSUME NEW a \in Actors PROVE Relies(a, program[a])'
    <2>1. Relies(a, program[a]) /\ (active # NoFile => active.run \in Runs)
      BY SMTT(60) DEF LifecycleInv, TypeOK, StateType
    <2>2. a \in Runs \/ program[a].pc \notin {"write", "ensure", "report", "read", "finalize"}
      BY <2>1, ZenonT(40) DEF Relies, FileRelies, Unlisted, Starting, StateType
    <2>3. a \in Runs => \A p \in Subsystems : Untouched(a, p) => Untouched(a, p)'
      BY <1>2, Zenon
    <2>4. FileRelies(a, program[a])'
      BY <1>3, <1>5, <2>1, <2>2, ZenonT(40) DEF Relies, FileRelies, Unlisted
    <2>5. StopRelies(program[a])'
      <3>1. program[a].pc \in StopReads => active # NoFile
        BY <2>1, Zenon DEF Relies, FileRelies
      <3>2. program[a].pc = "signal" /\ group'[program[a].target] = "stranger" =>
               program[a].target \in slipped'.numbers
        <4> SUFFICES ASSUME program[a].pc = "signal", group'[program[a].target] = "stranger"
                     PROVE  program[a].target \in slipped'.numbers
          BY Zenon
        <4>1. AboutToSignal(program[a].target)
          BY Zenon DEF AboutToSignal, At
        <4>2. program[a].target \in Groups
          BY <2>1, Zenon DEF Relies, StopRelies
        <4>3. group[program[a].target] = "stranger" => program[a].target \in slipped.numbers
          BY <2>1, Zenon DEF Relies, StopRelies
        <4> QED BY <4>1, <4>2, <4>3, Zenon DEF SlipsOnly
      <3>3. active # NoFile /\ active.status = "RUNNING" =>
               /\ GroupsStopped(active.run) => GroupsStopped(active.run)'
               /\ ContainersStopped(active.run) => ContainersStopped(active.run)'
               /\ \A todo : Remaining(active.run, todo) => Remaining(active.run, todo)'
        BY <1>4, <1>12, Zenon
      <3> QED BY <2>1, <3>1, <3>2, <3>3, ZenonT(40) DEF Relies, StopRelies, StopReads
    <2>6. EnsureRelies(a, program[a])'
      BY <1>4, <1>6, <2>1, <2>2, <2>3, ZenonT(40) DEF Relies, EnsureRelies
    <2> QED BY <2>4, <2>5, <2>6, SMTT(60) DEF Relies
  <1>8. Owns'
    <2> SUFFICES ASSUME active # NoFile, active.status = "RUNNING" PROVE Owns'
      BY SMTT(60) DEF Owns
    <2> DEFINE r == active.run
    <2>1. /\ \A p \in Subsystems : group[<<r, p>>] = "up" => <<r, p>> \in slipped.groups \cup active.groups
          /\ Listed => \A p \in Subsystems : container[p] = r => p \in slipped.containers \cup active.owned
      BY Zenon DEF LifecycleInv, Owns
    <2>2. r \in Runs /\ Past(program[r])
      BY <1>12, Zenon
    <2> HIDE DEF r
    <2>3. \A p \in Subsystems : group'[<<r, p>>] = "up" => <<r, p>> \in slipped'.groups \cup active.groups
      BY <1>2, <2>1, <2>2, Zenon DEF SlipsOnly
    <2>4. Listed => \A p \in Subsystems : container'[p] = r => p \in slipped'.containers \cup active.owned
      BY <1>2, <2>1, <2>2, Zenon DEF SlipsOnly
    <2> QED BY <2>2, <2>3, <2>4, Zenon DEF Owns, r
  <1>9. Closed'
    BY <1>4, Zenon DEF LifecycleInv, Closed
  <1>10. TypeOK' /\ Alone' /\ RerunNotRefused'
    BY Zenon DEF LifecycleInv, TypeOK, Alone, Working, RerunNotRefused, At
  <1>11. (active # NoFile => Preceded(active))'
    BY <1>3, Zenon DEF LifecycleInv
  <1> QED BY <1>7, <1>8, <1>9, <1>10, <1>11, SMTT(60) DEF LifecycleInv

LEMMA NothingSlips ==
  ASSUME LifecycleInv, UNCHANGED slipped
  PROVE  slipped' \in SlippedType /\ SlipsOnly
  BY Zenon DEF LifecycleInv, TypeOK, SlipsOnly

LEMMA LifecycleInvStep == AtOnce = 1 /\ LifecycleInv /\ [Next]_vars => LifecycleInv'
  <1> SUFFICES ASSUME AtOnce = 1, LifecycleInv, [Next]_vars PROVE LifecycleInv' BY Zenon
  <1>1. ASSUME NEW c \in Containers, OthersStart(c) PROVE LifecycleInv'
    <2>1. /\ container' \in [Containers -> Runs \cup {"down", "other", "meanwhile"}]
          /\ \A d \in Containers :
                container'[d] = container[d] \/ (container[d] = "down" /\ container'[d] = "meanwhile")
          /\ UNCHANGED <<group, active, report, history, slipped, program>>
      BY <1>1, ZenonT(40) DEF OthersStart, LifecycleInv, TypeOK, files
    <2> QED BY <2>1, NothingSlips, MachineStep, ZenonT(40) DEF LifecycleInv, TypeOK
  <1>2. ASSUME NEW g \in Groups, GroupEnds(g) PROVE LifecycleInv'
    <2>1. /\ group' \in [Groups -> {"none", "up", "dead", "stranger"}]
          /\ \A h \in Groups : group'[h] = group[h] \/ (group[h] = "up" /\ group'[h] = "dead")
          /\ UNCHANGED <<container, active, report, history, slipped, program>>
      BY <1>2, Zenon DEF GroupEnds, LifecycleInv, TypeOK, files
    <2> QED BY <2>1, NothingSlips, MachineStep, ZenonT(40) DEF LifecycleInv, TypeOK
  <1>7. ASSUME NEW g \in Groups, NumberReused(g) PROVE LifecycleInv'
    <2>1. /\ group' \in [Groups -> {"none", "up", "dead", "stranger"}]
          /\ \A h \in Groups : group'[h] = group[h] \/ (h = g /\ group[h] = "dead" /\ group'[h] = "stranger")
          /\ UNCHANGED <<container, active, report, history, program>>
          /\ slipped' = IF AboutToSignal(g) THEN [slipped EXCEPT !.numbers = @ \cup {g}] ELSE slipped
      BY <1>7, Zenon DEF NumberReused, LifecycleInv, TypeOK
    <2>2. slipped' \in SlippedType /\ SlipsOnly /\ (AboutToSignal(g) => g \in slipped'.numbers)
      BY <2>1, Zenon DEF LifecycleInv, TypeOK, SlippedType, SlipsOnly
    <2> QED BY <2>1, <2>2, MachineStep, ZenonT(40) DEF LifecycleInv, TypeOK
  <1>8. ASSUME NEW g \in Groups, StartsContainer(g) PROVE LifecycleInv'
    <2>1. PICK r \in Runs, p \in Subsystems : g = <<r, p>>
      BY SMT DEF Groups
    <2>2. /\ group[<<r, p>>] = "up" /\ container[p] = "down"
          /\ container' = [container EXCEPT ![p] = r]
          /\ slipped' = IF program[r].pc \in Unlisted
                          THEN slipped ELSE [slipped EXCEPT !.containers = @ \cup {p}]
          /\ UNCHANGED <<group, active, report, history, program>>
      BY <1>8, <2>1, SMT DEF StartsContainer
    <2>3. p \in Containers
      BY Zenon DEF Containers
    <2>4. /\ slipped' \in SlippedType /\ SlipsOnly
          /\ Past(program[r]) => p \in slipped'.containers
      BY <2>2, <2>3, Zenon DEF LifecycleInv, TypeOK, SlippedType, SlipsOnly, Past
    <2>5. /\ container' \in [Containers -> Runs \cup {"down", "other", "meanwhile"}]
          /\ container'[p] = r /\ \A c \in Containers \ {p} : container'[c] = container[c]
      BY <2>2, <2>3, Zenon DEF LifecycleInv, TypeOK
    <2> QED BY <2>2, <2>4, <2>5, MachineStep, ZenonT(40) DEF LifecycleInv, TypeOK
  <1>3. ASSUME NEW r \in Runs, RunStep(r) PROVE LifecycleInv'
    <2>1. ASSUME NEW passes \in BOOLEAN, DbUp(r, passes) PROVE LifecycleInv'
      BY <2>1, DbUpKeeps, Zenon
    <2>2. ASSUME NEW seen \in RunningContainers, Begin(r, seen) \/ Finalize(r, seen) PROVE LifecycleInv'
      BY <2>2, BeginKeeps, FinalizeKeeps, Zenon
    <2>3. ASSUME NEW status \in {"READY", "DEGRADED"}, NEW left \in {"up", "dead"},
                 NEW starts \in BOOLEAN, EnsureStarts(r, status, left, starts)
          PROVE  LifecycleInv'
      BY <2>3, EnsureStartsKeeps, Zenon
    <2>4. CASE Start(r) \/ WriteState(r) \/ EnsureAsIs(r) \/ WriteReport(r) \/ EnsureFails(r) \/ ReadState(r)
               \/ Conclude(r) \/ Interrupted(r)
      BY <2>4, StartKeeps, WriteStateKeeps, EnsureAsIsKeeps, WriteReportKeeps, ReadStateKeeps,
         EnsureFailsKeeps, ConcludeKeeps, InterruptedKeeps, Zenon
    <2> QED BY <1>3, <2>1, <2>2, <2>3, <2>4, Zenon DEF RunStep
  <1>4. ASSUME NEW s \in Stops, Operate(s) PROVE LifecycleInv'
    BY <1>4, OperateKeeps, Zenon
  <1>5. ASSUME NEW a \in Actors, StopStep(a) PROVE LifecycleInv'
    <2>1. ASSUME NEW current \in RunningContainers, StopContainers(a, current) PROVE LifecycleInv'
      BY <2>1, StopContainersKeeps, Zenon
    <2>2. ASSUME NEW g \in Groups, CheckGroup(a, g) \/ SignalGroup(a, g) \/ WaitGroup(a, g)
          PROVE  LifecycleInv'
      BY <2>2, CheckGroupKeeps, SignalGroupKeeps, WaitGroupKeeps, Zenon
    <2>3. CASE StopExists(a) \/ WriteHistory(a) \/ Unlink(a) \/ Kill(a)
      BY <2>3, StopExistsKeeps, WriteHistoryKeeps, UnlinkKeeps, KillKeeps, Zenon
    <2> QED BY <1>5, <2>1, <2>2, <2>3, Zenon DEF StopStep
  <1>6. CASE UNCHANGED vars
    BY <1>6, NothingSlips, MachineStep, ZenonT(40) DEF vars, LifecycleInv, TypeOK
  <1> QED BY <1>1, <1>2, <1>3, <1>4, <1>5, <1>6, <1>7, <1>8, Zenon DEF Next

\* What a step leaves alone of what others have.
Spares ==
    /\ \A c \in Containers : container[c] = "other" => container'[c] = "other"
    /\ \A g \in Groups \ slipped.numbers : group[g] = "stranger" => group'[g] = "stranger"

LEMMA StepsSpareOthers ==
  ASSUME LifecycleInv, Listed, Next
  PROVE  Spares
  <1> USE RunNames DEF Spares
  <1>1. /\ container \in [Containers -> Runs \cup {"down", "other", "meanwhile"}]
        /\ group \in [Groups -> {"none", "up", "dead", "stranger"}]
    BY Zenon DEF LifecycleInv, TypeOK
  <1>2. ASSUME NEW c \in Containers, OthersStart(c) PROVE Spares
    BY <1>1, <1>2, Zenon DEF OthersStart
  <1>3. ASSUME NEW g \in Groups, GroupEnds(g) \/ NumberReused(g) PROVE Spares
    BY <1>1, <1>3, SMTT(60) DEF GroupEnds, NumberReused
  <1>7. ASSUME NEW g \in Groups, StartsContainer(g) PROVE Spares
    BY <1>1, <1>7, SMTT(60) DEF StartsContainer
  <1>4. ASSUME NEW r \in Runs, RunStep(r) PROVE Spares
    <2>1. ASSUME NEW passes \in BOOLEAN, DbUp(r, passes) PROVE Spares
      BY <1>1, <2>1, Zenon DEF DbUp, Containers
    <2>2. ASSUME NEW seen, Begin(r, seen) PROVE Spares
      BY <1>1, <2>2, Zenon DEF Begin, Preceding
    <2>3. ASSUME NEW status, NEW left, NEW starts, EnsureStarts(r, status, left, starts)
          PROVE  Spares
      <3> DEFINE p == NextProject(r)
      <3>1. /\ At(r, "ensure") /\ \E x : group' = [group EXCEPT ![<<r, p>>] = x]
            /\ \E x : container' = [container EXCEPT ![p] = IF container[p] = "down" THEN x ELSE container[p]]
        BY <2>3, Zenon DEF EnsureStarts
      <3>2. p \in Subsystems /\ Without(program[r].results, p)
        BY <3>1, NextIsPending, Zenon
      <3>3. r \in Actors /\ Relies(r, program[r]) /\ program[r].pc = "ensure"
        BY <3>1, Zenon DEF LifecycleInv, At, Actors
      <3>4. Untouched(r, p)
        BY <3>2, <3>3, Zenon DEF Relies, EnsureRelies
      <3>5. group[<<r, p>>] = "none"
        BY <3>4, Zenon DEF Untouched
      <3> HIDE DEF p
      <3>6. <<r, p>> \in Groups /\ p \in Containers
        BY <3>2, Zenon DEF Groups, Containers
      <3> QED BY <1>1, <3>1, <3>5, <3>6, Zenon
    <2>4. CASE UNCHANGED world
      BY <2>4, Zenon DEF world
    <2> QED BY <1>4, <2>1, <2>2, <2>3, <2>4, Zenon
            DEF RunStep, Start, Finalize, WriteState, EnsureAsIs, WriteReport, EnsureFails, ReadState, Conclude, Interrupted
  <1>5. ASSUME NEW s \in Stops, Operate(s) PROVE Spares
    BY <1>5, Zenon DEF Operate, world
  <1>6. ASSUME NEW a \in Actors, StopStep(a) PROVE Spares
    <2>1. ASSUME NEW current \in RunningContainers, StopContainers(a, current) PROVE Spares
      <3>1. active # NoFile /\ program[a].payload = active
        BY <2>1, Zenon DEF LifecycleInv, Relies, FileRelies, StopReads, StopContainers, At
      <3>2. /\ \A c \in Containers : container'[c] = container[c] \/ c \in ToStop(active, current)
            /\ group' = group
        BY <2>1, <3>1, Zenon DEF StopContainers
      <3>3. \A c \in ToStop(active, current) : c \in Containers => container[c] # "other"
        BY <3>1, StopsOwned, Zenon
      <3> QED BY <3>2, <3>3, Zenon
    <2>2. ASSUME NEW g \in Groups, SignalGroup(a, g) PROVE Spares
      <3>1. /\ container' = container /\ program[a].pc = "signal" /\ program[a].target = g
            /\ \A h \in Groups : group'[h] = group[h] \/ h = g
        BY <1>1, <2>2, Zenon DEF SignalGroup, At
      <3>2. group[g] = "stranger" => g \in slipped.numbers
        BY <3>1, Zenon DEF LifecycleInv, Relies, StopRelies
      <3> QED BY <3>1, <3>2, Zenon
    <2>3. CASE UNCHANGED world
      BY <2>3, Zenon DEF world
    <2> QED BY <1>6, <2>1, <2>2, <2>3, Zenon
            DEF StopStep, StopExists, CheckGroup, WaitGroup, WriteHistory, Unlink, Kill
  <1> QED BY <1>2, <1>3, <1>4, <1>5, <1>6, <1>7, ZenonT(40) DEF Next

\* A finalized execution that was stopped leaves running, of the groups and the containers
\* of subsystems that its run started, only what slipped: groups that ensure.py did not
\* report, containers started after finalize's listing, all of them when there was no
\* report, and what did not stop.  For any number of runs, stops and subsystems, one
\* program at a time, each killed at any step, as long as the listings of containers do
\* not fail.
THEOREM CycleSymmetric ==
  ASSUME AtOnce = 1, Listed
  PROVE  Spec => []CycleIsSymmetric
  <1>1. LifecycleInv => CycleIsSymmetric
    BY Zenon DEF LifecycleInv, CycleIsSymmetric, Closed, GroupsStopped, ContainersStopped
  <1> QED BY <1>1, LifecycleInvInit, LifecycleInvStep, PTL DEF Spec

\* One program at a time, a run is never refused for the record of an earlier execution,
\* whatever was killed and whichever listing failed: begin finds the file that its own
\* first stop removed still missing.
THEOREM RerunsNotRefused ==
  ASSUME AtOnce = 1
  PROVE  Spec => []RerunNotRefused
  <1>1. LifecycleInv => RerunNotRefused
    BY Zenon DEF LifecycleInv
  <1> QED BY <1>1, LifecycleInvInit, LifecycleInvStep, PTL DEF Spec

\* No step stops a container that others had running when the execution began, nor
\* signals a process group whose number was somebody else's already when stop_group
\* looked at its members, under the assumptions of CycleSymmetric.  What a stop that is
\* about to signal relies on is in StopRelies: a number that is a stranger's by then was
\* reused after the look.
THEOREM OthersArePreserved ==
  ASSUME AtOnce = 1, Listed
  PROVE  Spec => OthersPreserved
  <1>1. LifecycleInv /\ [Next]_vars => [Spares]_vars
    BY StepsSpareOthers, Zenon
  <1> QED BY <1>1, LifecycleInvInit, LifecycleInvStep, PTL DEF Spec, OthersPreserved, Spares
=============================================================================
