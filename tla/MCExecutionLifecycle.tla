-------------------------- MODULE MCExecutionLifecycle --------------------------
(* An environment's executions and its sisterd, each explored alone: the       *)
(* lifecycle ignores how the stop of sisterd went, and the two share no file.  *)
EXTENDS ExecutionLifecycle, CoreProcess, TLC

VARIABLE focus

\* The numbers differ in name only, and so do the runs and the invocations, of which
\* therefore the same one always begins first.
NumberSymmetry == Permutations(Pids)

FirstRun == CHOOSE r \in Runs : TRUE
FirstInvocation == CHOOSE i \in Invocations : TRUE

BeginInTurn ==
    /\ program[FirstRun].pc = "new" => \A r \in Runs : program[r].pc = "new"
    /\ script[FirstInvocation].at = "new" => \A i \in Invocations : script[i].at = "new"

OneProject == <<"reference">>

EnvironmentInit == Init /\ CoreInit /\ focus \in {"executions", "sisterd"}

EnvironmentNext ==
    /\ UNCHANGED focus
    /\ \/ focus = "executions" /\ Next /\ UNCHANGED coreVars
       \/ focus = "sisterd" /\ CoreNext /\ UNCHANGED vars
    /\ BeginInTurn'

EnvironmentSpec == EnvironmentInit /\ [][EnvironmentNext]_<<vars, coreVars, focus>>
=============================================================================
