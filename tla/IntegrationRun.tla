--------------------------- MODULE IntegrationRun ---------------------------
(***************************************************************************)
(* The aggregate IntegrationRun (core/include/sister/integration_run.hpp): *)
(* a run has an execution status and a validity status, moved by the pure  *)
(* functions transitionExecution() and transitionValidity().  A transition *)
(* that is refused returns an error and no run, so the state stays.        *)
(*                                                                         *)
(* Timestamps are the caller's strings, which the code does not compare;   *)
(* an absent field is an empty set or sequence.                            *)
(***************************************************************************)
EXTENDS Naturals, Sequences, FiniteSets

CONSTANTS Runs,             \* run ids
          Stamps,           \* timestamps a caller may pass
          Outputs,          \* artefacts a run may produce
          MaxSupersessions  \* bound on the supersessions of a run

ASSUME RunAssumption == MaxSupersessions \in Nat

VARIABLES
    proposed,       \* runs that proposeIntegrationRun() returned
    execution,      \* execution_status_
    validity,       \* validity_status_
    authorizedAt, startedAt, finishedAt,    \* each a set of at most one stamp
    outputs,        \* outputs_
    errors,         \* number of errors_
    cancelled,      \* the runs with a cancellation_reason_
    successors      \* the SupersessionRelations in relations_, in order

times == <<authorizedAt, startedAt, finishedAt>>
runVars == <<proposed, execution, validity, authorizedAt, startedAt, finishedAt,
          outputs, errors, cancelled, successors>>

ExecutionStatus == {"proposed", "authorized", "running", "completed", "failed",
                    "cancelled", "superseded"}
ValidityStatus == {"pending", "valid", "invalid", "superseded"}
Terminal == {"completed", "failed", "cancelled"}

RunInit ==
    /\ proposed = {}
    /\ execution = [r \in Runs |-> "proposed"]
    /\ validity = [r \in Runs |-> "pending"]
    /\ authorizedAt = [r \in Runs |-> {}]
    /\ startedAt = [r \in Runs |-> {}]
    /\ finishedAt = [r \in Runs |-> {}]
    /\ outputs = [r \in Runs |-> {}]
    /\ errors = [r \in Runs |-> 0]
    /\ cancelled = {}
    /\ successors = [r \in Runs |-> <<>>]

-----------------------------------------------------------------------------
\* proposeIntegrationRun() of a proposal with participants, purpose,
\* capability and inputs.
ProposeRun(r) ==
    /\ r \notin proposed
    /\ proposed' = proposed \cup {r}
    /\ UNCHANGED <<execution, validity, times, outputs, errors, cancelled, successors>>

\* The status a transition starts from and the one it leads to.
Moves(r, from, to) ==
    /\ r \in proposed
    /\ execution[r] \in from
    /\ execution' = [execution EXCEPT ![r] = to]
    /\ UNCHANGED proposed

Authorize(r, at) ==
    /\ Moves(r, {"proposed"}, "authorized")
    /\ authorizedAt' = [authorizedAt EXCEPT ![r] = {at}]
    /\ UNCHANGED <<validity, startedAt, finishedAt, outputs, errors, cancelled, successors>>

Startable == {"authorized"}

Start(r, at) ==
    /\ Moves(r, Startable, "running")
    /\ startedAt' = [startedAt EXCEPT ![r] = {at}]
    /\ UNCHANGED <<validity, authorizedAt, finishedAt, outputs, errors, cancelled, successors>>

Completable == {"running"}

Complete(r, at, artefacts) ==
    /\ Moves(r, Completable, "completed")
    /\ artefacts # {}
    /\ outputs' = [outputs EXCEPT ![r] = artefacts]
    /\ finishedAt' = [finishedAt EXCEPT ![r] = {at}]
    /\ UNCHANGED <<validity, authorizedAt, startedAt, errors, cancelled, successors>>

Fail(r, at) ==
    /\ Moves(r, {"running"}, "failed")
    /\ errors' = [errors EXCEPT ![r] = @ + 1]
    /\ finishedAt' = [finishedAt EXCEPT ![r] = {at}]
    /\ UNCHANGED <<validity, authorizedAt, startedAt, outputs, cancelled, successors>>

Cancel(r, at) ==
    /\ Moves(r, {"running"}, "cancelled")
    /\ cancelled' = cancelled \cup {r}
    /\ finishedAt' = [finishedAt EXCEPT ![r] = {at}]
    /\ UNCHANGED <<validity, authorizedAt, startedAt, outputs, errors, successors>>

\* relations_.push_back(SupersessionRelation{successor, reason}); the model
\* stops at a bound.
Superseded(r, successor) ==
    /\ Len(successors[r]) < MaxSupersessions
    /\ successors' = [successors EXCEPT ![r] = Append(@, successor)]

\* Mutant: the validity is left as it was.
ValidityKept(r) == UNCHANGED validity

ValidityEnds(r) == validity' = [validity EXCEPT ![r] = "superseded"]

\* ExecutionTransition::supersede
SupersedeExecution(r, successor) ==
    /\ Moves(r, Terminal, "superseded")
    /\ ValidityEnds(r)
    /\ Superseded(r, successor)
    /\ UNCHANGED <<times, outputs, errors, cancelled>>

\* Mutant: a run may be judged again.
JudgeableAgain(r) == execution[r] = "completed"

Judgeable(r) == execution[r] = "completed" /\ validity[r] = "pending"

\* ValidityTransition::mark_valid and mark_invalid
Judge(r, verdict) ==
    /\ r \in proposed
    /\ Judgeable(r)
    /\ validity' = [validity EXCEPT ![r] = verdict]
    /\ UNCHANGED <<proposed, execution, times, outputs, errors, cancelled, successors>>

\* ValidityTransition::supersede, in any execution status but superseded.
SupersedeValidity(r, successor) ==
    /\ r \in proposed
    /\ execution[r] # "superseded"
    /\ validity' = [validity EXCEPT ![r] = "superseded"]
    /\ Superseded(r, successor)
    /\ UNCHANGED <<proposed, execution, times, outputs, errors, cancelled>>

RunNext ==
    \E r \in Runs :
        \/ ProposeRun(r)
        \/ \E at \in Stamps : Authorize(r, at) \/ Start(r, at) \/ Fail(r, at) \/ Cancel(r, at)
        \/ \E at \in Stamps, a \in SUBSET Outputs : Complete(r, at, a)
        \/ \E verdict \in {"valid", "invalid"} : Judge(r, verdict)
        \/ \E s \in Runs : SupersedeExecution(r, s) \/ SupersedeValidity(r, s)

-----------------------------------------------------------------------------
RunTypeOK ==
    /\ proposed \subseteq Runs
    /\ execution \in [Runs -> ExecutionStatus]
    /\ validity \in [Runs -> ValidityStatus]
    /\ authorizedAt \in [Runs -> SUBSET Stamps]
    /\ startedAt \in [Runs -> SUBSET Stamps]
    /\ finishedAt \in [Runs -> SUBSET Stamps]
    /\ outputs \in [Runs -> SUBSET Outputs]
    /\ errors \in [Runs -> Nat]
    /\ cancelled \subseteq Runs
    /\ successors \in [Runs -> Seq(Runs)]

(***************************************************************************)
(* Every run the core hands out satisfies the lifecycle rules of its       *)
(* contract, contracts/execution/1.0.0/integration-run.schema.json: which  *)
(* timestamps, outputs, errors and successor go with which status.  The    *)
(* two machines agree: only a run that completed is judged, and a          *)
(* superseded execution has superseded validity.  And the history is       *)
(* whole: a run that started was authorised first, and one that finished   *)
(* shows exactly one way of finishing.  All state has its type.            *)
(***************************************************************************)
MeetsContract ==
    /\ RunTypeOK
    /\ \A r \in proposed :
          /\ execution[r] = "running" => startedAt[r] # {} /\ finishedAt[r] = {}
          /\ execution[r] = "completed" =>
                /\ startedAt[r] # {} /\ finishedAt[r] # {}
                /\ outputs[r] # {} /\ errors[r] = 0
          /\ execution[r] = "failed" => finishedAt[r] # {} /\ errors[r] > 0
          /\ execution[r] = "superseded" =>
                successors[r] # <<>> /\ validity[r] = "superseded"
          /\ validity[r] \in {"valid", "invalid"} => execution[r] = "completed"
          /\ startedAt[r] # {} => authorizedAt[r] # {}
          /\ finishedAt[r] # {} => startedAt[r] # {}
          /\ finishedAt[r] # {} <=> outputs[r] # {} \/ errors[r] > 0 \/ r \in cancelled
          /\ outputs[r] # {} => errors[r] = 0 /\ r \notin cancelled
          /\ errors[r] > 0 => r \notin cancelled

\* What a run has recorded stays, over a step.
RecordKept(r) ==
    /\ authorizedAt[r] # {} => authorizedAt'[r] = authorizedAt[r]
    /\ startedAt[r] # {} => startedAt'[r] = startedAt[r]
    /\ finishedAt[r] # {} =>
          /\ finishedAt'[r] = finishedAt[r] /\ outputs'[r] = outputs[r]
          /\ errors'[r] = errors[r] /\ (r \in cancelled' <=> r \in cancelled)
    /\ \A k \in 1..Len(successors[r]) : successors'[r][k] = successors[r][k]
    /\ validity'[r] # validity[r] => validity[r] = "pending" \/ validity'[r] = "superseded"

RecordsKept == \A r \in Runs : RecordKept(r)

(***************************************************************************)
(* What happened is never rewritten: a timestamp, an output, an error or a *)
(* successor of a run, once there, stays, and a judgement gives way only   *)
(* to supersession.                                                        *)
(***************************************************************************)
NothingRewritten == [][RecordsKept]_runVars
=============================================================================
