----------------------- MODULE IntegrationGovernance -----------------------
(***************************************************************************)
(* Deciding and executing integrations: the handlers of                    *)
(*   POST /api/v1/engineering/integrations/<id>/<version>/decision         *)
(*   POST /api/v1/engineering/integrations/<id>/<version>/execute          *)
(* (apps/sisterd/main.cpp) over the operational base (apps/sisterd/db.cpp).*)
(*                                                                         *)
(* Each database operation is one SQL statement, hence one step.  An       *)
(* execution is three: the approval is looked up, the subsystem is called  *)
(* with no lock held, and the result is recorded if the approval still     *)
(* stands.  In between decisions are made, and sisterd may stop.           *)
(***************************************************************************)
EXTENDS Naturals, Sequences

CONSTANTS Integrations,     \* rows of sister_integration_definitions
          Offers,           \* rows of sister_capability_offers
          Requirements,     \* rows of sister_capability_requirements
          OfferOf,          \* offer_id of a definition
          RequirementOf,    \* requirement_id of a definition
          Seeded,           \* the definition seeded with an execution
          Actors,           \* who may decide
          ExecuteRequests,         \* execute requests in flight in the workers
          MaxDecisions,     \* bound on the decisions made
          MaxCalls          \* bound on the calls to the subsystem

ASSUME GovernanceAssumption ==
    /\ OfferOf \in [Integrations -> Offers]
    /\ RequirementOf \in [Integrations -> Requirements]
    /\ Seeded \in Integrations
    /\ MaxDecisions \in Nat
    /\ MaxCalls \in Nat

VARIABLES
    definitions,    \* approval_status and approved_by
    signatures,     \* definitions with signature_verified
    offers,         \* offers with signature_verified
    requirements,   \* requirements with signature_verified
    decisions,      \* sister_integration_decisions, in order
    executions,     \* rows of sister_integration_executions and _assessments
    calls,          \* calls the subsystem received
    handlers        \* where each execute request is

governanceVars == <<definitions, signatures, offers, requirements, decisions, executions, calls, handlers>>

Verdicts == {"approved", "rejected"}
Decisions == [integration : Integrations, decision : Verdicts, by : Actors]

\* A definition nobody decided about has nobody in approved_by.
Drafts == [status : {"draft"}]
Decided == [status : Verdicts, by : Actors]

\* What comes back from the subsystem: 200 with the value sent and the
\* executor expected; 200 with something else; or an error or a timeout.
Outcomes == {"confirmed", "divergent", "unanswered"}
Calls == [integration : Integrations, outcome : Outcomes, decided : Nat]

\* `call' stands for the execution id: the call it is about, 0 for the seed.
Executions == [call : Nat, integration : Integrations, status : {"completed", "failed"},
               result : {"confirmed", "divergent", "inconclusive"}, human : {"required", "none"}, decided : Nat]

NoHandler == [at |-> "idle"]
Handlers ==
    {NoHandler} \cup [at : {"approved"}, integration : Integrations]
           \cup [at : {"called"}, integration : Integrations, call : Nat]

\* The execution that migration 012 seeds along with its draft.
SeedExecution ==
    [call |-> 0, integration |-> Seeded, status |-> "completed",
     result |-> "inconclusive", human |-> "required", decided |-> 0]

\* Migration 012 seeds definitions as unsigned drafts; nothing is verified.
GovernanceInit ==
    /\ definitions = [i \in Integrations |-> [status |-> "draft"]]
    /\ signatures = {} /\ offers = {} /\ requirements = {}
    /\ decisions = <<>>
    /\ executions = {SeedExecution}
    /\ calls = <<>>
    /\ handlers = [r \in ExecuteRequests |-> NoHandler]

-----------------------------------------------------------------------------
\* Mutant: the signatures are enough, the status is not looked at.
ApprovedBySignature(i) ==
    i \in signatures /\ OfferOf[i] \in offers /\ RequirementOf[i] \in requirements

\* The condition of integrationApproved() and recordIntegrationExecution().
Approved(i) ==
    /\ definitions[i].status = "approved"
    /\ i \in signatures
    /\ OfferOf[i] \in offers
    /\ RequirementOf[i] \in requirements

\* CASE WHEN $3 = 'approved' THEN true ELSE signature_verified END
Verified(row, verdict, verified) ==
    IF verdict = "approved" THEN verified \cup {row} ELSE verified

\* Mutant: only approvals are recorded.
DecisionRecordApproved(i, verdict, a) ==
    decisions' = IF verdict = "approved"
                 THEN Append(decisions, [integration |-> i, decision |-> verdict, by |-> a])
                 ELSE decisions

DecisionRecord(i, verdict, a) ==
    decisions' = Append(decisions, [integration |-> i, decision |-> verdict, by |-> a])

\* decideIntegration(), applied; whether the answer reaches the client or the
\* connection is lost after the commit makes no difference here.
Decide(i, verdict, a) ==
    /\ Len(decisions) < MaxDecisions
    /\ definitions' = [definitions EXCEPT ![i] = [status |-> verdict, by |-> a]]
    /\ signatures' = Verified(i, verdict, signatures)
    /\ offers' = Verified(OfferOf[i], verdict, offers)
    /\ requirements' = Verified(RequirementOf[i], verdict, requirements)
    /\ DecisionRecord(i, verdict, a)
    /\ UNCHANGED <<executions, calls, handlers>>

\* The handler of execute finds the integration approved.  Otherwise, or
\* without the database, it answers 409 and nothing changes.
CheckApproved(r, i) ==
    /\ handlers[r] = NoHandler
    /\ Approved(i)
    /\ handlers' = [handlers EXCEPT ![r] = [at |-> "approved", integration |-> i]]
    /\ UNCHANGED <<definitions, signatures, offers, requirements, decisions, executions, calls>>

\* proxyToSubsystem(), with no lock held.
CallSubsystem(r, outcome) ==
    /\ handlers[r].at = "approved"
    /\ Len(calls) < MaxCalls
    /\ calls' = Append(calls, [integration |-> handlers[r].integration,
                               outcome |-> outcome, decided |-> Len(decisions)])
    /\ handlers' = [handlers EXCEPT ![r] =
          [at |-> "called", integration |-> @.integration, call |-> Len(calls) + 1]]
    /\ UNCHANGED <<definitions, signatures, offers, requirements, decisions, executions>>

Confirmed(call) == calls[call].outcome = "confirmed"

\* recordIntegrationExecution(): both rows, or none.
Record(r) ==
    /\ handlers[r].at = "called"
    /\ LET i == handlers[r].integration
           call == handlers[r].call
       IN  /\ Approved(i)
           /\ executions' = executions \cup
                 {[call |-> call, integration |-> i,
                   status |-> IF Confirmed(call) THEN "completed" ELSE "failed",
                   result |-> IF Confirmed(call) THEN "confirmed" ELSE "divergent",
                   human |-> IF Confirmed(call) THEN "none" ELSE "required", decided |-> Len(decisions)]}
    /\ handlers' = [handlers EXCEPT ![r] = NoHandler]
    /\ UNCHANGED <<definitions, signatures, offers, requirements, decisions, calls>>

\* The approval no longer stands, or the database cannot be reached: 409.
NotRecorded(r) ==
    /\ handlers[r].at = "called"
    /\ handlers' = [handlers EXCEPT ![r] = NoHandler]
    /\ UNCHANGED <<definitions, signatures, offers, requirements, decisions, executions, calls>>

\* sisterd stops or crashes, and comes back with no request in flight.
Restart ==
    /\ handlers' = [r \in ExecuteRequests |-> NoHandler]
    /\ UNCHANGED <<definitions, signatures, offers, requirements, decisions, executions, calls>>

GovernanceNext ==
    \/ \E i \in Integrations, v \in Verdicts, a \in Actors : Decide(i, v, a)
    \/ \E r \in ExecuteRequests, i \in Integrations : CheckApproved(r, i)
    \/ \E r \in ExecuteRequests, o \in Outcomes : CallSubsystem(r, o)
    \/ \E r \in ExecuteRequests : Record(r) \/ NotRecorded(r)
    \/ Restart

GovernanceSpec == GovernanceInit /\ [][GovernanceNext]_governanceVars

-----------------------------------------------------------------------------
GovernanceTypeOK ==
    /\ definitions \in [Integrations -> Drafts \cup Decided]
    /\ signatures \subseteq Integrations
    /\ offers \subseteq Offers
    /\ requirements \subseteq Requirements
    /\ decisions \in Seq(Decisions)
    /\ executions \subseteq Executions
    /\ calls \in Seq(Calls)
    /\ handlers \in [ExecuteRequests -> Handlers]

Recorded == executions \ {SeedExecution}

\* The first n decisions end, for integration i, in an approval.
ApprovedAfter(n, i) ==
    \E k \in 1..n :
        /\ decisions[k].integration = i
        /\ decisions[k].decision = "approved"
        /\ \A l \in (k + 1)..n : decisions[l].integration # i

(***************************************************************************)
(* All state has its type, and the trail of decisions accounts for the     *)
(* state of every definition: what status it has, and on whose authority,  *)
(* is what its last recorded decision says; a draft has none.  An approval *)
(* is in force until its own integration is rejected: deciding about       *)
(* another one that shares the offer or the requirement does not touch it. *)
(***************************************************************************)
TrailExplainsStatus ==
    /\ GovernanceTypeOK
    /\ \A i \in Integrations :
          /\ \/ /\ definitions[i].status = "draft"
                /\ \A k \in 1..Len(decisions) : decisions[k].integration # i
             \/ \E k \in 1..Len(decisions) :
                   /\ decisions[k] = [integration |-> i, decision |-> definitions[i].status,
                                      by |-> definitions[i].by]
                   /\ \A l \in (k + 1)..Len(decisions) : decisions[l].integration # i
          /\ definitions[i].status = "approved" => Approved(i)

(***************************************************************************)
(* The subsystem is called for an integration only after somebody approved *)
(* it: the lock is released between the look-up and the call, so it may    *)
(* have been rejected since, but it was never called on a mere draft.      *)
(* Nothing is recorded for an integration that was rejected by then, and   *)
(* every record is about a call that was made for that integration.  A     *)
(* call is recorded once at most, and as confirmed only if the subsystem   *)
(* returned the value and named itself; all else asks for a person.        *)
(***************************************************************************)
ActsUnderApproval ==
    /\ \A k \in 1..Len(calls) :
          \E n \in 1..calls[k].decided : ApprovedAfter(n, calls[k].integration)
    /\ \A e \in Recorded :
          /\ ApprovedAfter(e.decided, e.integration)
          /\ e.call \in 1..Len(calls) /\ calls[e.call].integration = e.integration
          /\ e.status = "completed" <=> calls[e.call].outcome = "confirmed"
          /\ e.result = "confirmed" <=> e.status = "completed"
          /\ e.human = "required" <=> e.status = "failed"
    /\ \A d, e \in Recorded : d.call = e.call => d = e
=============================================================================
