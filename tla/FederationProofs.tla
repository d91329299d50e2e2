-------------------------- MODULE FederationProofs --------------------------
(***************************************************************************)
(* What is kept of the federation, for any number of runs, clients,        *)
(* invocations and contracts: a run keeps to its contract, a contract that *)
(* a proposal was told is persisted is there and stays, and the local      *)
(* store shows the contracts that were accepted.                           *)
(***************************************************************************)
EXTENDS IntegrationRun, Participation, ParticipationStore, TLAPS

(***************************************************************************)
(* Runs of an integration.  Every order of transitions keeps a run within  *)
(* its contract and rewrites nothing.                                      *)
(***************************************************************************)
RunSpec == RunInit /\ [][RunNext]_runVars

\* How far a run has come is told by what it holds: nothing before it is authorized, no
\* start before it runs, no end before a terminal status.  A run that was not proposed
\* has nothing.
Progress(r) ==
    /\ r \notin proposed => execution[r] = "proposed" /\ validity[r] = "pending"
    /\ execution[r] = "proposed" => authorizedAt[r] = {} /\ startedAt[r] = {}
    /\ execution[r] # "proposed" => authorizedAt[r] # {}
    /\ execution[r] = "authorized" => startedAt[r] = {}
    /\ execution[r] \in {"proposed", "authorized", "running"} =>
          finishedAt[r] = {} /\ outputs[r] = {} /\ errors[r] = 0 /\ r \notin cancelled
    /\ execution[r] \in {"running", "completed", "failed", "cancelled", "superseded"} => startedAt[r] # {}
    /\ execution[r] = "completed" => outputs[r] # {} /\ errors[r] = 0 /\ r \notin cancelled
    /\ execution[r] = "failed" => outputs[r] = {} /\ errors[r] > 0 /\ r \notin cancelled
    /\ execution[r] = "cancelled" => outputs[r] = {} /\ errors[r] = 0 /\ r \in cancelled
    /\ execution[r] \in {"completed", "failed", "cancelled", "superseded"} => finishedAt[r] # {}
    /\ execution[r] = "superseded" =>
          /\ Len(successors[r]) > 0 /\ validity[r] = "superseded"
          /\ outputs[r] # {} \/ errors[r] > 0 \/ r \in cancelled
          /\ outputs[r] # {} => errors[r] = 0 /\ r \notin cancelled
          /\ errors[r] > 0 => r \notin cancelled
    /\ validity[r] \in {"valid", "invalid"} => execution[r] = "completed"

RunInv == RunTypeOK /\ \A r \in Runs : Progress(r)

-----------------------------------------------------------------------------
LEMMA RunInvInit == RunInit => RunInv
  <1> SUFFICES ASSUME RunInit PROVE RunInv OBVIOUS
  <1>1. RunTypeOK
    BY DEF RunInit, RunTypeOK, ExecutionStatus, ValidityStatus
  <1>2. ASSUME NEW r \in Runs PROVE Progress(r)
    BY Zenon DEF RunInit, Progress
  <1> QED BY <1>1, <1>2, Zenon DEF RunInv

\* A transition of another run leaves this one as it is.
Same(q) ==
    /\ q \in proposed' <=> q \in proposed
    /\ execution'[q] = execution[q] /\ validity'[q] = validity[q]
    /\ authorizedAt'[q] = authorizedAt[q] /\ startedAt'[q] = startedAt[q]
    /\ finishedAt'[q] = finishedAt[q] /\ outputs'[q] = outputs[q] /\ errors'[q] = errors[q]
    /\ q \in cancelled' <=> q \in cancelled
    /\ successors'[q] = successors[q]

LEMMA SameKeeps ==
  ASSUME NEW q \in Runs, Progress(q), Same(q)
  PROVE  Progress(q)'
  BY Zenon DEF Progress, Same

LEMMA SameIsKept ==
  ASSUME NEW q \in Runs, Same(q)
  PROVE  RecordKept(q)
  BY Zenon DEF RecordKept, Same

\* Each transition, from a run that tells its progress, leads to one that does, and
\* takes nothing back.
LEMMA StepOfOne ==
  ASSUME RunInv, NEW r \in Runs,
         \/ ProposeRun(r)
         \/ \E at \in Stamps : Authorize(r, at) \/ Start(r, at) \/ Fail(r, at) \/ Cancel(r, at)
         \/ \E at \in Stamps, a \in SUBSET Outputs : Complete(r, at, a)
         \/ \E verdict \in {"valid", "invalid"} : Judge(r, verdict)
         \/ \E s \in Runs : SupersedeExecution(r, s) \/ SupersedeValidity(r, s)
  PROVE  RunTypeOK' /\ Progress(r)' /\ RecordKept(r) /\ \A q \in Runs \ {r} : Same(q)
  <1> USE DEF ExecutionStatus, ValidityStatus
  <1>0. RunTypeOK /\ Progress(r)
    BY Zenon DEF RunInv
  <1>1. ASSUME ProposeRun(r)
       PROVE  RunTypeOK' /\ Progress(r)' /\ RecordKept(r) /\ \A q \in Runs \ {r} : Same(q)
    <2>1. RunTypeOK'
      BY <1>0, <1>1, Zenon DEF RunTypeOK, times, ProposeRun
    <2>2. Progress(r)'
      BY <1>0, <1>1, Zenon DEF RunTypeOK, Progress, times, ProposeRun
    <2>3. RecordKept(r)
      BY <1>0, <1>1, Zenon DEF RunTypeOK, Progress, RecordKept, times, ProposeRun
    <2>4. \A q \in Runs \ {r} : Same(q)
      BY <1>0, <1>1, Zenon DEF RunTypeOK, Same, times, ProposeRun
    <2> QED BY <2>1, <2>2, <2>3, <2>4, Zenon
  <1>2. ASSUME NEW at \in Stamps, Authorize(r, at)
       PROVE  RunTypeOK' /\ Progress(r)' /\ RecordKept(r) /\ \A q \in Runs \ {r} : Same(q)
    <2>1. RunTypeOK'
      BY <1>0, <1>2, Zenon DEF RunTypeOK, Moves, Authorize
    <2>2. Progress(r)'
      BY <1>0, <1>2, Zenon DEF RunTypeOK, Progress, Moves, Authorize
    <2>3. RecordKept(r)
      BY <1>0, <1>2, Zenon DEF RunTypeOK, Progress, RecordKept, Moves, Authorize
    <2>4. \A q \in Runs \ {r} : Same(q)
      BY <1>0, <1>2, Zenon DEF RunTypeOK, Same, Moves, Authorize
    <2> QED BY <2>1, <2>2, <2>3, <2>4, Zenon
  <1>3. ASSUME NEW at \in Stamps, Start(r, at)
       PROVE  RunTypeOK' /\ Progress(r)' /\ RecordKept(r) /\ \A q \in Runs \ {r} : Same(q)
    <2>1. RunTypeOK'
      BY <1>0, <1>3, Zenon DEF RunTypeOK, Moves, Startable, Start
    <2>2. Progress(r)'
      BY <1>0, <1>3, Zenon DEF RunTypeOK, Progress, Moves, Startable, Start
    <2>3. RecordKept(r)
      BY <1>0, <1>3, Zenon DEF RunTypeOK, Progress, RecordKept, Moves, Startable, Start
    <2>4. \A q \in Runs \ {r} : Same(q)
      BY <1>0, <1>3, Zenon DEF RunTypeOK, Same, Moves, Startable, Start
    <2> QED BY <2>1, <2>2, <2>3, <2>4, Zenon
  <1>4. ASSUME NEW at \in Stamps, Fail(r, at)
       PROVE  RunTypeOK' /\ Progress(r)' /\ RecordKept(r) /\ \A q \in Runs \ {r} : Same(q)
    <2>1. RunTypeOK'
      BY <1>0, <1>4 DEF RunTypeOK, Moves, Fail
    <2>2. Progress(r)'
      BY <1>0, <1>4 DEF RunTypeOK, Progress, Moves, Fail
    <2>3. RecordKept(r)
      BY <1>0, <1>4, Zenon DEF RunTypeOK, Progress, RecordKept, Moves, Fail
    <2>4. \A q \in Runs \ {r} : Same(q)
      BY <1>0, <1>4, Zenon DEF RunTypeOK, Same, Moves, Fail
    <2> QED BY <2>1, <2>2, <2>3, <2>4, Zenon
  <1>5. ASSUME NEW at \in Stamps, Cancel(r, at)
       PROVE  RunTypeOK' /\ Progress(r)' /\ RecordKept(r) /\ \A q \in Runs \ {r} : Same(q)
    <2>1. RunTypeOK'
      BY <1>0, <1>5, Zenon DEF RunTypeOK, Moves, Cancel
    <2>2. Progress(r)'
      BY <1>0, <1>5, Zenon DEF RunTypeOK, Progress, Moves, Cancel
    <2>3. RecordKept(r)
      BY <1>0, <1>5, Zenon DEF RunTypeOK, Progress, RecordKept, Moves, Cancel
    <2>4. \A q \in Runs \ {r} : Same(q)
      BY <1>0, <1>5, Zenon DEF RunTypeOK, Same, Moves, Cancel
    <2> QED BY <2>1, <2>2, <2>3, <2>4, Zenon
  <1>6. ASSUME NEW at \in Stamps, NEW a \in SUBSET Outputs, Complete(r, at, a)
       PROVE  RunTypeOK' /\ Progress(r)' /\ RecordKept(r) /\ \A q \in Runs \ {r} : Same(q)
    <2>1. RunTypeOK'
      BY <1>0, <1>6, Zenon DEF RunTypeOK, Moves, Completable, Complete
    <2>2. Progress(r)'
      BY <1>0, <1>6, Zenon DEF RunTypeOK, Progress, Moves, Completable, Complete
    <2>3. RecordKept(r)
      BY <1>0, <1>6, Zenon DEF RunTypeOK, Progress, RecordKept, Moves, Completable, Complete
    <2>4. \A q \in Runs \ {r} : Same(q)
      BY <1>0, <1>6, Zenon DEF RunTypeOK, Same, Moves, Completable, Complete
    <2> QED BY <2>1, <2>2, <2>3, <2>4, Zenon
  <1>7. ASSUME NEW verdict \in {"valid", "invalid"}, Judge(r, verdict)
       PROVE  RunTypeOK' /\ Progress(r)' /\ RecordKept(r) /\ \A q \in Runs \ {r} : Same(q)
    <2>1. RunTypeOK'
      BY <1>0, <1>7, Zenon DEF RunTypeOK, times, Judgeable, Judge
    <2>2. Progress(r)'
      BY <1>0, <1>7, Zenon DEF RunTypeOK, Progress, times, Judgeable, Judge
    <2>3. RecordKept(r)
      BY <1>0, <1>7, Zenon DEF RunTypeOK, Progress, RecordKept, times, Judgeable, Judge
    <2>4. \A q \in Runs \ {r} : Same(q)
      BY <1>0, <1>7, Zenon DEF RunTypeOK, Same, times, Judgeable, Judge
    <2> QED BY <2>1, <2>2, <2>3, <2>4, Zenon
  <1>8. ASSUME NEW s \in Runs, SupersedeExecution(r, s)
       PROVE  RunTypeOK' /\ Progress(r)' /\ RecordKept(r) /\ \A q \in Runs \ {r} : Same(q)
    <2>1. RunTypeOK'
      BY <1>0, <1>8 DEF RunTypeOK, Moves, times, Terminal, ValidityEnds, Superseded, SupersedeExecution
    <2>2. Progress(r)'
      BY <1>0, <1>8 DEF RunTypeOK, Progress, Moves, times, Terminal, ValidityEnds, Superseded, SupersedeExecution
    <2>3. RecordKept(r)
      BY <1>0, <1>8 DEF RunTypeOK, Progress, RecordKept, Moves, times, Terminal, ValidityEnds, Superseded, SupersedeExecution
    <2>4. \A q \in Runs \ {r} : Same(q)
      BY <1>0, <1>8, Zenon DEF RunTypeOK, Same, Moves, times, Terminal, ValidityEnds, Superseded, SupersedeExecution
    <2> QED BY <2>1, <2>2, <2>3, <2>4, Zenon
  <1>9. ASSUME NEW s \in Runs, SupersedeValidity(r, s)
       PROVE  RunTypeOK' /\ Progress(r)' /\ RecordKept(r) /\ \A q \in Runs \ {r} : Same(q)
    <2>1. RunTypeOK'
      BY <1>0, <1>9 DEF RunTypeOK, times, Superseded, SupersedeValidity
    <2>2. Progress(r)'
      BY <1>0, <1>9, Zenon DEF RunTypeOK, Progress, times, Superseded, SupersedeValidity
    <2>3. RecordKept(r)
      BY <1>0, <1>9 DEF RunTypeOK, Progress, RecordKept, times, Superseded, SupersedeValidity
    <2>4. \A q \in Runs \ {r} : Same(q)
      BY <1>0, <1>9, Zenon DEF RunTypeOK, Same, times, Superseded, SupersedeValidity
    <2> QED BY <2>1, <2>2, <2>3, <2>4, Zenon
  <1> QED BY <1>1, <1>2, <1>3, <1>4, <1>5, <1>6, <1>7, <1>8, <1>9, Zenon

LEMMA RunStep ==
  ASSUME RunInv, RunNext
  PROVE  RunInv' /\ \A q \in Runs : RecordKept(q)
  <1>1. PICK r \in Runs : RunTypeOK' /\ Progress(r)' /\ RecordKept(r) /\ \A q \in Runs \ {r} : Same(q)
    BY StepOfOne, Zenon DEF RunNext
  <1>2. ASSUME NEW q \in Runs PROVE Progress(q)' /\ RecordKept(q)
    BY <1>1, SameKeeps, SameIsKept, Zenon DEF RunInv
  <1> QED BY <1>1, <1>2, Zenon DEF RunInv

LEMMA RunStutter ==
  ASSUME RunInv, UNCHANGED runVars
  PROVE  RunInv'
  BY DEF RunInv, RunTypeOK, Progress, runVars

\* RunInv says at least what the contract asks of a run.
LEMMA ContractFollows == RunInv => MeetsContract
  <1> SUFFICES ASSUME RunInv PROVE MeetsContract OBVIOUS
  <1>1. RunTypeOK
    BY Zenon DEF RunInv
  <1>2. ASSUME NEW r \in proposed
        PROVE  r \in Runs /\ Progress(r)
    BY Zenon DEF RunInv, RunTypeOK
  <1> QED BY <1>1, <1>2 DEF MeetsContract, RunTypeOK, Progress, ExecutionStatus, ValidityStatus

-----------------------------------------------------------------------------
\* Whatever order of transitions transitionExecution() and transitionValidity() accept,
\* every run satisfies the lifecycle rules of its published contract.
THEOREM RunsMeetContract == RunSpec => []MeetsContract
  <1>1. RunInv /\ [RunNext]_runVars => RunInv'
    BY RunStep, RunStutter, Zenon
  <1> QED BY <1>1, RunInvInit, ContractFollows, PTL DEF RunSpec

\* No transition takes back a timestamp, an output, an error, a successor or a judgement
\* of a run, except that supersession ends a judgement.
THEOREM RunsAreNotRewritten == RunSpec => NothingRewritten
  <1>1. RunInv /\ [RunNext]_runVars => RunInv'
    BY RunStep, RunStutter, Zenon
  <1>2. RunInv /\ [RunNext]_runVars => [RecordsKept]_runVars
    BY RunStep, Zenon DEF RecordsKept
  <1> QED BY <1>1, <1>2, RunInvInit, PTL DEF RunSpec, NothingRewritten

-----------------------------------------------------------------------------
(***************************************************************************)
(* Proposals of participation.  The request that holds dbMutex is the only *)
(* one between the service's checks and its answer, so a row it stored is  *)
(* still there when it answers.                                            *)
(***************************************************************************)
Registered(id) == id \in Ids /\ contracts[id] # None

ParticipationInv ==
    /\ ParticipationTypeOK
    /\ \A c \in Clients : request[c].op = "propose" /\ request[c].at # "checks" =>
          dbMutex = c /\ Acceptable(request[c].contract)
    /\ \A c \in Clients : At(c, "stored") =>
          contracts[request[c].contract.id] = Row(request[c].contract, c)
    /\ \A c \in Clients : request[c].op = "show" => \A id \in request[c].known : Registered(id)
    /\ \A row \in receipts : row.contract.id \in Ids /\ contracts[row.contract.id] = row
    /\ \A c \in Clients : answer[c] # "404_known"

LEMMA ParticipationInvInit == ParticipationInit => ParticipationInv
  BY NoneAssumption DEF ParticipationInit, ParticipationInv, ParticipationTypeOK, RequestType,
     NoRequest, At

\* A request as it may stand, and what its fields are.
LEMMA RequestFields ==
  ASSUME ParticipationTypeOK, NEW c \in Clients
  PROVE  /\ request[c] \in RequestType
         /\ request[c].op = "propose" =>
               /\ request[c] \in [op : {"propose"}, contract : Contracts,
                                  at : {"checks", "insert", "stored", "failed"}]
               /\ request[c].contract \in Contracts
         /\ request[c].op = "show" => request[c].id \in Ids /\ request[c].known \subseteq Ids
  <1>1. request[c] \in RequestType
    BY Zenon DEF ParticipationTypeOK
  <1>2. CASE request[c] = NoRequest
    <2>1. NoRequest.op = "none"
      BY DEF NoRequest
    <2> QED BY <1>1, <1>2, <2>1, Zenon
  <1>3. CASE request[c] \in [op : {"propose"}, contract : Contracts,
                             at : {"checks", "insert", "stored", "failed"}]
    BY <1>1, <1>3, Zenon
  <1>4. CASE request[c] \in [op : {"show"}, id : Ids, known : SUBSET Ids]
    BY <1>1, <1>4, Zenon
  <1> QED BY <1>1, <1>2, <1>3, <1>4, Zenon DEF RequestType

\* An acceptable contract has an identifier.
LEMMA AcceptableNamed ==
  ASSUME NEW contract \in Contracts, Acceptable(contract)
  PROVE  contract.id \in Ids
  BY ContractsAssumption, Zenon DEF Acceptable, ContractType

LEMMA MovedProposal ==
  ASSUME ParticipationTypeOK, NEW c \in Clients, request[c].op = "propose",
         NEW where \in {"insert", "stored", "failed"}
  PROVE  /\ [request[c] EXCEPT !.at = where] \in RequestType
         /\ [request[c] EXCEPT !.at = where].op = "propose"
         /\ [request[c] EXCEPT !.at = where].at = where
         /\ [request[c] EXCEPT !.at = where].contract = request[c].contract
  BY RequestFields, Zenon DEF RequestType

\* Contracts stay as they are; the request of one client becomes `new'.
LEMMA RequestStep ==
  ASSUME ParticipationInv, NEW c \in Clients, NEW new \in RequestType,
         request' = [request EXCEPT ![c] = new],
         contracts' = contracts, receipts' = receipts, assessments' = assessments,
         dbMutex' \in Clients \cup {None}, dbMutex' # None => dbMutex' = c \/ dbMutex' = dbMutex,
         dbMutex' = c => new.op = "propose",
         dbMutex = c \/ dbMutex = None \/ dbMutex' = dbMutex,
         new.op = "propose" /\ new.at # "checks" => dbMutex' = c /\ Acceptable(new.contract),
         new.op = "propose" => new.at # "stored",
         new.op = "show" => \A id \in new.known : Registered(id),
         answer' \in [Clients -> {"none", "gave_up", "201", "400", "503", "200", "404"}]
  PROVE  ParticipationInv'
  <1>1. \A b \in Clients : request'[b] = IF b = c THEN new ELSE request[b]
    BY Zenon DEF ParticipationInv, ParticipationTypeOK
  <1>2. ParticipationTypeOK'
    BY <1>1, ZenonT(40) DEF ParticipationInv, ParticipationTypeOK
  <1>3. ASSUME NEW b \in Clients, request'[b].op = "propose", request'[b].at # "checks"
        PROVE  dbMutex' = b /\ Acceptable(request'[b].contract)
    <2>1. CASE b = c
      BY <1>1, <1>3, <2>1, Zenon
    <2>2. CASE b # c
      <3>1. dbMutex = b /\ Acceptable(request[b].contract) /\ request'[b] = request[b]
        BY <1>1, <1>3, <2>2 DEF ParticipationInv
      <3> QED BY <2>2, <3>1, NoneAssumption, Zenon
    <2> QED BY <2>1, <2>2, Zenon
  <1>4. \A b \in Clients : (At(b, "stored") =>
          contracts[request[b].contract.id] = Row(request[b].contract, b))'
    BY <1>1 DEF ParticipationInv, At, Row
  <1>5. \A b \in Clients : (request[b].op = "show" => \A id \in request[b].known : Registered(id))'
    BY <1>1 DEF ParticipationInv, Registered
  <1>6. (\A row \in receipts : row.contract.id \in Ids /\ contracts[row.contract.id] = row)'
    BY Zenon DEF ParticipationInv
  <1> QED BY <1>2, <1>3, <1>4, <1>5, <1>6, Zenon DEF ParticipationInv, Acceptable

LEMMA ToldPlain ==
  ASSUME ParticipationInv, NEW c \in Clients, NEW status \in {"201", "400", "503", "200", "404"},
         Told(c, status)
  PROVE  answer' \in [Clients -> {"none", "gave_up", "201", "400", "503", "200", "404"}]
  BY DEF ParticipationInv, ParticipationTypeOK, Told

LEMMA AnswersPlain ==
  ASSUME ParticipationInv
  PROVE  /\ answer \in [Clients -> {"none", "gave_up", "201", "400", "503", "200", "404"}]
         /\ NoRequest \in RequestType /\ NoRequest.op = "none"
  BY Zenon DEF ParticipationInv, ParticipationTypeOK, RequestType, NoRequest

LEMMA ClientStepKeeps ==
  ASSUME ParticipationInv, NEW c \in Clients, ClientStep(c)
  PROVE  ParticipationInv' /\ contracts' = contracts
  <1> USE AnswersPlain
  <1>1. request[c] = NoRequest => dbMutex # c
    BY NoneAssumption, Zenon DEF ParticipationInv, ParticipationTypeOK, NoRequest
  <1>2. ASSUME NEW contract \in Contracts, Propose(c, contract) PROVE ParticipationInv'
    <2>1. /\ Proposal(contract) \in RequestType
          /\ Proposal(contract).op = "propose" /\ Proposal(contract).at = "checks"
      BY Zenon DEF Proposal, RequestType
    <2>2. answer' \in [Clients -> {"none", "gave_up", "201", "400", "503", "200", "404"}]
      BY <1>2, Zenon DEF Propose
    <2>3. request' = [request EXCEPT ![c] = Proposal(contract)] /\ dbMutex \in Clients \cup {None}
      BY <1>2, Zenon DEF Propose, ParticipationInv, ParticipationTypeOK
    <2> QED BY <1>1, <1>2, <2>1, <2>2, <2>3, RequestStep, Zenon DEF Propose
  <1>3. ASSUME NEW id \in Ids, Show(c, id) PROVE ParticipationInv'
    <2>1. \A known \in Known : Registered(known)
      <3> SUFFICES ASSUME NEW row \in receipts PROVE Registered(row.contract.id)
        BY Zenon DEF Known
      <3>1. row.contract.id \in Ids /\ contracts[row.contract.id] = row /\ row # None
        BY NoneAssumption, Zenon DEF ParticipationInv, ParticipationTypeOK
      <3> QED BY <3>1, Zenon DEF Registered
    <2>2. /\ Reading(id, Known) \in RequestType /\ Reading(id, Known).op = "show"
          /\ Reading(id, Known).known = Known
      BY <2>1, Zenon DEF Reading, RequestType, Registered
    <2>3. answer' \in [Clients -> {"none", "gave_up", "201", "400", "503", "200", "404"}]
      BY <1>3, Zenon DEF Show
    <2>4. request' = [request EXCEPT ![c] = Reading(id, Known)] /\ dbMutex \in Clients \cup {None}
      BY <1>3, Zenon DEF Show, ParticipationInv, ParticipationTypeOK
    <2> QED BY <1>1, <1>3, <2>1, <2>2, <2>3, <2>4, RequestStep, Zenon DEF Show
  <1>4. CASE GiveUp(c)
    <2>1. answer' \in [Clients -> {"none", "gave_up", "201", "400", "503", "200", "404"}]
      BY <1>4, Zenon DEF GiveUp
    <2>2. ParticipationTypeOK' /\ \A b \in Clients : answer'[b] # "404_known"
      BY <1>4, <2>1, Zenon DEF GiveUp, ParticipationInv, ParticipationTypeOK
    <2> QED BY <1>4, <2>2, Zenon DEF GiveUp, ParticipationInv, At, Registered, Row, Acceptable
  <1> QED BY <1>2, <1>3, <1>4, Zenon DEF ClientStep, Propose, Show, GiveUp

LEMMA CheckKeeps ==
  ASSUME ParticipationInv, NEW c \in Clients, Check(c)
  PROVE  ParticipationInv'
  <1>1. request[c].op = "propose" /\ request[c].at = "checks" /\ dbMutex = None /\ c # None
    BY NoneAssumption, Zenon DEF Check, At
  <1>2. CASE Acceptable(request[c].contract)
    <2> DEFINE new == [request[c] EXCEPT !.at = "insert"]
    <2>1. /\ new \in RequestType /\ new.op = "propose" /\ new.at = "insert"
          /\ new.contract = request[c].contract
      BY <1>1, MovedProposal, Zenon DEF ParticipationInv
    <2>2. request' = [request EXCEPT ![c] = new] /\ dbMutex' = c /\ answer' = answer
      BY <1>2, Zenon DEF Check
    <2> HIDE DEF new
    <2> QED BY <1>1, <1>2, <2>1, <2>2, AnswersPlain, RequestStep, Zenon DEF Check
  <1>3. CASE ~Acceptable(request[c].contract)
    <2>1. request' = [request EXCEPT ![c] = NoRequest] /\ dbMutex' = dbMutex /\ Told(c, "400")
      BY <1>3, Zenon DEF Check
    <2>2. answer' \in [Clients -> {"none", "gave_up", "201", "400", "503", "200", "404"}]
      BY <2>1, ToldPlain, Zenon
    <2> QED BY <1>1, <2>1, <2>2, AnswersPlain, RequestStep, Zenon DEF Check
  <1> QED BY <1>2, <1>3, Zenon

LEMMA NotStoredKeeps ==
  ASSUME ParticipationInv, NEW c \in Clients,
         request[c].op = "propose", request[c].at \in {"insert", "stored"},
         request' = [request EXCEPT ![c].at = "failed"],
         UNCHANGED <<contracts, assessments, dbMutex, answer, receipts>>
  PROVE  ParticipationInv'
  <1> DEFINE new == [request[c] EXCEPT !.at = "failed"]
  <1>1. /\ new \in RequestType /\ new.op = "propose" /\ new.at = "failed"
        /\ new.contract = request[c].contract
    BY MovedProposal, Zenon DEF ParticipationInv
  <1>2. request' = [request EXCEPT ![c] = new]
    OBVIOUS
  <1>3. dbMutex = c /\ Acceptable(request[c].contract)
    BY Zenon DEF ParticipationInv
  <1> HIDE DEF new
  <1> QED BY <1>1, <1>2, <1>3, AnswersPlain, RequestStep, Zenon

LEMMA InsertKeeps ==
  ASSUME ParticipationInv, NEW c \in Clients, Insert(c)
  PROVE  ParticipationInv' /\ \A id \in Ids : contracts[id] # None => contracts'[id] = contracts[id]
  <1> DEFINE contract == request[c].contract
             row == Row(contract, c)
             new == [request[c] EXCEPT !.at = "stored"]
  <1>1. /\ request[c].op = "propose" /\ request[c].at = "insert"
        /\ UNCHANGED <<assessments, dbMutex, answer, receipts>>
    BY Zenon DEF Insert, At
  <1>2. dbMutex = c /\ Acceptable(contract) /\ contract \in Contracts
    BY <1>1, RequestFields, Zenon DEF ParticipationInv
  <1>3. contract.id \in Ids
    BY <1>2, AcceptableNamed, Zenon
  <1>4. CASE contracts[contract.id] # None
    <2>1. request' = [request EXCEPT ![c].at = "failed"] /\ contracts' = contracts
      BY <1>4, Zenon DEF Insert, Stored
    <2> QED BY <1>1, <2>1, NotStoredKeeps, Zenon
  <1>5. CASE contracts[contract.id] = None
    <2>1. contracts' = [contracts EXCEPT ![contract.id] = row] /\ request' = [request EXCEPT ![c] = new]
      BY <1>5, Zenon DEF Insert, Stored
    <2>2. new \in RequestType /\ new.op = "propose" /\ new.at = "stored" /\ new.contract = contract
      BY <1>1, MovedProposal, Zenon DEF ParticipationInv
    <2>3. row \in [contract : Contracts, by : Clients] /\ row # None
      BY <1>2, NoneAssumption DEF Row
    <2> HIDE DEF new
    <2>4. /\ \A b \in Clients : request'[b] = IF b = c THEN new ELSE request[b]
          /\ \A id \in Ids : contracts'[id] = IF id = contract.id THEN row ELSE contracts[id]
      BY <1>3, <2>1, Zenon DEF ParticipationInv, ParticipationTypeOK
    <2>5. ParticipationTypeOK'
      BY <1>1, <1>2, <1>3, <2>1, <2>2, <2>3, Zenon DEF ParticipationInv, ParticipationTypeOK
    <2>6. ASSUME NEW b \in Clients, request'[b].op = "propose", request'[b].at # "checks"
          PROVE  b = c
      BY <1>2, <2>4, <2>6, Zenon DEF ParticipationInv
    <2>7. \A b \in Clients : request'[b].op = "show" => request'[b] = request[b]
      BY <2>2, <2>4, Zenon
    <2>8. \A id \in Ids : contracts[id] # None => contracts'[id] = contracts[id]
      BY <1>5, <2>4, Zenon
    <2>9. \A id : Registered(id) => Registered(id)'
      BY <2>8, Zenon DEF Registered
    <2>10. ASSUME NEW held \in receipts
           PROVE  held.contract.id \in Ids /\ contracts'[held.contract.id] = held
      <3>1. held.contract.id \in Ids /\ contracts[held.contract.id] = held /\ held # None
        BY NoneAssumption, Zenon DEF ParticipationInv, ParticipationTypeOK
      <3> QED BY <2>8, <3>1, Zenon
    <2>11. \A b \in Clients : (request[b].op = "propose" /\ request[b].at # "checks" =>
              dbMutex = b /\ Acceptable(request[b].contract))'
      BY <1>1, <1>2, <2>2, <2>4, <2>6, Zenon DEF Acceptable
    <2>12. \A b \in Clients : (At(b, "stored") =>
              contracts[request[b].contract.id] = Row(request[b].contract, b))'
      <3> SUFFICES ASSUME NEW b \in Clients, At(b, "stored")'
                   PROVE  contracts'[request'[b].contract.id] = Row(request'[b].contract, b)
        BY Zenon DEF Row
      <3>1. b = c
        BY <2>6, Zenon DEF At
      <3>2. request'[b].contract = contract
        BY <2>2, <2>4, <3>1, Zenon
      <3> QED BY <1>3, <2>4, <3>1, <3>2, Zenon
    <2>13. \A b \in Clients : (request[b].op = "show" => \A id \in request[b].known : Registered(id))'
      BY <2>7, <2>9, Zenon DEF ParticipationInv
    <2> QED BY <1>1, <2>5, <2>8, <2>10, <2>11, <2>12, <2>13, Zenon DEF ParticipationInv
  <1> QED BY <1>4, <1>5, Zenon

LEMMA UnavailableKeeps ==
  ASSUME ParticipationInv, NEW c \in Clients, Unavailable(c)
  PROVE  ParticipationInv'
  <1>1. request[c].op = "propose" /\ request[c].at = "failed" /\ dbMutex' = None /\ Told(c, "503")
    BY Zenon DEF Unavailable, At
  <1>2. dbMutex = c /\ c # None
    BY <1>1, NoneAssumption, Zenon DEF ParticipationInv
  <1>3. answer' \in [Clients -> {"none", "gave_up", "201", "400", "503", "200", "404"}]
    BY <1>1, ToldPlain, Zenon
  <1> QED BY <1>1, <1>2, <1>3, AnswersPlain, RequestStep, Zenon DEF Unavailable

LEMMA CreatedKeeps ==
  ASSUME ParticipationInv, NEW c \in Clients, Created(c)
  PROVE  ParticipationInv'
  <1> DEFINE row == Row(request[c].contract, c)
  <1>1. /\ request[c].op = "propose" /\ request[c].at = "stored" /\ dbMutex' = None /\ Told(c, "201")
        /\ request' = [request EXCEPT ![c] = NoRequest] /\ contracts' = contracts
        /\ assessments' = assessments /\ receipts' \subseteq receipts \cup {row}
    BY Zenon DEF Created, At
  <1>2. /\ dbMutex = c /\ c # None /\ Acceptable(request[c].contract)
        /\ contracts[request[c].contract.id] = row
    BY <1>1, NoneAssumption, Zenon DEF ParticipationInv, At
  <1>3. request[c].contract \in Contracts /\ request[c].contract.id \in Ids
    BY <1>1, <1>2, RequestFields, AcceptableNamed, Zenon DEF ParticipationInv
  <1>4. answer' \in [Clients -> {"none", "gave_up", "201", "400", "503", "200", "404"}]
    BY <1>1, ToldPlain, Zenon
  <1>5. row \in [contract : Contracts, by : Clients] /\ row.contract = request[c].contract
    BY <1>3, Zenon DEF Row
  <1> HIDE DEF row
  <1>6. \A held \in receipts' : held.contract.id \in Ids /\ contracts'[held.contract.id] = held
    BY <1>1, <1>2, <1>3, <1>5, Zenon DEF ParticipationInv
  <1>7. \A b \in Clients : request'[b] = IF b = c THEN NoRequest ELSE request[b]
    BY <1>1, Zenon DEF ParticipationInv, ParticipationTypeOK
  <1>8. ParticipationTypeOK'
    BY <1>1, <1>4, <1>5, AnswersPlain, ZenonT(40) DEF ParticipationInv, ParticipationTypeOK
  <1>9. \A b \in Clients : ~ (request'[b].op = "propose" /\ request'[b].at # "checks")
    BY <1>2, <1>7, AnswersPlain DEF ParticipationInv
  <1>10. \A b \in Clients : (request[b].op = "show" => \A id \in request[b].known : Registered(id))'
    BY <1>1, <1>7, AnswersPlain DEF ParticipationInv, Registered
  <1> QED BY <1>4, <1>6, <1>8, <1>9, <1>10, Zenon DEF ParticipationInv, At

\* The query never misses a row that was registered before the reading.
LEMMA AnswerKeeps ==
  ASSUME ParticipationInv, NEW c \in Clients, NEW found \in {"result", "failed"}, Answer(c, found)
  PROVE  ParticipationInv'
  <1> DEFINE status == Query(request[c].id, found)
  <1>1. /\ request[c].op = "show" /\ dbMutex = None /\ dbMutex' = None
        /\ request' = [request EXCEPT ![c] = NoRequest]
        /\ Told(c, IF status = "404" /\ request[c].id \in request[c].known THEN "404_known" ELSE status)
    BY Zenon DEF Answer
  <1>2. c # None
    BY NoneAssumption, Zenon
  <1>3. status \in {"503", "404", "200"} /\ (status = "404" => contracts[request[c].id] = None)
    BY Zenon DEF Query
  <1> HIDE DEF status
  <1>4. ~ (status = "404" /\ request[c].id \in request[c].known)
    BY <1>1, <1>3, Zenon DEF ParticipationInv, Registered
  <1>5. answer' \in [Clients -> {"none", "gave_up", "201", "400", "503", "200", "404"}]
    BY <1>1, <1>3, <1>4, ToldPlain, Zenon
  <1> QED BY <1>1, <1>2, <1>5, AnswersPlain, RequestStep, Zenon DEF Answer

LEMMA AssessmentKeeps ==
  ASSUME ParticipationInv, NEW a \in Assessments, RecordTechnicalAssessment(a)
  PROVE  ParticipationInv'
  <1>1. ParticipationTypeOK'
    BY Zenon DEF RecordTechnicalAssessment, ParticipationInv, ParticipationTypeOK
  <1> QED BY <1>1, ZenonT(40) DEF RecordTechnicalAssessment, ParticipationInv, At, Registered, Row, Acceptable

\* Every step keeps the invariant, and every row.
LEMMA ParticipationInvStep ==
  ASSUME ParticipationInv, [ParticipationNext]_participationVars
  PROVE  /\ ParticipationInv'
         /\ \A id \in Ids : contracts[id] # None => contracts'[id] = contracts[id]
  <1>1. CASE UNCHANGED participationVars
    BY <1>1, Zenon DEF participationVars, ParticipationInv, ParticipationTypeOK, At, Registered, Row, Acceptable
  <1>2. ASSUME NEW c \in Clients, ClientStep(c)
        PROVE  ParticipationInv' /\ contracts' = contracts
    BY <1>2, ClientStepKeeps, Zenon
  <1>3. ASSUME NEW c \in Clients, Insert(c)
        PROVE  /\ ParticipationInv'
               /\ \A id \in Ids : contracts[id] # None => contracts'[id] = contracts[id]
    BY <1>3, InsertKeeps, Zenon
  <1>4. ASSUME NEW c \in Clients, HandlerStep(c), ~Insert(c)
        PROVE  ParticipationInv' /\ contracts' = contracts
    <2>1. CASE Check(c)
      BY <2>1, CheckKeeps, Zenon DEF Check
    <2>2. CASE InsertNotSent(c) \/ ResultLost(c)
      BY <2>2, NotStoredKeeps, Zenon DEF InsertNotSent, ResultLost, At
    <2>3. CASE Created(c)
      BY <2>3, CreatedKeeps, Zenon DEF Created
    <2>4. CASE Unavailable(c)
      BY <2>4, UnavailableKeeps, Zenon DEF Unavailable
    <2>5. ASSUME NEW found \in {"result", "failed"}, Answer(c, found)
          PROVE  ParticipationInv' /\ contracts' = contracts
      BY <2>5, AnswerKeeps, Zenon DEF Answer
    <2> QED BY <1>4, <2>1, <2>2, <2>3, <2>4, <2>5, Zenon DEF HandlerStep
  <1>5. ASSUME NEW a \in Assessments, RecordTechnicalAssessment(a)
        PROVE  ParticipationInv' /\ contracts' = contracts
    BY <1>5, AssessmentKeeps, Zenon DEF RecordTechnicalAssessment
  <1> QED BY <1>1, <1>2, <1>3, <1>4, <1>5, Zenon DEF ParticipationNext

\* A client that was told 201 has its own contract in the table, and nobody who asks
\* afterwards is told that there is none: for any clients and contracts, and wherever the
\* connection breaks.
THEOREM ReceiptsAreStored == ParticipationSpec => []ReceiptIsStored
  <1>1. ParticipationInv => ReceiptIsStored
    BY Zenon DEF ParticipationInv, ReceiptIsStored
  <1>2. ParticipationInv /\ [ParticipationNext]_participationVars => ParticipationInv'
    BY ParticipationInvStep, Zenon
  <1> QED BY <1>1, <1>2, ParticipationInvInit, PTL DEF ParticipationSpec

\* No step alters or removes a persisted contract.
THEOREM ContractsAreKept == ParticipationSpec => NeverRewritten
  <1> DEFINE StaysPersisted == \A id \in Ids : contracts[id] # None => contracts'[id] = contracts[id]
  <1>1. ParticipationInv /\ [ParticipationNext]_participationVars
            => ParticipationInv' /\ [StaysPersisted]_participationVars
    BY ParticipationInvStep, Zenon
  <1> QED BY <1>1, ParticipationInvInit, PTL DEF ParticipationSpec, NeverRewritten

-----------------------------------------------------------------------------
(***************************************************************************)
(* The local store.  A file's inode is named after the invocation that     *)
(* made it, and only invocations of that identifier ever reach it.  While  *)
(* an identifier is not contended one invocation at a time is registering  *)
(* it, so its temporary file and its destination are its own.              *)
(***************************************************************************)
Writers == {"open", "write", "chmod", "replace"}

\* The inode i is a file of the identifier id: its maker registered id, and whatever is
\* in it is an accepted contract of id.
IsFile(i, id) ==
    /\ source[i] # Absent /\ source[i].id = id
    /\ pc[i] \notin {"new", "validate", "exists", "open"}
    /\ inodes[i] # Absent
    /\ inodes[i] # Partial => inodes[i].valid /\ inodes[i].id = id
Files == {f \in Processes \X FileIds : IsFile(f[1], f[2])}
FileOf(i, id) == <<i, id>> \in Files

Accepted(p) == pc[p] \in Writers \cup {"exists", "registered"} => source[p] # Absent /\ source[p].valid

\* What the files of an identifier that was never contended are: one invocation at a
\* time registers it, and ...
Alone(id) == \A p, q \in Running : source[p].id = id /\ source[q].id = id => p = q

\* ... this holds for each of its invocations.
OneOf(id, p) ==
    /\ pc[p] \in Writers => destination[id] = Absent
    /\ pc[p] = "write" => handle[p] = temporary[id]
    /\ pc[p] \in {"chmod", "replace"} => temporary[id] # Absent /\ inodes[temporary[id]] = source[p]
    /\ pc[p] = "registered" => Contents(id) = source[p]

OneAtATime(id) ==
    /\ Alone(id) /\ Contents(id) # Partial
    /\ \A p \in Processes : source[p] # Absent /\ source[p].id = id => OneOf(id, p)

\* The names in the store lead to files of their identifiers, and so do open files.
NamesHold ==
    /\ \A id \in FileIds : temporary[id] # Absent => FileOf(temporary[id], id)
    /\ \A id \in FileIds : destination[id] # Absent =>
          FileOf(destination[id], id) /\ destination[id] # temporary[id]
HandlesHold == \A p \in Processes : handle[p] # Absent => FileOf(handle[p], source[p].id)

NewHasNone == \A p \in Processes : pc[p] = "new" => source[p] = Absent
AllAccepted == \A p \in Processes : Accepted(p)
RegisteredStays == \A p \in Processes : pc[p] = "registered" => destination[source[p].id] # Absent
UncontendedHold == \A id \in FileIds \ contended : OneAtATime(id)

\* A file that two invocations had open is one of an identifier they contended for.
SharedHold == \A p \in shared : source[p] # Absent /\ source[p].id \in contended

StoreInv ==
    /\ StoreTypeOK
    /\ NewHasNone /\ AllAccepted /\ RegisteredStays
    /\ NamesHold /\ HandlesHold /\ UncontendedHold /\ SharedHold

Places == {"new", "validate", "exists", "open", "write", "chmod", "replace",
           "registered", "refused", "killed"}
Over == {"new", "registered", "refused", "killed"}

LEMMA FilesAre ==
  ASSUME NEW i, NEW id
  PROVE  /\ FileOf(i, id) <=> i \in Processes /\ id \in FileIds /\ IsFile(i, id)
         /\ FileOf(i, id)' <=> i \in Processes /\ id \in FileIds /\ IsFile(i, id)'
  BY Zenon DEF FileOf, Files

LEMMA StoreInvInit == StoreInit => StoreInv
  <1> SUFFICES ASSUME StoreInit PROVE StoreInv
    OBVIOUS
  <1>1. Running = {}
    BY Zenon DEF StoreInit, Running
  <1>3. StoreTypeOK
    BY <1>1, Zenon DEF StoreInit, StoreTypeOK
  <1>4. \A id \in FileIds : OneAtATime(id)
    BY <1>1, FilesAssumption, Zenon DEF StoreInit, OneAtATime, Alone, OneOf, Contents
  <1>5. \A p \in Processes : Accepted(p)
    BY Zenon DEF StoreInit, Accepted, Writers
  <1>6. NewHasNone /\ AllAccepted /\ RegisteredStays /\ NamesHold /\ HandlesHold
    BY <1>5, Zenon DEF StoreInit, NewHasNone, AllAccepted, RegisteredStays, NamesHold, HandlesHold
  <1>7. UncontendedHold /\ SharedHold
    BY <1>4, Zenon DEF UncontendedHold, SharedHold, StoreInit
  <1> QED BY <1>3, <1>6, <1>7, Zenon DEF StoreInv

\* An invocation that is running, and the contract it was given.
LEMMA RunsWith ==
  ASSUME StoreInv, NEW p \in Processes, pc[p] \notin Over
  PROVE  p \in Running /\ source[p] \in ContractFiles /\ source[p].id \in FileIds
  <1>1. p \in Running
    BY Zenon DEF Running, Over
  <1>2. source[p] \in ContractFiles
    BY <1>1, Zenon DEF StoreInv, StoreTypeOK
  <1> QED BY <1>1, <1>2, ContractFilesAssumption, Zenon

LEMMA MovesTo ==
  ASSUME StoreInv, NEW p \in Processes, NEW where \in Places, Goto(p, where)
  PROVE  /\ pc' \in [Processes -> Places]
         /\ \A q \in Processes : pc'[q] = IF q = p THEN where ELSE pc[q]
  BY Zenon DEF StoreInv, StoreTypeOK, Goto, Places

\* The invocations that run after one of them has made a step.
LEMMA RunningAfter ==
  ASSUME StoreInv, NEW p \in Running, NEW where \in Places \ {"new"}, Goto(p, where)
  PROVE  Running' \subseteq Running
  BY MovesTo, Zenon DEF Running

\* The steps that touch no file.
NoFile(p, where) ==
    /\ pc[p] \notin Over /\ Goto(p, where)
    /\ where = "exists" => source[p].valid /\ pc[p] = "validate"
    /\ where = "open" => pc[p] = "exists" /\ destination[source[p].id] = Absent
    /\ where = "replace" => pc[p] = "chmod"
    /\ handle' = [handle EXCEPT ![p] = Absent]
    /\ UNCHANGED <<destination, temporary, inodes, source, contended, shared>>

LEMMA NoFileTouched ==
  ASSUME StoreInv, NEW p \in Processes, NEW where \in {"exists", "open", "replace", "refused", "killed"},
         NoFile(p, where)
  PROVE  StoreInv'
  <1>0. /\ pc[p] \notin Over /\ Goto(p, where) /\ where \in Places \ {"new"}
        /\ destination' = destination /\ temporary' = temporary /\ inodes' = inodes
        /\ source' = source /\ contended' = contended /\ shared' = shared
    BY Zenon DEF NoFile, Places
  <1>1. /\ \A q \in Processes : pc'[q] = IF q = p THEN where ELSE pc[q]
        /\ pc' \in [Processes -> Places]
    BY <1>0, MovesTo, Zenon
  <1>2. /\ p \in Running /\ source[p] \in ContractFiles /\ source[p] # Absent
        /\ Running' \subseteq Running
    BY <1>0, RunsWith, RunningAfter, FilesAssumption, Zenon
  <1>3. /\ \A q \in Processes : handle'[q] = IF q = p THEN Absent ELSE handle[q]
        /\ handle' \in [Processes -> Processes \cup {Absent}]
    BY Zenon DEF NoFile, StoreInv, StoreTypeOK
  <1>4. StoreTypeOK'
    <2>1. \A q \in Running' : source'[q] # Absent
      BY <1>0, <1>2, Zenon DEF StoreInv, StoreTypeOK
    <2>2. \A q \in Processes : pc'[q] = "write" <=> handle'[q] # Absent
      <3>1. \A q \in Processes : pc[q] = "write" <=> handle[q] # Absent
        BY Zenon DEF StoreInv, StoreTypeOK
      <3>2. where # "write"
        OBVIOUS
      <3> QED BY <1>1, <1>3, <3>1, <3>2, Zenon
    <2> QED BY <1>0, <1>1, <1>2, <1>3, <2>1, <2>2, Zenon DEF StoreInv, StoreTypeOK, Places
  <1>5. \A i, id : FileOf(i, id) => FileOf(i, id)'
    <2> SUFFICES ASSUME NEW i, NEW id, FileOf(i, id) PROVE FileOf(i, id)'
      OBVIOUS
    <2>1. i \in Processes /\ id \in FileIds /\ IsFile(i, id)
      BY FilesAre, Zenon
    <2>2. i = p => where \notin {"exists", "open"}
      BY <2>1, Zenon DEF NoFile, IsFile
    <2>3. IsFile(i, id)'
      BY <1>0, <1>1, <2>1, <2>2, Zenon DEF IsFile
    <2> QED BY <2>1, <2>3, FilesAre, Zenon
  <1>6. AllAccepted'
    <2> SUFFICES ASSUME NEW q \in Processes PROVE Accepted(q)'
      BY Zenon DEF AllAccepted
    <2>1. Accepted(q) /\ Accepted(p)
      BY Zenon DEF StoreInv, AllAccepted
    <2>2. CASE q = p
      <3>1. where \in {"exists", "open", "replace"} => source[p].valid
        BY <2>1, Zenon DEF NoFile, Accepted, Writers
      <3> QED BY <1>0, <1>1, <1>2, <2>2, <3>1, Zenon DEF Accepted, Writers
    <2>3. CASE q # p
      BY <1>0, <1>1, <2>1, <2>3, Zenon DEF Accepted
    <2> QED BY <2>2, <2>3, Zenon
  <1>7. ASSUME NEW id \in FileIds \ contended PROVE OneAtATime(id)'
    <2>1. /\ Alone(id) /\ Contents(id) # Partial
          /\ \A q \in Processes : source[q] # Absent /\ source[q].id = id => OneOf(id, q)
      BY Zenon DEF StoreInv, UncontendedHold, OneAtATime
    <2>2. Alone(id)'
      BY <1>0, <1>2, <2>1, Zenon DEF Alone
    <2>3. Contents(id)' = Contents(id)
      BY <1>0, Zenon DEF Contents
    <2>4. ASSUME NEW q \in Processes, source'[q] # Absent, source'[q].id = id PROVE OneOf(id, q)'
      <3>1. OneOf(id, q)
        BY <1>0, <2>1, <2>4, Zenon
      <3>2. CASE q # p
        <4>1. pc'[q] = pc[q] /\ handle'[q] = handle[q]
          BY <1>1, <1>3, <3>2, Zenon
        <4> QED BY <1>0, <2>3, <3>1, <4>1, Zenon DEF OneOf
      <3>3. CASE q = p
        <4>1. pc'[q] = where
          BY <1>1, <3>3, Zenon
        <4>2. where = "open" => destination[id] = Absent
          BY <1>0, <2>4, <3>3, Zenon DEF NoFile
        <4>3. where = "replace" => pc[q] = "chmod"
          BY <3>3, Zenon DEF NoFile
        <4> QED BY <1>0, <2>3, <3>1, <4>1, <4>2, <4>3, Zenon DEF OneOf, Writers
      <3> QED BY <3>2, <3>3, Zenon
    <2> QED BY <2>1, <2>2, <2>3, <2>4, Zenon DEF OneAtATime
  <1>8. /\ \A q \in Processes : pc'[q] = "new" => pc[q] = "new"
        /\ \A q \in Processes : pc'[q] = "registered" => pc[q] = "registered"
    BY <1>1, Zenon
  <1>9. NewHasNone' /\ RegisteredStays'
    BY <1>0, <1>8, Zenon DEF StoreInv, NewHasNone, RegisteredStays
  <1>10. NamesHold'
    BY <1>0, <1>5, Zenon DEF StoreInv, NamesHold, FileOf
  <1>11. HandlesHold'
    <2> SUFFICES ASSUME NEW q \in Processes, handle'[q] # Absent PROVE FileOf(handle[q], source[q].id)'
      BY Zenon DEF HandlesHold
    <2>1. handle'[q] = handle[q]
      BY <1>3, Zenon
    <2>2. FileOf(handle[q], source[q].id)
      BY <2>1, Zenon DEF StoreInv, HandlesHold
    <2> QED BY <1>0, <1>5, <2>1, <2>2, Zenon DEF FileOf
  <1>12. UncontendedHold' /\ SharedHold'
    BY <1>0, <1>7, Zenon DEF UncontendedHold, SharedHold, StoreInv
  <1> QED BY <1>4, <1>6, <1>9, <1>10, <1>11, <1>12, Zenon DEF StoreInv

LEMMA RegisterKeeps ==
  ASSUME StoreInv, NEW p \in Processes, NEW contract \in ContractFiles, Register(p, contract)
  PROVE  StoreInv'
  <1>1. /\ pc[p] = "new" /\ source[p] = Absent /\ Goto(p, "validate")
        /\ source' = [source EXCEPT ![p] = contract]
        /\ contended' = contended \cup ({contract.id} \cap {source[q].id : q \in Running})
    BY Zenon DEF Register, StoreInv, NewHasNone
  <1>0. /\ destination' = destination /\ temporary' = temporary /\ inodes' = inodes /\ handle' = handle
        /\ shared' = shared
    BY Zenon DEF Register
  <1>2. /\ \A q \in Processes : pc'[q] = IF q = p THEN "validate" ELSE pc[q]
        /\ pc' \in [Processes -> Places]
    BY <1>1, MovesTo DEF Places
  <1>3. /\ \A q \in Processes : source'[q] = IF q = p THEN contract ELSE source[q]
        /\ source' \in [Processes -> ContractFiles \cup {Absent}]
    BY <1>1, Zenon DEF StoreInv, StoreTypeOK
  <1>4. contract.id \in FileIds /\ contract # Absent
    BY ContractFilesAssumption, FilesAssumption, Zenon
  <1>5. Running' = Running \cup {p} /\ p \notin Running
    BY <1>1, <1>2, Zenon DEF Running
  <1>7. contended' \subseteq FileIds /\ contended \subseteq contended'
    BY <1>1, <1>4, Zenon DEF StoreInv, StoreTypeOK
  <1>8. StoreTypeOK'
    <2>1. /\ destination' \in [FileIds -> Processes \cup {Absent}]
          /\ temporary' \in [FileIds -> Processes \cup {Absent}]
          /\ inodes' \in [Processes -> ContractFiles \cup {Absent, Partial}]
          /\ handle' \in [Processes -> Processes \cup {Absent}] /\ shared' \subseteq Processes
      BY <1>0, Zenon DEF StoreInv, StoreTypeOK
    <2>2. \A q \in Running' : source'[q] # Absent
      <3>1. \A q \in Running : q \in Processes /\ source[q] # Absent
        BY Zenon DEF StoreInv, StoreTypeOK, Running
      <3> QED BY <1>3, <1>4, <1>5, <3>1, Zenon
    <2>3. \A q \in Processes : pc'[q] = "write" <=> handle'[q] # Absent
      <3>1. \A q \in Processes : pc[q] = "write" <=> handle[q] # Absent
        BY Zenon DEF StoreInv, StoreTypeOK
      <3> QED BY <1>0, <1>1, <1>2, <3>1, Zenon
    <2> QED BY <1>2, <1>3, <1>7, <2>1, <2>2, <2>3, Zenon DEF StoreTypeOK, Places
  <1>9. \A i, id : FileOf(i, id) => FileOf(i, id)'
    <2> SUFFICES ASSUME NEW i, NEW id, FileOf(i, id) PROVE FileOf(i, id)'
      OBVIOUS
    <2>1. i \in Processes /\ id \in FileIds /\ IsFile(i, id)
      BY FilesAre, Zenon
    <2>2. i # p
      BY <1>1, <2>1, Zenon DEF IsFile
    <2>3. pc'[i] = pc[i] /\ source'[i] = source[i]
      BY <1>2, <1>3, <2>1, <2>2, Zenon
    <2>4. IsFile(i, id)'
      BY <1>0, <2>1, <2>3, Zenon DEF IsFile
    <2> QED BY <2>1, <2>4, FilesAre, Zenon
  <1>10. AllAccepted'
    <2>1. \A q \in Processes : q # p => Accepted(q)'
      BY <1>2, <1>3, Zenon DEF StoreInv, AllAccepted, Accepted
    <2>2. Accepted(p)'
      BY <1>2, Zenon DEF Accepted, Writers
    <2> QED BY <2>1, <2>2, Zenon DEF AllAccepted
  <1>11. HandlesHold'
    <2> SUFFICES ASSUME NEW q \in Processes, handle'[q] # Absent
                 PROVE  FileOf(handle[q], source[q].id)'
      BY Zenon DEF HandlesHold
    <2>1. q # p
      BY <1>0, <1>1, Zenon DEF StoreInv, StoreTypeOK
    <2>2. source'[q] = source[q]
      BY <1>3, <2>1, Zenon
    <2>3. FileOf(handle[q], source[q].id)
      BY <1>0, Zenon DEF StoreInv, HandlesHold
    <2> QED BY <1>0, <1>9, <2>2, <2>3, Zenon DEF FileOf
  <1>12. ASSUME NEW id \in FileIds \ contended' PROVE OneAtATime(id)'
    <2>1. /\ Alone(id) /\ Contents(id) # Partial
          /\ \A q \in Processes : source[q] # Absent /\ source[q].id = id => OneOf(id, q)
      BY <1>7, Zenon DEF StoreInv, UncontendedHold, OneAtATime
    <2>2. contract.id = id => \A q \in Running : source[q].id # id
      BY <1>1, Zenon
    <2>3. \A q \in Processes : q # p => pc'[q] = pc[q] /\ source'[q] = source[q]
      BY <1>2, <1>3, Zenon
    <2>4. Alone(id)'
      <3>1. \A q \in Running : q # p /\ q \in Processes
        BY <1>5, Zenon DEF Running
      <3>2. source'[p] = contract
        BY <1>3, Zenon
      <3> QED BY <1>5, <2>1, <2>2, <2>3, <3>1, <3>2, Zenon DEF Alone
    <2>5. Contents(id)' = Contents(id)
      BY <1>0, Zenon DEF Contents
    <2>6. ASSUME NEW q \in Processes, source'[q] # Absent, source'[q].id = id PROVE OneOf(id, q)'
      <3>1. CASE q = p
        BY <1>2, <3>1, Zenon DEF OneOf, Writers
      <3>2. CASE q # p
        <4>1. pc'[q] = pc[q] /\ source'[q] = source[q]
          BY <2>3, <3>2, Zenon
        <4>2. OneOf(id, q)
          BY <2>1, <2>6, <4>1, Zenon
        <4> QED BY <1>0, <2>5, <4>1, <4>2, Zenon DEF OneOf
      <3> QED BY <3>1, <3>2, Zenon
    <2> QED BY <2>1, <2>4, <2>5, <2>6, Zenon DEF OneAtATime
  <1>13. NewHasNone' /\ RegisteredStays'
    <2>1. \A q \in Processes : pc'[q] \in {"new", "registered"} => pc'[q] = pc[q] /\ source'[q] = source[q]
      BY <1>2, <1>3, Zenon
    <2> QED BY <1>0, <2>1, Zenon DEF StoreInv, NewHasNone, RegisteredStays
  <1>14. NamesHold'
    BY <1>0, <1>9, Zenon DEF StoreInv, NamesHold, FileOf
  <1>15. UncontendedHold'
    BY <1>12, Zenon DEF UncontendedHold
  <1>16. SharedHold'
    <2> SUFFICES ASSUME NEW q \in shared PROVE source'[q] # Absent /\ source'[q].id \in contended'
      BY <1>0, Zenon DEF SharedHold
    <2>1. q \in Processes /\ source[q] # Absent /\ source[q].id \in contended
      BY Zenon DEF StoreInv, StoreTypeOK, SharedHold
    <2>2. source'[q] = source[q]
      BY <1>1, <1>3, <2>1, Zenon
    <2> QED BY <1>7, <2>1, <2>2, Zenon
  <1> QED BY <1>8, <1>10, <1>11, <1>13, <1>14, <1>15, <1>16, Zenon DEF StoreInv

\* An invocation writes into a file of its identifier: into the temporary file, or into
\* the one it has open.
FileWrite(p, i, text, where, open) ==
    /\ pc[p] \in {"open", "write"} /\ Goto(p, where)
    /\ inodes' = [inodes EXCEPT ![i] = text] /\ handle' = [handle EXCEPT ![p] = open]
    /\ (i = p /\ pc[p] = "open") \/ FileOf(i, source[p].id)
    /\ where = "write" <=> open # Absent
    /\ \/ temporary' = temporary
       \/ i = p /\ pc[p] = "open" /\ temporary' = [temporary EXCEPT ![source[p].id] = p]
    /\ source[p].id \notin contended => temporary'[source[p].id] = i
    /\ source[p].id \notin contended /\ where = "chmod" => text = source[p]
    /\ text \notin {Partial, source[p]} => FileOf(i, source[p].id)
    /\ shared' \subseteq Processes /\ SharedHold'
    /\ UNCHANGED <<destination, source, contended>>

LEMMA FileWritten ==
  ASSUME StoreInv, NEW p \in Processes, NEW i \in Processes, NEW text \in {Partial, source[p], inodes[i]},
         NEW where \in {"write", "chmod"}, NEW open \in {i, Absent},
         FileWrite(p, i, text, where, open)
  PROVE  StoreInv'
  <1> DEFINE mine == source[p].id
  <1>0. destination' = destination /\ source' = source /\ contended' = contended
    BY Zenon DEF FileWrite
  <1>1. /\ pc[p] \in {"open", "write"} /\ pc[p] \notin Over /\ Goto(p, where)
        /\ where \in Places \ Over
    BY Zenon DEF FileWrite, Over, Places
  <1>2. p \in Running /\ source[p] \in ContractFiles /\ mine \in FileIds
    BY <1>1, RunsWith, Zenon
  <1>3. source[p] # Absent /\ source[p].valid /\ source[p] # Partial
    <2>1. Accepted(p)
      BY Zenon DEF StoreInv, AllAccepted
    <2> QED BY <1>1, <1>2, <2>1, FilesAssumption DEF Accepted, Writers
  <1>18. /\ text \in ContractFiles \cup {Partial} /\ text # Absent
         /\ text # Partial => text.valid /\ text.id = mine
    <2>1. CASE text \in {Partial, source[p]}
      BY <1>2, <1>3, <2>1, FilesAssumption, Zenon
    <2>2. CASE text = inodes[i] /\ text \notin {Partial, source[p]}
      <3>1. IsFile(i, mine)
        BY <2>2, FilesAre, Zenon DEF FileWrite
      <3>2. text # Absent /\ (text # Partial => text.valid /\ text.id = mine)
        BY <2>2, <3>1, Zenon DEF IsFile
      <3>3. text \in ContractFiles \cup {Absent, Partial}
        BY <2>2, Zenon DEF StoreInv, StoreTypeOK
      <3> QED BY <3>2, <3>3, Zenon
    <2> QED BY <2>1, <2>2, Zenon
  <1>4. /\ \A q \in Processes : pc'[q] = IF q = p THEN where ELSE pc[q]
        /\ pc' \in [Processes -> Places]
    BY <1>1, MovesTo, Zenon
  <1>5. Running' \subseteq Running
    BY <1>1, <1>2, RunningAfter, Zenon DEF Over
  <1>6. /\ \A q \in Processes : inodes'[q] = IF q = i THEN text ELSE inodes[q]
        /\ inodes' \in [Processes -> ContractFiles \cup {Absent, Partial}]
    BY <1>18, Zenon DEF FileWrite, StoreInv, StoreTypeOK
  <1>7. /\ \A q \in Processes : handle'[q] = IF q = p THEN open ELSE handle[q]
        /\ handle' \in [Processes -> Processes \cup {Absent}]
    BY Zenon DEF FileWrite, StoreInv, StoreTypeOK
  <1>8. /\ \A id \in FileIds : \/ temporary'[id] = temporary[id]
                               \/ id = mine /\ i = p /\ pc[p] = "open" /\ temporary'[id] = p
        /\ temporary' \in [FileIds -> Processes \cup {Absent}]
    <2>1. temporary \in [FileIds -> Processes \cup {Absent}]
      BY Zenon DEF StoreInv, StoreTypeOK
    <2>2. CASE temporary' = temporary
      BY <2>1, <2>2, Zenon
    <2>3. CASE i = p /\ pc[p] = "open" /\ temporary' = [temporary EXCEPT ![mine] = p]
      BY <1>2, <2>1, <2>3, Zenon
    <2> QED BY <2>2, <2>3, Zenon DEF FileWrite
  <1>9. StoreTypeOK'
    <2>1. /\ destination' \in [FileIds -> Processes \cup {Absent}] /\ contended' \subseteq FileIds
          /\ source' \in [Processes -> ContractFiles \cup {Absent}] /\ shared' \subseteq Processes
      BY <1>0, Zenon DEF StoreInv, StoreTypeOK, FileWrite
    <2>2. \A q \in Running' : source'[q] # Absent
      BY <1>0, <1>5, Zenon DEF StoreInv, StoreTypeOK
    <2>3. \A q \in Processes : pc'[q] = "write" <=> handle'[q] # Absent
      <3>1. \A q \in Processes : pc[q] = "write" <=> handle[q] # Absent
        BY Zenon DEF StoreInv, StoreTypeOK
      <3>2. where = "write" <=> open # Absent
        BY Zenon DEF FileWrite
      <3> QED BY <1>4, <1>7, <3>1, <3>2, Zenon
    <2> QED BY <1>4, <1>6, <1>7, <1>8, <2>1, <2>2, <2>3, Zenon DEF StoreTypeOK, Places
  <1>10. <<i, mine>> \in Files'
    <2>1. source[i] # Absent /\ source[i].id = mine /\ pc'[i] \notin {"new", "validate", "exists", "open"}
      <3>1. CASE i = p
        BY <1>3, <1>4, <3>1, Zenon
      <3>2. CASE i # p
        <4>1. IsFile(i, mine)
          BY <3>2, FilesAre, Zenon DEF FileWrite
        <4> QED BY <1>4, <3>2, <4>1, Zenon DEF IsFile
      <3> QED BY <3>1, <3>2, Zenon
    <2>2. inodes'[i] = text
      BY <1>6, Zenon
    <2>3. text # Partial => text.valid /\ text.id = mine
      BY <1>18, Zenon
    <2>4. IsFile(i, source[p].id)'
      BY <1>0, <1>18, <2>1, <2>2, <2>3, Zenon DEF IsFile
    <2>5. FileOf(i, source[p].id)'
      BY <1>0, <1>2, <2>4, FilesAre, Zenon
    <2> QED BY <1>0, <2>5, Zenon DEF FileOf
  <1>11. ASSUME NEW j, NEW id, FileOf(j, id)
         PROVE  FileOf(j, id)' /\ (j = i => id = mine /\ (i = p => pc[p] # "open"))
    <2>1. j \in Processes /\ id \in FileIds /\ IsFile(j, id)
      BY <1>11, FilesAre, Zenon
    <2>2. CASE j = i
      <3>1. id = mine
        <4>1. CASE i = p
          BY <2>1, <2>2, <4>1, Zenon DEF IsFile
        <4>2. CASE i # p
          <5>1. IsFile(i, mine)
            BY <4>2, FilesAre, Zenon DEF FileWrite
          <5> QED BY <2>1, <2>2, <5>1, Zenon DEF IsFile
        <4> QED BY <4>1, <4>2, Zenon
      <3>2. i = p => pc[p] # "open"
        BY <2>1, <2>2, Zenon DEF IsFile
      <3> QED BY <1>10, <2>2, <3>1, <3>2, Zenon DEF FileOf
    <2>3. CASE j # i
      <3>1. inodes'[j] = inodes[j] /\ source'[j] = source[j]
        BY <1>0, <1>6, <2>1, <2>3, Zenon
      <3>2. pc'[j] \notin {"new", "validate", "exists", "open"}
        BY <1>4, <2>1, Zenon DEF IsFile
      <3>3. IsFile(j, id)'
        BY <2>1, <3>1, <3>2, Zenon DEF IsFile
      <3> QED BY <2>1, <2>3, <3>3, FilesAre, Zenon
    <2> QED BY <2>2, <2>3, Zenon
  <1>12. AllAccepted'
    <2> SUFFICES ASSUME NEW q \in Processes PROVE Accepted(q)'
      BY Zenon DEF AllAccepted
    <2>1. CASE q = p
      BY <1>0, <1>3, <2>1, Zenon DEF Accepted
    <2>2. CASE q # p
      <3>1. Accepted(q) /\ pc'[q] = pc[q]
        BY <1>4, <2>2, Zenon DEF StoreInv, AllAccepted
      <3> QED BY <1>0, <3>1, Zenon DEF Accepted
    <2> QED BY <2>1, <2>2, Zenon
  <1>13. NamesHold'
    <2> SUFFICES ASSUME NEW id \in FileIds
                 PROVE  /\ temporary'[id] # Absent => FileOf(temporary[id], id)'
                        /\ destination'[id] # Absent =>
                              FileOf(destination[id], id)' /\ destination'[id] # temporary'[id]
      BY Zenon DEF NamesHold
    <2>1. /\ temporary[id] # Absent => FileOf(temporary[id], id)
          /\ destination[id] # Absent => FileOf(destination[id], id) /\ destination[id] # temporary[id]
      BY Zenon DEF StoreInv, NamesHold
    <2>2. CASE temporary'[id] = temporary[id]
      BY <1>0, <1>11, <2>1, <2>2, Zenon DEF FileOf
    <2>3. CASE id = mine /\ i = p /\ pc[p] = "open" /\ temporary'[id] = p
      <3>1. destination[id] # Absent => FileOf(destination[id], id)' /\ destination[id] # p
        BY <1>0, <1>11, <2>1, <2>3, Zenon DEF FileOf
      <3>2. FileOf(temporary[id], id)'
        BY <1>10, <2>3, Zenon DEF FileOf
      <3> QED BY <1>0, <2>3, <3>1, <3>2, Zenon DEF FileOf
    <2> QED BY <1>8, <2>2, <2>3, Zenon
  <1>14. HandlesHold'
    <2> SUFFICES ASSUME NEW q \in Processes, handle'[q] # Absent PROVE FileOf(handle[q], source[q].id)'
      BY Zenon DEF HandlesHold
    <2>1. CASE q = p
      <3>1. handle'[q] = i
        BY <1>7, <2>1, Zenon
      <3> QED BY <1>0, <1>10, <2>1, <3>1, Zenon DEF FileOf
    <2>2. CASE q # p
      <3>1. handle'[q] = handle[q]
        BY <1>7, <2>2, Zenon
      <3>2. FileOf(handle[q], source[q].id)
        BY <3>1, Zenon DEF StoreInv, HandlesHold
      <3> QED BY <1>0, <1>11, <3>1, <3>2, Zenon DEF FileOf
    <2> QED BY <2>1, <2>2, Zenon
  <1>15. NewHasNone' /\ RegisteredStays'
    <2>1. \A q \in Processes : /\ pc'[q] = "new" => pc[q] = "new"
                               /\ pc'[q] = "registered" => pc[q] = "registered"
      BY <1>4, Zenon
    <2> QED BY <1>0, <2>1, Zenon DEF StoreInv, NewHasNone, RegisteredStays
  <1>16. ASSUME NEW id \in FileIds \ contended PROVE OneAtATime(id)'
    <2>1. /\ Alone(id) /\ Contents(id) # Partial
          /\ \A q \in Processes : source[q] # Absent /\ source[q].id = id => OneOf(id, q)
      BY Zenon DEF StoreInv, UncontendedHold, OneAtATime
    <2>2. Alone(id)'
      BY <1>0, <1>5, <2>1, Zenon DEF Alone
    <2>3. CASE id = mine
      <3>1. destination[id] = Absent
        <4>1. OneOf(id, p)
          BY <1>3, <2>1, <2>3, Zenon
        <4> QED BY <1>1, <4>1, Zenon DEF OneOf, Writers
      <3>2. Contents(id)' = Absent
        BY <1>0, <3>1, Zenon DEF Contents
      <3>3. ASSUME NEW q \in Processes, source[q].id = id, q # p
            PROVE  pc'[q] \notin Writers \cup {"registered"}
        <4>1. pc'[q] = pc[q]
          BY <1>4, <3>3, Zenon
        <4>2. q \notin Running
          BY <1>2, <2>1, <2>3, <3>3, Zenon DEF Alone
        <4>3. pc[q] \notin Writers
          BY <4>2, Zenon DEF Writers, Running
        <4>4. pc[q] # "registered"
          BY <3>1, <3>3, Zenon DEF StoreInv, RegisteredStays
        <4> QED BY <4>1, <4>3, <4>4, Zenon
      <3>4. temporary'[id] = i /\ (where = "chmod" => text = source[p]) /\ (where = "write" => open = i)
        BY <1>16, <2>3, FilesAssumption, Zenon DEF FileWrite
      <3>5. pc'[p] = where /\ handle'[p] = open /\ inodes'[i] = text /\ i # Absent
        BY <1>4, <1>6, <1>7, FilesAssumption, Zenon
      <3>6. ASSUME NEW q \in Processes, source'[q] # Absent, source'[q].id = id PROVE OneOf(id, q)'
        <4>1. CASE q = p
          BY <1>0, <3>1, <3>4, <3>5, <4>1, Zenon DEF OneOf
        <4>2. CASE q # p
          <5>1. pc'[q] \notin Writers \cup {"registered"}
            BY <1>0, <3>3, <3>6, <4>2, Zenon
          <5> QED BY <5>1, Zenon DEF OneOf, Writers
        <4> QED BY <4>1, <4>2, Zenon
      <3>7. Contents(id)' # Partial
        BY <3>2, FilesAssumption, Zenon
      <3> QED BY <2>2, <3>6, <3>7, Zenon DEF OneAtATime
    <2>4. CASE id # mine
      <3>1. temporary'[id] = temporary[id]
        BY <1>8, <2>4, Zenon
      <3>2. temporary[id] # Absent => temporary[id] # i /\ temporary[id] \in Processes
        BY <1>11, <2>4, FilesAre, Zenon DEF StoreInv, NamesHold
      <3>3. destination[id] # Absent => destination[id] # i /\ destination[id] \in Processes
        BY <1>11, <2>4, FilesAre, Zenon DEF StoreInv, NamesHold
      <3>4. Contents(id)' = Contents(id)
        BY <1>0, <1>6, <3>3, Zenon DEF Contents
      <3>5. temporary[id] # Absent => inodes'[temporary[id]] = inodes[temporary[id]]
        BY <1>6, <3>2, Zenon
      <3>6. ASSUME NEW q \in Processes, source'[q] # Absent, source'[q].id = id PROVE OneOf(id, q)'
        <4>1. q # p
          BY <1>0, <2>4, <3>6, Zenon
        <4>2. pc'[q] = pc[q] /\ handle'[q] = handle[q]
          BY <1>4, <1>7, <4>1, Zenon
        <4>3. OneOf(id, q)
          BY <1>0, <2>1, <3>6, Zenon
        <4> QED BY <1>0, <3>1, <3>4, <3>5, <4>2, <4>3, Zenon DEF OneOf
      <3> QED BY <2>1, <2>2, <3>4, <3>6, Zenon DEF OneAtATime
    <2> QED BY <2>3, <2>4, Zenon
  <1>17. UncontendedHold'
    BY <1>0, <1>16, Zenon DEF UncontendedHold
  <1>19. SharedHold'
    BY Zenon DEF FileWrite
  <1> QED BY <1>9, <1>12, <1>13, <1>14, <1>15, <1>17, <1>19, Zenon DEF StoreInv

LEMMA OpenKeeps ==
  ASSUME StoreInv, NEW p \in Processes, Open(p)
  PROVE  StoreInv'
  <1> DEFINE id == source[p].id
             inode == IF temporary[id] = Absent THEN p ELSE temporary[id]
             others == {q \in Processes : handle[q] = inode}
  <1>1. /\ pc[p] = "open" /\ Goto(p, "write") /\ temporary' = [temporary EXCEPT ![id] = inode]
        /\ inodes' = [inodes EXCEPT ![inode] = Partial] /\ handle' = [handle EXCEPT ![p] = inode]
        /\ UNCHANGED <<destination, source, contended>>
        /\ shared' = shared \cup IF others = {} THEN {} ELSE others \cup {p}
    BY Zenon DEF Open
  <1>2. id \in FileIds /\ temporary \in [FileIds -> Processes \cup {Absent}]
    BY <1>1, RunsWith, Zenon DEF Over, StoreInv, StoreTypeOK
  <1>3. inode \in Processes /\ inode # Absent
    BY <1>2, FilesAssumption, Zenon
  <1>5. ASSUME NEW q \in others PROVE source[q] # Absent /\ source[q].id = id /\ id \in contended
    <2>1. q \in Processes /\ handle[q] = inode /\ pc[q] = "write" /\ q # p
      BY <1>1, <1>3, <1>5, Zenon DEF StoreInv, StoreTypeOK
    <2>2. /\ q \in Running /\ p \in Running /\ source[q] # Absent
          /\ FileOf(inode, source[q].id)
      BY <1>1, <1>3, <2>1, RunsWith, FilesAssumption, Zenon DEF Over, StoreInv, HandlesHold
    <2>3. IsFile(inode, source[q].id)
      BY <2>2, FilesAre, Zenon
    <2>4. temporary[id] # Absent
      BY <1>1, <2>3, Zenon DEF IsFile
    <2>5. IsFile(inode, id)
      BY <1>2, <2>4, FilesAre, Zenon DEF StoreInv, NamesHold
    <2>6. source[q].id = id
      BY <2>3, <2>5, Zenon DEF IsFile
    <2>7. ~ Alone(id)
      BY <2>1, <2>2, <2>6, Zenon DEF Alone
    <2> QED BY <1>2, <2>2, <2>6, <2>7, Zenon DEF StoreInv, UncontendedHold, OneAtATime
  <1>6. shared' \subseteq Processes /\ SharedHold'
    <2>1. shared' \subseteq shared \cup others \cup {p} /\ (others = {} => shared' = shared)
      BY <1>1, Zenon
    <2>2. source[p] # Absent /\ shared \subseteq Processes
      BY <1>1, RunsWith, FilesAssumption, Zenon DEF Over, StoreInv, StoreTypeOK
    <2>3. \A q \in shared : source[q] # Absent /\ source[q].id \in contended
      BY Zenon DEF StoreInv, SharedHold
    <2> HIDE DEF others
    <2>4. others # {} => id \in contended
      BY <1>5, Zenon
    <2>5. \A q \in shared' : q \in shared \/ q \in others \/ q = p
      BY <2>1, Zenon
    <2>6. others \subseteq Processes
      BY Zenon DEF others
    <2>7. \A q \in shared' : source[q] # Absent /\ source[q].id \in contended
      BY <1>5, <2>1, <2>2, <2>3, <2>4, <2>5, Zenon
    <2>8. shared' \subseteq Processes
      BY <2>2, <2>5, <2>6, Zenon
    <2> QED BY <1>1, <2>7, <2>8, Zenon DEF SharedHold
  <1> HIDE DEF others
  <1>4. FileWrite(p, inode, Partial, "write", inode)
    <2>1. temporary'[id] = inode
      BY <1>1, <1>2, Zenon
    <2>2. \/ inode = p /\ temporary' = [temporary EXCEPT ![id] = p]
          \/ FileOf(inode, id) /\ temporary' = temporary
      <3>1. CASE temporary[id] = Absent
        BY <1>1, <3>1, Zenon
      <3>2. CASE temporary[id] # Absent
        <4>1. inode = temporary[id] /\ FileOf(inode, id)
          BY <1>2, <3>2, Zenon DEF StoreInv, NamesHold
        <4>2. [temporary EXCEPT ![id] = temporary[id]] = temporary
          BY <1>2, Zenon
        <4> QED BY <1>1, <4>1, <4>2, Zenon
      <3> QED BY <3>1, <3>2, Zenon
    <2> HIDE DEF inode
    <2> QED BY <1>1, <1>3, <1>6, <2>1, <2>2, Zenon DEF FileWrite
  <1> HIDE DEF inode
  <1> QED BY <1>3, <1>4, FileWritten, Zenon

LEMMA WriteKeeps ==
  ASSUME StoreInv, NEW p \in Processes, WritePiece(p) \/ Write(p)
  PROVE  StoreInv'
  <1> DEFINE i == handle[p]
  <1>1. /\ pc[p] = "write" /\ destination' = destination /\ temporary' = temporary
        /\ source' = source /\ contended' = contended /\ shared' = shared
    BY Zenon DEF WritePiece, Write
  <1>2. i # Absent /\ i \in Processes
    BY <1>1, Zenon DEF StoreInv, StoreTypeOK
  <1>3. FileOf(i, source[p].id)
    BY <1>2, Zenon DEF StoreInv, HandlesHold
  <1>4. source[p].id \in FileIds /\ source[p] # Absent
    BY <1>1, RunsWith, FilesAssumption, Zenon DEF Over
  <1>5. source[p].id \notin contended => temporary[source[p].id] = i
    <2>1. source[p].id \notin contended => OneOf(source[p].id, p)
      BY <1>4, Zenon DEF StoreInv, UncontendedHold, OneAtATime
    <2> QED BY <1>1, <2>1, Zenon DEF OneOf
  <1>6. shared' \subseteq Processes /\ SharedHold'
    BY <1>1, Zenon DEF StoreInv, StoreTypeOK, SharedHold
  <1>7. p \in shared => source[p].id \in contended
    BY Zenon DEF StoreInv, SharedHold
  <1>8. CASE WritePiece(p)
    <2>1. pc' = pc /\ handle' = handle /\ inodes' = [inodes EXCEPT ![i] = Partial]
      BY <1>8, Zenon DEF WritePiece
    <2>2. Goto(p, "write") /\ handle' = [handle EXCEPT ![p] = i]
      BY <1>1, <2>1, Zenon DEF Goto, StoreInv, StoreTypeOK
    <2> HIDE DEF i
    <2>3. FileWrite(p, i, Partial, "write", i)
      BY <1>1, <1>2, <1>3, <1>5, <1>6, <2>1, <2>2, Zenon DEF FileWrite
    <2> QED BY <1>2, <2>3, FileWritten, Zenon
  <1>9. CASE Write(p)
    <2>1. PICK text \in {source[p], inodes[i]} :
             /\ inodes' = [inodes EXCEPT ![i] = text]
             /\ text = source[p] \/ p \in shared
      BY <1>9, Zenon DEF Write
    <2>2. Goto(p, "chmod") /\ handle' = [handle EXCEPT ![p] = Absent]
      BY <1>9, Zenon DEF Write
    <2> HIDE DEF i
    <2>3. FileWrite(p, i, text, "chmod", Absent)
      BY <1>1, <1>3, <1>5, <1>6, <1>7, <2>1, <2>2, Zenon DEF FileWrite
    <2> QED BY <1>2, <2>3, FileWritten, Zenon
  <1> QED BY <1>8, <1>9, Zenon

\* rename(2) puts the temporary file in the place of the destination.
LEMMA ReplaceKeeps ==
  ASSUME StoreInv, NEW p \in Processes, Replace(p), temporary[source[p].id] # Absent
  PROVE  StoreInv'
  <1> DEFINE mine == source[p].id
             i == temporary[mine]
  <1>0. /\ inodes' = inodes /\ source' = source /\ handle' = handle /\ contended' = contended
        /\ shared' = shared
    BY Zenon DEF Replace
  <1>1. /\ pc[p] = "replace" /\ pc[p] \notin Over /\ Goto(p, "registered")
        /\ destination' = [destination EXCEPT ![mine] = i]
        /\ temporary' = [temporary EXCEPT ![mine] = Absent]
    BY Zenon DEF Replace, Over
  <1>2. p \in Running /\ source[p] \in ContractFiles /\ mine \in FileIds
    BY <1>1, RunsWith, Zenon
  <1>3. FileOf(i, mine) /\ i \in Processes /\ i # Absent
    BY <1>2, FilesAre, Zenon DEF StoreInv, NamesHold
  <1> HIDE DEF i
  <1>4. source[p] # Absent /\ source[p] # Partial /\ source[p].valid
    <2>1. Accepted(p)
      BY Zenon DEF StoreInv, AllAccepted
    <2> QED BY <1>1, <1>2, <2>1, FilesAssumption, Zenon DEF Accepted, Writers
  <1>5. /\ \A q \in Processes : pc'[q] = IF q = p THEN "registered" ELSE pc[q]
        /\ pc' \in [Processes -> Places]
    BY <1>1, MovesTo, Zenon DEF Places
  <1>6. Running' \subseteq Running
    BY <1>1, <1>2, RunningAfter, Zenon DEF Places
  <1>7. /\ \A id \in FileIds : destination'[id] = IF id = mine THEN i ELSE destination[id]
        /\ destination' \in [FileIds -> Processes \cup {Absent}]
    BY <1>1, <1>2, <1>3, Zenon DEF StoreInv, StoreTypeOK
  <1>8. /\ \A id \in FileIds : temporary'[id] = IF id = mine THEN Absent ELSE temporary[id]
        /\ temporary' \in [FileIds -> Processes \cup {Absent}]
    BY <1>1, <1>2, Zenon DEF StoreInv, StoreTypeOK
  <1>9. StoreTypeOK'
    <2>1. /\ inodes' \in [Processes -> ContractFiles \cup {Absent, Partial}] /\ contended' \subseteq FileIds
          /\ handle' \in [Processes -> Processes \cup {Absent}]
          /\ source' \in [Processes -> ContractFiles \cup {Absent}] /\ shared' \subseteq Processes
      BY <1>0, Zenon DEF StoreInv, StoreTypeOK
    <2>2. \A q \in Running' : source'[q] # Absent
      BY <1>0, <1>6, Zenon DEF StoreInv, StoreTypeOK
    <2>3. \A q \in Processes : pc'[q] = "write" <=> handle'[q] # Absent
      <3>1. \A q \in Processes : pc[q] = "write" <=> handle[q] # Absent
        BY Zenon DEF StoreInv, StoreTypeOK
      <3> QED BY <1>0, <1>1, <1>5, <3>1, Zenon
    <2> QED BY <1>5, <1>7, <1>8, <2>1, <2>2, <2>3, Zenon DEF StoreTypeOK, Places
  <1>10. \A j, id : FileOf(j, id) => FileOf(j, id)'
    <2> SUFFICES ASSUME NEW j, NEW id, FileOf(j, id) PROVE FileOf(j, id)'
      OBVIOUS
    <2>1. j \in Processes /\ id \in FileIds /\ IsFile(j, id)
      BY FilesAre, Zenon
    <2>2. pc'[j] \notin {"new", "validate", "exists", "open"}
      BY <1>5, <2>1, Zenon DEF IsFile
    <2>3. IsFile(j, id)'
      BY <1>0, <2>1, <2>2, Zenon DEF IsFile
    <2> QED BY <2>1, <2>3, FilesAre, Zenon
  <1>11. AllAccepted'
    <2> SUFFICES ASSUME NEW q \in Processes PROVE Accepted(q)'
      BY Zenon DEF AllAccepted
    <2>1. CASE q = p
      BY <1>0, <1>4, <2>1, Zenon DEF Accepted
    <2>2. CASE q # p
      <3>1. Accepted(q) /\ pc'[q] = pc[q]
        BY <1>5, <2>2, Zenon DEF StoreInv, AllAccepted
      <3> QED BY <1>0, <3>1, Zenon DEF Accepted
    <2> QED BY <2>1, <2>2, Zenon
  <1>12. NamesHold'
    <2> SUFFICES ASSUME NEW id \in FileIds
                 PROVE  /\ temporary'[id] # Absent => FileOf(temporary[id], id)'
                        /\ destination'[id] # Absent =>
                              FileOf(destination[id], id)' /\ destination'[id] # temporary'[id]
      BY Zenon DEF NamesHold
    <2>1. CASE id = mine
      <3>1. destination'[id] = i /\ temporary'[id] = Absent
        BY <1>7, <1>8, <2>1, Zenon
      <3>2. FileOf(i, id)
        BY <1>3, <2>1, Zenon
      <3>3. <<i, id>> \in Files'
        BY <1>10, <3>2, Zenon DEF FileOf
      <3> QED BY <1>3, <3>1, <3>3, Zenon DEF FileOf
    <2>2. CASE id # mine
      <3>1. destination'[id] = destination[id] /\ temporary'[id] = temporary[id]
        BY <1>7, <1>8, <2>2, Zenon
      <3>2. /\ temporary[id] # Absent => FileOf(temporary[id], id)
            /\ destination[id] # Absent => FileOf(destination[id], id) /\ destination[id] # temporary[id]
        BY Zenon DEF StoreInv, NamesHold
      <3> QED BY <1>10, <3>1, <3>2, Zenon DEF FileOf
    <2> QED BY <2>1, <2>2, Zenon
  <1>13. HandlesHold'
    <2> SUFFICES ASSUME NEW q \in Processes, handle'[q] # Absent PROVE FileOf(handle[q], source[q].id)'
      BY Zenon DEF HandlesHold
    <2>1. FileOf(handle[q], source[q].id)
      BY <1>0, Zenon DEF StoreInv, HandlesHold
    <2> QED BY <1>0, <1>10, <2>1, Zenon DEF FileOf
  <1>14. NewHasNone'
    <2>1. \A q \in Processes : pc'[q] = "new" => pc[q] = "new"
      BY <1>5, Zenon
    <2> QED BY <1>0, <2>1, Zenon DEF StoreInv, NewHasNone
  <1>15. RegisteredStays'
    <2> SUFFICES ASSUME NEW q \in Processes, pc'[q] = "registered" PROVE destination'[source'[q].id] # Absent
      BY Zenon DEF RegisteredStays
    <2>1. CASE source[q].id = mine
      BY <1>0, <1>2, <1>3, <1>7, <2>1, Zenon
    <2>2. CASE source[q].id # mine
      <3>1. q # p
        BY <2>2, Zenon
      <3>2. destination[source[q].id] # Absent
        BY <1>5, <3>1, Zenon DEF StoreInv, RegisteredStays
      <3>3. destination'[source[q].id] = destination[source[q].id]
        BY <1>1, <2>2 DEF StoreInv, StoreTypeOK
      <3> QED BY <1>0, <3>2, <3>3, Zenon
    <2> QED BY <2>1, <2>2, Zenon
  <1>16. ASSUME NEW id \in FileIds \ contended PROVE OneAtATime(id)'
    <2>1. /\ Alone(id) /\ Contents(id) # Partial
          /\ \A q \in Processes : source[q] # Absent /\ source[q].id = id => OneOf(id, q)
      BY Zenon DEF StoreInv, UncontendedHold, OneAtATime
    <2>2. Alone(id)'
      BY <1>0, <1>6, <2>1, Zenon DEF Alone
    <2>3. CASE id = mine
      <3>1. inodes[i] = source[p] /\ destination[id] = Absent
        <4>1. OneOf(id, p)
          BY <1>4, <2>1, <2>3, Zenon
        <4> QED BY <1>1, <2>3, <4>1, Zenon DEF OneOf, Writers, i
      <3>2. Contents(id)' = source[p]
        <4>1. destination'[id] = i
          BY <1>7, <2>3, Zenon
        <4> QED BY <1>0, <1>3, <3>1, <4>1, Zenon DEF Contents
      <3>3. ASSUME NEW q \in Processes, source[q].id = id, q # p
            PROVE  pc'[q] \notin Writers \cup {"registered"}
        <4>1. pc'[q] = pc[q]
          BY <1>5, <3>3, Zenon
        <4>2. q \notin Running
          BY <1>2, <2>1, <2>3, <3>3, Zenon DEF Alone
        <4>3. pc[q] \notin Writers
          BY <4>2, Zenon DEF Writers, Running
        <4>4. pc[q] # "registered"
          BY <3>1, <3>3, Zenon DEF StoreInv, RegisteredStays
        <4> QED BY <4>1, <4>3, <4>4, Zenon
      <3>4. ASSUME NEW q \in Processes, source'[q] # Absent, source'[q].id = id PROVE OneOf(id, q)'
        <4>1. CASE q = p
          <5>1. pc'[q] = "registered"
            BY <1>5, <4>1, Zenon
          <5> QED BY <1>0, <3>2, <4>1, <5>1, Zenon DEF OneOf, Writers
        <4>2. CASE q # p
          <5>1. pc'[q] \notin Writers \cup {"registered"}
            BY <1>0, <3>3, <3>4, <4>2, Zenon
          <5> QED BY <5>1, Zenon DEF OneOf, Writers
        <4> QED BY <4>1, <4>2, Zenon
      <3>5. Contents(id)' # Partial
        BY <1>4, <3>2, Zenon
      <3> QED BY <2>2, <3>4, <3>5, Zenon DEF OneAtATime
    <2>4. CASE id # mine
      <3>1. destination'[id] = destination[id] /\ temporary'[id] = temporary[id]
        BY <1>7, <1>8, <2>4, Zenon
      <3>2. Contents(id)' = Contents(id)
        BY <1>0, <3>1, Zenon DEF Contents
      <3>3. ASSUME NEW q \in Processes, source'[q] # Absent, source'[q].id = id PROVE OneOf(id, q)'
        <4>1. q # p
          BY <1>0, <2>4, <3>3, Zenon
        <4>2. pc'[q] = pc[q]
          BY <1>5, <4>1, Zenon
        <4>3. OneOf(id, q)
          BY <1>0, <2>1, <3>3, Zenon
        <4> QED BY <1>0, <3>1, <3>2, <4>2, <4>3, Zenon DEF OneOf
      <3> QED BY <2>1, <2>2, <3>2, <3>3, Zenon DEF OneAtATime
    <2> QED BY <2>3, <2>4, Zenon
  <1>17. UncontendedHold' /\ SharedHold'
    BY <1>0, <1>16, Zenon DEF UncontendedHold, SharedHold, StoreInv
  <1> QED BY <1>9, <1>11, <1>12, <1>13, <1>14, <1>15, <1>17, Zenon DEF StoreInv

LEMMA StoreInvStutter == StoreInv /\ UNCHANGED storeVars => StoreInv'
  <1> SUFFICES ASSUME StoreInv, UNCHANGED storeVars PROVE StoreInv'
    OBVIOUS
  <1>1. /\ destination' = destination /\ temporary' = temporary /\ inodes' = inodes
        /\ pc' = pc /\ source' = source /\ handle' = handle /\ contended' = contended
        /\ shared' = shared
    BY Zenon DEF storeVars
  <1>2. Running' = Running
    BY <1>1, Zenon DEF Running
  <1>3. StoreTypeOK'
    BY <1>1, <1>2, Zenon DEF StoreInv, StoreTypeOK
  <1>4. Files' = Files
    BY <1>1, Zenon DEF Files, IsFile
  <1>5. NewHasNone' /\ RegisteredStays'
    BY <1>1, Zenon DEF StoreInv, NewHasNone, RegisteredStays
  <1>6. AllAccepted'
    BY <1>1, Zenon DEF StoreInv, AllAccepted, Accepted
  <1>7. NamesHold' /\ HandlesHold'
    BY <1>1, <1>4, Zenon DEF StoreInv, NamesHold, HandlesHold, FileOf
  <1>8. ASSUME NEW id PROVE OneAtATime(id)' <=> OneAtATime(id)
    BY <1>1, <1>2, Zenon DEF OneAtATime, Alone, OneOf, Contents
  <1>9. UncontendedHold' /\ SharedHold'
    BY <1>1, <1>8, Zenon DEF StoreInv, UncontendedHold, SharedHold
  <1> QED BY <1>3, <1>5, <1>6, <1>7, <1>9, Zenon DEF StoreInv

LEMMA StoreInvStep == StoreInv /\ [StoreNext]_storeVars => StoreInv'
  <1> SUFFICES ASSUME StoreInv, [StoreNext]_storeVars PROVE StoreInv'
    OBVIOUS
  <1>1. ASSUME NEW p \in Processes, Step(p) PROVE StoreInv'
    <2>1. pc[p] # "write" => [handle EXCEPT ![p] = Absent] = handle
      BY Zenon DEF StoreInv, StoreTypeOK
    <2>2. ASSUME NEW contract \in ContractFiles, Register(p, contract) PROVE StoreInv'
      BY <2>2, RegisterKeeps, Zenon
    <2>3. CASE Validate(p)
      <3>1. CASE source[p].valid
        <4>1. NoFile(p, "exists")
          BY <2>1, <2>3, <3>1, Zenon DEF Validate, NoFile, Over
        <4> QED BY <4>1, NoFileTouched, Zenon
      <3>2. CASE ~source[p].valid
        <4>1. NoFile(p, "refused")
          BY <2>1, <2>3, <3>2, Zenon DEF Validate, NoFile, Over
        <4> QED BY <4>1, NoFileTouched, Zenon
      <3> QED BY <3>1, <3>2, Zenon
    <2>4. CASE AlreadyThere(p)
      <3>1. CASE destination[source[p].id] = Absent
        <4>1. NoFile(p, "open")
          BY <2>1, <2>4, <3>1, Zenon DEF AlreadyThere, NoFile, Over
        <4> QED BY <4>1, NoFileTouched, Zenon
      <3>2. CASE destination[source[p].id] # Absent
        <4>1. NoFile(p, "refused")
          BY <2>1, <2>4, <3>2, Zenon DEF AlreadyThere, NoFile, Over
        <4> QED BY <4>1, NoFileTouched, Zenon
      <3> QED BY <3>1, <3>2, Zenon
    <2>5. CASE Chmod(p)
      <3>1. CASE temporary[source[p].id] = Absent
        <4>1. NoFile(p, "refused")
          BY <2>1, <2>5, <3>1, Zenon DEF Chmod, NoFile, Over
        <4> QED BY <4>1, NoFileTouched, Zenon
      <3>2. CASE temporary[source[p].id] # Absent
        <4>1. NoFile(p, "replace")
          BY <2>1, <2>5, <3>2, Zenon DEF Chmod, NoFile, Over
        <4> QED BY <4>1, NoFileTouched, Zenon
      <3> QED BY <3>1, <3>2, Zenon
    <2>6. CASE Replace(p)
      <3>1. CASE temporary[source[p].id] = Absent
        <4>1. NoFile(p, "refused")
          BY <2>1, <2>6, <3>1, Zenon DEF Replace, NoFile, Over
        <4> QED BY <4>1, NoFileTouched, Zenon
      <3>2. CASE temporary[source[p].id] # Absent
        BY <2>6, <3>2, ReplaceKeeps, Zenon
      <3> QED BY <3>1, <3>2, Zenon
    <2>7. CASE Kill(p)
      <3>1. NoFile(p, "killed")
        BY <2>7, Zenon DEF Kill, NoFile, Running, Over
      <3> QED BY <3>1, NoFileTouched, Zenon
    <2> QED BY <1>1, <2>2, <2>3, <2>4, <2>5, <2>6, <2>7, OpenKeeps, WriteKeeps, Zenon DEF Step
  <1> QED BY <1>1, StoreInvStutter, Zenon DEF StoreNext

\* A whole contract that participation_store.py shows is an accepted one of its identifier,
\* the file of what was announced stays, and an identifier that no two invocations
\* registered at once holds at every moment the whole contract that was announced: for any
\* number of invocations and contracts, any kills, and as many of them at a time as there
\* may be, each writing its text in as many pieces as it takes.
THEOREM StoreAlwaysShowsAccepted == StoreSpec => []StoreShowsAccepted
  <1>1. StoreInv => StoreShowsAccepted
    <2> SUFFICES ASSUME StoreInv PROVE StoreShowsAccepted
      OBVIOUS
    <2>0. \A id \in FileIds : destination[id] # Absent => IsFile(destination[id], id)
      BY FilesAre, Zenon DEF StoreInv, NamesHold
    <2>1. ASSUME NEW id \in FileIds, Contents(id) \notin {Absent, Partial}
          PROVE  Contents(id).valid /\ Contents(id).id = id
      BY <2>0, <2>1, Zenon DEF IsFile, Contents
    <2>2. \A id \in FileIds \ contended : Contents(id) # Partial
      BY Zenon DEF StoreInv, UncontendedHold, OneAtATime
    <2>3. ASSUME NEW p \in Processes, pc[p] = "registered"
          PROVE  /\ Contents(source[p].id) # Absent
                 /\ source[p].id \notin contended => Contents(source[p].id) = source[p]
      <3>1. source[p] # Absent
        BY <2>3, Zenon DEF StoreInv, AllAccepted, Accepted
      <3>2. source[p].id \in FileIds
        BY <3>1, ContractFilesAssumption, Zenon DEF StoreInv, StoreTypeOK
      <3>3. destination[source[p].id] # Absent
        BY <2>3, Zenon DEF StoreInv, RegisteredStays
      <3>4. Contents(source[p].id) # Absent
        BY <2>0, <3>2, <3>3, Zenon DEF IsFile, Contents
      <3>5. source[p].id \notin contended => OneOf(source[p].id, p)
        BY <3>1, <3>2, Zenon DEF StoreInv, UncontendedHold, OneAtATime
      <3> QED BY <2>3, <3>4, <3>5, Zenon DEF OneOf
    <2>4. StoreTypeOK
      BY Zenon DEF StoreInv
    <2> QED BY <2>1, <2>2, <2>3, <2>4, Zenon DEF StoreShowsAccepted
  <1> QED BY <1>1, StoreInvInit, StoreInvStep, PTL DEF StoreSpec

=============================================================================
