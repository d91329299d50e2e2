------------------------------ MODULE Participation ------------------------------
(***************************************************************************)
(* Governed participation: proposals of participation contracts and their  *)
(* reading.  A client (scripts/participation_client.py, which waits 10 s   *)
(* for the answer and never retries by itself) posts a contract; the       *)
(* handler takes AppState::dbMutex, ParticipationService::propose checks   *)
(* the fields and DbConn::registerParticipationProposal inserts one row    *)
(* into sister_participation_contracts.  Technical assessments are added   *)
(* by ParticipationService::recordTechnicalAssessment.                     *)
(*                                                                         *)
(* The connection may break before the statement reaches PostgreSQL or     *)
(* after it committed: DbConn sees the same failed result in both cases.   *)
(***************************************************************************)
EXTENDS Naturals, FiniteSets

CONSTANTS
    Clients,     \* authenticated users, each with one request at a time
    Ids,         \* values of participation_id
    Contracts,   \* the contracts that are proposed, see ContractType
    Assessments, \* technical assessments: [id, participation, digest]
    None         \* no client, no row, no contract

\* What the service and the domain rules read of a contract's text.  id is "" when
\* the text has no participation_id; marked: the text contains "state":"proposed"
\* somewhere.  The rules of core's proposeParticipation are not among them: sisterd
\* does not call it.
ContractType ==
    [id : Ids \cup {""}, system : {"sister_reference", "other"},
     version : {"1.0.0", "other"}, digest : {"", "d1", "d2"},
     marked : BOOLEAN]

ASSUME ContractsAssumption == Contracts \subseteq ContractType
ASSUME AssessmentsAssumption ==
    Assessments \subseteq [id : {"a1", "a2"}, participation : Ids, digest : {"d1", "d2"}]
ASSUME NoneAssumption == None \notin Clients /\ None \notin [contract : Contracts, by : Clients]

VARIABLES
    contracts,   \* sister_participation_contracts: id -> row or None
    assessments, \* sister_participation_assessments, a set of rows
    dbMutex,     \* the client whose request holds AppState::dbMutex, or None
    request,     \* client -> the request its worker is handling
    answer,      \* client -> what the client was told last
    receipts     \* the rows whose registration was answered 201

participationVars == <<contracts, assessments, dbMutex, request, answer, receipts>>

Row(contract, client) == [contract |-> contract, by |-> client]

NoRequest == [op |-> "none"]
Proposal(contract) == [op |-> "propose", contract |-> contract, at |-> "checks"]
Reading(id, known) == [op |-> "show", id |-> id, known |-> known]

\* The identifiers a client can know to be registered when it asks.
Known == {row.contract.id : row \in receipts}

RequestType ==
    {NoRequest}
    \cup [op : {"propose"}, contract : Contracts, at : {"checks", "insert", "stored", "failed"}]
    \cup [op : {"show"}, id : Ids, known : SUBSET Ids]

ParticipationTypeOK ==
    /\ contracts \in [Ids -> [contract : Contracts, by : Clients] \cup {None}]
    /\ assessments \subseteq Assessments
    /\ dbMutex \in Clients \cup {None}
    /\ request \in [Clients -> RequestType]
    /\ answer \in [Clients -> {"none", "gave_up", "201", "400", "503", "200", "404", "404_known"}]
    /\ receipts \subseteq [contract : Contracts, by : Clients]
    /\ dbMutex # None => request[dbMutex].op = "propose"

ParticipationInit ==
    /\ contracts = [id \in Ids |-> None]
    /\ assessments = {}
    /\ dbMutex = None
    /\ request = [c \in Clients |-> NoRequest]
    /\ answer = [c \in Clients |-> "none"]
    /\ receipts = {}

-----------------------------------------------------------------------------
(* ParticipationService *)

\* The checks of ParticipationService::propose, in the code's order: fields present,
\* the supported system and version, the text mentions the state proposed.
Acceptable(contract) ==
    /\ contract.id # "" /\ contract.digest # ""
    /\ contract.system = "sister_reference" /\ contract.version = "1.0.0"
    /\ contract.marked

-----------------------------------------------------------------------------
(* Clients *)

Propose(c, contract) ==
    /\ request[c] = NoRequest
    /\ request' = [request EXCEPT ![c] = Proposal(contract)]
    /\ answer' = [answer EXCEPT ![c] = "none"]
    /\ UNCHANGED <<contracts, assessments, dbMutex, receipts>>

Show(c, id) ==
    /\ request[c] = NoRequest
    /\ request' = [request EXCEPT ![c] = Reading(id, Known)]
    /\ answer' = [answer EXCEPT ![c] = "none"]
    /\ UNCHANGED <<contracts, assessments, dbMutex, receipts>>

\* urlopen's timeout: the client stops waiting, its request goes on in the server.
GiveUp(c) ==
    /\ request[c] # NoRequest
    /\ answer[c] = "none"
    /\ answer' = [answer EXCEPT ![c] = "gave_up"]
    /\ UNCHANGED <<contracts, assessments, dbMutex, request, receipts>>

-----------------------------------------------------------------------------
(* The handler *)

\* The client reads the answer unless it gave up.
Told(c, status) ==
    answer' = [answer EXCEPT ![c] = IF @ = "gave_up" THEN @ ELSE status]

At(c, where) == request[c].op = "propose" /\ request[c].at = where

\* lock_guard(dbMutex), then the service's checks.
Check(c) ==
    /\ At(c, "checks")
    /\ dbMutex = None
    /\ IF Acceptable(request[c].contract)
         THEN /\ dbMutex' = c
              /\ request' = [request EXCEPT ![c].at = "insert"]
              /\ UNCHANGED answer
         ELSE /\ request' = [request EXCEPT ![c] = NoRequest]
              /\ Told(c, "400")
              /\ UNCHANGED dbMutex
    /\ UNCHANGED <<contracts, assessments, receipts>>

\* Mutant: a row that is there already counts as stored (ON CONFLICT DO NOTHING).
StoredAlready(c) ==
    LET contract == request[c].contract
    IN  /\ contracts' = [contracts EXCEPT ![contract.id] =
                           IF @ = None THEN Row(contract, c) ELSE @]
        /\ request' = [request EXCEPT ![c].at = "stored"]

\* PostgreSQL executes the INSERT and its result arrives: the row is added, or the
\* primary key refuses it.
Stored(c) ==
    LET contract == request[c].contract
    IN  IF contracts[contract.id] = None
          THEN /\ contracts' = [contracts EXCEPT ![contract.id] = Row(contract, c)]
               /\ request' = [request EXCEPT ![c].at = "stored"]
          ELSE /\ request' = [request EXCEPT ![c].at = "failed"]
               /\ UNCHANGED contracts

Insert(c) ==
    /\ At(c, "insert")
    /\ Stored(c)
    /\ UNCHANGED <<assessments, dbMutex, answer, receipts>>

\* The connection is down, or breaks before the statement is executed.
InsertNotSent(c) ==
    /\ At(c, "insert")
    /\ request' = [request EXCEPT ![c].at = "failed"]
    /\ UNCHANGED <<contracts, assessments, dbMutex, answer, receipts>>

\* The connection breaks after the statement committed: the result is not seen.
ResultLost(c) ==
    /\ At(c, "stored")
    /\ request' = [request EXCEPT ![c].at = "failed"]
    /\ UNCHANGED <<contracts, assessments, dbMutex, answer, receipts>>

\* 201 with the row, and the lock is released.
Created(c) ==
    /\ At(c, "stored")
    /\ dbMutex' = None
    /\ request' = [request EXCEPT ![c] = NoRequest]
    /\ receipts' = IF answer[c] = "gave_up" THEN receipts
                   ELSE receipts \cup {Row(request[c].contract, c)}
    /\ Told(c, "201")
    /\ UNCHANGED <<contracts, assessments>>

\* Mutant: a failed registration is cleaned up after, by deleting its identifier.
UnavailableCleanedUp(c) ==
    /\ At(c, "failed")
    /\ dbMutex' = None
    /\ contracts' = [contracts EXCEPT ![request[c].contract.id] = None]
    /\ request' = [request EXCEPT ![c] = NoRequest]
    /\ Told(c, "503")
    /\ UNCHANGED <<assessments, receipts>>

\* nullopt from the database, whatever the cause: 503.
Unavailable(c) ==
    /\ At(c, "failed")
    /\ dbMutex' = None
    /\ request' = [request EXCEPT ![c] = NoRequest]
    /\ Told(c, "503")
    /\ UNCHANGED <<contracts, assessments, receipts>>

\* queryParticipation and ParticipationService::show: a failed query is not an
\* absent row.
Query(id, found) ==
    CASE found = "failed" -> "503"
      [] found # "failed" /\ contracts[id] = None -> "404"
      [] found # "failed" /\ contracts[id] # None -> "200"

\* The reading takes dbMutex for the query and its answer.  404_known marks a 404 for
\* an identifier that had been registered, with a receipt, before the client asked.
Answer(c, found) ==
    /\ request[c].op = "show"
    /\ dbMutex = None
    /\ LET status == Query(request[c].id, found)
       IN  Told(c, IF status = "404" /\ request[c].id \in request[c].known
                     THEN "404_known" ELSE status)
    /\ request' = [request EXCEPT ![c] = NoRequest]
    /\ UNCHANGED <<contracts, assessments, dbMutex, receipts>>

-----------------------------------------------------------------------------
(* Technical assessments *)

\* The primary and the foreign key of sister_participation_assessments.
AssessmentFits(a) ==
    /\ \A b \in assessments : b.id # a.id
    /\ contracts[a.participation] # None

\* recordTechnicalAssessment: one INSERT, refused by the keys.  The digest is stored
\* as given.
RecordTechnicalAssessment(a) ==
    /\ dbMutex = None
    /\ AssessmentFits(a)
    /\ assessments' = assessments \cup {a}
    /\ UNCHANGED <<contracts, dbMutex, request, answer, receipts>>

-----------------------------------------------------------------------------
ClientStep(c) ==
    \/ \E contract \in Contracts : Propose(c, contract)
    \/ \E id \in Ids : Show(c, id)
    \/ GiveUp(c)

HandlerStep(c) ==
    \/ Check(c) \/ Insert(c) \/ InsertNotSent(c) \/ ResultLost(c)
    \/ Created(c) \/ Unavailable(c)
    \/ \E found \in {"result", "failed"} : Answer(c, found)

ParticipationNext ==
    \/ \E c \in Clients : ClientStep(c) \/ HandlerStep(c)
    \/ \E a \in Assessments : RecordTechnicalAssessment(a)

ParticipationSpec == ParticipationInit /\ [][ParticipationNext]_participationVars

-----------------------------------------------------------------------------
(* Properties *)

\* All state has its type.  A client that was told 201 has its own contract in the
\* table, under its own name, for good: never somebody else's contract of the same
\* identifier.  And nobody who asks after a 201 is told that the participation does
\* not exist, not even while the database is failing.
ReceiptIsStored ==
    /\ ParticipationTypeOK
    /\ \A row \in receipts : contracts[row.contract.id] = row
    /\ \A c \in Clients : answer[c] # "404_known"

\* A persisted contract is never altered or removed, whatever is proposed or assessed
\* later, by whom and after which failures (ADR-0025).
NeverRewritten ==
    [][\A id \in Ids : contracts[id] # None => contracts'[id] = contracts[id]]_participationVars
=============================================================================
