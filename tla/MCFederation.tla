---------------------------- MODULE MCFederation ----------------------------
(* The parts of the federation's domain that share no state, each explored   *)
(* alone: runs of integrations, the core's registries, participations in     *)
(* sisterd and in the local store.                                           *)
EXTENDS IntegrationRun, FederationCore, Participation, ParticipationStore, TLC

VARIABLE focus

RunSymmetry == Permutations(Runs) \cup Permutations(Stamps) \cup Permutations(Outputs)

-----------------------------------------------------------------------------
\* Registrations that differ in one field, one for each test of the registry.
System(id) ==
    [id |-> id, version |-> "1", owner |-> "o",
     capabilities |-> <<[id |-> "c1", contract |-> "k"]>>,
     operational_status |-> "active", maturity |-> "alpha"]

MCGoverned ==
    {System("s"), [System("s") EXCEPT !.version = "2"], [System("s") EXCEPT !.owner = "p"],
     [System("s") EXCEPT !.maturity = "beta"], [System("s") EXCEPT !.owner = ""],
     [System("s") EXCEPT !.capabilities = <<>>],
     [System("t") EXCEPT !.capabilities = @ \o @],
     [System("t") EXCEPT !.capabilities = @ \o <<[id |-> "c2", contract |-> ""]>>],
     [System("t") EXCEPT !.capabilities = @ \o <<[id |-> "c2", contract |-> "k"]>>]}

Member(key, value) == [key |-> key, kind |-> KindOfField(key), value |-> value]
Others(id) ==
    [i \in 1..10 |->
        LET key == <<"system_name", "system_version", "contract_version", "type", "domain",
                     "operational_mode", "exports", "integration_modes",
                     "requires_provenance", "requires_schema_validation">>[i]
        IN  Member(key, CASE KindOfField(key) = "text" -> id
                          [] KindOfField(key) = "list" -> 1 [] OTHER -> TRUE)]

\* Complete documents of two systems, one with the other's identifier nested before
\* its own, one with a blank name, one without provenance and one without exports.
MCDocuments ==
    {<<Member("system_id", "a")>> \o Others("a"), <<Member("system_id", "b")>> \o Others("b"),
     <<Member("system_id", "b"), Member("system_id", "a")>> \o Others("a"),
     <<Member("system_id", "a"), Member("system_name", " ")>> \o Others("a"),
     <<Member("system_id", "a"), Member("requires_provenance", FALSE)>> \o Others("a"),
     <<Member("system_id", "a")>> \o SelectSeq(Others("a"), LAMBDA v : v.key # "exports"),
     Others("a")}

Capability(id) == [id |-> id, texts |-> TRUE, profile |-> "D2/A1/shadow"]
Draft(ids) ==
    [texts |-> TRUE, capabilities |-> [i \in DOMAIN ids |-> Capability(ids[i])],
     contributions |-> 1, authorities |-> 6]

MCDrafts ==
    {Draft(ids) : ids \in {<<>>, <<1>>, <<0>>, <<1, 2>>, <<1, 2, 1>>, <<2, 1, 3>>}}
    \cup {[Draft(<<1>>) EXCEPT !.texts = FALSE], [Draft(<<1>>) EXCEPT !.contributions = 0],
          [Draft(<<1>>) EXCEPT !.authorities = 5],
          [Draft(<<1>>) EXCEPT !.capabilities[1].profile = "other"]}

-----------------------------------------------------------------------------
Base(id) ==
    [id |-> id, system |-> "sister_reference", version |-> "1.0.0",
     digest |-> "d1", marked |-> TRUE]

\* Two contracts that compete for one identifier, one of another identifier, and one
\* for each check of the service.
MCContracts ==
    {Base("p1"), [Base("p1") EXCEPT !.digest = "d2"], Base("p2"),
     [Base("p1") EXCEPT !.system = "other"], [Base("p1") EXCEPT !.marked = FALSE],
     [Base("p1") EXCEPT !.id = ""]}

MCAssessments ==
    {[id |-> "a1", participation |-> "p1", digest |-> "d1"],
     [id |-> "a1", participation |-> "p2", digest |-> "d1"],
     [id |-> "a2", participation |-> "p1", digest |-> "d2"]}

MCContractFiles ==
    {[id |-> "p1", text |-> "t1", valid |-> TRUE],
     [id |-> "p1", text |-> "t2", valid |-> TRUE],
     [id |-> "p2", text |-> "t1", valid |-> TRUE],
     [id |-> "p1", text |-> "t2", valid |-> FALSE]}

-----------------------------------------------------------------------------
FederationInit ==
    /\ RunInit /\ CoreInit /\ ParticipationInit /\ StoreInit
    /\ focus \in {"runs", "registry", "manifests", "drafts", "participations", "store"}

FederationNext ==
    /\ UNCHANGED focus
    /\ \/ /\ focus = "runs" /\ RunNext
          /\ UNCHANGED <<coreVars, participationVars, storeVars>>
       \/ /\ \/ focus = "registry" /\ RegistryNext
             \/ focus = "manifests" /\ ManifestNext
             \/ focus = "drafts" /\ DraftNext
          /\ UNCHANGED <<runVars, participationVars, storeVars>>
       \/ /\ focus = "participations" /\ ParticipationNext
          /\ UNCHANGED <<runVars, coreVars, storeVars>>
       \/ /\ focus = "store" /\ StoreNext
          /\ UNCHANGED <<runVars, coreVars, participationVars>>

FederationSpec ==
    FederationInit
    /\ [][FederationNext]_<<runVars, coreVars, participationVars, storeVars, focus>>

=============================================================================
