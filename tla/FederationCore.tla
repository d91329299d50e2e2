---------------------------- MODULE FederationCore ----------------------------
(***************************************************************************)
(* The core library's memory of a federation.  GovernedSystemRegistry      *)
(* (core/include/sister/federation.hpp) registers a system once and lets   *)
(* its operational status and its maturity be updated.  SystemRegistry     *)
(* (core/src/registry.cpp) holds manifests that were read from documents   *)
(* with the patterns of core/src/contract.cpp.  proposeParticipation       *)
(* (core/include/sister/participation.hpp) hands out contracts.            *)
(*                                                                         *)
(* A document is the sequence of its members in the order of the text,     *)
(* those of nested objects included: the patterns do not see nesting.      *)
(***************************************************************************)
EXTENDS Naturals, Sequences, FiniteSets, SequencesExt

CONSTANTS
    Governed,    \* manifests given to GovernedSystemRegistry
    Documents,   \* texts given to parseSystemManifestJson
    Drafts,      \* drafts given to proposeParticipation
    Unregistered \* no entry

Statuses == {"active", "degraded", "inactive", "suspended"}
Maturities == {"experimental", "pre_alpha", "alpha", "beta", "production"}

TextFields == {"system_id", "system_name", "system_version", "contract_version", "type"}
ListFields == {"domain", "operational_mode", "exports", "integration_modes"}
RequiredFlags == {"requires_provenance", "requires_schema_validation"}

VARIABLES
    systems,     \* GovernedSystemRegistry::systems_
    manifests,   \* SystemRegistry::systems_
    agreements,  \* the ParticipationContracts handed out
    reply        \* the last call, what it was given and whether it was accepted

coreVars == <<systems, manifests, agreements, reply>>

SystemIds == {m.id : m \in Governed}
ManifestIds == {v.value : v \in {w \in UNION {Range(d) : d \in Documents} : w.key = "system_id"}}

\* The value of a member, by the pattern that finds it: a text, the number of strings
\* of an array, true or false.
KindOfField(key) ==
    CASE key \in TextFields -> "text" [] key \in ListFields -> "list" [] OTHER -> "flag"

CoreInit ==
    /\ systems = [id \in SystemIds |-> Unregistered]
    /\ manifests = [id \in ManifestIds |-> Unregistered]
    /\ agreements = {}
    /\ reply = [op |-> "none", given |-> Unregistered, ok |-> TRUE]

Replied(op, given, ok) == reply' = [op |-> op, given |-> given, ok |-> ok]

-----------------------------------------------------------------------------
(* GovernedSystemRegistry *)

\* Identifiers, versions and owners come from FederationId::fromString, which refuses
\* an empty text.
Identified(m) == m.id # "" /\ m.version # "" /\ m.owner # ""

\* Every capability has a contract, and no two have one identity.
CapabilitiesFit(capabilities) ==
    \A i \in DOMAIN capabilities :
        /\ capabilities[i].contract # ""
        /\ \A j \in (i + 1)..Len(capabilities) : capabilities[i].id # capabilities[j].id

\* Mutant: a registration of a known identity replaces the one that is there.
RegisterReplacing(m) ==
    LET ok == m.capabilities # <<>> /\ CapabilitiesFit(m.capabilities)
    IN  /\ systems' = IF ok THEN [systems EXCEPT ![m.id] = m] ELSE systems
        /\ Replied("register", m, ok)
        /\ UNCHANGED <<manifests, agreements>>

\* registerSystem: a known identity is accepted again only with all the same fields,
\* and then nothing is stored.
RegisterSystem(m) ==
    LET known == systems[m.id] # Unregistered
        ok == /\ m.capabilities # <<>>
              /\ IF known THEN systems[m.id] = m ELSE CapabilitiesFit(m.capabilities)
    IN  /\ systems' = IF ok /\ ~known THEN [systems EXCEPT ![m.id] = m] ELSE systems
        /\ Replied("register", m, ok)
        /\ UNCHANGED <<manifests, agreements>>

UpdateOperationalStatus(id, status) ==
    LET known == systems[id] # Unregistered
    IN  /\ systems' = IF known THEN [systems EXCEPT ![id].operational_status = status]
                      ELSE systems
        /\ Replied("status", status, known)
        /\ UNCHANGED <<manifests, agreements>>

UpdateMaturity(id, maturity) ==
    LET known == systems[id] # Unregistered
    IN  /\ systems' = IF known THEN [systems EXCEPT ![id].maturity = maturity] ELSE systems
        /\ Replied("maturity", maturity, known)
        /\ UNCHANGED <<manifests, agreements>>

-----------------------------------------------------------------------------
(* Manifests *)

\* extractString, extractStringArray and extractBool: the first place in the text
\* where the key is followed by a value of the kind; without one the empty value.
Extract(document, key) ==
    LET found == SelectSeq(document, LAMBDA v : v.key = key /\ v.kind = KindOfField(key))
    IN  IF found # <<>> THEN Head(found).value
        ELSE CASE KindOfField(key) = "text" -> "" [] KindOfField(key) = "list" -> 0
               [] OTHER -> FALSE

ParseSystemManifest(document) ==
    [key \in TextFields \cup ListFields \cup RequiredFlags |-> Extract(document, key)]

Blank(text) == text \in {"", " "}

\* The issues of validateSystemManifest, by their fields.
Issues(manifest) ==
    {key \in TextFields : Blank(manifest[key])}
    \cup {key \in ListFields : manifest[key] = 0}
    \cup {key \in RequiredFlags : ~manifest[key]}

\* SystemRegistry::registerSystem: a valid manifest replaces the one of its system.
RegisterManifest(document) ==
    LET manifest == ParseSystemManifest(document)
        ok == Issues(manifest) = {}
    IN  /\ manifests' = IF ok THEN [manifests EXCEPT ![manifest.system_id] = manifest]
                        ELSE manifests
        /\ Replied("manifest", document, ok)
        /\ UNCHANGED <<systems, agreements>>

-----------------------------------------------------------------------------
(* Participation contracts *)

\* Identifiers are numbered in the order of their texts, 0 is the empty one.
CapabilityComplete(c) == c.id # 0 /\ c.texts /\ c.profile = "D2/A1/shadow"

\* std::ranges::sort, then adjacent_find: equal identifiers are neighbours.
Duplicated(ids) ==
    LET sorted == SortSeq(ids, <)
    IN  \E i \in 1..(Len(sorted) - 1) : sorted[i] = sorted[i + 1]

\* The verdict of proposeParticipation, in the order of its tests.
DraftVerdict(d) ==
    CASE ~d.texts -> "required_field"
      [] d.texts /\ (d.capabilities = <<>> \/ d.contributions = 0) -> "empty_offer"
      [] d.texts /\ d.capabilities # <<>> /\ d.contributions > 0 ->
           IF \E i \in DOMAIN d.capabilities : ~CapabilityComplete(d.capabilities[i])
             THEN "invalid_capability"
           ELSE IF Duplicated([i \in DOMAIN d.capabilities |-> d.capabilities[i].id])
             THEN "duplicate_capability"
           ELSE IF d.authorities < 6 THEN "incomplete_authority" ELSE "proposed"

ProposeParticipation(d) ==
    LET ok == DraftVerdict(d) = "proposed"
    IN  /\ agreements' = IF ok THEN agreements \cup {d} ELSE agreements
        /\ Replied("participation", d, ok)
        /\ UNCHANGED <<systems, manifests>>

RegistryNext ==
    \/ \E m \in Governed : Identified(m) /\ RegisterSystem(m)
    \/ \E id \in SystemIds, s \in Statuses : UpdateOperationalStatus(id, s)
    \/ \E id \in SystemIds, s \in Maturities : UpdateMaturity(id, s)

ManifestNext == \E document \in Documents : RegisterManifest(document)

DraftNext == \E d \in Drafts : ProposeParticipation(d)

-----------------------------------------------------------------------------
(* Properties *)

Distinct(sequence) == Cardinality(Range(sequence)) = Len(sequence)

(***************************************************************************)
(* What federates keep relying on.  A system that is registered keeps its  *)
(* version, owner and capabilities whatever is registered or updated       *)
(* later, and an accepted registration, a first or a repeated one, says    *)
(* exactly what the registry then holds, its status and maturity included. *)
(* Every registered system and every contract handed out names each of its *)
(* capabilities once, and every manifest held is complete and under its    *)
(* own identifier.                                                         *)
(***************************************************************************)
RegistryKeepsIdentity ==
    [][/\ \A id \in SystemIds : systems[id] # Unregistered =>
             /\ systems'[id] # Unregistered
             /\ systems'[id].version = systems[id].version
             /\ systems'[id].owner = systems[id].owner
             /\ systems'[id].capabilities = systems[id].capabilities
       /\ reply'.op = "register" /\ reply'.ok => systems'[reply'.given.id] = reply'.given
       /\ \A id \in SystemIds : systems'[id] # Unregistered =>
             LET c == systems'[id].capabilities
             IN  c # <<>> /\ Distinct([i \in DOMAIN c |-> c[i].id])
       /\ \A d \in agreements' :
             Distinct([i \in DOMAIN d.capabilities |-> d.capabilities[i].id])
       /\ \A id \in DOMAIN manifests : manifests'[id] # Unregistered =>
             manifests'[id].system_id = id /\ Issues(manifests'[id]) = {}]_coreVars
=============================================================================
