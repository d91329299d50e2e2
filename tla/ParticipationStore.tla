---------------------------- MODULE ParticipationStore ----------------------------
(***************************************************************************)
(* The local store of participation contracts, scripts/                    *)
(* participation_store.py: one file per participation in a directory that  *)
(* every invocation of the script shares.  register validates the contract *)
(* against the schema, refuses an identifier that has a file already,      *)
(* writes .<id>.json.tmp and renames it to <id>.json.  Several invocations *)
(* may run at a time and any of them may be killed between two system      *)
(* calls.  A file is an inode: a name that is renamed keeps the inode that *)
(* another process may still have open.                                    *)
(***************************************************************************)
EXTENDS Naturals, FiniteSets

CONSTANTS
    Processes,   \* invocations of the script
    FileIds,         \* values of participation_id
    ContractFiles,   \* the contract files: [id, text, valid]
    AtOnce,      \* how many invocations run at a time
    Absent,      \* no file of that name
    Partial      \* contents that are nobody's whole contract: the empty or half written
                 \* file, or a mixture of what two invocations wrote

ASSUME ContractFilesAssumption ==
    ContractFiles \subseteq [id : FileIds, text : {"t1", "t2"}, valid : BOOLEAN]
ASSUME AtOnceAssumption == AtOnce \in Nat \ {0}
ASSUME FilesAssumption ==
    Absent \notin Processes /\ Absent # Partial /\ {Absent, Partial} \cap ContractFiles = {}

VARIABLES
    destination, \* <id>.json: id -> inode or Absent
    temporary,   \* .<id>.json.tmp: id -> inode or Absent
    inodes,      \* inode -> contents; the inode a process creates is named after it
    pc,          \* process -> where it is in main
    source,      \* process -> the contract it was given
    handle,      \* process -> the inode of the file it has open, or Absent
    contended,   \* identifiers that two invocations ever registered at once
    shared       \* invocations whose open file another one had open too

storeVars == <<destination, temporary, inodes, pc, source, handle, contended, shared>>

Running == {p \in Processes : pc[p] \notin {"new", "registered", "refused", "killed"}}

StoreTypeOK ==
    /\ destination \in [FileIds -> Processes \cup {Absent}]
    /\ temporary \in [FileIds -> Processes \cup {Absent}]
    /\ inodes \in [Processes -> ContractFiles \cup {Absent, Partial}]
    /\ pc \in [Processes -> {"new", "validate", "exists", "open", "write", "chmod",
                             "replace", "registered", "refused", "killed"}]
    /\ source \in [Processes -> ContractFiles \cup {Absent}]
    /\ handle \in [Processes -> Processes \cup {Absent}]
    /\ contended \subseteq FileIds
    /\ shared \subseteq Processes
    /\ \A p \in Running : source[p] # Absent
    /\ \A p \in Processes : pc[p] = "write" <=> handle[p] # Absent

StoreInit ==
    /\ destination = [id \in FileIds |-> Absent]
    /\ temporary = [id \in FileIds |-> Absent]
    /\ inodes = [p \in Processes |-> Absent]
    /\ pc = [p \in Processes |-> "new"]
    /\ source = [p \in Processes |-> Absent]
    /\ handle = [p \in Processes |-> Absent]
    /\ contended = {}
    /\ shared = {}

Goto(p, where) == pc' = [pc EXCEPT ![p] = where]

\* register <contract.json>: the store's directory is made, the contract is read.
Register(p, contract) ==
    /\ pc[p] = "new"
    /\ Cardinality(Running) < AtOnce
    /\ source' = [source EXCEPT ![p] = contract]
    /\ contended' = contended \cup ({contract.id} \cap {source[q].id : q \in Running})
    /\ Goto(p, "validate")
    /\ UNCHANGED <<destination, temporary, inodes, handle, shared>>

\* Draft202012Validator(...).validate(contract)
Validate(p) ==
    /\ pc[p] = "validate"
    /\ Goto(p, IF source[p].valid THEN "exists" ELSE "refused")
    /\ UNCHANGED <<destination, temporary, inodes, source, handle, contended, shared>>

\* Mutant: an identifier that has a file is written again.
AlreadyThereIgnored(p) ==
    /\ pc[p] = "exists"
    /\ Goto(p, "open")
    /\ UNCHANGED <<destination, temporary, inodes, source, handle, contended, shared>>

\* if destination.exists(): return fail(...)
AlreadyThere(p) ==
    /\ pc[p] = "exists"
    /\ Goto(p, IF destination[source[p].id] = Absent THEN "open" ELSE "refused")
    /\ UNCHANGED <<destination, temporary, inodes, source, handle, contended, shared>>

\* write_text opens the temporary file: an existing one is truncated and keeps its
\* inode, which another invocation may have open.
Open(p) ==
    LET id == source[p].id
        inode == IF temporary[id] = Absent THEN p ELSE temporary[id]
        others == {q \in Processes : handle[q] = inode}
    IN  /\ pc[p] = "open"
        /\ temporary' = [temporary EXCEPT ![id] = inode]
        /\ inodes' = [inodes EXCEPT ![inode] = Partial]
        /\ handle' = [handle EXCEPT ![p] = inode]
        /\ shared' = shared \cup IF others = {} THEN {} ELSE others \cup {p}
        /\ Goto(p, "write")
        /\ UNCHANGED <<destination, source, contended>>

\* ... writes a piece of the text at its own offset in the open file, whatever the file
\* is called by now and whatever another invocation has put there.
WritePiece(p) ==
    /\ pc[p] = "write"
    /\ inodes' = [inodes EXCEPT ![handle[p]] = Partial]
    /\ UNCHANGED <<destination, temporary, pc, source, handle, contended, shared>>

\* ... writes the last piece and closes the file.  It now holds the text, unless somebody
\* else had it open: then what their writes left may stay.
Write(p) ==
    /\ pc[p] = "write"
    /\ \E text \in {source[p]} \cup IF p \in shared THEN {inodes[handle[p]]} ELSE {} :
          inodes' = [inodes EXCEPT ![handle[p]] = text]
    /\ handle' = [handle EXCEPT ![p] = Absent]
    /\ Goto(p, "chmod")
    /\ UNCHANGED <<destination, temporary, source, contended, shared>>

\* os.chmod(temporary, 0o640) fails when the name is gone.
Chmod(p) ==
    /\ pc[p] = "chmod"
    /\ Goto(p, IF temporary[source[p].id] = Absent THEN "refused" ELSE "replace")
    /\ UNCHANGED <<destination, temporary, inodes, source, handle, contended, shared>>

\* temporary.replace(destination): rename, over an existing file too.
Replace(p) ==
    LET id == source[p].id
    IN  /\ pc[p] = "replace"
        /\ IF temporary[id] = Absent
             THEN /\ Goto(p, "refused")
                  /\ UNCHANGED <<destination, temporary>>
             ELSE /\ destination' = [destination EXCEPT ![id] = temporary[id]]
                  /\ temporary' = [temporary EXCEPT ![id] = Absent]
                  /\ Goto(p, "registered")
        /\ UNCHANGED <<inodes, source, handle, contended, shared>>

\* A kill, or an OSError (no space, for one) at any point: the temporary file stays.
Kill(p) ==
    /\ p \in Running
    /\ Goto(p, "killed")
    /\ handle' = [handle EXCEPT ![p] = Absent]
    /\ UNCHANGED <<destination, temporary, inodes, source, contended, shared>>

Step(p) ==
    \/ \E contract \in ContractFiles : Register(p, contract)
    \/ Validate(p) \/ AlreadyThere(p) \/ Open(p) \/ WritePiece(p) \/ Write(p) \/ Chmod(p) \/ Replace(p)
    \/ Kill(p)

StoreNext == \E p \in Processes : Step(p)

StoreSpec == StoreInit /\ [][StoreNext]_storeVars

-----------------------------------------------------------------------------
(* Properties *)

\* The contents of <id>.json, Absent when there is no such file.
Contents(id) == IF destination[id] = Absent THEN Absent ELSE inodes[destination[id]]

\* All state has its type.  A whole contract that show prints for an identifier is of that
\* identifier and the schema accepted it, after any kills and any other invocations, and
\* the file of a registration that was announced never disappears.  As long as two
\* invocations never registered the identifier at once it is more: the whole contract at
\* every moment, and the one that was announced.  Two that did share one temporary file
\* (line 58): what the name leads to, for good, may be the other's contract, a part of
\* one, or a mixture of both.
StoreShowsAccepted ==
    /\ StoreTypeOK
    /\ \A id \in FileIds : Contents(id) \notin {Absent, Partial} =>
          Contents(id).valid /\ Contents(id).id = id
    /\ \A id \in FileIds \ contended : Contents(id) # Partial
    /\ \A p \in Processes : pc[p] = "registered" =>
          /\ Contents(source[p].id) # Absent
          /\ source[p].id \notin contended => Contents(source[p].id) = source[p]
=============================================================================
