SPECIFICATION FederationSpec
CONSTANTS
    Runs = {run1, run2}
    Stamps = {t1, t2}
    Outputs = {o1, o2}
    MaxSupersessions = 2
    Governed <- MCGoverned
    Documents <- MCDocuments
    Drafts <- MCDrafts
    Unregistered = Unregistered
    Clients = {c1, c2}
    Ids = {"p1", "p2"}
    Contracts <- MCContracts
    Assessments <- MCAssessments
    None = None
    Processes = {1, 2, 3}
    FileIds = {"p1", "p2"}
    ContractFiles <- MCContractFiles
    AtOnce = 2
    Absent = Absent
    Partial = Partial
SYMMETRY RunSymmetry
\* Runs reach their last status and invocations of the store end.
CHECK_DEADLOCK FALSE
INVARIANTS
    MeetsContract
    ReceiptIsStored
    StoreShowsAccepted
PROPERTIES
    NothingRewritten
    RegistryKeepsIdentity
    NeverRewritten
