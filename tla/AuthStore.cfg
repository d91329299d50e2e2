SPECIFICATION Spec
CONSTANTS
    Ids = {u1, u2}
    Emails = {e1, e2}
    Passwords = {p1}
    Tokens = {t1, t2}
    Requests = {r1, r2}
    Lifetime = 2
    Second = 2
    MaxClock = 2
    HttpBootstrap = TRUE
    WriteFaults = TRUE
    NoUser = NoUser
    NoSession = NoSession
    Unknown = Unknown
    NoActor = NoActor
SYMMETRY AuthSymmetry
INVARIANTS
    AckedUsersDurable
    RevokedStaysRevoked
    SessionsHaveUsers
    ActiveSessionPersists
PROPERTY AdminNeverLost
