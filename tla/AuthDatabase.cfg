SPECIFICATION Spec
CONSTANTS
    Ids = {i1, i2}
    Emails = {e1, e2}
    Passwords = {p1, p2}
    Tokens = {t1, t2}
    Requests = {r1, r2}
    HttpBootstrap = TRUE
    ConnectionLoss = TRUE
    StatementErrors = TRUE
    NoUser = NoUser
    NoSession = NoSession
    NoActor = NoActor
    Keep = Keep
SYMMETRY Symmetry
INVARIANTS SessionsFitAccounts RegisterIsAtomic
PROPERTY AdminStays
