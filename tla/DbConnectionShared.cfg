SPECIFICATION Spec
CONSTANTS
    h1 = h1
    h2 = h2
    h3 = h3
    Handlers <- AllHandlers
    Unlocked <- OperationalBase
    MaxConnections = 4
    Nobody = Nobody
INVARIANT OneHandlerInLibpq
