SPECIFICATION ProcessSpec
CONSTANTS
    Workers = {w1, w2}
    Conns = {c1, c2, c3, c4}
    QueueLimit = 2
    NoConn = NoConn
    Forgotten = Forgotten
    Environments <- MCEnvironments
INVARIANTS
    ListensAsAllowed
    SingleOwner
    NoLostWakeup
    WorkersOutliveJobs
PROPERTIES
    ServiceFairness
    
