SPECIFICATION EnvironmentSpec
CONSTANTS
    Runs = {r1, r2}
    Stops = {s1}
    Projects <- OneProject
    Required = {"reference"}
    Faults = {"stubborn", "stop"}
    AtOnce = 1
    NoFile = NoFile
    Invocations = {v1, v2, v3}
    Pids = {p1, p2}
    MaxStarts = 3
    Nothing = Nothing
SYMMETRY NumberSymmetry
INVARIANTS CycleIsSymmetric RerunNotRefused StopsItsOwn
PROPERTY OthersPreserved
\* The programs end, and each is invoked once.
CHECK_DEADLOCK FALSE
