SPECIFICATION Spec
CONSTANTS
    Jobs = {j1, j2}
    Nodes = {n1, n2}
    MaxBuild = 2
    Threads = {t1, t2}
    Monitors = {m1, m2}
    Ops <- OpsCore
    None = None
    Gone = Gone
    Bad = Bad
SYMMETRY Symmetry_
CHECK_DEADLOCK FALSE
INVARIANT OnePuller
INVARIANT NodesNotShared
INVARIANT Driven
PROPERTY DeliveredWhenCompleted
PROPERTY Implements
