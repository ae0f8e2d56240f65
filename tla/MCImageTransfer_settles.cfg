SPECIFICATION FairSpec
CONSTANTS
    Jobs = {j1}
    Nodes = {n1}
    MaxBuild = 1
    Threads = {t1, t2}
    Monitors = {m1, m2}
    Ops <- OpsSettles
    None = None
    Gone = Gone
    Bad = Bad
CHECK_DEADLOCK FALSE
PROPERTY Settles
