SPECIFICATION Spec
CONSTANTS
    Jobs = {j1, j2}
    Nodes = {n1, n2}
    Files = {f1}
    Monitors = {m1, m2}
    Requests = {r1}
    Fetches = {x1, x2}
    Ops <- OpsCore
    NoJob = NoJob
    NoNode = NoNode
    NoFetch = NoFetch
SYMMETRY Slots
CHECK_DEADLOCK FALSE
INVARIANT NodesNotShared
PROPERTY DeliveredWhenCompleted
PROPERTY Implements
