SPECIFICATION ScenesSpec
CONSTANTS
    Tasks = {t1, t2}
    Nodes = {n1}
    Publishers = {p1, p2}
    GpuNodes = {n1, n2}
    GpuPublishers = {p1}
    Ops <- OpsCore
    MaxEvents = 0
    NoTask = NoTask
    NoNode = NoNode
SYMMETRY Slots
CHECK_DEADLOCK FALSE
INVARIANT NodeExclusive
INVARIANT NoOrphanResults
INVARIANT GpuNotShared
