SPECIFICATION ScenesSpec
CONSTANTS
    Tasks = {t1}
    Nodes = {n1, n2}
    Publishers = {p1}
    Ops <- OpsEnds
    MaxEvents = 1
    NoTask = NoTask
    NoNode = NoNode
CHECK_DEADLOCK FALSE
INVARIANT PlacedRunning
PROPERTY PublishingEnds
