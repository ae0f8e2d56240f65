SPECIFICATION FairSpec
CONSTANTS
    Writers = {r1, r2}
    Size = 2
    Kinds <- AllKinds
    Tries <- FewTries
    Ops <- OpsCore
    None = None
CHECK_DEADLOCK FALSE
INVARIANT MarkedIsRight
PROPERTY RightWhenDone
PROPERTY Returns
PROPERTY Recovers
