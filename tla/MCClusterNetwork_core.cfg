SPECIFICATION Spec
CONSTANTS
    Nodes = {1, 2}
    Clusters = {c1, c2}
    Cidrs = {a, b}
    MaxSlot = 2
    Requests = {r1, r2}
    MaxTroubles = 1
    Declaring = {1}
    Ops <- OpsCore
    NoCluster = NoCluster
    NoCidr = NoCidr
    NoAddr = NoAddr
    NoRow = NoRow
    Free = Free
SYMMETRY ClusterSymmetry
CHECK_DEADLOCK FALSE
INVARIANT TypeOK
INVARIANT AddressesApart
INVARIANT ClaimsMatch
INVARIANT NoDeadlock
INVARIANT MembersConfigured
PROPERTY FailureLeavesNothing
INVARIANT ForeignKept
PROPERTY Implements
