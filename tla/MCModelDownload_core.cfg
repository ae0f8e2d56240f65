SPECIFICATION ScenesSpec
CONSTANTS
    Jobs = {j1}
    Versions = {v1, v2}
    Threads = {t1, t2}
    Monitors = {m1, m2}
    Requests = {r1}
    Ops <- OpsCore
    NoVersion = NoVersion
    NoJob = NoJob
    NoThread = NoThread
SYMMETRY Slots
CHECK_DEADLOCK FALSE
INVARIANT TypeOK
INVARIANT OneThreadPerJob
INVARIANT NoOrphanDownload
INVARIANT PinKept
PROPERTY CompletionIsVerified
