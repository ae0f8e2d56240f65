SPECIFICATION ScenesSpec
CONSTANTS
    Jobs = {j1, j2}
    RegistryJob = j1
    FirstVersion = v1
    Versions = {v1, v2}
    Threads = {t1, t2}
    Monitors = {m1, m2}
    Requests = {r1}
    Ops <- OpsEnds
    NoVersion = NoVersion
    NoJob = NoJob
    NoThread = NoThread
CHECK_DEADLOCK FALSE
INVARIANT RegistryNamesLiveThread
INVARIANT OneWriter
PROPERTY DownloadsEnd
