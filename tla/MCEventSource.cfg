SPECIFICATION EventSourceSpec
CONSTANTS
    jobs = jobs
    dead = dead
    Queues = {jobs, dead}
    SendQueues = {jobs}
    PollQueues = {jobs}
    NoQueue = NoQueue
    NoRow = NoRow
    NoHandle = NoHandle
    NoDedup = NoDedup
    NoReceipt = NoReceipt
    NoName = NoName
    DedupIds = {}
    Handles = {h1, h2}
    Senders = {s1}
    Receivers = {p1}
    Pollers = {p1}
    Ackers = {p1}
    Admins = {d1}
    Configs <- AdminConfigs
    InitialQueues <- WorkQueues
    MaxSends = 2
    MaxIds = 3
    MaxBatch = 2
    CountCap = 2
    MayCrash = TRUE
    StoreBusy = TRUE
SYMMETRY HandleSymmetry
INVARIANT LeftOnlyIfHandled
