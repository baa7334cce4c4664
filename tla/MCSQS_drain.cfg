SPECIFICATION FairSpec
CONSTANTS
    jobs = jobs
    dead = dead
    h1 = h1
    h2 = h2
    h3 = h3
    h4 = h4
    Queues = {jobs, dead}
    SendQueues = {jobs}
    PollQueues = {jobs}
    NoQueue = NoQueue
    NoRow = NoRow
    NoHandle = NoHandle
    NoDedup = NoDedup
    NoReceipt = NoReceipt
    NoName = NoName
    DedupIds = {}
    Handles = {h1, h2, h3, h4}
    Senders = {s1}
    Receivers = {r1, r2}
    Ackers = {}
    Admins = {}
    Configs = {}
    InitialQueues <- SlowQueues
    MaxSends = 1
    MaxIds = 3
    MaxBatch = 1
    CountCap = 3
    MayCrash = FALSE
    StoreBusy = FALSE
INVARIANT NoMessageLost
PROPERTY PolicyDrains
