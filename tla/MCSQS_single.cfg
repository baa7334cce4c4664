SPECIFICATION Spec
CONSTANTS
    jobs = jobs
    dead = dead
    h1 = h1
    h2 = h2
    h3 = h3
    h4 = h4
    Queues = {jobs, dead}
    SendQueues = {jobs}
    PollQueues = {jobs}
    NoQueue = NoQueue
    NoRow = NoRow
    NoHandle = NoHandle
    NoDedup = NoDedup
    NoReceipt = NoReceipt
    NoName = NoName
    DedupIds = {x}
    Handles = {h1, h2, h3}
    Senders = {s1}
    Receivers = {r1}
    Ackers = {a1}
    Admins = {}
    Configs = {}
    InitialQueues <- FifoQueues
    MaxSends = 2
    MaxIds = 2
    MaxBatch = 2
    CountCap = 3
    MayCrash = TRUE
    StoreBusy = TRUE
INVARIANT TypeOK
INVARIANT ReceiptNamesItsMessage
INVARIANT LeaseExclusive
INVARIANT DeletedInTimeIsFinal
INVARIANT DeliveriesBounded
INVARIANT NoRecentDuplicate
SYMMETRY ThreadSymmetry
