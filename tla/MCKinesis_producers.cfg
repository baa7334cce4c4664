SPECIFICATION Spec
CONSTANTS
    clicks = clicks
    k0 = k0
    k1 = k1
    c1 = c1
    Streams = {clicks}
    Keys = {k0, k1}
    Crc <- Hashes
    ShardCounts = {2}
    Initial <- TwoShards
    Batches <- Mixed
    Iterators = {i1, i2, i3}
    Producers = {p1, p2}
    Workers = {w1}
    Admins = {}
    Clients = {c1}
    Reads <- OneConsumer
    MaxRecords = 2
    MaxLimit = 2
    MaxTroubles = 0
    StoreBusy = TRUE
    NoName = NoName
    NoIterator = NoIterator
    NoClient = NoClient
INVARIANT MonotonicSequenceNumbers
