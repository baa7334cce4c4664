SPECIFICATION Spec
CONSTANTS
    clicks = clicks
    k0 = k0
    k1 = k1
    c1 = c1
    Streams = {clicks}
    Keys = {k0, k1}
    Crc <- Hashes
    ShardCounts = {2}
    Initial <- TwoShards
    Batches <- Mixed
    Iterators = {i1, i2, i3}
    Producers = {p1}
    Workers = {w1, w2}
    Admins = {a1}
    Clients = {c1}
    Reads <- OneConsumer
    MaxRecords = 2
    MaxLimit = 2
    MaxTroubles = 1
    StoreBusy = TRUE
    NoName = NoName
    NoIterator = NoIterator
    NoClient = NoClient
INVARIANT TypeOK
INVARIANT NothingSkipped
INVARIANT OnceInOrder
INVARIANT SpentOnce
SYMMETRY Anonymous
