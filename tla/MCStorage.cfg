SPECIFICATION FairSpec
CONSTANTS
    server = server
    cli = cli
    w1 = w1
    w2 = w2
    c1 = c1
    Processes = {server, cli}
    Threads = {w1, w2, c1}
    Home <- Processes2
    MaxWrites = 2
    MayCrash = TRUE
    Free = Free
INVARIANT StoreInv
PROPERTY ImplementsAtomicStore
PROPERTY CallsReturn
