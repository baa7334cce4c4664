SPECIFICATION Spec
CONSTANTS
    accounts = accounts
    log = log
    ann = ann
    bob = bob
    id = id
    amount = amount
    Tables = {accounts, log}
    Keys = {ann, bob}
    KeyAttr = id
    Attrs = {id, amount}
    Texts = {ann, bob}
    Numbers = {0, 1}
    Absent = Absent
    NoItem = NoItem
    NoCond = NoCond
    Workers = {w1, w2}
    Admins = {a1}
    Requests <- Writes
    Initial <- BothTables
    MaxDeletes = 1
    StoreBusy = TRUE
    MayCrash = TRUE
    NoName = NoName
SYMMETRY Threads
INVARIANT TypeOK
PROPERTY ImplementsAtomicTable
