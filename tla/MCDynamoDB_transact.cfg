SPECIFICATION Spec
CONSTANTS
    accounts = accounts
    log = log
    ann = ann
    bob = bob
    id = id
    amount = amount
    Tables = {accounts, log}
    Keys = {ann, bob}
    KeyAttr = id
    Attrs = {id, amount}
    Texts = {ann, bob}
    Numbers = {0, 1}
    Absent = Absent
    NoItem = NoItem
    NoCond = NoCond
    Workers = {w1}
    Admins = {}
    Requests <- HalfATransaction
    Initial <- BothTables
    MaxDeletes = 1
    StoreBusy = FALSE
    MayCrash = FALSE
    NoName = NoName
INVARIANT AllOrNothing
