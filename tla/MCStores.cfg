SPECIFICATION Spec
CONSTANTS
    Workers = {w1, w2}
    MaxRequests = 4
    MayCrash = TRUE
    StoreBusy = TRUE
    SecretRequests = 3
    IdentityRequests = 2
    PoolRequests = 3
    Buckets = {b1}
    Keys = {k1}
    Tags = {g1, g2}
    Uploads = {u1}
    PartNumbers = {1, 2}
    Initial <- Enabled
    Settings = {"enabled", "suspended"}
    NoUpload = NoUpload
    NoPart = NoPart
    Secrets = {a, b}
    Tokens = {tok}
    StageSets <- CurrentOrPending
    TagKeys = {g}
    NoVersion = NoVersion
    Parameters = {p}
    KeyIds = {key1}
    Aliases = {alias1}
    NoKey = NoKey
    NoParameter = NoParameter
    Users = {u}
    Groups = {staff}
    Roles = {r}
    Policies = {q1, q2}
    Documents <- AllowOrDeny
    NoDocument = NoDocument
    Pools = {p1}
    Clients = {c1, c2}
    Usernames = {n1}
    NoPool = NoPool
    NoUser = NoUser
SYMMETRY Symmetry
CHECK_DEADLOCK FALSE
INVARIANT
    StoresTypeOK
    OneLatestVersion
    MultipartWhole
    CurrentAndPrevious
    HistoryComplete
    AnsweredInClear
    NothingDangling
    StandingPoliciesCount
    ConfirmedInPerson
    SignOutReachesAll
