SPECIFICATION Spec
CONSTANTS
    Machines = {m}
    Definitions = {"loop", "works", "waits", "fails", "nested", "tree", "broken", "astray"}
    Program <- ProgramOf
    Created = {"tree", "broken", "astray"}
    Executions = {e1}
    MaxVisits = 2
    NoMachine = NoMachine
    NoExecution = NoExecution
    Workers = {w1, w2}
    MaxRequests = 2
    MayCrash = TRUE
    StoreBusy = TRUE
CHECK_DEADLOCK FALSE
INVARIANT ParentsWait
INVARIANT FailedIfAnyRaised
INVARIANT RecordsOK
PROPERTY ExecutionsEnd
