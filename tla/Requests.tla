------------------------------ MODULE Requests ------------------------------
(***************************************************************************)
(* How the server of src/openaws/server.py runs the requests of a service: *)
(* each in a thread of its own, as a sequence of SQL statements that are   *)
(* atomic one by one (module Storage) and interleave with those of other   *)
(* requests.  The modules of the services extend this one; their actions   *)
(* are a statement and the Python code up to the next.                     *)
(*                                                                         *)
(* local[t].todo names the statements a request has still to run and       *)
(* local[t].touches the rows it relies on nobody else changing; the rest   *)
(* of local[t] are its variables.  A request that its first statement      *)
(* refuses is no step; a check whose only effect is to refuse may be one   *)
(* step with the SELECT it precedes.                                       *)
(***************************************************************************)
EXTENDS Integers, FiniteSets, Sequences, TLC

CONSTANTS
    Workers,      \* server threads
    MaxRequests,  \* bound: requests ever begun
    MayCrash,     \* whether the process is killed and restarted
    StoreBusy     \* whether a write may raise (module Storage: ExecBusy)

ASSUME RequestsAssumption ==
    MaxRequests \in Nat /\ MayCrash \in BOOLEAN /\ StoreBusy \in BOOLEAN

VARIABLES
    local,     \* the local variables of each server thread
    begun,     \* requests so far
    disturbed  \* history: rows where two requests overlapped or one broke off

requests == <<local, begun, disturbed>>

Idle == [todo |-> <<>>, touches |-> {}]

InitRequests ==
    /\ local = [t \in Workers |-> Idle]
    /\ begun = 0
    /\ disturbed = {}

RequestsTypeOK(Rows) ==
    /\ DOMAIN local = Workers
    /\ \A t \in Workers : /\ local[t].touches \subseteq Rows
                          /\ local[t].todo = <<>> => local[t] = Idle
    /\ begun \in 0 .. MaxRequests
    /\ disturbed \subseteq Rows

(* The fields of s, and those of r besides.                                *)
Also(s, r) == [x \in DOMAIN s \cup DOMAIN r |-> IF x \in DOMAIN s THEN s[x] ELSE r[x]]

At(t, step) == local[t].todo # <<>> /\ Head(local[t].todo) = step

(* Nobody is at work on the row and no two requests, or half of one, were. *)
Quiet(row) == row \notin disturbed /\ \A t \in Workers : row \notin local[t].touches

(* A request begins; s is what it has to do and to remember.               *)
Begin(t, s) ==
    /\ local[t] = Idle
    /\ begun < MaxRequests
    /\ begun' = begun + 1
    /\ local' = [local EXCEPT ![t] = s]
    /\ disturbed' = disturbed \cup
                    {row \in s.touches : \E u \in Workers : row \in local[u].touches}

(* It goes on as s, or has ended. *)
Continue(t, s) ==
    /\ local' = [local EXCEPT ![t] = IF s.todo = <<>> THEN Idle ELSE s]
    /\ UNCHANGED <<begun, disturbed>>

Advance(t) == Continue(t, [local[t] EXCEPT !.todo = Tail(@)])

Does(t, step) == At(t, step) /\ Advance(t)

(* An answer, or an exception before anything was written.                 *)
Ends(t) == Continue(t, Idle)

(* The requests of the threads in S stop where they are.                   *)
BreakOff(S) ==
    /\ local' = [t \in Workers |-> IF t \in S THEN Idle ELSE local[t]]
    /\ disturbed' = disturbed \cup UNION {local[t].touches : t \in S}
    /\ UNCHANGED begun

(* "database is locked", or any other exception out of a statement.        *)
Fails(t) == StoreBusy /\ local[t] # Idle /\ BreakOff({t})

(* The server dies and is started again on its data directory.             *)
Crash == MayCrash /\ BreakOff(Workers)
=============================================================================
