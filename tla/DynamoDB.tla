----------------------------- MODULE DynamoDB -----------------------------
(***************************************************************************)
(* The table store, src/openaws/dynamodb.py.  As in SQS an action is a SQL *)
(* statement with the Python code up to the next one, and a request        *)
(* refused by its first statement is no step.                              *)
(*                                                                         *)
(* put_item, delete_item and update_item are requests of one operation,    *)
(* transact_write_items checks the conditions of all its operations and    *)
(* then calls one of these three for each, without its condition;          *)
(* batch_write_item goes through its operations table by table.            *)
(***************************************************************************)
EXTENDS Items

CONSTANTS
    Workers,     \* server threads that serve writes
    Admins,      \* server threads that run create_table and delete_table
    Requests,    \* the writes clients ask for
    Initial,     \* the tables of the data directory at start
    MaxDeletes,  \* bound: tables ever purged
    StoreBusy,   \* whether a write may raise
    MayCrash,    \* whether the process is killed and restarted
    NoName

Request == [kind : {"single", "transact", "batch"}, ops : Seq(Operation)]

ASSUME DynamoDBAssumption ==
    /\ Requests \subseteq Request
    /\ \A r \in Requests : /\ r.ops # <<>>
                           /\ r.kind = "single" => Len(r.ops) = 1
                           /\ r.kind = "batch" => \A k \in DOMAIN r.ops :
                                 r.ops[k].cond = NoCond /\ r.ops[k].kind # "update"
    /\ Workers \cap Admins = {}
    /\ Initial \subseteq Tables
    /\ NoName \notin Tables
    /\ MaxDeletes \in Nat
    /\ StoreBusy \in BOOLEAN /\ MayCrash \in BOOLEAN

VARIABLES
    tables,     \* the names in table ddb_tables
    items,      \* table ddb_items, by table name and key
    local,      \* the local variables of each worker
    admin,      \* the local variables of each admin
    deletes,    \* purges so far
    \* history variables
    disturbed,  \* requests whose items somebody else wrote to meanwhile
    answer,     \* of the last request of each worker
    torn        \* workers whose last transaction failed half-way

db == <<tables, items>>
history == <<disturbed, answer, torn>>
vars == <<tables, items, local, admin, deletes, disturbed, answer, torn>>

Steps == {"idle", "check table", "check", "batch", "require", "read", "write"}

(* k is the operation a request is at, item what it is about to store.     *)
LocalState == [pc : Steps, kind : {"single", "transact", "batch"},
               ops : Seq(Operation), k : Nat, item : Stored]

Idle == [pc |-> "idle", kind |-> "single", ops |-> <<>>, k |-> 1, item |-> NoItem]

(* A request is at one of its operations, and past its checks it has read  *)
(* what an update starts from.                                             *)
TypeOK ==
    /\ tables \subseteq Tables
    /\ items \in [Place -> Stored]
    /\ local \in [Workers -> LocalState]
    /\ \A t \in Workers : local[t].pc # "idle" => local[t].k \in DOMAIN local[t].ops
    /\ admin \in [Admins -> [pc : {"idle"}, name : {NoName}] \cup
                            [pc : {"create", "purge", "drop"}, name : Tables]]
    /\ deletes \in 0 .. MaxDeletes
    /\ disturbed \subseteq Workers
    /\ answer \in [Workers -> {"none", "ok", "error"}]
    /\ torn \subseteq Workers

-----------------------------------------------------------------------------
(* Helpers *)

Op(t) == local[t].ops[local[t].k]

(* The operations a request has yet to apply; those of a transaction past  *)
(* its checks, and of a batch, have no conditions.                         *)
Remaining(s) ==
    CASE s.pc = "idle" -> <<>>
      [] s.pc \in {"check table", "check"} -> s.ops
      [] OTHER -> [j \in 1 .. Len(s.ops) - s.k + 1 |->
                     IF s.kind = "transact" THEN [s.ops[s.k + j - 1] EXCEPT !.cond = NoCond]
                                            ELSE s.ops[s.k + j - 1]]

Places(t) == LET todo == Remaining(local[t]) IN {PlaceOf(todo[j]) : j \in DOMAIN todo}

(* An exception ends the request; what it has written stays.               *)
Fail(t) ==
    /\ local' = [local EXCEPT ![t] = Idle]
    /\ answer' = [answer EXCEPT ![t] = "error"]
    /\ torn' = IF local[t].kind = "transact" /\ local[t].k > 1
                  /\ local[t].pc \notin {"check table", "check"}
               THEN torn \cup {t} ELSE torn
    /\ UNCHANGED disturbed

Goto(t, step) ==
    /\ local' = [local EXCEPT ![t].pc = step]
    /\ UNCHANGED history

(* Where _require_table leads: a condition, or an update, reads the item.  *)
AfterRequire(kind, op) ==
    IF op.kind = "update" \/ (kind = "single" /\ op.cond # NoCond) THEN "read" ELSE "write"

(* Where the loop of batch_write_item is at an operation: put_item asks    *)
(* for the table again, a delete does not.                                 *)
InBatch(op) == IF op.kind = "put" THEN "require" ELSE "write"

(* The next operation of a request, which has k as its number.             *)
Following(s, k) ==
    CASE s.kind = "transact" -> "require"
      [] s.kind = "batch" /\ s.ops[k].table = s.ops[k - 1].table -> InBatch(s.ops[k])
      [] s.kind = "batch" /\ s.ops[k].table # s.ops[k - 1].table -> "batch"

-----------------------------------------------------------------------------
(* create_table and delete_table *)

CreateTableCheck(a, n) ==
    /\ admin[a].pc = "idle"
    /\ n \notin tables
    /\ admin' = [admin EXCEPT ![a] = [pc |-> "create", name |-> n]]
    /\ UNCHANGED <<db, local, deletes, history>>

(* The name is the primary key: a second INSERT of it raises.              *)
CreateTableInsert(a) ==
    /\ admin[a].pc = "create"
    /\ tables' = tables \cup {admin[a].name}
    /\ admin' = [admin EXCEPT ![a] = [pc |-> "idle", name |-> NoName]]
    /\ UNCHANGED <<items, local, deletes, history>>

DeleteTableRequire(a, n) ==
    /\ admin[a].pc = "idle"
    /\ n \in tables
    /\ deletes < MaxDeletes
    /\ admin' = [admin EXCEPT ![a] = [pc |-> "purge", name |-> n]]
    /\ UNCHANGED <<db, local, deletes, history>>

DeleteTablePurge(a) ==
    LET n == admin[a].name
    IN  /\ admin[a].pc = "purge"
        /\ deletes < MaxDeletes
        /\ deletes' = deletes + 1
        /\ items' = [p \in Place |-> IF p[1] = n THEN NoItem ELSE items[p]]
        /\ disturbed' = disturbed \cup {u \in Workers : \E p \in Places(u) : p[1] = n}
        /\ admin' = [admin EXCEPT ![a].pc = "drop"]
        /\ UNCHANGED <<tables, local, answer, torn>>

DeleteTableDrop(a) ==
    /\ admin[a].pc = "drop"
    /\ tables' = tables \ {admin[a].name}
    /\ admin' = [admin EXCEPT ![a] = [pc |-> "idle", name |-> NoName]]
    /\ UNCHANGED <<items, local, deletes, history>>

(* "database is locked": a table may be left empty. *)
AdminFails(a) ==
    /\ StoreBusy
    /\ admin[a].pc # "idle"
    /\ admin' = [admin EXCEPT ![a] = [pc |-> "idle", name |-> NoName]]
    /\ UNCHANGED <<db, local, deletes, history>>

-----------------------------------------------------------------------------
(* Writes *)

(* The first _require_table of a request. *)
Begin(t, r) ==
    LET op == r.ops[1]
    IN  /\ local[t].pc = "idle"
        /\ op.table \in tables
        /\ local' = [local EXCEPT ![t] =
                       [pc |-> CASE r.kind = "single" -> AfterRequire("single", op)
                                 [] r.kind = "transact" -> "check"
                                 [] r.kind = "batch" -> InBatch(op),
                        kind |-> r.kind, ops |-> r.ops, k |-> 1, item |-> NoItem]]
        /\ disturbed' = disturbed \ {t}
        /\ answer' = [answer EXCEPT ![t] = "none"]
        /\ torn' = torn \ {t}
        /\ UNCHANGED <<db, admin, deletes>>

(* transact_write_items, phase 1: _require_table of an operation.          *)
CheckTable(t) ==
    /\ local[t].pc = "check table"
    /\ IF Op(t).table \in tables THEN Goto(t, "check") ELSE Fail(t)
    /\ UNCHANGED <<db, admin, deletes>>

(* Mutant: the last operation is not told from the others. *)
CheckPastTheLast(t) ==
    LET s == local[t]
    IN  /\ s.pc = "check"
        /\ IF Holds(Op(t).cond, items[PlaceOf(Op(t))])
           THEN /\ local' = [local EXCEPT ![t] =
                      IF s.k > Len(s.ops) THEN [s EXCEPT !.pc = "require", !.k = 1]
                                          ELSE [s EXCEPT !.pc = "check table", !.k = @ + 1]]
                /\ UNCHANGED history
           ELSE Fail(t)
        /\ UNCHANGED <<db, admin, deletes>>

(* Phase 1: the item is read and the condition checked; after the last     *)
(* operation phase 2 begins with the first.                                *)
Check(t) ==
    LET s == local[t]
    IN  /\ s.pc = "check"
        /\ IF Holds(Op(t).cond, items[PlaceOf(Op(t))])
           THEN /\ local' = [local EXCEPT ![t] =
                      IF s.k = Len(s.ops) THEN [s EXCEPT !.pc = "require", !.k = 1]
                                          ELSE [s EXCEPT !.pc = "check table", !.k = @ + 1]]
                /\ UNCHANGED history
           ELSE Fail(t)
        /\ UNCHANGED <<db, admin, deletes>>

(* batch_write_item: _require_table of the next table.                     *)
BatchTable(t) ==
    /\ local[t].pc = "batch"
    /\ IF Op(t).table \in tables THEN Goto(t, InBatch(Op(t))) ELSE Fail(t)
    /\ UNCHANGED <<db, admin, deletes>>

(* _require_table of put_item, delete_item or update_item, when another    *)
(* request calls them.                                                     *)
Require(t) ==
    /\ local[t].pc = "require"
    /\ IF Op(t).table \in tables
       THEN Goto(t, AfterRequire(local[t].kind, Op(t))) ELSE Fail(t)
    /\ UNCHANGED <<db, admin, deletes>>

(* Mutant: conditions are for items that exist. *)
ConditionMet(s, op, old) ==
    s.kind # "single" \/ old = NoItem \/ Holds(op.cond, old)

(* A transaction has checked its conditions in phase 1. *)
MayWrite(s, op, old) == s.kind # "single" \/ Holds(op.cond, old)

(* _get_item_raw, the condition, and what an update makes of the item; the *)
(* bound on numbers makes an update that leaves it wait for ever.          *)
Read(t) ==
    LET op == Op(t)
        old == items[PlaceOf(op)]
    IN  /\ local[t].pc = "read"
        /\ IF MayWrite(local[t], op, old) /\ Valid(op, old)
           THEN /\ Effect(op, old) \in Stored
                /\ local' = [local EXCEPT ![t].pc = "write", ![t].item = Effect(op, old)]
                /\ UNCHANGED history
           ELSE Fail(t)
        /\ UNCHANGED <<db, admin, deletes>>

(* The INSERT ... ON CONFLICT DO UPDATE, or the DELETE.                    *)
Write(t) ==
    LET s == local[t]
        op == Op(t)
        p == PlaceOf(op)
    IN  /\ s.pc = "write"
        /\ items' = [items EXCEPT ![p] = IF op.kind = "update" THEN s.item ELSE Effect(op, @)]
        /\ disturbed' = disturbed \cup {u \in Workers \ {t} : p \in Places(u)}
        /\ IF s.k = Len(s.ops)
           THEN /\ local' = [local EXCEPT ![t] = Idle]
                /\ answer' = [answer EXCEPT ![t] = "ok"]
           ELSE /\ local' = [local EXCEPT ![t] = [s EXCEPT !.pc = Following(s, s.k + 1),
                                                           !.k = @ + 1, !.item = NoItem]]
                /\ UNCHANGED answer
        /\ UNCHANGED <<tables, admin, deletes, torn>>

(* "database is locked" *)
WriteFails(t) ==
    /\ StoreBusy
    /\ local[t].pc = "write"
    /\ Fail(t)
    /\ UNCHANGED <<db, admin, deletes>>

(* The server dies and is started again on its data directory.             *)
Crash ==
    /\ MayCrash
    /\ local' = [t \in Workers |-> Idle]
    /\ admin' = [a \in Admins |-> [pc |-> "idle", name |-> NoName]]
    /\ UNCHANGED <<db, deletes, history>>

-----------------------------------------------------------------------------
Init ==
    /\ tables = Initial
    /\ items = [p \in Place |-> NoItem]
    /\ local = [t \in Workers |-> Idle]
    /\ admin = [a \in Admins |-> [pc |-> "idle", name |-> NoName]]
    /\ deletes = 0
    /\ disturbed = {}
    /\ answer = [t \in Workers |-> "none"]
    /\ torn = {}

Manage(a) == \/ \E n \in Tables : CreateTableCheck(a, n) \/ DeleteTableRequire(a, n)
             \/ CreateTableInsert(a)
             \/ DeleteTablePurge(a)
             \/ DeleteTableDrop(a)
             \/ AdminFails(a)

Serve(t) == \/ \E r \in Requests : Begin(t, r)
            \/ CheckTable(t)
            \/ Check(t)
            \/ BatchTable(t)
            \/ Require(t)
            \/ Read(t)
            \/ Write(t)
            \/ WriteFails(t)

Next == \/ \E t \in Workers : Serve(t)
        \/ \E a \in Admins : Manage(a)
        \/ Crash

Spec == Init /\ [][Next]_vars

-----------------------------------------------------------------------------
(* Properties *)

(* The requests as AtomicTable sees them. *)
Todo == [t \in Workers |-> Remaining(local[t])]

InPhase1 == {t \in Workers : local[t].pc \in {"check table", "check"}}

Atomic == INSTANCE AtomicTable WITH todo <- Todo, checking <- InPhase1

(* A write, conditional or not, is one step on the item it checked, as     *)
(* long as nobody else writes to the items of the request; a transaction   *)
(* checks everything before it writes anything, and its answer is "ok"     *)
(* only if all of it was written (dynamodb.py:181-285, 438-492).           *)
ImplementsAtomicTable == Atomic!Spec

(* dynamodb.py:13 and 442, README.md:175: transact_write_items is an       *)
(* all-or-nothing multi-item write.                                        *)
AllOrNothing == torn = {}
=============================================================================
