--------------------------- MODULE DynamoDBProofs ---------------------------
(* Theorems about DynamoDB for every value of its constants. *)
EXTENDS DynamoDB, SequenceTheorems, TLAPS

(***************************************************************************)
(* Type correctness.  A request is at one of its operations because each   *)
(* kind of request goes through the steps of its own only: KindsOK.        *)
(***************************************************************************)

KindOK(s) ==
    s.pc # "idle" =>
        /\ s.kind = "single" => Len(s.ops) = 1 /\ s.pc \in {"read", "write"}
        /\ s.kind = "batch" => \A k \in DOMAIN s.ops :
              s.ops[k].cond = NoCond /\ s.ops[k].kind # "update"
        /\ s.pc \in {"check table", "check"} => s.kind = "transact"
        /\ s.pc = "batch" => s.kind = "batch"

KindsOK == \A t \in Workers : KindOK(local[t])

(* What a request, or a thread, may be in. *)
Running == {s \in LocalState : s.k \in DOMAIN s.ops /\ s.pc # "idle" /\ KindOK(s)}

LEMMA IdleType == Idle \in LocalState /\ KindOK(Idle)
  BY DEF Idle, LocalState, Steps, Stored, KindOK

LEMMA RunningType ==
  ASSUME TypeOK, KindsOK, NEW t \in Workers, local[t].pc # "idle"
  PROVE  local[t] \in Running
  BY DEF TypeOK, KindsOK, Running

LEMMA OperationAt ==
  ASSUME NEW s \in Running
  PROVE  /\ s.ops \in Seq(Operation) /\ s.k \in 1 .. Len(s.ops)
         /\ s.ops[s.k] \in Operation
         /\ s.ops[s.k].table \in Tables /\ s.ops[s.k].key \in Keys
         /\ PlaceOf(s.ops[s.k]) \in Place
<1>1. /\ s.ops \in Seq(Operation) /\ s.k \in 1 .. Len(s.ops)
  BY DEF Running, LocalState
<1>2. s.ops[s.k] \in Operation
  BY <1>1
<1>. QED BY <1>1, <1>2 DEF Operation, PlaceOf, Place

LEMMA LastOfSingle ==
  ASSUME NEW s \in Running, s.k # Len(s.ops)
  PROVE  s.kind \in {"transact", "batch"}
<1> DEFINE n == Len(s.ops)
<1>1. s.k \in 1 .. n /\ n \in Nat /\ s.kind \in {"single", "transact", "batch"}
  BY OperationAt DEF Running, LocalState
<1>2. s.kind = "single" => n = 1
  BY DEF Running, KindOK
<1> HIDE DEF n
<1>3. s.kind = "single" => s.k = n
  BY <1>1, <1>2
<1>. QED BY <1>1, <1>3 DEF n

(* A step that gives worker t another local state. *)
LEMMA WorkerType ==
  ASSUME TypeOK, KindsOK, NEW t \in Workers, NEW s \in Running \cup {Idle},
         local' = [local EXCEPT ![t] = s]
  PROVE  /\ local' \in [Workers -> LocalState] /\ KindsOK'
         /\ \A u \in Workers : local'[u].pc # "idle" => local'[u].k \in DOMAIN local'[u].ops
<1>1. s \in LocalState /\ KindOK(s) /\ (s.pc # "idle" => s.k \in DOMAIN s.ops)
  BY IdleType DEF Running, Idle
<1>. QED BY <1>1 DEF TypeOK, KindsOK

LEMMA FailType ==
  ASSUME TypeOK, KindsOK, NEW t \in Workers, Fail(t), UNCHANGED <<db, admin, deletes>>
  PROVE  TypeOK' /\ KindsOK'
  BY WorkerType DEF Fail, TypeOK, db

(* Another step of the same operation.                                     *)
LEMMA StepType ==
  ASSUME NEW s \in Running, NEW step \in {"check table", "check", "batch", "require", "read", "write"},
         NEW item \in Stored,
         s.kind = "single" => step \in {"read", "write"},
         step \in {"check table", "check"} => s.kind = "transact",
         step = "batch" => s.kind = "batch"
  PROVE  [s EXCEPT !.pc = step, !.item = item] \in Running
<1> DEFINE r == [s EXCEPT !.pc = step, !.item = item]
<1>1. r \in LocalState /\ r.pc = step /\ r.kind = s.kind /\ r.ops = s.ops /\ r.k = s.k
  BY DEF Running, LocalState, Steps
<1> HIDE DEF r
<1>2. r \in Running
  BY <1>1 DEF Running, KindOK
<1>. QED BY <1>2 DEF r

LEMMA GotoType ==
  ASSUME TypeOK, KindsOK, NEW t \in Workers, local[t].pc # "idle",
         NEW step \in {"check", "require", "read", "write"}, Goto(t, step),
         local[t].kind = "single" => step \in {"read", "write"},
         step = "check" => local[t].kind = "transact",
         UNCHANGED <<db, admin, deletes>>
  PROVE  TypeOK' /\ KindsOK'
<1> DEFINE s == [local[t] EXCEPT !.pc = step, !.item = local[t].item]
<1>1. local[t] \in Running /\ local[t].item \in Stored
  BY RunningType DEF Running, LocalState
<1>2. s \in Running
  BY <1>1, StepType
<1>3. local' = [local EXCEPT ![t] = s]
  BY <1>1 DEF Goto, TypeOK, Running, LocalState
<1> HIDE DEF s
<1>. QED BY <1>2, <1>3, WorkerType DEF Goto, TypeOK, db, history

(* The next operation, number k. *)
LEMMA FollowingType ==
  ASSUME NEW s \in Running, s.k # Len(s.ops), s.kind \in {"transact", "batch"}
  PROVE  /\ Following(s, s.k + 1) \in {"batch", "require", "write"}
         /\ Following(s, s.k + 1) = "batch" => s.kind = "batch"
         /\ [s EXCEPT !.pc = Following(s, s.k + 1), !.k = @ + 1, !.item = NoItem] \in Running
<1> DEFINE step == Following(s, s.k + 1)
           r == [s EXCEPT !.pc = step, !.k = @ + 1, !.item = NoItem]
<1>1. step \in {"batch", "require", "write"} /\ (step = "batch" => s.kind = "batch")
  BY DEF Following, InBatch
<1>2. s.k \in 1 .. Len(s.ops) /\ DOMAIN s.ops = 1 .. Len(s.ops) /\ s.k + 1 \in 1 .. Len(s.ops)
  BY OperationAt DEF Running, LocalState
<1> HIDE DEF step
<1>3. /\ r \in LocalState /\ r.pc = step /\ r.kind = s.kind /\ r.ops = s.ops /\ r.k = s.k + 1
  <2>1. s \in LocalState /\ s.k + 1 \in Nat
    BY <1>2 DEF Running
  <2>2. step \in Steps /\ NoItem \in Stored
    BY <1>1 DEF Steps, Stored
  <2>. QED BY <2>1, <2>2 DEF LocalState
<1> HIDE DEF r
<1>4. r \in Running
  BY <1>1, <1>2, <1>3 DEF Running, KindOK
<1>. QED BY <1>1, <1>4 DEF r, step

(* What is stored is an item or none. *)
LEMMA WriteType ==
  ASSUME TypeOK, KindsOK, NEW t \in Workers, Write(t)
  PROVE  items' \in [Place -> Stored]
<1>1. local[t] \in Running
  BY RunningType DEF Write
<1>2. Op(t) \in Operation /\ PlaceOf(Op(t)) \in Place /\ local[t].item \in Stored
  BY <1>1, OperationAt DEF Op, Running, LocalState
<1> DEFINE new == IF Op(t).kind = "update" THEN local[t].item ELSE Effect(Op(t), items[PlaceOf(Op(t))])
<1>3. new \in Stored
  <2>1. CASE Op(t).kind = "update"
    BY <1>2, <2>1
  <2>2. CASE Op(t).kind = "put"
    <3>1. Op(t).item \in Item
      BY <1>2, <2>2 DEF Operation
    <3>. QED BY <2>2, <3>1 DEF Effect, Stored
  <2>3. CASE Op(t).kind = "delete"
    BY <2>3 DEF Effect, Stored
  <2>. QED BY <1>2, <2>1, <2>2, <2>3 DEF Operation
<1>4. items' = [items EXCEPT ![PlaceOf(Op(t))] = new]
  BY DEF Write
<1> HIDE DEF new
<1>. QED BY <1>2, <1>3, <1>4 DEF TypeOK

LEMMA InitTypes == Init => TypeOK /\ KindsOK
  BY IdleType, DynamoDBAssumption DEF Init, TypeOK, KindsOK, Stored, Idle

LEMMA BeginType ==
  ASSUME TypeOK, KindsOK, NEW t \in Workers, NEW r \in Requests, Begin(t, r)
  PROVE  TypeOK' /\ KindsOK'
<1>1. /\ r.kind \in {"single", "transact", "batch"} /\ r.ops \in Seq(Operation) /\ r.ops # <<>>
      /\ r.kind = "single" => Len(r.ops) = 1
      /\ r.kind = "batch" => \A k \in DOMAIN r.ops :
            r.ops[k].cond = NoCond /\ r.ops[k].kind # "update"
  BY DynamoDBAssumption DEF Request
<1>2. 1 \in DOMAIN r.ops /\ 1 \in Nat
  BY <1>1
<1> DEFINE step == CASE r.kind = "single" -> AfterRequire("single", r.ops[1])
                     [] r.kind = "transact" -> "check"
                     [] r.kind = "batch" -> InBatch(r.ops[1])
           s == [pc |-> step, kind |-> r.kind, ops |-> r.ops, k |-> 1, item |-> NoItem]
<1>3. /\ step \in {"check", "require", "read", "write"} /\ (step = "check" => r.kind = "transact")
      /\ r.kind = "single" => step \in {"read", "write"}
  BY <1>1 DEF AfterRequire, InBatch
<1>4. local' = [local EXCEPT ![t] = s]
  BY DEF Begin
<1> HIDE DEF step
<1>5. s \in Running
  <2>1. s \in LocalState
    BY <1>1, <1>2, <1>3 DEF LocalState, Steps, Stored
  <2>2. KindOK(s)
    BY <1>1, <1>3 DEF KindOK
  <2>. QED BY <1>2, <1>3, <2>1, <2>2 DEF Running
<1> HIDE DEF s
<1>. QED BY <1>4, <1>5, WorkerType DEF Begin, TypeOK, db

LEMMA CheckType ==
  ASSUME TypeOK, KindsOK, NEW t \in Workers, Check(t)
  PROVE  TypeOK' /\ KindsOK'
<1> DEFINE s == local[t]
           next == [s EXCEPT !.pc = "check table", !.k = @ + 1]
           last == [s EXCEPT !.pc = "require", !.k = 1]
<1>1. s \in Running /\ s.pc = "check" /\ s.kind = "transact"
  BY RunningType DEF Check, Running, KindOK
<1>2. s.k \in 1 .. Len(s.ops) /\ DOMAIN s.ops = 1 .. Len(s.ops) /\ s \in LocalState
  BY <1>1, OperationAt DEF Running, LocalState
<1>3. CASE ~Holds(Op(t).cond, items[PlaceOf(Op(t))])
  BY <1>3, FailType DEF Check
<1>4. CASE Holds(Op(t).cond, items[PlaceOf(Op(t))]) /\ s.k = Len(s.ops)
  <2>1. /\ last \in LocalState /\ last.pc = "require" /\ last.kind = s.kind
        /\ last.ops = s.ops /\ last.k = 1
    BY <1>2 DEF LocalState, Steps
  <2>2. local' = [local EXCEPT ![t] = last]
    BY <1>4 DEF Check, TypeOK
  <2> HIDE DEF last
  <2>3. 1 \in DOMAIN last.ops
    BY <1>2, <2>1
  <2>4. KindOK(last)
    BY <1>1, <2>1 DEF Running, KindOK
  <2>5. last \in Running
    BY <2>1, <2>3, <2>4 DEF Running
  <2>. QED BY <1>4, <2>2, <2>5, WorkerType DEF Check, TypeOK, db, history
<1>5. CASE Holds(Op(t).cond, items[PlaceOf(Op(t))]) /\ s.k # Len(s.ops)
  <2>1. s.k + 1 \in 1 .. Len(s.ops) /\ s.k + 1 \in Nat
    BY <1>2, <1>5
  <2>2. /\ next \in LocalState /\ next.pc = "check table" /\ next.kind = s.kind
        /\ next.ops = s.ops /\ next.k = s.k + 1
    <3>1. "check table" \in Steps
      BY DEF Steps
    <3>. QED BY <1>2, <2>1, <3>1 DEF LocalState
  <2>3. local' = [local EXCEPT ![t] = next]
    BY <1>5 DEF Check
  <2> HIDE DEF next
  <2>4. next.k \in DOMAIN next.ops
    BY <1>2, <2>1, <2>2
  <2>5. KindOK(next)
    BY <1>1, <2>2 DEF Running, KindOK
  <2>6. next \in Running
    BY <2>2, <2>4, <2>5 DEF Running
  <2>. QED BY <1>5, <2>3, <2>6, WorkerType DEF Check, TypeOK, db, history
<1>. QED BY <1>3, <1>4, <1>5

LEMMA ReadType ==
  ASSUME TypeOK, KindsOK, NEW t \in Workers, Read(t)
  PROVE  TypeOK' /\ KindsOK'
<1> DEFINE old == items[PlaceOf(Op(t))]
           s == [local[t] EXCEPT !.pc = "write", !.item = Effect(Op(t), old)]
<1>1. CASE ~(MayWrite(local[t], Op(t), old) /\ Valid(Op(t), old))
  BY <1>1, FailType DEF Read
<1>2. CASE MayWrite(local[t], Op(t), old) /\ Valid(Op(t), old)
  <2>1. Effect(Op(t), old) \in Stored
    BY <1>2 DEF Read
  <2>2. local' = [local EXCEPT ![t] = s]
    BY <1>2 DEF Read, TypeOK
  <2>3. s \in Running
    BY <2>1, StepType, RunningType DEF Read
  <2> HIDE DEF s
  <2>. QED BY <1>2, <2>2, <2>3, WorkerType DEF Read, TypeOK, db, history
<1>. QED BY <1>1, <1>2

LEMMA WriteStepType ==
  ASSUME TypeOK, KindsOK, NEW t \in Workers, Write(t)
  PROVE  TypeOK' /\ KindsOK'
<1> DEFINE s == local[t]
           r == IF s.k = Len(s.ops) THEN Idle
                ELSE [s EXCEPT !.pc = Following(s, s.k + 1), !.k = @ + 1, !.item = NoItem]
<1>1. s \in Running /\ (s.k # Len(s.ops) => s.kind \in {"transact", "batch"})
  <2>1. s \in Running
    BY RunningType DEF Write
  <2>. QED BY <2>1, LastOfSingle
<1>2. r \in Running \cup {Idle}
  BY <1>1, FollowingType
<1>3. local' = [local EXCEPT ![t] = r]
  BY DEF Write
<1> HIDE DEF r
<1>4. /\ local' \in [Workers -> LocalState] /\ KindsOK'
      /\ \A u \in Workers : local'[u].pc # "idle" => local'[u].k \in DOMAIN local'[u].ops
  BY <1>2, <1>3, WorkerType
<1>5. answer' \in [Workers -> {"none", "ok", "error"}]
  BY DEF Write, TypeOK
<1>. QED BY <1>4, <1>5, WriteType DEF Write, TypeOK

LEMMA ManageType ==
  ASSUME TypeOK, KindsOK, NEW a \in Admins, Manage(a)
  PROVE  TypeOK' /\ KindsOK'
<1> DEFINE AdminState == [pc : {"idle"}, name : {NoName}] \cup
                         [pc : {"create", "purge", "drop"}, name : Tables]
<1>1. CASE \E n \in Tables : CreateTableCheck(a, n) \/ DeleteTableRequire(a, n)
  <2>1. \A n \in Tables : [pc |-> "create", name |-> n] \in AdminState /\ [pc |-> "purge", name |-> n] \in AdminState
    OBVIOUS
  <2>. QED BY <1>1, <2>1 DEF CreateTableCheck, DeleteTableRequire, TypeOK, KindsOK, db, history
<1>2. [pc |-> "idle", name |-> NoName] \in AdminState
  OBVIOUS
<1>3. CASE CreateTableInsert(a)
  <2>1. admin[a].name \in Tables
    BY <1>3 DEF CreateTableInsert, TypeOK
  <2>. QED BY <1>2, <1>3, <2>1 DEF CreateTableInsert, TypeOK, KindsOK, history
<1>4. CASE DeleteTablePurge(a)
  <2>1. admin' \in [Admins -> AdminState]
    BY <1>4 DEF DeleteTablePurge, TypeOK
  <2>2. items' \in [Place -> Stored]
    BY <1>4 DEF DeleteTablePurge, TypeOK, Stored
  <2>3. deletes' \in 0 .. MaxDeletes
    BY <1>4, DynamoDBAssumption DEF DeleteTablePurge, TypeOK
  <2>. QED BY <1>4, <2>1, <2>2, <2>3 DEF DeleteTablePurge, TypeOK, KindsOK
<1>5. CASE DeleteTableDrop(a)
  BY <1>2, <1>5 DEF DeleteTableDrop, TypeOK, KindsOK, history
<1>6. CASE AdminFails(a)
  BY <1>2, <1>6 DEF AdminFails, TypeOK, KindsOK, db, history
<1>. QED BY <1>1, <1>3, <1>4, <1>5, <1>6 DEF Manage

LEMMA NextTypes == TypeOK /\ KindsOK /\ [Next]_vars => TypeOK' /\ KindsOK'
<1> SUFFICES ASSUME TypeOK, KindsOK, [Next]_vars PROVE TypeOK' /\ KindsOK'
  OBVIOUS
<1>1. ASSUME NEW t \in Workers, Serve(t)
      PROVE  TypeOK' /\ KindsOK'
  <2>1. CASE \E r \in Requests : Begin(t, r)
    BY <2>1, BeginType
  <2>2. CASE CheckTable(t)
    <3>1. local[t].kind = "transact" /\ local[t].pc # "idle"
      BY <2>2, RunningType DEF CheckTable, Running, KindOK
    <3>. QED BY <2>2, <3>1, GotoType, FailType DEF CheckTable
  <2>3. CASE Check(t)
    BY <2>3, CheckType
  <2>4. CASE BatchTable(t)
    <3>1. InBatch(Op(t)) \in {"require", "write"}
      BY DEF InBatch
    <3>2. local[t].kind = "batch" /\ local[t].pc # "idle"
      BY <2>4, RunningType DEF BatchTable, Running, KindOK
    <3>. QED BY <2>4, <3>1, <3>2, GotoType, FailType DEF BatchTable
  <2>5. CASE Require(t)
    <3>1. AfterRequire(local[t].kind, Op(t)) \in {"read", "write"}
      BY DEF AfterRequire
    <3>. QED BY <2>5, <3>1, GotoType, FailType DEF Require
  <2>6. CASE Read(t)
    BY <2>6, ReadType
  <2>7. CASE Write(t)
    BY <2>7, WriteStepType
  <2>8. CASE WriteFails(t)
    BY <2>8, FailType DEF WriteFails
  <2>. QED BY <1>1, <2>1, <2>2, <2>3, <2>4, <2>5, <2>6, <2>7, <2>8 DEF Serve
<1>2. CASE \E a \in Admins : Manage(a)
  BY <1>2, ManageType
<1>3. CASE Crash
  <2>1. /\ local' = [t \in Workers |-> Idle] /\ UNCHANGED <<tables, items, deletes, disturbed, answer, torn>>
        /\ admin' \in [Admins -> [pc : {"idle"}, name : {NoName}]]
    BY <1>3 DEF Crash, db, history
  <2>2. Idle.pc = "idle"
    BY DEF Idle
  <2>. QED BY <2>1, <2>2, IdleType DEF TypeOK, KindsOK
<1>4. CASE UNCHANGED vars
  BY <1>4 DEF vars, TypeOK, KindsOK
<1>. QED BY <1>1, <1>2, <1>3, <1>4 DEF Next

LEMMA Types == Spec => [](TypeOK /\ KindsOK)
  BY InitTypes, NextTypes, PTL DEF Spec

(* dynamodb.py:181-285 and 344-492: a request is always at one of its      *)
(* operations, and what it is about to store is an item.                   *)
THEOREM TypeCorrect == Spec => []TypeOK
  BY Types, PTL

(***************************************************************************)
(* The refinement of AtomicTable.  What a transaction checked, and what a  *)
(* write is about to store, was so of an item the request may have read:   *)
(* the item itself, unless somebody disturbed the request.                 *)
(***************************************************************************)

(* An operation as a request applies it. *)
Plain(s, op) == IF s.kind = "transact" THEN [op EXCEPT !.cond = NoCond] ELSE op

LEMMA PlainOperation ==
  ASSUME NEW s \in Running, NEW op \in Operation, NEW old
  PROVE  /\ Plain(s, op) \in Operation /\ PlaceOf(Plain(s, op)) = PlaceOf(op)
         /\ Plain(s, op).cond = IF s.kind = "transact" THEN NoCond ELSE op.cond
         /\ Valid(Plain(s, op), old) <=> Valid(op, old)
         /\ Effect(Plain(s, op), old) = Effect(op, old)
<1> DEFINE bare == [op EXCEPT !.cond = NoCond]
<1>1. /\ bare \in Operation /\ PlaceOf(bare) = PlaceOf(op) /\ bare.cond = NoCond
      /\ Valid(bare, old) <=> Valid(op, old)
      /\ Effect(bare, old) = Effect(op, old)
  <2>1. CASE op.kind = "put"
    <3>1. /\ bare \in Operation /\ bare.cond = NoCond /\ bare.kind = "put" /\ bare.item = op.item
          /\ bare.table = op.table /\ bare.key = op.key
      BY <2>1 DEF Operation
    <3> HIDE DEF bare
    <3>. QED BY <2>1, <3>1 DEF PlaceOf, Valid, Effect
  <2>2. CASE op.kind = "delete"
    <3>1. /\ bare \in Operation /\ bare.cond = NoCond /\ bare.kind = "delete"
          /\ bare.table = op.table /\ bare.key = op.key
      BY <2>2 DEF Operation
    <3> HIDE DEF bare
    <3>. QED BY <2>2, <3>1 DEF PlaceOf, Valid, Effect
  <2>3. CASE op.kind = "update"
    <3>1. /\ bare \in Operation /\ bare.cond = NoCond /\ bare.kind = "update" /\ bare.update = op.update
          /\ bare.table = op.table /\ bare.key = op.key
      BY <2>3 DEF Operation
    <3> HIDE DEF bare
    <3>2. Base(bare, old) = Base(op, old)
      BY <3>1 DEF Base
    <3>3. Assigned(bare, old) = Assigned(op, old)
      BY <3>1, <3>2 DEF Assigned
    <3>4. Added(bare, old) = Added(op, old)
      BY <3>1, <3>3 DEF Added
    <3>. QED BY <2>3, <3>1, <3>3, <3>4 DEF PlaceOf, Valid, Effect
  <2>. QED BY <2>1, <2>2, <2>3 DEF Operation
<1>. QED BY <1>1 DEF Plain

(* A condition holds of what a request applies if the request may write.   *)
LEMMA PlainHolds ==
  ASSUME NEW s \in Running, NEW old
  PROVE  Holds(Plain(s, s.ops[s.k]).cond, old) <=> MayWrite(s, s.ops[s.k], old)
<1>1. s.ops[s.k] \in Operation /\ s.k \in DOMAIN s.ops
  BY OperationAt DEF Running
<1>2. s.kind \in {"single", "transact", "batch"} /\ (s.kind = "batch" => s.ops[s.k].cond = NoCond)
  BY <1>1 DEF Running, LocalState, KindOK
<1>. QED BY <1>1, <1>2, PlainOperation DEF MayWrite, Holds

Checking(s) == s.pc \in {"check table", "check"}

(* What a request past its checks has yet to apply. *)
LEMMA RemainingOperations ==
  ASSUME NEW s \in Running, ~Checking(s)
  PROVE  /\ Remaining(s) = [j \in 1 .. Len(s.ops) - s.k + 1 |-> Plain(s, s.ops[s.k + j - 1])]
         /\ Remaining(s) \in Seq(Operation) /\ Len(Remaining(s)) = Len(s.ops) - s.k + 1
         /\ Remaining(s) # <<>>
         /\ Head(Remaining(s)) = Plain(s, s.ops[s.k])
<1> DEFINE n == Len(s.ops)
           m == n - s.k + 1
           f == [j \in 1 .. m |-> Plain(s, s.ops[s.k + j - 1])]
<1>1. s.ops \in Seq(Operation) /\ s.k \in 1 .. n /\ n \in Nat
  BY OperationAt
<1>2. Remaining(s) = f
  BY DEF Remaining, Plain, Checking, Running
<1>3. m \in Nat /\ 1 <= m
  BY <1>1
<1>4. \A j \in 1 .. m : s.k + j - 1 \in 1 .. n /\ s.ops[s.k + j - 1] \in Operation
  <2>1. \A j \in 1 .. m : s.k + j - 1 \in 1 .. n
    BY <1>1
  <2>. QED BY <1>1, <2>1
<1>5. f \in [1 .. m -> Operation]
  BY <1>4, PlainOperation
<1>6. f[1] = Plain(s, s.ops[s.k])
  <2>1. s.k + 1 - 1 = s.k /\ 1 \in 1 .. m
    BY <1>1, <1>3
  <2>. QED BY <2>1
<1> HIDE DEF m, f
<1>7. f \in Seq(Operation) /\ Len(f) = m /\ f # <<>> /\ Head(f) = f[1]
  BY <1>3, <1>5
<1>. QED BY <1>2, <1>6, <1>7 DEF f, m

LEMMA RemainingTail ==
  ASSUME NEW s \in Running, NEW r \in Running, ~Checking(s), ~Checking(r),
         r.kind = s.kind, r.ops = s.ops, r.k = s.k + 1
  PROVE  Tail(Remaining(s)) = Remaining(r) /\ Len(Remaining(s)) # 1
<1> DEFINE n == Len(s.ops)
           m == n - s.k + 1
           f == [j \in 1 .. m |-> Plain(s, s.ops[s.k + j - 1])]
           g == [j \in 1 .. m - 1 |-> Plain(r, s.ops[r.k + j - 1])]
<1>1. s.ops \in Seq(Operation) /\ s.k \in 1 .. n /\ n \in Nat /\ s.k + 1 \in 1 .. n
  BY OperationAt
<1>2. Remaining(s) = f /\ Remaining(s) \in Seq(Operation) /\ Len(Remaining(s)) = m
  BY RemainingOperations
<1>3. m \in Nat /\ 2 <= m /\ n - r.k + 1 = m - 1
  BY <1>1
<1>4. Remaining(r) = g
  BY <1>3, RemainingOperations
<1>5. \A j \in 1 .. m - 1 : f[j + 1] = g[j]
  <2> SUFFICES ASSUME NEW j \in 1 .. m - 1 PROVE f[j + 1] = g[j]
    OBVIOUS
  <2>1. j + 1 \in 1 .. m /\ s.k + (j + 1) - 1 = r.k + j - 1
    BY SMTT(40), <1>1, <1>3
  <2>. QED BY <2>1 DEF Plain
<1>6. f \in Seq(Operation) /\ Len(f) = m /\ g \in Seq(Operation) /\ Len(g) = m - 1
  BY <1>2, <1>3, <1>4, RemainingOperations
<1> HIDE DEF f, g, m
<1>7. /\ Tail(f) \in Seq(Operation) /\ Len(Tail(f)) = m - 1
      /\ \A j \in 1 .. m - 1 : Tail(f)[j] = f[j + 1]
  <2>1. f # <<>>
    BY <1>3, <1>6, EmptySeq
  <2>. QED BY <1>3, <1>6, <2>1, HeadTailProperties
<1>8. Tail(f) = g
  BY <1>3, <1>5, <1>6, <1>7, SeqEqual
<1>. QED BY <1>2, <1>3, <1>4, <1>8

LEMMA RemainingLast ==
  ASSUME NEW s \in Running, ~Checking(s), s.k = Len(s.ops)
  PROVE  Len(Remaining(s)) = 1 /\ Tail(Remaining(s)) = <<>>
<1> DEFINE n == Len(s.ops)
           f == Remaining(s)
<1>1. n \in Nat /\ n - n + 1 = 1
  BY OperationAt
<1>2. f \in Seq(Operation) /\ Len(f) = 1 /\ f # <<>>
  BY <1>1, RemainingOperations
<1> HIDE DEF f
<1>3. Tail(f) \in Seq(Operation) /\ Len(Tail(f)) = 0
  BY <1>2, HeadTailProperties
<1>4. Tail(f) = <<>>
  BY <1>3, EmptySeq
<1>. QED BY <1>2, <1>4 DEF f

LEMMA RemainingFirst ==
  ASSUME NEW s \in Running, s.k = 1
  PROVE  /\ s.kind # "transact" => Remaining(s) = s.ops
         /\ Checking(s) => Remaining(s) = s.ops
         /\ s.kind = "transact" /\ ~Checking(s) => Remaining(s) = Atomic!Unconditional(s.ops)
<1> DEFINE n == Len(s.ops)
<1>1. s.ops \in Seq(Operation) /\ n \in Nat /\ DOMAIN s.ops = 1 .. n /\ n - 1 + 1 = n
  BY OperationAt
<1>2. Checking(s) => Remaining(s) = s.ops
  BY DEF Remaining, Checking, Running
<1>3. ~Checking(s) => Remaining(s) = [j \in 1 .. n |-> Plain(s, s.ops[j])]
  <2>1. \A j \in 1 .. n : 1 + j - 1 = j
    OBVIOUS
  <2>. QED BY <1>1, <2>1, RemainingOperations
<1>4. s.kind # "transact" => ~Checking(s)
  BY DEF Running, KindOK, Checking
<1>. QED BY <1>1, <1>2, <1>3, <1>4 DEF Plain, Atomic!Unconditional

(* The places of the operations to come are those of the request, and the  *)
(* abstract specification means the same by them.                          *)
LEMMA PlacesOf ==
  ASSUME NEW t \in Workers, local[t] \in Running
  PROVE  /\ Checking(local[t]) => \A j \in DOMAIN local[t].ops : PlaceOf(local[t].ops[j]) \in Places(t)
         /\ ~Checking(local[t]) => PlaceOf(Op(t)) \in Places(t)
<1> DEFINE s == local[t]
<1>1. CASE Checking(s)
  <2>1. Remaining(s) = s.ops
    BY <1>1 DEF Remaining, Checking
  <2>. QED BY <1>1, <2>1 DEF Places
<1>2. CASE ~Checking(s)
  <2>1. Remaining(s) \in Seq(Operation) /\ Remaining(s) # <<>> /\ Head(Remaining(s)) = Plain(s, Op(t))
    BY <1>2, RemainingOperations DEF Op
  <2>2. 1 \in DOMAIN Remaining(s) /\ Remaining(s)[1] = Plain(s, Op(t))
    BY <2>1
  <2>3. PlaceOf(Plain(s, Op(t))) = PlaceOf(Op(t))
    BY OperationAt, PlainOperation DEF Op
  <2>. QED BY <1>2, <2>2, <2>3 DEF Places
<1>. QED BY <1>1, <1>2

Fits(s, op, old) ==
    /\ MayWrite(s, op, old)
    /\ Valid(op, old)
    /\ op.kind = "update" => s.item = Effect(op, old)

(* The conditions a transaction has checked. *)
Checked(t) ==
    LET s == local[t]
    IN  Checking(s) => \A j \in 1 .. s.k - 1 :
                          \E old \in Atomic!Seen(t, PlaceOf(s.ops[j])) : Holds(s.ops[j].cond, old)

(* The item a write starts from. *)
Started(t) ==
    local[t].pc = "write" => \E old \in Atomic!Seen(t, PlaceOf(Op(t))) : Fits(local[t], Op(t), old)

UpToDate == \A t \in Workers : Checked(t) /\ Started(t)

(* A step of others: it disturbs t if it writes to an item of t. *)
Elsewhere(t) ==
    /\ local'[t] = local[t]
    /\ t \in disturbed => t \in disturbed'
    /\ \A p \in Places(t) : t \in disturbed' \/ items'[p] = items[p]

(* Items mean the same to both specifications. *)
LEMMA SameItems ==
  ASSUME NEW op, NEW cond, NEW old
  PROVE  /\ Atomic!Stored = Stored /\ Atomic!Place = Place
         /\ Atomic!PlaceOf(op) = PlaceOf(op)
         /\ Atomic!Holds(cond, old) <=> Holds(cond, old)
         /\ Atomic!Valid(op, old) <=> Valid(op, old)
         /\ Atomic!Effect(op, old) = Effect(op, old)
<1>1. Atomic!Stored = Stored /\ Atomic!Place = Place /\ Atomic!PlaceOf(op) = PlaceOf(op)
  BY DEF Atomic!Stored, Stored, Atomic!Item, Item, Atomic!Values, Values,
         Atomic!Place, Place, Atomic!PlaceOf, PlaceOf
<1>2. Atomic!Holds(cond, old) <=> Holds(cond, old)
  BY DEF Atomic!Holds, Holds, Atomic!Get, Get
<1>3. Atomic!Assigned(op, old) = Assigned(op, old)
  BY DEF Atomic!Assigned, Assigned, Atomic!Base, Base
<1>4. Atomic!Valid(op, old) <=> Valid(op, old)
  BY <1>3 DEF Atomic!Valid, Valid
<1>5. Atomic!Effect(op, old) = Effect(op, old)
  BY <1>3 DEF Atomic!Effect, Effect, Atomic!Added, Added
<1>. QED BY <1>1, <1>2, <1>4, <1>5

LEMMA SeenKept ==
  ASSUME TypeOK, NEW t \in Workers, NEW p \in Place, p \in Places(t), Elsewhere(t)
  PROVE  Atomic!Seen(t, p) \subseteq Atomic!Seen(t, p)'
<1>1. Atomic!Stored = Stored
  BY SameItems
<1>. QED BY <1>1 DEF Atomic!Seen, Elsewhere, TypeOK

LEMMA ElsewhereKeeps ==
  ASSUME TypeOK, KindsOK, NEW t \in Workers, Checked(t), Started(t), Elsewhere(t)
  PROVE  Checked(t)' /\ Started(t)'
<1>1. ASSUME NEW s \in Running, local[t] = s
      PROVE  Checked(t)' /\ Started(t)'
  <2>1. local'[t] = s
    BY <1>1 DEF Elsewhere
  <2>2. s.ops \in Seq(Operation) /\ s.k \in 1 .. Len(s.ops) /\ DOMAIN s.ops = 1 .. Len(s.ops)
    BY OperationAt
  <2>3. Checked(t)'
    <3> SUFFICES ASSUME Checking(s), NEW j \in 1 .. s.k - 1
                 PROVE  \E old \in Atomic!Seen(t, PlaceOf(s.ops[j]))' : Holds(s.ops[j].cond, old)
      BY <2>1 DEF Checked
    <3>1. j \in DOMAIN s.ops /\ s.ops[j] \in Operation
      BY <2>2
    <3>2. PlaceOf(s.ops[j]) \in Place
      BY <3>1 DEF Operation, PlaceOf, Place
    <3>3. PlaceOf(s.ops[j]) \in Places(t)
      BY <1>1, <3>1, PlacesOf
    <3>4. \E old \in Atomic!Seen(t, PlaceOf(s.ops[j])) : Holds(s.ops[j].cond, old)
      BY <1>1 DEF Checked
    <3>. QED BY <3>2, <3>3, <3>4, SeenKept
  <2>4. Started(t)'
    <3> SUFFICES ASSUME s.pc = "write"
                 PROVE  \E old \in Atomic!Seen(t, PlaceOf(s.ops[s.k]))' : Fits(s, s.ops[s.k], old)
      BY <2>1 DEF Started, Op
    <3>1. PlaceOf(s.ops[s.k]) \in Place
      BY OperationAt
    <3>2. PlaceOf(s.ops[s.k]) \in Places(t)
      BY <1>1, PlacesOf DEF Checking, Op
    <3>3. \E old \in Atomic!Seen(t, PlaceOf(s.ops[s.k])) : Fits(s, s.ops[s.k], old)
      BY <1>1 DEF Started, Op
    <3>. QED BY <3>1, <3>2, <3>3, SeenKept
  <2>. QED BY <2>3, <2>4
<1>2. CASE local[t].pc = "idle"
  BY <1>2 DEF Elsewhere, Checked, Started, Checking
<1>. QED BY <1>1, <1>2, RunningType

(* A step of worker t that writes nothing. *)
LEMMA UpToDateStep ==
  ASSUME TypeOK, KindsOK, UpToDate, NEW t \in Workers, NEW s, local' = [local EXCEPT ![t] = s],
         items' = items, disturbed \ {t} \subseteq disturbed',
         Checked(t)', Started(t)'
  PROVE  UpToDate'
<1>1. ASSUME NEW u \in Workers, u # t
      PROVE  Elsewhere(u)
  BY <1>1 DEF Elsewhere, TypeOK
<1>. QED BY <1>1, ElsewhereKeeps DEF UpToDate

LEMMA FailUpToDate ==
  ASSUME TypeOK, KindsOK, UpToDate, NEW t \in Workers, Fail(t), items' = items
  PROVE  UpToDate'
<1>1. local'[t] = Idle /\ Idle.pc = "idle"
  BY DEF Fail, TypeOK, Idle
<1>2. Checked(t)' /\ Started(t)'
  BY <1>1 DEF Checked, Started, Checking
<1>. QED BY <1>2, UpToDateStep DEF Fail

(* What a write may do to any item it need not have read. *)
Unread(s) == /\ s.ops[s.k].kind # "update"
             /\ s.kind = "single" => s.ops[s.k].cond = NoCond

LEMMA StartedUnread ==
  ASSUME NEW t \in Workers, local'[t].pc = "write" => Unread(local'[t])
  PROVE  Started(t)'
<1> SUFFICES ASSUME local'[t].pc = "write"
             PROVE  \E old \in Atomic!Seen(t, PlaceOf(Op(t)))' : Fits(local[t], Op(t), old)'
  BY DEF Started
<1>1. PICK old : old \in Atomic!Seen(t, PlaceOf(Op(t)))'
  BY DEF Atomic!Seen, Atomic!Stored
<1>2. Fits(local[t], Op(t), old)'
  BY DEF Fits, Unread, MayWrite, Holds, Valid, Op
<1>. QED BY <1>1, <1>2

(* Nothing is written, nobody is disturbed and t is at the same operation. *)
LEMMA GotoUpToDate ==
  ASSUME TypeOK, KindsOK, UpToDate, NEW t \in Workers, NEW step \in Steps \ {"check table"},
         Goto(t, step), items' = items, step = "check" => local[t].pc = "check table",
         step = "write" => Unread(local[t])
  PROVE  UpToDate'
<1> DEFINE s == [local[t] EXCEPT !.pc = step]
<1>1. local' = [local EXCEPT ![t] = s] /\ disturbed' = disturbed
  BY DEF Goto, history
<1>2. s.pc = step /\ s.kind = local[t].kind /\ s.ops = local[t].ops /\ s.k = local[t].k
  BY ZenonT(60) DEF TypeOK, LocalState
<1>3. local'[t] = s
  BY <1>1 DEF TypeOK
<1> HIDE DEF s
<1>4. Started(t)'
  <2>1. local'[t].pc = "write" => Unread(local'[t])
    BY <1>2, <1>3 DEF Unread
  <2>. QED BY <2>1, StartedUnread
<1>5. Checked(t)'
  <2>1. PICK r : r = local[t]
    OBVIOUS
  <2> SUFFICES ASSUME step = "check", NEW j \in 1 .. r.k - 1
               PROVE  \E old \in Atomic!Seen(t, PlaceOf(r.ops[j]))' : Holds(r.ops[j].cond, old)
    BY <1>2, <1>3, <2>1 DEF Checked, Checking
  <2>2. Atomic!Seen(t, PlaceOf(r.ops[j]))' = Atomic!Seen(t, PlaceOf(r.ops[j]))
    BY <1>1 DEF Atomic!Seen
  <2>. QED BY <2>1, <2>2 DEF UpToDate, Checked, Checking
<1>. QED BY <1>1, <1>4, <1>5, UpToDateStep

LEMMA BeginUpToDate ==
  ASSUME TypeOK, KindsOK, UpToDate, NEW t \in Workers, NEW r \in Requests, Begin(t, r)
  PROVE  UpToDate'
<1> DEFINE step == CASE r.kind = "single" -> AfterRequire("single", r.ops[1])
                     [] r.kind = "transact" -> "check"
                     [] r.kind = "batch" -> InBatch(r.ops[1])
           s == [pc |-> step, kind |-> r.kind, ops |-> r.ops, k |-> 1, item |-> NoItem]
<1>1. local' = [local EXCEPT ![t] = s]
  BY DEF Begin
<1>2. local'[t] = s
  BY <1>1 DEF TypeOK
<1>3. /\ r.kind \in {"single", "transact", "batch"} /\ 1 \in DOMAIN r.ops
      /\ r.kind = "batch" => r.ops[1].cond = NoCond /\ r.ops[1].kind # "update"
  <2>1. /\ r.kind \in {"single", "transact", "batch"} /\ r.ops \in Seq(Operation) /\ r.ops # <<>>
        /\ r.kind = "batch" => \A k \in DOMAIN r.ops :
              r.ops[k].cond = NoCond /\ r.ops[k].kind # "update"
    BY DynamoDBAssumption DEF Request
  <2>2. 1 \in DOMAIN r.ops
    BY <2>1
  <2>. QED BY <2>1, <2>2
<1>4. step = "write" => r.ops[1].kind # "update" /\ (r.kind = "single" => r.ops[1].cond = NoCond)
  BY <1>3 DEF AfterRequire, InBatch
<1> HIDE DEF step
<1>5. Started(t)'
  <2>1. local'[t].pc = "write" => Unread(local'[t])
    BY <1>2, <1>4 DEF Unread
  <2>. QED BY <2>1, StartedUnread
<1>6. Checked(t)'
  BY <1>2 DEF Checked
<1>. QED BY <1>1, <1>5, <1>6, UpToDateStep DEF Begin, db

LEMMA CheckUpToDate ==
  ASSUME TypeOK, KindsOK, UpToDate, NEW t \in Workers, Check(t)
  PROVE  UpToDate'
<1> DEFINE old == items[PlaceOf(Op(t))]
<1>1. CASE ~Holds(Op(t).cond, old)
  BY <1>1, FailUpToDate DEF Check, db
<1>2. CASE Holds(Op(t).cond, old)
  <2>1. PICK s \in Running : local[t] = s
    BY RunningType DEF Check
  <2>2. s.k + 1 - 1 = s.k /\ \A j \in 1 .. s.k : j # s.k => j \in 1 .. s.k - 1
    BY <2>1 DEF Running, LocalState
  <2> DEFINE r == IF s.k = Len(s.ops) THEN [s EXCEPT !.pc = "require", !.k = 1]
                  ELSE [s EXCEPT !.pc = "check table", !.k = @ + 1]
  <2>3. local' = [local EXCEPT ![t] = r] /\ items' = items /\ disturbed' = disturbed
    BY <1>2, <2>1 DEF Check, db, history
  <2>4. /\ r.pc \in {"require", "check table"} /\ r.ops = s.ops
        /\ r.pc = "check table" => r.k - 1 = s.k
    BY <2>2 DEF Running, LocalState
  <2>5. local'[t] = r
    BY <2>3 DEF TypeOK
  <2> HIDE DEF r
  <2>6. Started(t)'
    BY <2>4, <2>5 DEF Started
  <2>7. Checked(t)'
    <3> SUFFICES ASSUME r.pc = "check table", NEW j \in 1 .. s.k
                 PROVE  \E o \in Atomic!Seen(t, PlaceOf(s.ops[j]))' : Holds(s.ops[j].cond, o)
      BY <2>4, <2>5 DEF Checked, Checking
    <3>1. Atomic!Seen(t, PlaceOf(s.ops[j]))' = Atomic!Seen(t, PlaceOf(s.ops[j]))
      BY <2>3 DEF Atomic!Seen
    <3>2. CASE j = s.k
      <4>1. items[PlaceOf(s.ops[j])] \in Atomic!Seen(t, PlaceOf(s.ops[j]))
        BY <3>2, OperationAt, SameItems DEF Atomic!Seen, TypeOK
      <4>. QED BY <1>2, <2>1, <3>1, <3>2, <4>1 DEF Op
    <3>3. CASE j # s.k
      <4>1. j \in 1 .. s.k - 1
        BY <2>2, <3>3
      <4>. QED BY <2>1, <3>1, <4>1 DEF UpToDate, Checked, Checking, Check
    <3>. QED BY <3>2, <3>3
  <2>. QED BY <2>3, <2>6, <2>7, UpToDateStep
<1>. QED BY <1>1, <1>2

LEMMA ReadUpToDate ==
  ASSUME TypeOK, KindsOK, UpToDate, NEW t \in Workers, Read(t)
  PROVE  UpToDate'
<1> DEFINE old == items[PlaceOf(Op(t))]
<1>1. CASE ~(MayWrite(local[t], Op(t), old) /\ Valid(Op(t), old))
  BY <1>1, FailUpToDate DEF Read, db
<1>2. CASE MayWrite(local[t], Op(t), old) /\ Valid(Op(t), old)
  <2>1. PICK s \in Running : local[t] = s
    BY RunningType DEF Read
  <2> DEFINE p == PlaceOf(s.ops[s.k])
             r == [s EXCEPT !.pc = "write", !.item = Effect(s.ops[s.k], items[p])]
  <2>2. local' = [local EXCEPT ![t] = r] /\ items' = items /\ disturbed' = disturbed
    BY <1>2, <2>1 DEF Read, db, history, Op, TypeOK
  <2>3. /\ r.pc = "write" /\ r.ops = s.ops /\ r.k = s.k /\ r.kind = s.kind
        /\ r.item = Effect(s.ops[s.k], items[p])
    BY DEF Running, LocalState
  <2>4. local'[t] = r
    BY <2>2 DEF TypeOK
  <2> HIDE DEF r
  <2>5. Checked(t)'
    BY <2>3, <2>4 DEF Checked, Checking
  <2>6. p \in Place
    BY OperationAt
  <2>7. items[p] \in Atomic!Seen(t, p)'
    BY <2>2, <2>6, SameItems DEF Atomic!Seen, TypeOK
  <2>8. Fits(r, s.ops[s.k], items[p])
    BY <1>2, <2>1, <2>3 DEF Fits, MayWrite, Op
  <2>9. Started(t)'
    <3>1. Op(t)' = s.ops[s.k]
      BY <2>3, <2>4 DEF Op
    <3>2. \E o \in Atomic!Seen(t, p)' : Fits(r, s.ops[s.k], o)
      BY <2>7, <2>8
    <3>. QED BY <2>2, <2>4, <3>1, <3>2 DEF Started, Atomic!Seen
  <2>. QED BY <2>2, <2>5, <2>9, UpToDateStep
<1>. QED BY <1>1, <1>2

LEMMA WriteUpToDate ==
  ASSUME TypeOK, KindsOK, UpToDate, NEW t \in Workers, Write(t)
  PROVE  UpToDate'
<1>1. PICK s \in Running : local[t] = s
  BY RunningType DEF Write
<1>2. s.k # Len(s.ops) => s.k + 1 \in DOMAIN s.ops
  BY OperationAt DEF Running, LocalState
<1> DEFINE step == Following(s, s.k + 1)
           next == [s EXCEPT !.pc = step, !.k = @ + 1, !.item = NoItem]
           r == IF s.k = Len(s.ops) THEN Idle ELSE next
<1>3. local'[t] = r
  BY <1>1 DEF Write, TypeOK
<1>4. next.pc = step /\ next.kind = s.kind /\ next.ops = s.ops /\ next.k = s.k + 1
  BY DEF Running, LocalState
<1>5. s.k # Len(s.ops) => /\ step \in {"batch", "require", "write"}
                          /\ step = "write" => s.kind = "batch"
  BY LastOfSingle DEF Following, InBatch
<1> HIDE DEF next, step
<1>6. r.pc \notin {"check table", "check"} /\ (r.pc = "write" => Unread(r))
  <2>1. CASE s.k = Len(s.ops)
    BY <2>1 DEF Idle
  <2>2. CASE s.k # Len(s.ops)
    <3>1. s.kind = "batch" => s.ops[s.k + 1].kind # "update"
      BY <1>2, <2>2 DEF Running, KindOK
    <3>. QED BY <1>4, <1>5, <2>2, <3>1 DEF Unread
  <2>. QED BY <2>1, <2>2
<1> HIDE DEF r
<1>7. Checked(t)' /\ Started(t)'
  <2>1. Checked(t)'
    BY <1>3, <1>6 DEF Checked, Checking
  <2>. QED BY <1>3, <1>6, <2>1, StartedUnread
<1>8. ASSUME NEW u \in Workers, u # t
      PROVE  Elsewhere(u)
  <2>1. local'[u] = local[u]
    BY <1>8 DEF Write, TypeOK
  <2>2. \A p \in Places(u) : u \in disturbed' \/ items'[p] = items[p]
    <3> SUFFICES ASSUME NEW p \in Places(u)
                 PROVE  u \in disturbed' \/ items'[p] = items[p]
      OBVIOUS
    <3>1. CASE p = PlaceOf(Op(t))
      BY <1>8, <3>1 DEF Write
    <3>2. CASE p # PlaceOf(Op(t))
      BY <3>2 DEF Write, TypeOK
    <3>. QED BY <3>1, <3>2
  <2>3. disturbed \subseteq disturbed'
    BY DEF Write
  <2>. QED BY <2>1, <2>2, <2>3 DEF Elsewhere
<1>. QED BY <1>7, <1>8, ElsewhereKeeps DEF UpToDate

LEMMA PurgeUpToDate ==
  ASSUME TypeOK, KindsOK, UpToDate, NEW a \in Admins, DeleteTablePurge(a)
  PROVE  UpToDate'
<1>1. ASSUME NEW u \in Workers
      PROVE  Elsewhere(u)
  <2>1. local'[u] = local[u] /\ disturbed \subseteq disturbed'
    BY DEF DeleteTablePurge
  <2>2. \A p \in Places(u) : p \in Place
    <3>1. CASE local[u].pc = "idle"
      BY <3>1 DEF Places, Remaining
    <3>2. CASE local[u].pc # "idle"
      <4>1. local[u] \in Running /\ local[u].ops \in Seq(Operation)
        BY <3>2, RunningType, OperationAt
      <4>2. Remaining(local[u]) \in Seq(Operation)
        <5>1. CASE Checking(local[u])
          BY <4>1, <5>1 DEF Remaining, Checking
        <5>2. CASE ~Checking(local[u])
          BY <4>1, <5>2, RemainingOperations
        <5>. QED BY <5>1, <5>2
      <4>3. \A j \in DOMAIN Remaining(local[u]) : Remaining(local[u])[j] \in Operation
        BY <4>2
      <4>. QED BY <4>3 DEF Places, Operation, PlaceOf, Place
    <3>. QED BY <3>1, <3>2
  <2>3. \A p \in Places(u) : u \in disturbed' \/ items'[p] = items[p]
    BY <2>2 DEF DeleteTablePurge
  <2>. QED BY <2>1, <2>3 DEF Elsewhere
<1>. QED BY <1>1, ElsewhereKeeps DEF UpToDate

IInv == TypeOK /\ KindsOK /\ UpToDate

LEMMA InitInvariant == Init => IInv
<1> SUFFICES ASSUME Init PROVE UpToDate
  BY InitTypes DEF IInv
<1>1. \A t \in Workers : local[t].pc = "idle"
  BY DEF Init, Idle
<1>. QED BY <1>1 DEF UpToDate, Checked, Started, Checking

LEMMA NextInvariant == IInv /\ [Next]_vars => IInv'
<1> SUFFICES ASSUME TypeOK, KindsOK, UpToDate, [Next]_vars PROVE UpToDate'
  BY NextTypes DEF IInv
<1>1. ASSUME NEW t \in Workers, Serve(t)
      PROVE  UpToDate'
  <2>1. CASE \E r \in Requests : Begin(t, r)
    BY <2>1, BeginUpToDate
  <2>2. CASE CheckTable(t)
    BY <2>2, GotoUpToDate, FailUpToDate DEF CheckTable, db, Steps
  <2>3. CASE Check(t)
    BY <2>3, CheckUpToDate
  <2>4. CASE BatchTable(t)
    <3>1. local[t] \in Running /\ local[t].kind = "batch"
      BY <2>4, RunningType DEF BatchTable, Running, KindOK
    <3>2. InBatch(Op(t)) \in {"require", "write"} /\ Unread(local[t])
      BY <3>1, OperationAt DEF InBatch, Unread, Running, KindOK
    <3>. QED BY <2>4, <3>2, GotoUpToDate, FailUpToDate DEF BatchTable, db, Steps
  <2>5. CASE Require(t)
    <3>1. local[t] \in Running /\ local[t].kind # "single"
      BY <2>5, RunningType DEF Require, Running, KindOK
    <3> DEFINE step == AfterRequire(local[t].kind, Op(t))
    <3>2. step \in {"read", "write"} /\ (step = "write" => Unread(local[t]))
      BY <3>1 DEF AfterRequire, Unread, Op
    <3>3. step \in Steps \ {"check table"} /\ step # "check"
      BY <3>2 DEF Steps
    <3>4. items' = items /\ (Goto(t, step) \/ Fail(t))
      BY <2>5 DEF Require, db
    <3> HIDE DEF step
    <3>. QED BY <3>2, <3>3, <3>4, GotoUpToDate, FailUpToDate
  <2>6. CASE Read(t)
    BY <2>6, ReadUpToDate
  <2>7. CASE Write(t)
    BY <2>7, WriteUpToDate
  <2>8. CASE WriteFails(t)
    BY <2>8, FailUpToDate DEF WriteFails, db
  <2>. QED BY <1>1, <2>1, <2>2, <2>3, <2>4, <2>5, <2>6, <2>7, <2>8 DEF Serve
<1>2. ASSUME UNCHANGED <<items, local, disturbed>>
      PROVE  UpToDate'
  BY <1>2, ElsewhereKeeps DEF Elsewhere, UpToDate
<1>3. ASSUME NEW a \in Admins, Manage(a)
      PROVE  UpToDate'
  <2>1. CASE DeleteTablePurge(a)
    BY <2>1, PurgeUpToDate
  <2>2. CASE UNCHANGED <<items, local, disturbed>>
    BY <1>2, <2>2
  <2>. QED BY <1>3, <2>1, <2>2 DEF Manage, CreateTableCheck, DeleteTableRequire,
              CreateTableInsert, DeleteTableDrop, AdminFails, db, history
<1>4. CASE Crash
  <2>1. \A t \in Workers : local'[t].pc = "idle"
    BY <1>4 DEF Crash, Idle
  <2>. QED BY <2>1 DEF UpToDate, Checked, Started, Checking
<1>5. CASE UNCHANGED vars
  BY <1>2, <1>5 DEF vars
<1>. QED BY <1>1, <1>3, <1>4, <1>5 DEF Next

LEMMA Invariant == Spec => []IInv
  BY InitInvariant, NextInvariant, PTL DEF Spec

(***************************************************************************)
(* How a step of a worker looks to AtomicTable.                            *)
(***************************************************************************)

LEMMA TodoStep ==
  ASSUME TypeOK, NEW t \in Workers, NEW s, local' = [local EXCEPT ![t] = s]
  PROVE  /\ Todo' = [Todo EXCEPT ![t] = Remaining(s)]
         /\ InPhase1' = IF Checking(s) THEN InPhase1 \cup {t} ELSE InPhase1 \ {t}
<1>1. local'[t] = s /\ \A u \in Workers : u # t => local'[u] = local[u]
  BY DEF TypeOK
<1>2. Todo' = [u \in Workers |-> Remaining(local'[u])]
  BY DEF Todo, Remaining
<1>3. Todo' = [Todo EXCEPT ![t] = Remaining(s)]
  <2>1. \A u \in Workers : Remaining(local'[u]) = IF u = t THEN Remaining(s) ELSE Todo[u]
    <3> SUFFICES ASSUME NEW u \in Workers
                 PROVE  Remaining(local'[u]) = IF u = t THEN Remaining(s) ELSE Todo[u]
      OBVIOUS
    <3>1. CASE u = t
      BY <1>1, <3>1
    <3>2. CASE u # t
      <4>1. local'[u] = local[u] /\ Todo[u] = Remaining(local[u])
        BY <1>1, <3>2 DEF Todo
      <4>. QED BY <3>2, <4>1
    <3>. QED BY <3>1, <3>2
  <2>2. Todo = [u \in Workers |-> Todo[u]]
    BY DEF Todo
  <2>. QED BY <1>2, <2>1, <2>2
<1>4. InPhase1' = IF Checking(s) THEN InPhase1 \cup {t} ELSE InPhase1 \ {t}
  BY <1>1 DEF InPhase1, Checking
<1>. QED BY <1>3, <1>4

LEMMA NothingToDo == Remaining(Idle) = <<>> /\ ~Checking(Idle)
  BY DEF Remaining, Idle, Checking

LEMMA SomethingToDo ==
  ASSUME NEW s \in Running
  PROVE  Remaining(s) \in Seq(Operation) /\ Remaining(s) # <<>>
<1>1. CASE Checking(s)
  <2>1. Remaining(s) = s.ops /\ s.ops \in Seq(Operation) /\ s.k \in 1 .. Len(s.ops)
    BY <1>1, OperationAt DEF Remaining, Checking
  <2>2. Len(s.ops) # 0
    BY <2>1
  <2>. QED BY <2>1, <2>2, EmptySeq
<1>2. CASE ~Checking(s)
  BY <1>2, RemainingOperations
<1>. QED BY <1>1, <1>2

(* The operations to come depend on where the request is in its list only. *)
LEMMA SameRemaining ==
  ASSUME NEW s \in Running, NEW r \in Running, Checking(r) <=> Checking(s),
         r.kind = s.kind, r.ops = s.ops, ~Checking(s) => r.k = s.k
  PROVE  Remaining(r) = Remaining(s)
<1>1. CASE Checking(s)
  BY <1>1 DEF Remaining, Checking
<1>2. CASE ~Checking(s)
  <2>1. ~Checking(r) /\ r.k = s.k
    BY <1>2
  <2>2. /\ Remaining(s) = [j \in 1 .. Len(s.ops) - s.k + 1 |-> Plain(s, s.ops[s.k + j - 1])]
        /\ Remaining(r) = [j \in 1 .. Len(s.ops) - s.k + 1 |-> Plain(r, s.ops[s.k + j - 1])]
    BY <1>2, <2>1, RemainingOperations
  <2>. QED BY <2>2 DEF Plain
<1>. QED BY <1>1, <1>2

LEMMA SamePlaces ==
  ASSUME NEW u \in Workers
  PROVE  Places(u) = Atomic!Places(Todo[u])
  BY SameItems DEF Places, Atomic!Places, Todo

LEMMA StopStep ==
  ASSUME TypeOK, KindsOK, NEW t \in Workers, local[t].pc # "idle", Fail(t), items' = items
  PROVE  Atomic!Stop(t)
<1>1. Todo[t] # <<>>
  BY RunningType, SomethingToDo DEF Todo
<1>2. Todo' = [Todo EXCEPT ![t] = <<>>] /\ InPhase1' = InPhase1 \ {t}
  BY TodoStep, NothingToDo DEF Fail
<1>. QED BY <1>1, <1>2 DEF Atomic!Stop, Fail

(* A step within an operation, or to the next one of phase 1. *)
LEMMA StutterStep ==
  ASSUME TypeOK, NEW t \in Workers, NEW s \in Running, NEW r \in Running,
         local[t] = s, local' = [local EXCEPT ![t] = r], Checking(r) <=> Checking(s),
         r.kind = s.kind, r.ops = s.ops, ~Checking(s) => r.k = s.k,
         UNCHANGED <<items, disturbed, answer>>
  PROVE  UNCHANGED Atomic!vars
<1>1. Remaining(r) = Remaining(s)
  BY SameRemaining
<1>2. Todo' = Todo
  BY <1>1, TodoStep DEF Todo
<1>3. InPhase1' = InPhase1
  BY TodoStep DEF InPhase1, Checking
<1>. QED BY <1>2, <1>3 DEF Atomic!vars

LEMMA GotoStep ==
  ASSUME TypeOK, KindsOK, NEW t \in Workers, local[t].pc # "idle",
         NEW step \in {"check", "require", "read", "write"}, Goto(t, step),
         local[t].kind = "single" => step \in {"read", "write"},
         step = "check" <=> Checking(local[t]), items' = items
  PROVE  UNCHANGED Atomic!vars
<1>1. PICK s \in Running : local[t] = s
  BY RunningType
<1> DEFINE r == [s EXCEPT !.pc = step, !.item = s.item]
<1>2. s.item \in Stored /\ (step = "check" => s.kind = "transact")
  BY <1>1 DEF Running, LocalState, KindOK, Checking
<1>3. r \in Running
  BY <1>1, <1>2, StepType
<1>4. r.pc = step /\ r.kind = s.kind /\ r.ops = s.ops /\ r.k = s.k
  BY DEF Running, LocalState
<1>5. local' = [local EXCEPT ![t] = r]
  BY <1>1 DEF Goto, TypeOK, Running, LocalState
<1> HIDE DEF r
<1>6. Checking(r) <=> Checking(s)
  BY <1>1, <1>4 DEF Checking
<1>. QED BY <1>1, <1>3, <1>4, <1>5, <1>6, StutterStep DEF Goto, history

LEMMA RunningAfter ==
  ASSUME TypeOK', KindsOK', NEW t \in Workers, local'[t].pc # "idle"
  PROVE  local'[t] \in Running
  BY DEF TypeOK, KindsOK, Running

LEMMA BeginStep ==
  ASSUME TypeOK, KindsOK, NEW t \in Workers, NEW r \in Requests, Begin(t, r)
  PROVE  Atomic!Begin(t, r)
<1> DEFINE step == CASE r.kind = "single" -> AfterRequire("single", r.ops[1])
                     [] r.kind = "transact" -> "check"
                     [] r.kind = "batch" -> InBatch(r.ops[1])
           s == [pc |-> step, kind |-> r.kind, ops |-> r.ops, k |-> 1, item |-> NoItem]
<1>1. local' = [local EXCEPT ![t] = s]
  BY DEF Begin
<1>2. r.kind \in {"single", "transact", "batch"}
  BY DynamoDBAssumption DEF Request
<1>3. /\ step \in {"check", "require", "read", "write"}
      /\ step = "check" <=> r.kind = "transact"
  BY <1>2 DEF AfterRequire, InBatch
<1> HIDE DEF step
<1>4. local'[t] = s /\ s.pc = step /\ s.kind = r.kind /\ s.ops = r.ops /\ s.k = 1
  BY <1>1 DEF TypeOK
<1> HIDE DEF s
<1>5. s \in Running
  BY <1>3, <1>4, BeginType, RunningAfter
<1>6. Remaining(s) = r.ops /\ (Checking(s) <=> r.kind = "transact")
  <2>1. Checking(s) <=> r.kind = "transact"
    BY <1>3, <1>4 DEF Checking
  <2>. QED BY <1>4, <1>5, <2>1, RemainingFirst
<1>7. Todo[t] = <<>> /\ t \notin InPhase1
  BY DEF Begin, Todo, InPhase1, Remaining
<1>8. /\ Todo' = [Todo EXCEPT ![t] = r.ops]
      /\ InPhase1' = IF r.kind = "transact" THEN InPhase1 \cup {t} ELSE InPhase1
  BY ZenonT(60), <1>1, <1>6, <1>7, TodoStep
<1>. QED BY <1>7, <1>8 DEF Begin, Atomic!Begin, db

LEMMA CheckStep ==
  ASSUME TypeOK, KindsOK, UpToDate, NEW t \in Workers, Check(t)
  PROVE  [Atomic!Next]_(Atomic!vars)
<1> DEFINE old == items[PlaceOf(Op(t))]
<1>1. CASE ~Holds(Op(t).cond, old)
  <2>1. Atomic!Stop(t)
    BY <1>1, StopStep DEF Check, db
  <2>. QED BY <2>1 DEF Atomic!Next
<1>2. CASE Holds(Op(t).cond, old)
  <2>1. PICK s \in Running : local[t] = s
    BY RunningType DEF Check
  <2>2. s.pc = "check" /\ s.kind = "transact" /\ Checking(s)
    BY <2>1 DEF Check, Checking, Running, KindOK
  <2>3. /\ s.ops \in Seq(Operation) /\ PlaceOf(s.ops[s.k]) \in Place
        /\ DOMAIN s.ops = 1 .. Len(s.ops) /\ s.k \in 1 .. Len(s.ops)
        /\ \A j \in 1 .. s.k : j # s.k => j \in 1 .. s.k - 1
    BY OperationAt
  <2> DEFINE last == [s EXCEPT !.pc = "require", !.k = 1]
             next == [s EXCEPT !.pc = "check table", !.k = @ + 1]
  <2>4. local' = [local EXCEPT ![t] = IF s.k = Len(s.ops) THEN last ELSE next]
    BY <1>2, <2>1 DEF Check
  <2>5. UNCHANGED <<items, disturbed, answer>>
    BY <1>2 DEF Check, db, history
  <2>6. /\ last.pc = "require" /\ last.kind = s.kind /\ last.ops = s.ops /\ last.k = 1
        /\ next.pc = "check table" /\ next.kind = s.kind /\ next.ops = s.ops
    BY DEF Running, LocalState
  <2> HIDE DEF last, next
  <2>7. local'[t] = IF s.k = Len(s.ops) THEN last ELSE next
    BY <2>4 DEF TypeOK
  <2>8. local'[t] \in Running
    BY <2>6, <2>7, CheckType, RunningAfter
  <2>9. CASE s.k # Len(s.ops)
    <3>1. next \in Running /\ Checking(next)
      BY <2>6, <2>7, <2>8, <2>9 DEF Checking
    <3>2. UNCHANGED Atomic!vars
      BY <2>1, <2>2, <2>4, <2>5, <2>6, <2>9, <3>1, StutterStep
    <3>. QED BY <3>2
  <2>10. CASE s.k = Len(s.ops)
    <3>1. last \in Running /\ ~Checking(last)
      BY <2>6, <2>7, <2>8, <2>10 DEF Checking
    <3>2. Remaining(last) = Atomic!Unconditional(s.ops) /\ Todo[t] = s.ops
      <4>1. Remaining(s) = s.ops
        BY <2>2 DEF Remaining, Checking
      <4>. QED BY <2>1, <2>2, <2>6, <3>1, <4>1, RemainingFirst DEF Todo
    <3>3. /\ Todo' = [Todo EXCEPT ![t] = Atomic!Unconditional(@)]
          /\ InPhase1' = InPhase1 \ {t} /\ t \in InPhase1
      <4>1. local' = [local EXCEPT ![t] = last]
        BY <2>4, <2>10
      <4>2. Todo' = [Todo EXCEPT ![t] = Remaining(last)] /\ InPhase1' = InPhase1 \ {t}
        BY <3>1, <4>1, TodoStep
      <4>3. t \in InPhase1
        BY <2>1, <2>2 DEF InPhase1
      <4>. QED BY <3>2, <4>2, <4>3
    <3>4. ASSUME NEW j \in DOMAIN s.ops
          PROVE  \E o \in Atomic!Seen(t, PlaceOf(s.ops[j])) : Holds(s.ops[j].cond, o)
      <4>1. CASE j = s.k
        <5>1. items[PlaceOf(s.ops[s.k])] \in Atomic!Seen(t, PlaceOf(s.ops[s.k]))
          BY <2>3, SameItems DEF Atomic!Seen, TypeOK
        <5>. QED BY <1>2, <2>1, <4>1, <5>1 DEF Op
      <4>2. CASE j # s.k
        <5>1. j \in 1 .. s.k - 1
          BY <2>3, <2>10, <4>2
        <5>. QED BY <2>1, <2>2, <5>1 DEF UpToDate, Checked
      <4>. QED BY <4>1, <4>2
    <3>5. Atomic!Check(t)
      BY <2>5, <3>2, <3>3, <3>4, SameItems DEF Atomic!Check
    <3>. QED BY <3>5 DEF Atomic!Next
  <2>. QED BY <2>9, <2>10
<1>. QED BY <1>1, <1>2

LEMMA ReadStep ==
  ASSUME TypeOK, KindsOK, NEW t \in Workers, Read(t)
  PROVE  Atomic!Stop(t) \/ UNCHANGED Atomic!vars
<1> DEFINE old == items[PlaceOf(Op(t))]
<1>1. CASE ~(MayWrite(local[t], Op(t), old) /\ Valid(Op(t), old))
  BY <1>1, StopStep DEF Read, db
<1>2. CASE MayWrite(local[t], Op(t), old) /\ Valid(Op(t), old)
  <2>1. PICK s \in Running : local[t] = s
    BY RunningType DEF Read
  <2> DEFINE r == [s EXCEPT !.pc = "write", !.item = Effect(Op(t), old)]
  <2>2. /\ local' = [local EXCEPT ![t] = r] /\ UNCHANGED <<items, disturbed, answer>>
        /\ s.pc = "read"
    BY <1>2, <2>1 DEF Read, db, history, TypeOK
  <2>3. r.pc = "write" /\ r.ops = s.ops /\ r.k = s.k /\ r.kind = s.kind
    BY DEF Running, LocalState
  <2> HIDE DEF r
  <2>4. local'[t] = r
    BY <2>2 DEF TypeOK
  <2>5. r \in Running /\ ~Checking(r) /\ ~Checking(s)
    BY <2>2, <2>3, <2>4, ReadType, RunningAfter DEF Checking
  <2>. QED BY <2>1, <2>2, <2>3, <2>5, StutterStep
<1>. QED BY <1>1, <1>2

LEMMA WriteStep ==
  ASSUME TypeOK, KindsOK, UpToDate, NEW t \in Workers, Write(t)
  PROVE  Atomic!Apply(t)
<1>1. PICK s \in Running : local[t] = s
  BY RunningType DEF Write
<1> DEFINE op == s.ops[s.k]
           p == PlaceOf(op)
           plain == Plain(s, op)
<1>2. op \in Operation /\ p \in Place /\ Op(t) = op
  BY <1>1, OperationAt DEF Op
<1>3. s.pc = "write" /\ ~Checking(s)
  BY <1>1 DEF Write, Checking
<1>4. /\ Todo[t] = Remaining(s) /\ Todo[t] # <<>> /\ Head(Todo[t]) = plain
      /\ t \notin InPhase1
  BY <1>1, <1>3, RemainingOperations DEF Todo, InPhase1
<1>5. Atomic!PlaceOf(plain) = p
  BY <1>2, PlainOperation, SameItems
<1>6. \E old \in Atomic!Seen(t, p) : /\ Atomic!Holds(plain.cond, old)
                                     /\ Atomic!Valid(plain, old)
                                     /\ items' = [items EXCEPT ![p] = Atomic!Effect(plain, old)]
  <2>1. PICK old \in Atomic!Seen(t, p) : Fits(s, op, old)
    BY <1>1, <1>2, <1>3 DEF UpToDate, Started
  <2>2. Holds(plain.cond, old) /\ Valid(plain, old)
    BY <1>2, <2>1, PlainHolds, PlainOperation DEF Fits
  <2>3. Effect(plain, old) = Effect(op, old)
    BY <1>2, PlainOperation
  <2>4. items' = [items EXCEPT ![p] = IF op.kind = "update" THEN s.item ELSE Effect(op, items[p])]
    BY <1>1, <1>2 DEF Write
  <2>5. (IF op.kind = "update" THEN s.item ELSE Effect(op, items[p])) = Effect(op, old)
    <3>1. op.kind \in {"put", "delete", "update"}
      BY <1>2 DEF Operation
    <3>2. CASE op.kind = "update"
      BY <2>1, <3>2 DEF Fits
    <3>3. CASE op.kind # "update"
      BY <3>1, <3>3 DEF Effect
    <3>. QED BY <3>2, <3>3
  <2>6. items' = [items EXCEPT ![p] = Effect(plain, old)]
    BY <2>3, <2>4, <2>5
  <2>. QED BY <2>2, <2>6, SameItems
<1>7. disturbed' = disturbed \cup {u \in Workers \ {t} : p \in Atomic!Places(Todo[u])}
  BY <1>1, <1>2, SamePlaces DEF Write
<1>8. /\ Todo' = [Todo EXCEPT ![t] = Tail(Todo[t])] /\ InPhase1' = InPhase1
      /\ answer' = [answer EXCEPT ![t] = IF Len(Todo[t]) = 1 THEN "ok" ELSE answer[t]]
  <2>1. CASE s.k = Len(s.ops)
    <3>1. local' = [local EXCEPT ![t] = Idle] /\ answer' = [answer EXCEPT ![t] = "ok"]
      BY <1>1, <2>1 DEF Write
    <3>2. Len(Remaining(s)) = 1 /\ Tail(Remaining(s)) = <<>>
      BY <1>3, <2>1, RemainingLast
    <3>3. Todo' = [Todo EXCEPT ![t] = <<>>] /\ InPhase1' = InPhase1 \ {t}
      BY <3>1, TodoStep, NothingToDo
    <3>. QED BY <1>4, <3>1, <3>2, <3>3
  <2>2. CASE s.k # Len(s.ops)
    <3> DEFINE r == [s EXCEPT !.pc = Following(s, s.k + 1), !.k = @ + 1, !.item = NoItem]
    <3>1. local' = [local EXCEPT ![t] = r] /\ answer' = answer
      BY <1>1, <2>2 DEF Write
    <3>2. r \in Running /\ Following(s, s.k + 1) \in {"batch", "require", "write"}
      BY <2>2, LastOfSingle, FollowingType
    <3>3. r.pc = Following(s, s.k + 1) /\ r.kind = s.kind /\ r.ops = s.ops /\ r.k = s.k + 1
      BY DEF Running, LocalState
    <3> HIDE DEF r
    <3>4. ~Checking(r)
      BY <3>2, <3>3 DEF Checking
    <3>5. Tail(Remaining(s)) = Remaining(r) /\ Len(Remaining(s)) # 1
      BY <1>3, <3>2, <3>3, <3>4, RemainingTail
    <3>6. Todo' = [Todo EXCEPT ![t] = Remaining(r)] /\ InPhase1' = InPhase1 \ {t}
      BY <3>1, <3>4, TodoStep
    <3>7. answer' = [answer EXCEPT ![t] = answer[t]]
      BY <3>1 DEF TypeOK
    <3>. QED BY <1>4, <3>5, <3>6, <3>7
  <2>. QED BY <2>1, <2>2
<1> HIDE DEF op, p, plain
<1>. QED BY <1>4, <1>5, <1>6, <1>7, <1>8 DEF Atomic!Apply

(* dynamodb.py:181-285 and 344-492: a write takes effect in one step on    *)
(* the item it checked unless its items are written to meanwhile, phase 1  *)
(* of a transaction is over before its first write, and the answer is "ok" *)
(* only if everything was written; any number of threads, tables and       *)
(* operations, with table deletions, failing writes and crashes.           *)
THEOREM WritesAreAtomic == Spec => ImplementsAtomicTable
<1>1. Init => Atomic!Init
  <2> SUFFICES ASSUME Init PROVE Atomic!Init
    OBVIOUS
  <2>1. Todo = [t \in Workers |-> <<>>]
    <3>1. \A t \in Workers : Remaining(local[t]) = <<>>
      BY NothingToDo DEF Init
    <3>. QED BY <3>1 DEF Todo
  <2>2. InPhase1 = {}
    BY DEF Init, InPhase1, Idle
  <2>. QED BY <2>1, <2>2, SameItems DEF Init, Atomic!Init
<1>2. ASSUME TypeOK, KindsOK, UpToDate, [Next]_vars
      PROVE  [Atomic!Next]_(Atomic!vars)
  <2>1. ASSUME NEW t \in Workers, Serve(t)
        PROVE  [Atomic!Next]_(Atomic!vars)
    <3>1. CASE \E r \in Requests : Begin(t, r)
      <4>1. \E r \in Requests : Atomic!Begin(t, r)
        BY <1>2, <3>1, BeginStep
      <4>. QED BY <4>1 DEF Atomic!Next
    <3>2. CASE Fail(t) /\ local[t].pc # "idle" /\ items' = items
      <4>1. Atomic!Stop(t)
        BY <1>2, <3>2, StopStep
      <4>. QED BY <4>1 DEF Atomic!Next
    <3>3. CASE CheckTable(t)
      <4>1. CASE Goto(t, "check")
        <5>1. Checking(local[t]) /\ local[t].kind # "single" /\ local[t].pc # "idle" /\ items' = items
          BY <1>2, <3>3, RunningType DEF CheckTable, Checking, Running, KindOK, db
        <5>. QED BY <1>2, <4>1, <5>1, GotoStep
      <4>. QED BY <3>2, <3>3, <4>1 DEF CheckTable, db
    <3>4. CASE Check(t)
      BY <1>2, <3>4, CheckStep
    <3>5. CASE BatchTable(t) \/ Require(t)
      <4>1. /\ local[t].pc \in {"batch", "require"} /\ ~Checking(local[t]) /\ items' = items
            /\ local[t].kind # "single"
        BY <1>2, <3>5, RunningType DEF BatchTable, Require, Checking, Running, KindOK, db
      <4>2. \/ Fail(t)
            \/ \E step \in {"require", "read", "write"} : Goto(t, step)
        BY <3>5 DEF BatchTable, Require, InBatch, AfterRequire
      <4>3. ASSUME NEW step \in {"require", "read", "write"}, Goto(t, step)
            PROVE  UNCHANGED Atomic!vars
        BY <1>2, <4>1, <4>3, GotoStep
      <4>. QED BY <3>2, <4>1, <4>2, <4>3
    <3>6. CASE Read(t)
      <4>1. Atomic!Stop(t) \/ UNCHANGED Atomic!vars
        BY <1>2, <3>6, ReadStep
      <4>. QED BY <4>1 DEF Atomic!Next
    <3>7. CASE Write(t)
      <4>1. Atomic!Apply(t)
        BY <1>2, <3>7, WriteStep
      <4>. QED BY <4>1 DEF Atomic!Next
    <3>8. CASE WriteFails(t)
      BY <3>2, <3>8 DEF WriteFails, db
    <3>. QED BY <2>1, <3>1, <3>3, <3>4, <3>5, <3>6, <3>7, <3>8 DEF Serve
  <2>2. ASSUME local' = local, UNCHANGED <<items, disturbed, answer>>
        PROVE  UNCHANGED Atomic!vars
    <3>1. Todo' = Todo /\ InPhase1' = InPhase1
      BY <2>2 DEF Todo, InPhase1, Remaining
    <3>. QED BY <2>2, <3>1 DEF Atomic!vars
  <2>3. ASSUME NEW a \in Admins, Manage(a)
        PROVE  [Atomic!Next]_(Atomic!vars)
    <3>1. CASE DeleteTablePurge(a)
      <4>1. admin[a].name \in Tables
        BY <1>2, <3>1 DEF TypeOK, DeleteTablePurge
      <4>2. Todo' = Todo /\ InPhase1' = InPhase1
        BY <3>1 DEF DeleteTablePurge, Todo, InPhase1, Remaining
      <4>3. Atomic!Purge(admin[a].name)
        BY <3>1, <4>2, SamePlaces, SameItems DEF DeleteTablePurge, Atomic!Purge
      <4>. QED BY <4>1, <4>3 DEF Atomic!Next
    <3>2. CASE local' = local /\ UNCHANGED <<items, disturbed, answer>>
      BY <2>2, <3>2
    <3>. QED BY <2>3, <3>1, <3>2 DEF Manage, CreateTableCheck, DeleteTableRequire,
                CreateTableInsert, DeleteTableDrop, AdminFails, db, history
  <2>4. CASE Crash
    <3>1. \A t \in Workers : local'[t] = Idle
      BY <2>4 DEF Crash
    <3>2. Todo' = [t \in Workers |-> <<>>]
      <4>1. Todo' = [t \in Workers |-> Remaining(local'[t])]
        BY DEF Todo, Remaining
      <4>. QED BY <3>1, <4>1, NothingToDo
    <3>3. InPhase1' = {}
      <4>1. \A t \in Workers : local'[t].pc = "idle"
        BY <3>1 DEF Idle
      <4>. QED BY <4>1 DEF InPhase1
    <3>4. Atomic!Crash
      BY <2>4, <3>2, <3>3 DEF Crash, Atomic!Crash, db, history
    <3>. QED BY <3>4 DEF Atomic!Next
  <2>5. CASE UNCHANGED vars
    BY <2>2, <2>5 DEF vars
  <2>. QED BY <1>2, <2>1, <2>3, <2>4, <2>5 DEF Next
<1>. QED BY <1>1, <1>2, Invariant, PTL DEF Spec, IInv, ImplementsAtomicTable, Atomic!Spec
=============================================================================
