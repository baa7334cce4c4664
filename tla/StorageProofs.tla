--------------------------- MODULE StorageProofs ---------------------------
(* Theorems about Storage for every value of its constants. *)
EXTENDS Storage, TLAPS

LEMMA HomeType == ASSUME NEW t \in Threads PROVE Home[t] \in Processes
  BY StorageAssumption

(***************************************************************************)
(* The invariant.  The lock is what it rests on: LockHeld makes the thread *)
(* that executes or commits the only one of its process at work, so the    *)
(* transaction is as its own statement left it (OwnWritePending); and      *)
(* while a process is in a write transaction nobody commits, so its        *)
(* snapshot stays the newest version (OneWriter).                          *)
(***************************************************************************)

(* Steps that leave the database and its connections alone.                *)
LEMMA LocalStep ==
  ASSUME StoreInv, UNCHANGED <<sqlite, history>>,
         TypeOK', LockHeld',
         \A t \in Threads : pc'[t] = "executed" <=> pc[t] = "executed"
  PROVE  StoreInv'
<1>1. OwnWritePending'
  BY DEF StoreInv, OwnWritePending, sqlite
<1>2. OneWriter'
  BY DEF StoreInv, OneWriter, sqlite
<1>3. StaleOnlyAfterRefusal'
  BY DEF StoreInv, StaleOnlyAfterRefusal, sqlite, history
<1>4. QED BY <1>1, <1>2, <1>3 DEF StoreInv

LEMMA CallKeeps ==
  ASSUME StoreInv, NEW t \in Threads, NEW kind \in {"write", "query"}, Call(t, kind)
  PROVE  StoreInv'
<1>1. TypeOK'
  BY DEF StoreInv, TypeOK, Call, Goto, sqlite, history
<1>2. LockHeld'
  BY DEF StoreInv, TypeOK, LockHeld, Call, Goto
<1>3. QED BY <1>1, <1>2, LocalStep DEF StoreInv, TypeOK, Call, Goto

LEMMA AcquireKeeps ==
  ASSUME StoreInv, NEW t \in Threads, Acquire(t)
  PROVE  StoreInv'
<1>1. TypeOK'
  BY HomeType DEF StoreInv, TypeOK, Acquire, Goto, sqlite, history
<1>2. LockHeld'
  BY HomeType, StorageAssumption DEF StoreInv, TypeOK, LockHeld, Acquire, Goto
<1>3. QED BY <1>1, <1>2, LocalStep DEF StoreInv, TypeOK, Acquire, Goto

LEMMA ReleaseKeeps ==
  ASSUME StoreInv, NEW t \in Threads, Release(t)
  PROVE  StoreInv'
<1>1. TypeOK'
  BY HomeType DEF StoreInv, TypeOK, Release, Goto, sqlite, history
<1>2. LockHeld'
  BY HomeType, StorageAssumption DEF StoreInv, TypeOK, LockHeld, Release, Goto
<1>3. QED BY <1>1, <1>2, LocalStep DEF StoreInv, TypeOK, Release, Goto

(* A thread that holds the lock is the only one of its process that does.  *)
LEMMA Alone ==
  ASSUME StoreInv, NEW t \in Threads, pc[t] \in {"holding", "executed", "leaving"},
         NEW u \in Threads, Home[u] = Home[t],
         pc[u] \in {"holding", "executed", "leaving"}
  PROVE  u = t
  BY DEF StoreInv, LockHeld

(* Nothing is pending while nobody of the process has just executed.       *)
LEMMA NothingPending ==
  ASSUME StoreInv, NEW t \in Threads, pc[t] = "holding"
  PROVE  pending[Home[t]] = <<>>
  BY Alone, HomeType DEF StoreInv, OwnWritePending

LEMMA ExecWriteKeeps ==
  ASSUME StoreInv, NEW t \in Threads, ExecWrite(t)
  PROVE  StoreInv'
<1> DEFINE p == Home[t]
<1>1. /\ p \in Processes /\ pending[p] = <<>> /\ Len(log) \in Nat
      /\ pc' = [pc EXCEPT ![t] = "executed"]
      /\ tx' = [tx EXCEPT ![p] = "write"]
      /\ base' = [base EXCEPT ![p] = Len(log)]
      /\ pending' = [pending EXCEPT ![p] = Append(@, t)]
      /\ UNCHANGED <<log, op, lock, view, refused>>
  BY HomeType, NothingPending DEF StoreInv, TypeOK, ExecWrite, StartWrite, Goto, history
<1>2. MayWrite(p) /\ pc[t] = "holding" /\ op[t] = "write"
  BY DEF ExecWrite
<1>3. Append(<<>>, t) = <<t>> /\ <<t>> \in Seq(Threads)
  OBVIOUS
<1> HIDE DEF p
<1>4. TypeOK'
  BY <1>1, <1>3 DEF StoreInv, TypeOK
<1>5. LockHeld'
  BY <1>1, <1>2 DEF StoreInv, TypeOK, LockHeld
<1>6. OwnWritePending'
  <2> SUFFICES ASSUME NEW q \in Processes
               PROVE  /\ pending'[q] # <<>> => \E u \in Threads : Home[u] = q /\ pc'[u] = "executed"
                      /\ \A u \in Threads : Home[u] = q /\ pc'[u] = "executed" =>
                            pending'[q] = <<u>> /\ tx'[q] = "write"
    BY DEF OwnWritePending
  <2>1. CASE q = p
    <3>1. pc'[t] = "executed" /\ Home[t] = q
      BY <1>1, <2>1 DEF StoreInv, TypeOK, p
    <3>2. \A u \in Threads : Home[u] = q /\ pc'[u] = "executed" => u = t
      BY <1>1, <1>2, <2>1, Alone DEF StoreInv, TypeOK, p
    <3>3. QED BY <1>1, <1>3, <2>1, <3>1, <3>2 DEF StoreInv, TypeOK
  <2>2. CASE q # p
    <3>1. \A u \in Threads : Home[u] = q => pc'[u] = pc[u]
      BY <1>1, <2>2 DEF StoreInv, TypeOK, p
    <3>2. pending'[q] = pending[q] /\ tx'[q] = tx[q]
      BY <1>1, <2>2 DEF StoreInv, TypeOK
    <3>3. QED BY <3>1, <3>2 DEF StoreInv, OwnWritePending
  <2>3. QED BY <2>1, <2>2
<1>7. OneWriter'
  BY <1>1, <1>2 DEF StoreInv, TypeOK, OneWriter, MayWrite
<1>8. StaleOnlyAfterRefusal'
  BY <1>1 DEF StoreInv, TypeOK, StaleOnlyAfterRefusal
<1>9. QED BY <1>4, <1>5, <1>6, <1>7, <1>8 DEF StoreInv

LEMMA ExecRejectKeeps ==
  ASSUME StoreInv, NEW t \in Threads, ExecReject(t)
  PROVE  StoreInv'
<1> DEFINE p == Home[t]
<1>1. /\ p \in Processes /\ pending[p] = <<>> /\ Len(log) \in Nat
      /\ pc' = [pc EXCEPT ![t] = "leaving"]
      /\ tx' = [tx EXCEPT ![p] = "write"]
      /\ base' = [base EXCEPT ![p] = Len(log)]
      /\ UNCHANGED <<log, pending, op, lock, view, refused>>
  BY HomeType, NothingPending DEF StoreInv, TypeOK, ExecReject, StartWrite, Goto, history
<1>2. MayWrite(p) /\ pc[t] = "holding" /\ op[t] = "write"
  BY DEF ExecReject
<1> HIDE DEF p
<1>3. TypeOK'
  BY <1>1 DEF StoreInv, TypeOK
<1>4. LockHeld'
  BY <1>1, <1>2 DEF StoreInv, TypeOK, LockHeld
<1>5. OwnWritePending'
  BY <1>1, <1>2 DEF StoreInv, TypeOK, OwnWritePending
<1>6. OneWriter'
  BY <1>1, <1>2 DEF StoreInv, TypeOK, OneWriter, MayWrite
<1>7. StaleOnlyAfterRefusal'
  BY <1>1 DEF StoreInv, TypeOK, StaleOnlyAfterRefusal
<1>8. QED BY <1>3, <1>4, <1>5, <1>6, <1>7 DEF StoreInv

(* A write is only ever refused because of another process.                *)
LEMMA RefusedByAnother ==
  ASSUME StoreInv, NEW p \in Processes, ~MayWrite(p)
  PROVE  Processes # {p} /\ tx[p] # "write"
<1>1. CASE \E q \in Processes : q # p /\ tx[q] = "write"
  BY <1>1 DEF StoreInv, OneWriter
<1>2. CASE tx[p] = "read"
  BY <1>2 DEF StoreInv, StaleOnlyAfterRefusal
<1>3. QED BY <1>1, <1>2 DEF MayWrite

LEMMA ExecBusyKeeps ==
  ASSUME StoreInv, NEW t \in Threads, ExecBusy(t)
  PROVE  StoreInv'
<1> DEFINE p == Home[t]
<1>1. /\ p \in Processes
      /\ pc' = [pc EXCEPT ![t] = "leaving"]
      /\ tx' = [tx EXCEPT ![p] = IF @ = "none" THEN "begun" ELSE @]
      /\ refused' = refused \cup {p}
      /\ UNCHANGED <<log, base, pending, op, lock, view>>
  BY HomeType DEF ExecBusy, Goto
<1>2. pc[t] = "holding" /\ op[t] = "write"
  BY DEF ExecBusy
<1>3. Processes # {p} /\ tx[p] # "write"
  BY <1>1, RefusedByAnother DEF ExecBusy
<1>4. pending[p] = <<>>
  BY <1>2, NothingPending
<1> HIDE DEF p
<1>5. TypeOK'
  BY <1>1 DEF StoreInv, TypeOK
<1>6. LockHeld'
  BY <1>1, <1>2 DEF StoreInv, TypeOK, LockHeld
<1>7. OwnWritePending'
  BY <1>1, <1>2, <1>3 DEF StoreInv, TypeOK, OwnWritePending
<1>8. OneWriter'
  BY <1>1, <1>3 DEF StoreInv, TypeOK, OneWriter
<1>9. StaleOnlyAfterRefusal'
  BY <1>1, <1>3 DEF StoreInv, TypeOK, StaleOnlyAfterRefusal
<1>10. QED BY <1>5, <1>6, <1>7, <1>8, <1>9 DEF StoreInv

(* The version a query reads: not older than what its process has seen,    *)
(* and the newest unless the process had a write refused.                  *)
LEMMA SnapshotBounds ==
  ASSUME StoreInv, NEW p \in Processes
  PROVE  /\ Snapshot(p) \in Nat
         /\ view[p] <= Snapshot(p) /\ Snapshot(p) <= Len(log)
         /\ Snapshot(p) < Len(log) => tx[p] = "read" /\ p \in refused
<1>1. Len(log) \in Nat /\ view[p] \in Nat /\ base[p] \in Nat
  BY DEF StoreInv, TypeOK
<1>2. CASE tx[p] = "write"
  BY <1>1, <1>2 DEF StoreInv, Snapshot, OneWriter, StaleOnlyAfterRefusal
<1>3. CASE tx[p] = "read"
  BY <1>1, <1>3 DEF StoreInv, Snapshot, StaleOnlyAfterRefusal
<1>4. CASE tx[p] \notin {"read", "write"}
  BY <1>1, <1>4 DEF StoreInv, Snapshot, StaleOnlyAfterRefusal
<1>5. QED BY <1>2, <1>3, <1>4

LEMMA ExecQueryKeeps ==
  ASSUME StoreInv, NEW t \in Threads, ExecQuery(t)
  PROVE  StoreInv'
<1> DEFINE p == Home[t]
<1>1. /\ p \in Processes /\ Len(log) \in Nat
      /\ pc' = [pc EXCEPT ![t] = "leaving"]
      /\ base' = IF tx[p] = "begun" THEN [base EXCEPT ![p] = Len(log)] ELSE base
      /\ tx' = [tx EXCEPT ![p] = IF @ = "begun" THEN "read" ELSE @]
      /\ view' = [view EXCEPT ![p] = Snapshot(p)]
      /\ UNCHANGED <<log, pending, op, lock, refused>>
  BY HomeType DEF StoreInv, TypeOK, ExecQuery, Goto
<1>2. pc[t] = "holding" /\ op[t] = "query"
  BY DEF ExecQuery
<1> HIDE DEF p
<1>3. /\ Snapshot(p) \in Nat /\ Snapshot(p) <= Len(log)
      /\ tx[p] = "read" => Snapshot(p) = base[p]
      /\ tx[p] = "begun" => Snapshot(p) = Len(log)
  BY <1>1, SnapshotBounds DEF Snapshot
<1>4. TypeOK'
  BY <1>1, <1>3 DEF StoreInv, TypeOK
<1>5. LockHeld'
  BY <1>1, <1>2 DEF StoreInv, TypeOK, LockHeld
<1>6. OwnWritePending'
  BY <1>1, <1>2 DEF StoreInv, TypeOK, OwnWritePending
<1>7. OneWriter'
  BY <1>1 DEF StoreInv, TypeOK, OneWriter
<1>8. StaleOnlyAfterRefusal'
  BY <1>1, <1>3 DEF StoreInv, TypeOK, StaleOnlyAfterRefusal
<1>9. QED BY <1>4, <1>5, <1>6, <1>7, <1>8 DEF StoreInv

(* What a commit does: it appends the one write of its thread, and nobody  *)
(* else is in a write transaction.                                         *)
LEMMA CommitFacts ==
  ASSUME StoreInv, NEW t \in Threads, Commit(t)
  PROVE  /\ log' = Append(log, t)
         /\ tx[Home[t]] = "write"
         /\ \A q \in Processes : q # Home[t] => tx[q] # "write"
<1>1. Home[t] \in Processes /\ pc[t] = "executed"
  BY HomeType DEF Commit
<1>2. pending[Home[t]] = <<t>> /\ tx[Home[t]] = "write"
  BY <1>1 DEF StoreInv, OwnWritePending
<1>3. log \o <<t>> = Append(log, t)
  BY DEF StoreInv, TypeOK
<1>4. QED BY <1>1, <1>2, <1>3 DEF Commit, StoreInv, OneWriter

LEMMA CommitKeeps ==
  ASSUME StoreInv, NEW t \in Threads, Commit(t)
  PROVE  StoreInv'
<1> DEFINE p == Home[t]
<1>1. /\ p \in Processes
      /\ pc' = [pc EXCEPT ![t] = "leaving"]
      /\ pending' = [pending EXCEPT ![p] = <<>>]
      /\ tx' = [tx EXCEPT ![p] = "none"]
      /\ base' = [base EXCEPT ![p] = 0]
      /\ view' = [view EXCEPT ![p] = Len(log')]
      /\ refused' = refused \ {p}
      /\ UNCHANGED <<op, lock>>
  BY HomeType DEF Commit, Goto
<1>2. /\ log' \in Seq(Threads)
      /\ Len(log) \in Nat /\ Len(log') = Len(log) + 1
      /\ \A q \in Processes : q # p => tx[q] # "write"
  <2>1. log \in Seq(Threads)
    BY DEF StoreInv, TypeOK
  <2>2. log' = Append(log, t) /\ \A q \in Processes : q # p => tx[q] # "write"
    BY CommitFacts
  <2>3. QED BY <2>1, <2>2
<1>3. pc[t] = "executed"
  BY DEF Commit
<1>4. \A u \in Threads : Home[u] = p /\ pc[u] = "executed" => u = t
  BY <1>3, Alone
<1> HIDE DEF p
<1>5. TypeOK'
  BY <1>1, <1>2 DEF StoreInv, TypeOK
<1>6. LockHeld'
  BY <1>1, <1>3 DEF StoreInv, TypeOK, LockHeld
<1>7. OwnWritePending'
  <2> SUFFICES ASSUME NEW q \in Processes
               PROVE  /\ pending'[q] # <<>> => \E u \in Threads : Home[u] = q /\ pc'[u] = "executed"
                      /\ \A u \in Threads : Home[u] = q /\ pc'[u] = "executed" =>
                            pending'[q] = <<u>> /\ tx'[q] = "write"
    BY DEF OwnWritePending
  <2>1. CASE q = p
    BY <1>1, <1>4, <2>1 DEF StoreInv, TypeOK
  <2>2. CASE q # p
    <3>1. \A u \in Threads : Home[u] = q => pc'[u] = pc[u]
      BY <1>1, <2>2 DEF StoreInv, TypeOK, p
    <3>2. pending'[q] = pending[q] /\ tx'[q] = tx[q]
      BY <1>1, <2>2 DEF StoreInv, TypeOK
    <3>3. QED BY <3>1, <3>2 DEF StoreInv, OwnWritePending
  <2>3. QED BY <2>1, <2>2
<1>8. OneWriter'
  BY <1>1, <1>2 DEF StoreInv, TypeOK, OneWriter
<1>9. StaleOnlyAfterRefusal'
  BY <1>1, <1>2 DEF StoreInv, TypeOK, StaleOnlyAfterRefusal
<1>10. QED BY <1>5, <1>6, <1>7, <1>8, <1>9 DEF StoreInv

LEMMA CrashKeeps ==
  ASSUME StoreInv, NEW p \in Processes, Crash(p)
  PROVE  StoreInv'
<1>1. /\ \A u \in Threads : Home[u] = p => pc'[u] = "idle" /\ op'[u] = "none"
      /\ \A u \in Threads : Home[u] # p => pc'[u] = pc[u] /\ op'[u] = op[u]
      /\ lock' = [lock EXCEPT ![p] = Free]
      /\ tx' = [tx EXCEPT ![p] = "none"]
      /\ base' = [base EXCEPT ![p] = 0]
      /\ pending' = [pending EXCEPT ![p] = <<>>]
      /\ refused' = refused \ {p}
      /\ UNCHANGED <<log, view>>
  BY DEF Crash
<1>2. TypeOK'
  BY <1>1 DEF Crash, StoreInv, TypeOK
<1>3. LockHeld'
  BY <1>1, HomeType, StorageAssumption DEF StoreInv, TypeOK, LockHeld
<1>4. OwnWritePending'
  <2> SUFFICES ASSUME NEW q \in Processes
               PROVE  /\ pending'[q] # <<>> => \E u \in Threads : Home[u] = q /\ pc'[u] = "executed"
                      /\ \A u \in Threads : Home[u] = q /\ pc'[u] = "executed" =>
                            pending'[q] = <<u>> /\ tx'[q] = "write"
    BY DEF OwnWritePending
  <2>1. CASE q = p
    BY <1>1, <2>1 DEF StoreInv, TypeOK
  <2>2. CASE q # p
    <3>1. pending'[q] = pending[q] /\ tx'[q] = tx[q]
      BY <1>1, <2>2 DEF StoreInv, TypeOK
    <3>2. \A u \in Threads : Home[u] = q => pc'[u] = pc[u]
      BY <1>1, <2>2
    <3>3. QED BY <3>1, <3>2 DEF StoreInv, OwnWritePending
  <2>3. QED BY <2>1, <2>2
<1>5. OneWriter'
  BY <1>1 DEF StoreInv, TypeOK, OneWriter
<1>6. StaleOnlyAfterRefusal'
  BY <1>1 DEF StoreInv, TypeOK, StaleOnlyAfterRefusal
<1>7. QED BY <1>2, <1>3, <1>4, <1>5, <1>6 DEF StoreInv

(* The lock serialises the calls of a process, a commit publishes just the *)
(* write of its own call, and no process writes on top of an old version   *)
(* or reads one without a refused write: for any number of processes and   *)
(* threads, through rejected writes and crashes.                           *)
THEOREM StoreInvariant == Spec => []StoreInv
<1>1. Init => StoreInv
  <2> SUFFICES ASSUME Init PROVE StoreInv
    OBVIOUS
  <2>1. TypeOK
    BY DEF Init, TypeOK
  <2>2. LockHeld
    BY HomeType, StorageAssumption DEF Init, LockHeld
  <2>3. OwnWritePending /\ OneWriter /\ StaleOnlyAfterRefusal
    BY DEF Init, OwnWritePending, OneWriter, StaleOnlyAfterRefusal
  <2>4. QED BY <2>1, <2>2, <2>3 DEF StoreInv
<1>2. StoreInv /\ [Next]_vars => StoreInv'
  <2>1. ASSUME StoreInv, UNCHANGED vars PROVE StoreInv'
    BY <2>1 DEF vars, StoreInv, TypeOK, LockHeld, OwnWritePending, OneWriter,
                StaleOnlyAfterRefusal
  <2>2. QED
    BY <2>1, CallKeeps, AcquireKeeps, ReleaseKeeps, ExecWriteKeeps, ExecRejectKeeps,
       ExecBusyKeeps, ExecQueryKeeps, CommitKeeps, CrashKeeps
    DEF Next, Work
<1>3. QED BY <1>1, <1>2, PTL DEF Spec

(***************************************************************************)
(* The refinement.  A call is "done" when its statement has been executed, *)
(* for a write when it has been committed; taking and giving back the lock *)
(* and executing a write that will be committed are stutters.              *)
(***************************************************************************)

LEMMA CallsValue ==
  ASSUME NEW t \in Threads
  PROVE  /\ pc[t] = "idle" => Calls[t] = "idle"
         /\ pc[t] = "leaving" => Calls[t] = "done"
         /\ pc[t] \notin {"idle", "leaving"} => Calls[t] = op[t]
  BY DEF Calls

(* A step of one thread changes only what that thread is at.               *)
LEMMA CallsStep ==
  ASSUME TypeOK, NEW t \in Threads, NEW p, NEW o,
         pc' = [pc EXCEPT ![t] = p], op' = [op EXCEPT ![t] = o]
  PROVE  Calls' = [Calls EXCEPT ![t] = IF p = "idle" THEN "idle"
                                       ELSE IF p = "leaving" THEN "done" ELSE o]
<1>1. \A u \in Threads : u # t => pc'[u] = pc[u] /\ op'[u] = op[u]
  BY DEF TypeOK
<1>2. pc'[t] = p /\ op'[t] = o
  BY DEF TypeOK
<1>3. QED BY <1>1, <1>2 DEF Calls

(* A step that leaves op alone. *)
LEMMA CallsGoto ==
  ASSUME TypeOK, NEW t \in Threads, NEW p, Goto(t, p), op' = op, p # "idle"
  PROVE  Calls' = [Calls EXCEPT ![t] = IF p = "leaving" THEN "done" ELSE op[t]]
<1>1. op' = [op EXCEPT ![t] = op[t]]
  BY DEF TypeOK
<1>2. QED BY <1>1, CallsStep DEF Goto

(* Every behaviour of the connections is one of atomic statements.         *)
THEOREM StorageIsAtomic == Spec => ImplementsAtomicStore
<1>1. Init => Atomic!Init
  BY DEF Init, Atomic!Init, Calls
<1>2. ASSUME StoreInv, [Next]_vars
      PROVE  [Atomic!Next]_(Atomic!vars)
  <2> USE <1>2
  <2>1. TypeOK
    BY DEF StoreInv
  <2>2. CASE UNCHANGED vars
    BY <2>2 DEF vars, Atomic!vars, Calls
  <2>3. ASSUME NEW t \in Threads, NEW kind \in {"write", "query"}, Call(t, kind)
        PROVE  Atomic!Invoke(t, kind)
    <3>1. Calls[t] = "idle"
      BY <2>3, CallsValue DEF Call
    <3>2. Calls' = [Calls EXCEPT ![t] = kind]
      BY <2>1, <2>3, CallsStep DEF Call, Goto
    <3>3. QED BY <2>3, <3>1, <3>2 DEF Call, Atomic!Invoke, sqlite, history
  <2>4. ASSUME NEW t \in Threads, Acquire(t) \/ ExecWrite(t)
        PROVE  UNCHANGED Atomic!vars
    <3>1. Calls' = [Calls EXCEPT ![t] = op[t]]
      BY <2>1, <2>4, CallsGoto DEF Acquire, ExecWrite
    <3>2. Calls[t] = op[t]
      BY <2>4, CallsValue DEF Acquire, ExecWrite
    <3>3. Calls' = Calls
      BY <3>1, <3>2 DEF Calls
    <3>4. QED BY <2>4, <3>3 DEF Acquire, ExecWrite, Atomic!vars, sqlite, history
  <2>5. ASSUME NEW t \in Threads, ExecReject(t)
        PROVE  Atomic!Reject(t)
    <3>1. Calls[t] = "write" /\ Calls' = [Calls EXCEPT ![t] = "done"]
      BY <2>1, <2>5, CallsValue, CallsGoto DEF ExecReject
    <3>2. QED BY <2>5, <3>1 DEF ExecReject, Atomic!Reject, history
  <2>6. ASSUME NEW t \in Threads, ExecBusy(t)
        PROVE  Atomic!Refuse(t)
    <3>1. Calls[t] = "write" /\ Calls' = [Calls EXCEPT ![t] = "done"]
      BY <2>1, <2>6, CallsValue, CallsGoto DEF ExecBusy
    <3>2. Processes # {Home[t]}
      BY <2>6, HomeType, RefusedByAnother DEF ExecBusy
    <3>3. QED BY <2>6, <3>1, <3>2 DEF ExecBusy, Atomic!Refuse
  <2>7. ASSUME NEW t \in Threads, ExecQuery(t)
        PROVE  Atomic!Query(t)
    <3>1. Calls[t] = "query" /\ Calls' = [Calls EXCEPT ![t] = "done"]
      BY <2>1, <2>7, CallsValue, CallsGoto DEF ExecQuery
    <3>2. /\ view' = [view EXCEPT ![Home[t]] = Snapshot(Home[t])]
          /\ log' = log /\ refused' = refused
      BY <2>7 DEF ExecQuery
    <3>3. /\ Snapshot(Home[t]) \in view[Home[t]] .. Len(log)
          /\ Snapshot(Home[t]) < Len(log) => Home[t] \in refused
      <4>1. Len(log) \in Nat /\ view[Home[t]] \in Nat
        BY <2>1, HomeType DEF TypeOK
      <4>2. QED BY <4>1, HomeType, SnapshotBounds
    <3>4. QED BY <3>1, <3>2, <3>3 DEF Atomic!Query
  <2>8. ASSUME NEW t \in Threads, Commit(t)
        PROVE  Atomic!Write(t)
    <3>1. op[t] = "write"
      BY <2>8 DEF Commit, StoreInv, LockHeld
    <3>2. Calls[t] = "write" /\ Calls' = [Calls EXCEPT ![t] = "done"]
      BY <2>1, <2>8, <3>1, CallsValue, CallsGoto DEF Commit
    <3>3. QED BY <2>8, <3>2, CommitFacts DEF Commit, Atomic!Write
  <2>9. ASSUME NEW t \in Threads, Release(t)
        PROVE  Atomic!Return(t)
    <3>1. Calls[t] = "done" /\ Calls' = [Calls EXCEPT ![t] = "idle"]
      BY <2>1, <2>9, CallsValue, CallsStep DEF Release, Goto
    <3>2. QED BY <2>9, <3>1 DEF Release, Atomic!Return, sqlite, history
  <2>10. ASSUME NEW p \in Processes, Crash(p)
         PROVE  Atomic!Crash(p)
    <3>1. Calls' = [t \in Threads |-> IF Home[t] = p THEN "idle" ELSE Calls[t]]
      BY <2>10 DEF Crash, Calls
    <3>2. QED BY <2>10, <3>1 DEF Crash, Atomic!Crash
  <2>11. QED
    BY <2>2, <2>3, <2>4, <2>5, <2>6, <2>7, <2>8, <2>9, <2>10
    DEF Next, Work, Atomic!Next
<1>3. QED BY <1>1, <1>2, StoreInvariant, PTL DEF Spec, ImplementsAtomicStore, Atomic!Spec
=============================================================================
