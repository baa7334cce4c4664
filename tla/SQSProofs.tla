----------------------------- MODULE SQSProofs -----------------------------
(* Theorems about SQS, and about the event source that reads it (module    *)
(* EventSource), for every value of their constants.                       *)
EXTENDS EventSource, TLAPS

(***************************************************************************)
(* Type correctness.                                                       *)
(***************************************************************************)

LEMMA IdleType == Idle \in LocalState
  BY DEF Idle, LocalState, LocalRecord, Assigned, Steps

LEMMA SatType == ASSUME NEW n \in Nat PROVE Sat(n) \in Nat
  BY ConfigAssumption DEF Sat

(* Ids are ordered. *)
LEMMA IdOrder ==
  /\ \A i \in Ids, n \in Nat : i <= n => i < n + 1 /\ i <= n + 1 /\ i # n + 1
  /\ \A i, j \in Ids : i <= j /\ j <= i => i = j
  /\ \A i, j, k \in Ids : i < j /\ j < k => i < k /\ k # j
  BY ConfigAssumption DEF Ids

LEMMA ThreadRoles ==
  /\ Senders \subseteq Threads
  /\ Receivers \subseteq Threads
  /\ Ackers \subseteq Threads
  /\ Admins \subseteq Threads
  BY DEF Threads

(* A step that gives thread t a well-typed local state keeps local typed.  *)
LEMMA UpdateType ==
  ASSUME TypeOK, NEW t \in Threads, NEW s \in LocalState,
         local' = [local EXCEPT ![t] = s]
  PROVE  local' \in [Threads -> LocalState]
  BY DEF TypeOK

LEMMA ReturnType ==
  ASSUME TypeOK, NEW t \in Threads, Return(t)
  PROVE  local' \in [Threads -> LocalState]
  BY IdleType DEF TypeOK, Return

LEMMA GotoType ==
  ASSUME TypeOK, NEW t \in Threads, NEW s \in Steps, Goto(t, s),
         Assigned([local[t] EXCEPT !.pc = s])
  PROVE  local' \in [Threads -> LocalState]
<1>1. [local[t] EXCEPT !.pc = s] \in LocalState
  BY DEF TypeOK, LocalState, LocalRecord
<1>2. QED BY <1>1 DEF TypeOK, Goto

LEMMA LocalType ==
  ASSUME TypeOK, NEW t \in Threads
  PROVE  local[t] \in LocalRecord /\ Assigned(local[t])
  BY DEF TypeOK, LocalState

(* In the loop of a receive the candidates may change.                     *)
LEMMA CandidatesType ==
  ASSUME TypeOK, NEW t \in Threads, NEW S, S \subseteq Snapshot,
         local[t].pc \in {"select", "loop", "redrive delete"}
  PROVE  [local[t] EXCEPT !.pc = "loop", !.todo = S] \in LocalState
<1> DEFINE s == [local[t] EXCEPT !.pc = "loop", !.todo = S]
<1>1. local[t] \in LocalRecord /\ local[t].name \in Queues /\ local[t].q \in QueueRow
  BY LocalType DEF Assigned
<1>2. s \in LocalRecord
  BY <1>1 DEF LocalRecord, Steps
<1>3. s.pc = "loop" /\ s.name = local[t].name /\ s.q = local[t].q
  BY <1>1 DEF LocalRecord
<1>4. Assigned(s)
  BY <1>1, <1>3 DEF Assigned
<1>5. QED BY <1>2, <1>4 DEF LocalState

LEMMA InsertType ==
  ASSUME TypeOK, NEW n \in Queues, NEW b \in Ids,
         NEW d \in DedupIds \cup {NoDedup}, Insert(n, b, d)
  PROVE  /\ messages' \in [Ids -> Row \cup {NoRow}]
         /\ lastId' \in 0 .. MaxIds
         /\ lastId' \in Ids
         /\ inWindow' \subseteq Ids
<1>1. lastId' \in Ids /\ lastId' \in 0 .. MaxIds
  BY ConfigAssumption DEF Insert, TypeOK, Ids
<1>2. [queue |-> n, body |-> b, dedup |-> d, handle |-> NoHandle,
       hidden |-> FALSE, count |-> 0] \in Row
  BY DEF Row
<1>3. QED BY <1>1, <1>2 DEF Insert, TypeOK

LEMMA WithoutType ==
  ASSUME TypeOK, NEW S
  PROVE  Without(S) \in [Ids -> Row \cup {NoRow}]
  BY DEF TypeOK, Without

LEMMA RowType ==
  ASSUME TypeOK, NEW i \in Ids, Exists(i)
  PROVE  messages[i] \in Row
  BY DEF TypeOK, Exists

(* TypeOK is inductive: a statement of one request types the tables and    *)
(* its own locals, and a request reads only locals it has assigned.        *)
THEOREM TypeCorrect == Spec => []TypeOK
<1>1. Init => TypeOK
  BY IdleType, ConfigAssumption DEF Init, TypeOK
<1>2. ASSUME TypeOK, [Next]_vars
      PROVE  TypeOK'
  <2> USE ThreadRoles, <1>2
  <2>1. CASE UNCHANGED vars
    BY <2>1 DEF TypeOK, vars
  <2>2. ASSUME NEW t \in Admins, NEW n \in Queues, NEW c \in Configs,
               CreateQueueCheck(t, n, c)
        PROVE  TypeOK'
    <3> DEFINE p == IF c.dlq = NoName THEN "create" ELSE "create dlq"
               s == [Idle EXCEPT !.pc = p, !.name = n, !.q = c]
    <3>1. /\ c \in QueueRow
          /\ p \in {"create", "create dlq"}
          /\ p = "create dlq" => c.dlq \in Queues
      BY ConfigAssumption DEF QueueRow
    <3>a. local' = [local EXCEPT ![t] = s]
      BY <2>2 DEF CreateQueueCheck
    <3> HIDE DEF p
    <3>b. s \in LocalState
      BY <3>1, IdleType DEF LocalState, LocalRecord, Assigned, Steps
    <3>2. local' \in [Threads -> LocalState]
      BY <3>a, <3>b, UpdateType
    <3>3. QED BY <2>2, <3>2 DEF CreateQueueCheck, TypeOK, db, history
  <2>3. ASSUME NEW t \in Admins, CreateQueueCheckDlq(t)
        PROVE  TypeOK'
    <3>1. Assigned([local[t] EXCEPT !.pc = "create"])
      BY <2>3, LocalType DEF CreateQueueCheckDlq, LocalRecord, Assigned
    <3>2. local' \in [Threads -> LocalState]
      BY <2>3, <3>1, ReturnType, GotoType DEF CreateQueueCheckDlq, Steps
    <3>3. QED BY <2>3, <3>2 DEF CreateQueueCheckDlq, TypeOK, db, history
  <2>4. ASSUME NEW t \in Admins, CreateQueueInsert(t)
        PROVE  TypeOK'
    <3>1. local' \in [Threads -> LocalState]
      BY <2>4, ReturnType DEF CreateQueueInsert
    <3>2. queues' \in [Queues -> QueueRow \cup {NoQueue}]
      BY <2>4, LocalType DEF CreateQueueInsert, TypeOK, LocalRecord, Assigned
    <3>3. QED BY <2>4, <3>1, <3>2 DEF CreateQueueInsert, TypeOK, history
  <2>5. ASSUME NEW t \in Admins, NEW n \in Queues, DeleteQueueRequire(t, n)
        PROVE  TypeOK'
    <3>1. [Idle EXCEPT !.pc = "purge", !.name = n] \in LocalState
      BY IdleType DEF LocalState, LocalRecord, Assigned, Steps
    <3>2. local' \in [Threads -> LocalState]
      BY <2>5, <3>1, UpdateType DEF DeleteQueueRequire
    <3>3. QED BY <2>5, <3>2 DEF DeleteQueueRequire, TypeOK, db, history
  <2>6. ASSUME NEW t \in Admins, DeleteQueuePurge(t)
        PROVE  TypeOK'
    <3>1. Assigned([local[t] EXCEPT !.pc = "drop"])
      BY <2>6, LocalType DEF DeleteQueuePurge, LocalRecord, Assigned
    <3>2. local' \in [Threads -> LocalState]
      BY <2>6, <3>1, GotoType DEF DeleteQueuePurge, Steps
    <3>3. settled' \subseteq Ids
      BY <2>6, RowType DEF DeleteQueuePurge, TypeOK, InQueue, Row
    <3>4. QED BY <2>6, <3>2, <3>3, WithoutType DEF DeleteQueuePurge, TypeOK
  <2>7. ASSUME NEW t \in Admins, DeleteQueueDrop(t)
        PROVE  TypeOK'
    <3>1. local' \in [Threads -> LocalState]
      BY <2>7, ReturnType DEF DeleteQueueDrop
    <3>2. QED BY <2>7, <3>1 DEF DeleteQueueDrop, TypeOK, history
  <2>8. ASSUME NEW t \in Senders, NEW n \in SendQueues,
               NEW d \in DedupIds \cup {NoDedup}, SendRequire(t, n, d)
        PROVE  TypeOK'
    <3>1. n \in Queues /\ queues[n] \in QueueRow
      BY <2>8, ConfigAssumption DEF SendRequire, TypeOK
    <3> DEFINE p == IF queues[n].fifo /\ d # NoDedup THEN "dedup" ELSE "insert"
               s == [Idle EXCEPT !.pc = p, !.name = n, !.q = queues[n], !.dedup = d]
    <3>a. p \in {"dedup", "insert"}
      OBVIOUS
    <3>b. local' = [local EXCEPT ![t] = s]
      BY <2>8 DEF SendRequire
    <3> HIDE DEF p
    <3>2. s \in LocalState
      BY <3>1, <3>a, IdleType DEF LocalState, LocalRecord, Assigned, Steps
    <3>3. local' \in [Threads -> LocalState]
      BY <3>b, <3>2, UpdateType
    <3>4. QED BY <2>8, <3>3 DEF SendRequire, TypeOK, db, history
  <2>9. ASSUME NEW t \in Senders, SendDedup(t)
        PROVE  TypeOK'
    <3>1. Assigned([local[t] EXCEPT !.pc = "insert"])
      BY <2>9, LocalType DEF SendDedup, LocalRecord, Assigned
    <3>2. local' \in [Threads -> LocalState]
      BY <2>9, <3>1, ReturnType, GotoType DEF SendDedup, Steps
    <3>3. QED BY <2>9, <3>2 DEF SendDedup, TypeOK, db, history
  <2>10. ASSUME NEW t \in Senders, SendInsert(t)
         PROVE  TypeOK'
    <3>1. local' \in [Threads -> LocalState]
      BY <2>10, ReturnType DEF SendInsert
    <3>2. local[t].name \in Queues /\ local[t].dedup \in DedupIds \cup {NoDedup}
      BY <2>10, LocalType DEF SendInsert, LocalRecord, Assigned
    <3>3. lastId + 1 \in Ids
      BY <2>10, ConfigAssumption DEF SendInsert, Insert, TypeOK, Ids
    <3>4. /\ messages' \in [Ids -> Row \cup {NoRow}]
          /\ lastId' \in 0 .. MaxIds
          /\ lastId' \in Ids
          /\ inWindow' \subseteq Ids
      BY <2>10, <3>2, <3>3, InsertType DEF SendInsert
    <3>5. accepted' \subseteq Ids
      BY <2>10, <3>2, <3>4 DEF SendInsert, TypeOK
    <3>6. QED BY <2>10, <3>1, <3>4, <3>5 DEF SendInsert, TypeOK
  <2>11. ASSUME NEW t \in Receivers, NEW n \in PollQueues, ReceiveRequire(t, n)
         PROVE  TypeOK'
    <3>1. n \in Queues /\ queues[n] \in QueueRow
      BY <2>11, ConfigAssumption DEF ReceiveRequire, TypeOK
    <3>2. [Idle EXCEPT !.pc = "select", !.name = n, !.q = queues[n]] \in LocalState
      BY <3>1, IdleType DEF LocalState, LocalRecord, Assigned, Steps
    <3>3. local' \in [Threads -> LocalState]
      BY <2>11, <3>2, UpdateType DEF ReceiveRequire
    <3>4. QED BY <2>11, <3>3 DEF ReceiveRequire, TypeOK, db, history
  <2>12. ASSUME NEW t \in Receivers, ReceiveSelect(t)
         PROVE  TypeOK'
    <3>1. PICK k \in 1 .. MaxBatch :
             local' = [local EXCEPT ![t].pc = "loop",
                                    ![t].todo = {SnapshotOf(i) :
                                       i \in Oldest(Visible(local[t].name), k)}]
      BY <2>12 DEF ReceiveSelect
    <3> DEFINE found == {SnapshotOf(i) : i \in Oldest(Visible(local[t].name), k)}
    <3>2. found \subseteq Snapshot
      <4>1. \A i \in Ids : Exists(i) => SnapshotOf(i) \in Snapshot
        BY RowType DEF SnapshotOf, Snapshot, Row
      <4>2. Oldest(Visible(local[t].name), k) \subseteq {i \in Ids : Exists(i)}
        BY DEF Oldest, Visible, InQueue
      <4>3. QED BY <4>1, <4>2
    <3> HIDE DEF found
    <3>3. [local[t] EXCEPT !.pc = "loop", !.todo = found] \in LocalState
      BY <2>12, <3>2, CandidatesType, ThreadRoles DEF ReceiveSelect
    <3>4. local' = [local EXCEPT ![t] = [local[t] EXCEPT !.pc = "loop", !.todo = found]]
      BY <3>1 DEF found, TypeOK
    <3>5. local' \in [Threads -> LocalState]
      BY <3>3, <3>4, UpdateType
    <3>6. QED BY <2>12, <3>5 DEF ReceiveSelect, TypeOK, db, history
  <2>13. ASSUME NEW t \in Receivers, ReceiveLease(t)
         PROVE  TypeOK'
    <3>1. PICK m \in Current(t), h \in NewHandles(t) :
             /\ messages' = IF Exists(m.id)
                            THEN [messages EXCEPT ![m.id].handle = h,
                                                  ![m.id].hidden = TRUE,
                                                  ![m.id].count = NewCount(m)]
                            ELSE messages
             /\ local' = [local EXCEPT
                            ![t].todo = @ \ {m},
                            ![t].out = @ \cup {[id |-> m.id, queue |-> local[t].name,
                                                handle |-> h, live |-> TRUE]}]
             /\ grants' = [grants EXCEPT ![m.id] = Sat(@ + 1)]
      BY <2>13 DEF ReceiveLease
    <3>2. m \in Snapshot /\ h \in Handles /\ local[t].name \in Queues
      BY <2>13, LocalType DEF ReceiveLease, Current, NewHandles, LocalRecord, Assigned
    <3>3. m.id \in Ids /\ NewCount(m) \in Nat
      BY <3>2, SatType DEF Snapshot, NewCount
    <3>4. messages' \in [Ids -> Row \cup {NoRow}]
      <4>1. CASE Exists(m.id)
        <5>1. [messages[m.id] EXCEPT !.handle = h, !.hidden = TRUE,
                                     !.count = NewCount(m)] \in Row
          BY <4>1, <3>2, <3>3, RowType DEF Row
        <5>2. QED BY <3>1, <4>1, <5>1, <3>3 DEF TypeOK
      <4>2. CASE ~Exists(m.id)
        BY <3>1, <4>2 DEF TypeOK
      <4>3. QED BY <4>1, <4>2
    <3>5. local' \in [Threads -> LocalState]
      <4> DEFINE r == [id |-> m.id, queue |-> local[t].name, handle |-> h, live |-> TRUE]
                 s == [local[t] EXCEPT !.todo = @ \ {m}, !.out = @ \cup {r}]
      <4>1. r \in Receipt
        BY <3>2, <3>3 DEF Receipt
      <4>2. local' = [local EXCEPT ![t] = s]
        BY <3>1 DEF TypeOK
      <4> HIDE DEF r
      <4>3. s \in LocalState
        <5>1. s \in LocalRecord
          BY <4>1, LocalType DEF LocalRecord
        <5>2. s.pc = "loop" /\ s.name = local[t].name /\ s.q = local[t].q
          BY <2>13, LocalType DEF ReceiveLease, LocalRecord
        <5>3. Assigned(s)
          BY <2>13, <5>2, LocalType DEF ReceiveLease, Assigned
        <5>4. QED BY <5>1, <5>3 DEF LocalState
      <4>4. QED BY <4>2, <4>3, UpdateType
    <3>6. grants' \in [Ids -> Nat]
      BY <3>1, <3>3, SatType DEF TypeOK
    <3>7. QED BY <2>13, <3>4, <3>5, <3>6 DEF ReceiveLease, TypeOK
  <2>14. ASSUME NEW t \in Receivers, RedriveInsert(t)
         PROVE  TypeOK'
    <3>1. PICK m \in Current(t) : Redrives(local[t].q, m) /\ Insert(local[t].q.dlq, m.body, m.dedup)
      BY <2>14 DEF RedriveInsert
    <3>2. m \in Snapshot /\ m \in local[t].todo /\ local[t].q \in QueueRow
      BY <2>14, LocalType DEF RedriveInsert, Current, LocalRecord, Assigned
    <3>3. local[t].q.dlq \in Queues /\ m.body \in Ids /\ m.dedup \in DedupIds \cup {NoDedup}
      BY <3>1, <3>2 DEF Redrives, QueueRow, Snapshot
    <3>4. /\ messages' \in [Ids -> Row \cup {NoRow}]
          /\ lastId' \in 0 .. MaxIds
          /\ inWindow' \subseteq Ids
      BY <3>1, <3>3, InsertType
    <3>5. Assigned([local[t] EXCEPT !.pc = "redrive delete"])
      BY <2>14, <3>2, LocalType DEF RedriveInsert, LocalRecord, Assigned
    <3>6. local' \in [Threads -> LocalState]
      BY <2>14, <3>5, GotoType DEF RedriveInsert, Steps
    <3>7. QED BY <2>14, <3>4, <3>6 DEF RedriveInsert, TypeOK, history
  <2>15. ASSUME NEW t \in Receivers, RedriveInsertFails(t)
         PROVE  TypeOK'
    <3>1. Assigned([local[t] EXCEPT !.pc = "redrive delete"])
      BY <2>15, LocalType DEF RedriveInsertFails, Current, LocalRecord, Assigned
    <3>2. local' \in [Threads -> LocalState]
      BY <2>15, <3>1, GotoType DEF RedriveInsertFails, Steps
    <3>3. swallowed' \subseteq Ids
      <4>1. PICK m \in Current(t) : swallowed' = swallowed \cup {m.body}
        BY <2>15 DEF RedriveInsertFails
      <4>2. m \in Snapshot
        BY <2>15, LocalType DEF Current, LocalRecord
      <4>. QED BY <4>1, <4>2 DEF Snapshot, TypeOK
    <3>4. QED BY <2>15, <3>2, <3>3 DEF RedriveInsertFails, TypeOK, db
  <2>16. ASSUME NEW t \in Receivers, RedriveDelete(t)
         PROVE  TypeOK'
    <3>1. PICK m \in Current(t) :
             /\ messages' = Without({m.id})
             /\ local' = [local EXCEPT ![t].pc = "loop", ![t].todo = @ \ {m}]
      BY <2>16 DEF RedriveDelete
    <3> DEFINE s == [local[t] EXCEPT !.pc = "loop", !.todo = local[t].todo \ {m}]
    <3>2. local' = [local EXCEPT ![t] = s]
      BY <3>1 DEF TypeOK
    <3>3. s \in LocalState
      <4>1. local[t].todo \ {m} \subseteq Snapshot
        BY LocalType, ThreadRoles DEF LocalRecord
      <4>2. QED BY <2>16, <4>1, CandidatesType, ThreadRoles DEF RedriveDelete
    <3>4. local' \in [Threads -> LocalState]
      BY <3>2, <3>3, UpdateType
    <3>5. QED BY <2>16, <3>1, <3>4, WithoutType DEF RedriveDelete, TypeOK, history
  <2>17. ASSUME NEW t \in Receivers, ReceiveReturn(t)
         PROVE  TypeOK'
    <3>1. local' \in [Threads -> LocalState]
      BY <2>17, ReturnType DEF ReceiveReturn
    <3>2. held' \subseteq Receipt
      BY <2>17, LocalType DEF ReceiveReturn, TypeOK, LocalRecord
    <3>3. QED BY <2>17, <3>1, <3>2 DEF ReceiveReturn, TypeOK, db, history
  <2>18. ASSUME NEW t \in Ackers, NEW r \in held, DeleteMessageRequire(t, r)
         PROVE  TypeOK'
    <3>1. [Idle EXCEPT !.pc = "ack", !.receipt = r] \in LocalState
      BY IdleType DEF LocalState, LocalRecord, Assigned, Steps, TypeOK
    <3>2. local' \in [Threads -> LocalState]
      BY <2>18, <3>1, UpdateType DEF DeleteMessageRequire
    <3>3. QED BY <2>18, <3>2 DEF DeleteMessageRequire, TypeOK, db, history
  <2>19. ASSUME NEW t \in Ackers, DeleteMessageDelete(t)
         PROVE  TypeOK'
    <3>1. local' \in [Threads -> LocalState]
      BY <2>19, ReturnType DEF DeleteMessageDelete
    <3>2. Named(local[t].receipt) \subseteq {i \in Ids : Exists(i)}
      BY DEF Named, InQueue
    <3>3. settled' \subseteq Ids /\ finished' \subseteq Ids
      BY <2>19, <3>2, RowType DEF DeleteMessageDelete, TypeOK, Row
    <3>4. QED BY <2>19, <3>1, <3>3, WithoutType DEF DeleteMessageDelete, TypeOK
  <2>20. ASSUME NEW r \in held, Forget(r)
         PROVE  TypeOK'
    BY <2>20 DEF Forget, TypeOK, db, history
  <2>21. ASSUME NEW h \in Handles, LeaseExpires(h)
         PROVE  TypeOK'
    <3>1. \A S : S \subseteq Receipt => Dead(S, h) \subseteq Receipt
      BY DEF Dead, Receipt
    <3>2. messages' \in [Ids -> Row \cup {NoRow}]
      <4>1. \A i \in Ids : Exists(i) => [messages[i] EXCEPT !.hidden = FALSE] \in Row
        BY RowType DEF Row
      <4>2. QED BY <2>21, <4>1 DEF LeaseExpires, TypeOK
    <3>3. local' \in [Threads -> LocalState]
      <4>1. ASSUME NEW t \in Threads
            PROVE  [local[t] EXCEPT !.out = Dead(@, h)] \in LocalState
        <5>1. Dead(local[t].out, h) \subseteq Receipt
          BY <3>1, LocalType DEF LocalRecord
        <5>2. QED BY <5>1, LocalType DEF LocalState, LocalRecord, Assigned
      <4>2. QED BY <2>21, <4>1 DEF LeaseExpires
    <3>4. QED BY <2>21, <3>1, <3>2, <3>3 DEF LeaseExpires, TypeOK, history
  <2>22. ASSUME NEW i \in Ids, WindowPasses(i)
         PROVE  TypeOK'
    BY <2>22 DEF WindowPasses, TypeOK, db, history
  <2>23. ASSUME NEW t \in Threads, RequestFails(t)
         PROVE  TypeOK'
    BY <2>23, ReturnType DEF RequestFails, TypeOK, db, history
  <2>24. CASE Crash
    BY <2>24, IdleType DEF Crash, TypeOK, db, history
  <2>25. QED
    BY <2>1, <2>2, <2>3, <2>4, <2>5, <2>6, <2>7, <2>8, <2>9, <2>10, <2>11, <2>12,
       <2>13, <2>14, <2>15, <2>16, <2>17, <2>18, <2>19, <2>20, <2>21, <2>22, <2>23,
       <2>24
    DEF Next, Admin, Send, Receive, ReceiveStep, Ack, Environment
<1>3. QED BY <1>1, <1>2, PTL DEF Spec

(***************************************************************************)
(* No message is lost.                                                     *)
(*                                                                         *)
(* NoMessageLost is not inductive: DELETE of the redrive takes a row away, *)
(* and only the redrive's own past says that another row has the body.     *)
(* CopyMade says it, and says that the copy is younger, so that two        *)
(* receivers that redrive one message, or a message and its copy, cannot   *)
(* each delete the row the other relies on.  It needs the bodies of the    *)
(* SELECTed candidates to be those of the table (Snapshots), which holds   *)
(* because ids are never used twice (IdsUsed).                             *)
(***************************************************************************)

IdsUsed == \A i \in Ids : Exists(i) => i <= lastId

Snapshots ==
    \A t \in Threads : \A m \in local[t].todo :
        /\ m.id <= lastId
        /\ Exists(m.id) => messages[m.id].body = m.body
        /\ \A o \in local[t].todo : o.id = m.id => o = m

(* A row with body b that is younger than i.                               *)
YoungerCopy(i, b) == \E j \in Ids : i < j /\ Exists(j) /\ messages[j].body = b

(* What may be gone. *)
Excused == settled \cup swallowed

CopyMade ==
    \A t \in Threads : local[t].pc = "redrive delete" =>
        \A m \in Current(t) : m.body \in Excused \/ YoungerCopy(m.id, m.body)

LostInv == IdsUsed /\ Snapshots /\ CopyMade /\ NoMessageLost

(* Steps that neither accept, select nor redrive: rows keep their bodies   *)
(* or go because somebody asked for it, and candidates only get fewer.     *)
LEMMA LostInvKept ==
  ASSUME TypeOK, LostInv,
         lastId' = lastId,
         Excused \subseteq Excused',
         accepted' = accepted,
         \A i \in Ids : Exists(i) =>
            \/ messages[i].body \in Excused'
            \/ Exists(i)' /\ messages'[i].body = messages[i].body,
         \A i \in Ids : Exists(i)' => Exists(i) /\ messages'[i].body = messages[i].body,
         \A t \in Threads :
            /\ local'[t].todo \subseteq local[t].todo
            /\ local'[t].pc = "redrive delete" =>
                  local[t].pc = "redrive delete" /\ local'[t].todo = local[t].todo
  PROVE  LostInv'
<1>1. IdsUsed'
  BY DEF LostInv, IdsUsed
<1>2. Snapshots'
  <2>1. \A t \in Threads : \A m \in local[t].todo : m.id \in Ids
    BY LocalType DEF LocalRecord, Snapshot
  <2>2. QED BY <2>1 DEF LostInv, Snapshots
<1>3. CopyMade'
  <2> SUFFICES ASSUME NEW t \in Threads, local'[t].pc = "redrive delete",
                      NEW m \in Current(t)'
               PROVE  m.body \in Excused' \/ YoungerCopy(m.id, m.body)'
    BY DEF CopyMade
  <2>1. local[t].pc = "redrive delete" /\ m \in Current(t)
    BY DEF Current
  <2>2. m.body \in Excused \/ YoungerCopy(m.id, m.body)
    BY <2>1 DEF LostInv, CopyMade
  <2>3. QED BY <2>2 DEF YoungerCopy
<1>4. NoMessageLost'
  BY ZenonT(60) DEF LostInv, NoMessageLost, Excused
<1>5. QED BY <1>1, <1>2, <1>3, <1>4 DEF LostInv

(* What an INSERT does to the table.                                       *)
LEMMA InsertFacts ==
  ASSUME TypeOK, IdsUsed, NEW n \in Queues, NEW b \in Ids,
         NEW d \in DedupIds \cup {NoDedup}, Insert(n, b, d)
  PROVE  /\ lastId \in Nat /\ lastId' = lastId + 1 /\ lastId' \in Ids
         /\ messages'[lastId'] # NoRow /\ messages'[lastId'].body = b
         /\ messages'[lastId'].handle = NoHandle
         /\ \A i \in Ids : Exists(i) => Exists(i)' /\ messages'[i] = messages[i]
         /\ \A i \in Ids : Exists(i)' => Exists(i) \/ i = lastId'
         /\ \A i \in Ids : Exists(i) => i <= lastId
<1>1. lastId \in Nat /\ lastId' = lastId + 1 /\ lastId' \in Ids
  BY ConfigAssumption DEF TypeOK, Insert, Ids
<1> DEFINE row == [queue |-> n, body |-> b, dedup |-> d, handle |-> NoHandle,
                   hidden |-> FALSE, count |-> 0]
<1>2. row \in Row /\ row.body = b /\ row.handle = NoHandle
  BY DEF Row
<1>3. messages' = [messages EXCEPT ![lastId'] = row]
  BY DEF Insert
<1> HIDE DEF row
<1>4. messages'[lastId'] = row /\ row # NoRow
  BY <1>1, <1>2, <1>3, NamesAssumption DEF TypeOK
<1>5. \A i \in Ids : i # lastId' => messages'[i] = messages[i]
  BY <1>1, <1>3 DEF TypeOK
<1>6. \A i \in Ids : Exists(i) => i <= lastId /\ i # lastId'
  BY <1>1 DEF IdsUsed, Ids
<1>7. QED BY <1>1, <1>2, <1>4, <1>5, <1>6 DEF Exists

(* An accepted message stays in the table until a client deletes it, its   *)
(* queue is deleted, or the INSERT of its redrive raises.                  *)
THEOREM NeverLost == Spec => []NoMessageLost
<1>1. Init => LostInv
  <2> SUFFICES ASSUME Init PROVE LostInv
    OBVIOUS
  <2>1. \A t \in Threads : local[t].todo = {} /\ local[t].pc = "idle"
    BY DEF Init, Idle
  <2>2. \A i \in Ids : ~Exists(i)
    BY DEF Init, Exists
  <2>3. QED BY <2>1, <2>2 DEF Init, LostInv, IdsUsed, Snapshots, CopyMade, NoMessageLost, Excused
<1>2. ASSUME TypeOK, LostInv, [Next]_vars
      PROVE  LostInv'
  <2> USE ThreadRoles, <1>2
  <2> DEFINE SameRows == /\ lastId' = lastId
                         /\ messages' = messages
  <2>1. CASE UNCHANGED vars
    BY <2>1, LostInvKept DEF vars, Exists, Excused
  <2>2. ASSUME NEW t \in Threads, SameRows, Excused' = Excused, accepted' = accepted,
               \A u \in Threads : u # t => local'[u] = local[u],
               local'[t].todo = {} \/ local'[t].todo = local[t].todo,
               local'[t].pc # "redrive delete"
        PROVE  LostInv'
    BY <2>2, LostInvKept DEF Exists
  <2>3. ASSUME NEW t \in Threads, Return(t)
        PROVE  /\ \A u \in Threads : u # t => local'[u] = local[u]
               /\ local'[t].todo = {}
               /\ local'[t].pc # "redrive delete"
    BY <2>3 DEF Return, Idle, TypeOK
  <2>4. ASSUME NEW t \in Threads, NEW s, Goto(t, s), s # "redrive delete"
        PROVE  /\ \A u \in Threads : u # t => local'[u] = local[u]
               /\ local'[t].todo = local[t].todo
               /\ local'[t].pc # "redrive delete"
    BY <2>4, LocalType DEF Goto, TypeOK, LocalRecord
  <2>5. ASSUME NEW t \in Admins, Admin(t)
        PROVE  LostInv'
    <3>1. ASSUME NEW n \in Queues, NEW c \in Configs, CreateQueueCheck(t, n, c)
          PROVE  LostInv'
      BY <3>1, <2>2 DEF CreateQueueCheck, Idle, TypeOK, db, history, Excused
    <3>2. CASE CreateQueueCheckDlq(t)
      BY <3>2, <2>2, <2>3, <2>4 DEF CreateQueueCheckDlq, db, history, Excused
    <3>3. CASE CreateQueueInsert(t)
      BY <3>3, <2>2, <2>3 DEF CreateQueueInsert, history, Excused
    <3>4. ASSUME NEW n \in Queues, DeleteQueueRequire(t, n)
          PROVE  LostInv'
      BY <3>4, <2>2 DEF DeleteQueueRequire, Idle, TypeOK, db, history, Excused
    <3>5. CASE DeleteQueuePurge(t)
      <4>1. /\ \A u \in Threads : u # t => local'[u] = local[u]
            /\ local'[t].todo = local[t].todo
            /\ local'[t].pc # "redrive delete"
        BY <3>5, <2>4 DEF DeleteQueuePurge
      <4>2. \A i \in Ids : Exists(i) =>
               \/ messages[i].body \in Excused'
               \/ Exists(i)' /\ messages'[i].body = messages[i].body
        BY <3>5 DEF DeleteQueuePurge, Without, InQueue, Exists, Excused
      <4>3. \A i \in Ids : Exists(i)' => Exists(i) /\ messages'[i].body = messages[i].body
        BY <3>5 DEF DeleteQueuePurge, Without, Exists, Excused
      <4>4. QED BY <3>5, <4>1, <4>2, <4>3, LostInvKept DEF DeleteQueuePurge, Excused
    <3>6. CASE DeleteQueueDrop(t)
      BY <3>6, <2>2, <2>3 DEF DeleteQueueDrop, history, Excused
    <3>7. QED BY <2>5, <3>1, <3>2, <3>3, <3>4, <3>5, <3>6 DEF Admin
  <2>6. ASSUME NEW t \in Senders, Send(t)
        PROVE  LostInv'
    <3>1. ASSUME NEW n \in SendQueues, NEW d \in DedupIds \cup {NoDedup}, SendRequire(t, n, d)
          PROVE  LostInv'
      <4>1. local'[t].todo = {} /\ local'[t].pc # "redrive delete"
        BY <3>1 DEF SendRequire, Idle, TypeOK
      <4>2. QED BY <3>1, <4>1, <2>2 DEF SendRequire, TypeOK, db, history, Excused
    <3>2. CASE SendDedup(t)
      BY <3>2, <2>2, <2>3, <2>4 DEF SendDedup, db, history, Excused
    <3>3. CASE SendInsert(t)
      <4>1. local[t].name \in Queues /\ local[t].dedup \in DedupIds \cup {NoDedup}
        BY <3>3, LocalType DEF SendInsert, LocalRecord, Assigned
      <4>2. lastId + 1 \in Ids
        BY <3>3, ConfigAssumption DEF SendInsert, Insert, TypeOK, Ids
      <4>3. /\ lastId \in Nat /\ lastId' = lastId + 1 /\ lastId' \in Ids
            /\ messages'[lastId'] # NoRow /\ messages'[lastId'].body = lastId'
            /\ \A i \in Ids : Exists(i) => Exists(i)' /\ messages'[i] = messages[i]
            /\ \A i \in Ids : Exists(i)' => Exists(i) \/ i = lastId'
            /\ \A i \in Ids : Exists(i) => i <= lastId
        BY <3>3, <4>1, <4>2, InsertFacts DEF SendInsert, Insert, LostInv
      <4>4. /\ \A u \in Threads : u # t => local'[u] = local[u]
            /\ local'[t].todo = {}
            /\ local'[t].pc # "redrive delete"
        BY <3>3, <2>3 DEF SendInsert
      <4>5. IdsUsed'
        BY <4>3 DEF IdsUsed, Ids
      <4>6. Snapshots'
        <5>1. \A u \in Threads : \A m \in local[u].todo : m.id \in Ids
          BY LocalType DEF LocalRecord, Snapshot
        <5>2. \A u \in Threads : local'[u].todo \subseteq local[u].todo
          BY <4>4
        <5>3. ASSUME NEW u \in Threads, NEW m \in local[u].todo
              PROVE  /\ m.id <= lastId'
                     /\ Exists(m.id)' => messages'[m.id].body = m.body
          <6>1. m.id \in Ids /\ m.id <= lastId /\ m.id # lastId'
            BY <5>1, <4>3 DEF LostInv, Snapshots, Ids
          <6>2. QED BY <6>1, <4>3 DEF LostInv, Snapshots, Ids
        <5>4. QED BY <5>2, <5>3 DEF LostInv, Snapshots
      <4>7. CopyMade'
        <5> SUFFICES ASSUME NEW u \in Threads, local'[u].pc = "redrive delete",
                            NEW m \in Current(u)'
                     PROVE  m.body \in Excused' \/ YoungerCopy(m.id, m.body)'
          BY DEF CopyMade
        <5>1. local[u].pc = "redrive delete" /\ m \in Current(u)
          BY <4>4 DEF Current
        <5>2. QED BY <3>3, <4>3, <5>1 DEF LostInv, CopyMade, YoungerCopy, SendInsert, Excused
      <4>8. NoMessageLost'
        <5> SUFFICES ASSUME NEW b \in accepted', b \notin Excused'
                     PROVE  \E i \in Ids : Exists(i)' /\ messages'[i].body = b
          BY DEF NoMessageLost, Excused
        <5>1. Excused' = Excused /\ accepted' = accepted \cup {lastId'}
          BY <3>3 DEF SendInsert, Excused
        <5>2. CASE b = lastId'
          BY <4>3, <5>2 DEF Exists
        <5>3. CASE b \in accepted
          BY <4>3, <5>1, <5>3 DEF LostInv, NoMessageLost, Excused
        <5>4. QED BY <5>1, <5>2, <5>3
      <4>9. QED BY <4>5, <4>6, <4>7, <4>8 DEF LostInv
    <3>4. QED BY <2>6, <3>1, <3>2, <3>3 DEF Send
  <2>7. ASSUME NEW t \in Receivers, NEW n \in PollQueues, ReceiveRequire(t, n)
        PROVE  LostInv'
    BY <2>7, <2>2 DEF ReceiveRequire, Idle, TypeOK, db, history, Excused
  <2>8. ASSUME NEW t \in Receivers, ReceiveSelect(t)
        PROVE  LostInv'
    <3>1. PICK S \in SUBSET {i \in Ids : Exists(i)} :
             local' = [local EXCEPT ![t].pc = "loop", ![t].todo = {SnapshotOf(i) : i \in S}]
      <4>1. \A k : Oldest(Visible(local[t].name), k) \in SUBSET {i \in Ids : Exists(i)}
        BY DEF Oldest, Visible, InQueue
      <4>2. QED BY <2>8, <4>1 DEF ReceiveSelect
    <3>2. /\ \A u \in Threads : u # t => local'[u] = local[u]
          /\ local'[t].todo = {SnapshotOf(i) : i \in S}
          /\ local'[t].pc = "loop"
      BY <3>1, LocalType DEF TypeOK, LocalRecord
    <3>3. SameRows /\ Excused' = Excused /\ accepted' = accepted
      BY <2>8 DEF ReceiveSelect, db, history, Excused
    <3>4. IdsUsed' /\ NoMessageLost'
      BY <3>3 DEF LostInv, IdsUsed, NoMessageLost, Exists, Excused
    <3>5. Snapshots'
      <4>1. \A i \in S : SnapshotOf(i).id = i /\ SnapshotOf(i).body = messages[i].body
        BY DEF SnapshotOf
      <4>2. \A m \in local'[t].todo : \E i \in S : m = SnapshotOf(i)
        BY <3>2
      <4>3. QED BY <3>2, <3>3, <4>1, <4>2 DEF LostInv, Snapshots, IdsUsed, Exists
    <3>6. CopyMade'
      <4> SUFFICES ASSUME NEW u \in Threads, local'[u].pc = "redrive delete",
                          NEW m \in Current(u)'
                   PROVE  m.body \in Excused' \/ YoungerCopy(m.id, m.body)'
        BY DEF CopyMade
      <4>1. local[u].pc = "redrive delete" /\ m \in Current(u)
        BY <3>2 DEF Current
      <4>2. QED BY <3>3, <4>1 DEF LostInv, CopyMade, YoungerCopy, Exists
    <3>7. QED BY <3>4, <3>5, <3>6 DEF LostInv
  <2>9. ASSUME NEW t \in Receivers, ReceiveLease(t)
        PROVE  LostInv'
    <3>1. PICK m \in Current(t), h \in NewHandles(t) : \E r :
             /\ messages' = IF Exists(m.id)
                            THEN [messages EXCEPT ![m.id].handle = h,
                                                  ![m.id].hidden = TRUE,
                                                  ![m.id].count = NewCount(m)]
                            ELSE messages
             /\ local' = [local EXCEPT ![t].todo = @ \ {m}, ![t].out = @ \cup {r}]
      BY <2>9 DEF ReceiveLease
    <3>2. m.id \in Ids
      BY <2>9, LocalType DEF Current, LocalRecord, Snapshot
    <3>3. \A i \in Ids : (Exists(i)' <=> Exists(i)) /\ (Exists(i) => messages'[i].body = messages[i].body)
      <4>1. CASE Exists(m.id)
        <5> DEFINE row == [messages[m.id] EXCEPT !.handle = h, !.hidden = TRUE,
                                                 !.count = NewCount(m)]
        <5>1. messages[m.id] \in Row
          BY <4>1, <3>2, RowType
        <5>2. row.body = messages[m.id].body
          BY <5>1 DEF Row
        <5>3. row # NoRow
          <6>1. h \in Handles /\ NewCount(m) \in Nat
            BY SatType, LocalType DEF NewHandles, Current, LocalRecord, Snapshot, NewCount
          <6>2. row \in Row
            BY <5>1, <6>1 DEF Row
          <6>3. QED BY <6>2, NamesAssumption
        <5>4. messages' = [messages EXCEPT ![m.id] = row]
          BY ZenonT(60), <3>1, <4>1 DEF TypeOK
        <5> HIDE DEF row
        <5>5. QED BY <3>2, <4>1, <5>2, <5>3, <5>4 DEF TypeOK, Exists
      <4>2. CASE ~Exists(m.id)
        BY <3>1, <4>2 DEF Exists
      <4>3. QED BY <4>1, <4>2
    <3>4. /\ \A u \in Threads : u # t => local'[u] = local[u]
          /\ local'[t].todo \subseteq local[t].todo
          /\ local'[t].pc = "loop"
      BY <2>9, <3>1, LocalType DEF ReceiveLease, TypeOK, LocalRecord
    <3>5. QED BY <2>9, <3>3, <3>4, LostInvKept DEF ReceiveLease, Excused
  <2>10. ASSUME NEW t \in Receivers, RedriveInsert(t)
         PROVE  LostInv'
    <3>1. PICK m \in Current(t) : Redrives(local[t].q, m) /\ Insert(local[t].q.dlq, m.body, m.dedup)
      BY <2>10 DEF RedriveInsert
    <3>2. m \in Snapshot /\ m \in local[t].todo /\ local[t].q \in QueueRow
      BY <2>10, LocalType DEF RedriveInsert, Current, LocalRecord, Assigned
    <3>3. local[t].q.dlq \in Queues /\ m.body \in Ids /\ m.dedup \in DedupIds \cup {NoDedup}
      BY <3>1, <3>2 DEF Redrives, QueueRow, Snapshot
    <3>4. /\ lastId \in Nat /\ lastId' = lastId + 1 /\ lastId' \in Ids
          /\ messages'[lastId'] # NoRow /\ messages'[lastId'].body = m.body
          /\ \A i \in Ids : Exists(i) => Exists(i)' /\ messages'[i] = messages[i]
          /\ \A i \in Ids : Exists(i)' => Exists(i) \/ i = lastId'
          /\ \A i \in Ids : Exists(i) => i <= lastId
      BY <3>1, <3>3, InsertFacts DEF LostInv
    <3>5. /\ \A u \in Threads : u # t => local'[u] = local[u]
          /\ local'[t].todo = local[t].todo
      BY <2>10, LocalType DEF RedriveInsert, Goto, TypeOK, LocalRecord
    <3>6. Excused' = Excused /\ accepted' = accepted
      BY <2>10 DEF RedriveInsert, history, Excused
    <3>7. IdsUsed'
      BY <3>4 DEF IdsUsed, Ids
    <3>8. \A u \in Threads : \A o \in local[u].todo : o.id \in Ids /\ o.id <= lastId
      BY LocalType DEF LocalRecord, Snapshot, LostInv, Snapshots
    <3>9. Snapshots'
      BY <3>4, <3>5, <3>8 DEF LostInv, Snapshots, Ids
    <3>10. CopyMade'
      <4> SUFFICES ASSUME NEW u \in Threads, local'[u].pc = "redrive delete",
                          NEW o \in Current(u)'
                   PROVE  o.body \in Excused' \/ YoungerCopy(o.id, o.body)'
        BY DEF CopyMade
      <4>1. o \in Current(u)
        BY <3>5 DEF Current
      <4>2. CASE u = t
        <5>1. o.id = m.id
          <6>1. m \in local[t].todo /\ o \in local[t].todo
            BY <4>1, <4>2, <3>2 DEF Current
          <6>2. m.id \in Ids /\ o.id \in Ids
            BY <6>1, <3>8
          <6>3. m.id <= o.id /\ o.id <= m.id
            BY <4>1, <4>2, <6>1 DEF Current
          <6>4. QED BY <6>2, <6>3, IdOrder
        <5>2. o = m
          BY <4>1, <4>2, <5>1, <3>2 DEF Current, LostInv, Snapshots
        <5>3. m.id < lastId'
          <6>1. m.id \in Ids /\ m.id <= lastId
            BY <3>2, <3>8
          <6>2. QED BY <6>1, <3>4, IdOrder
        <5>4. o.id < lastId' /\ o.body = m.body
          BY <5>2, <5>3
        <5>5. lastId' \in Ids /\ messages'[lastId'] # NoRow /\ messages'[lastId'].body = o.body
          BY <3>4, <5>4 DEF Exists
        <5>6. QED BY <5>4, <5>5 DEF YoungerCopy, Exists
      <4>3. CASE u # t
        BY <3>4, <3>5, <3>6, <4>1, <4>3 DEF LostInv, CopyMade, YoungerCopy
      <4>4. QED BY <4>2, <4>3
    <3>11. NoMessageLost'
      BY <3>4, <3>6 DEF LostInv, NoMessageLost, Excused
    <3>12. QED BY <3>7, <3>9, <3>10, <3>11 DEF LostInv
  <2>17. ASSUME NEW t \in Receivers, RedriveInsertFails(t)
         PROVE  LostInv'
    <3>1. PICK m \in Current(t) : swallowed' = swallowed \cup {m.body}
      BY <2>17 DEF RedriveInsertFails
    <3>2. local' = [local EXCEPT ![t].pc = "redrive delete"]
      BY <2>17 DEF RedriveInsertFails, Goto
    <3>3. \A u \in Threads : /\ local'[u].todo = local[u].todo
                             /\ u # t => local'[u] = local[u]
      BY <3>2, LocalType DEF TypeOK, LocalRecord
    <3>4. messages' = messages /\ lastId' = lastId /\ accepted' = accepted /\ settled' = settled
      BY <2>17 DEF RedriveInsertFails, db
    <3>5. Excused \subseteq Excused' /\ m.body \in Excused'
      BY <3>1, <3>4 DEF Excused
    <3>6. IdsUsed' /\ Snapshots'
      BY <3>3, <3>4 DEF LostInv, IdsUsed, Snapshots, Exists
    <3>7. CopyMade'
      <4> SUFFICES ASSUME NEW u \in Threads, local'[u].pc = "redrive delete",
                          NEW o \in Current(u)'
                   PROVE  o.body \in Excused' \/ YoungerCopy(o.id, o.body)'
        BY DEF CopyMade
      <4>1. o \in Current(u)
        BY <3>3 DEF Current
      <4>2. CASE u = t
        <5>1. m.id \in Ids /\ o.id \in Ids
          BY <4>1, <4>2, LocalType DEF Current, LocalRecord, Snapshot
        <5>2. o.id = m.id
          BY <4>1, <4>2, <5>1, IdOrder DEF Current
        <5>3. o = m
          BY <4>1, <4>2, <5>2 DEF Current, LostInv, Snapshots
        <5>. QED BY <3>5, <5>3
      <4>3. CASE u # t
        BY <3>3, <3>4, <3>5, <4>1, <4>3 DEF LostInv, CopyMade, YoungerCopy, Exists
      <4>. QED BY <4>2, <4>3
    <3>8. NoMessageLost'
      BY <3>4, <3>5 DEF LostInv, NoMessageLost, Exists, Excused
    <3>. QED BY <3>6, <3>7, <3>8 DEF LostInv
  <2>11. ASSUME NEW t \in Receivers, RedriveDelete(t)
         PROVE  LostInv'
    <3>1. PICK m \in Current(t) :
             /\ messages' = Without({m.id})
             /\ local' = [local EXCEPT ![t].pc = "loop", ![t].todo = @ \ {m}]
      BY <2>11 DEF RedriveDelete
    <3>2. m \in local[t].todo /\ m \in Snapshot /\ m.id \in Ids
      BY <2>11, LocalType DEF Current, LocalRecord, Snapshot
    <3>3. m.body \in Excused \/ YoungerCopy(m.id, m.body)
      BY <2>11 DEF LostInv, CopyMade, RedriveDelete
    <3>4. /\ \A i \in Ids : Exists(i)' <=> Exists(i) /\ i # m.id
          /\ \A i \in Ids : Exists(i)' => messages'[i] = messages[i]
      BY <3>1 DEF Without, Exists
    <3>5. Exists(m.id) => messages[m.id].body = m.body
      BY <3>2 DEF LostInv, Snapshots
    <3>6. /\ \A u \in Threads : u # t => local'[u] = local[u]
          /\ local'[t].todo \subseteq local[t].todo
          /\ local'[t].pc = "loop"
      BY <3>1, LocalType DEF TypeOK, LocalRecord
    <3>7. lastId' = lastId /\ Excused' = Excused /\ accepted' = accepted
      BY <2>11 DEF RedriveDelete, history, Excused
    <3>8. IdsUsed'
      BY <3>4, <3>7 DEF LostInv, IdsUsed
    <3>9. Snapshots'
      <4>1. \A u \in Threads : \A o \in local[u].todo : o.id \in Ids
        BY LocalType DEF LocalRecord, Snapshot
      <4>2. QED BY <3>4, <3>6, <3>7, <4>1 DEF LostInv, Snapshots
    <3>10. CopyMade'
      <4> SUFFICES ASSUME NEW u \in Threads, local'[u].pc = "redrive delete",
                          NEW o \in Current(u)'
                   PROVE  o.body \in Excused' \/ YoungerCopy(o.id, o.body)'
        BY DEF CopyMade
      <4>1. local[u].pc = "redrive delete" /\ o \in Current(u) /\ o.id \in Ids
        <5>1. u # t
          BY <3>6
        <5>2. local'[u] = local[u]
          BY <5>1, <3>6
        <5>3. o \in Current(u)
          BY <5>2 DEF Current
        <5>4. o \in Snapshot
          BY <5>3, LocalType DEF Current, LocalRecord
        <5>5. QED BY <5>2, <5>3, <5>4 DEF Snapshot
      <4>2. CASE o.body \in Excused
        BY <4>2, <3>7
      <4>3. ASSUME NEW j \in Ids, o.id < j, Exists(j), messages[j].body = o.body
            PROVE  o.body \in Excused \/ YoungerCopy(o.id, o.body)'
        <5>1. CASE j # m.id
          BY <4>3, <5>1, <3>4 DEF YoungerCopy
        <5>2. CASE j = m.id
          <6>1. o.body = m.body
            BY <4>3, <5>2, <3>5
          <6>2. ASSUME NEW k \in Ids, m.id < k, Exists(k), messages[k].body = m.body
                PROVE  YoungerCopy(o.id, o.body)'
            <7>1. o.id < k /\ k # m.id
              BY <6>2, <5>2, <4>1, <4>3, <3>2, IdOrder
            <7>2. Exists(k)' /\ messages'[k].body = o.body
              BY <7>1, <6>1, <6>2, <3>4
            <7>3. QED BY <7>1, <7>2 DEF YoungerCopy
          <6>3. QED BY <3>3, <6>1, <6>2 DEF YoungerCopy
        <5>3. QED BY <5>1, <5>2
      <4>4. QED BY <4>1, <4>2, <4>3, <3>7 DEF LostInv, CopyMade, YoungerCopy
    <3>11. NoMessageLost'
      <4> SUFFICES ASSUME NEW b \in accepted, b \notin Excused
                   PROVE  \E i \in Ids : Exists(i)' /\ messages'[i].body = b
        BY <3>7 DEF NoMessageLost, Excused
      <4>1. PICK i \in Ids : Exists(i) /\ messages[i].body = b
        BY DEF LostInv, NoMessageLost, Excused
      <4>2. CASE i # m.id
        BY <4>1, <4>2, <3>4
      <4>3. CASE i = m.id
        <5>1. m.body = b
          BY <4>1, <4>3, <3>5
        <5>2. PICK j \in Ids : m.id < j /\ Exists(j) /\ messages[j].body = b
          BY <3>3, <5>1 DEF YoungerCopy
        <5>3. j # m.id
          BY <5>2, <3>2 DEF Ids
        <5>4. QED BY <5>2, <5>3, <3>4
      <4>4. QED BY <4>2, <4>3
    <3>12. QED BY <3>8, <3>9, <3>10, <3>11 DEF LostInv
  <2>12. ASSUME NEW t \in Receivers, ReceiveReturn(t)
         PROVE  LostInv'
    BY <2>12, <2>2, <2>3 DEF ReceiveReturn, db, history, Excused
  <2>13. ASSUME NEW t \in Ackers, NEW r \in held, DeleteMessageRequire(t, r)
         PROVE  LostInv'
    BY <2>13, <2>2 DEF DeleteMessageRequire, Idle, TypeOK, db, history, Excused
  <2>14. ASSUME NEW t \in Ackers, DeleteMessageDelete(t)
         PROVE  LostInv'
    <3>1. /\ \A u \in Threads : u # t => local'[u] = local[u]
          /\ local'[t].todo = {}
          /\ local'[t].pc # "redrive delete"
      BY <2>14, <2>3 DEF DeleteMessageDelete
    <3>2. \A i \in Ids : Exists(i) =>
             \/ messages[i].body \in Excused'
             \/ Exists(i)' /\ messages'[i].body = messages[i].body
      BY <2>14 DEF DeleteMessageDelete, Without, Exists, Excused
    <3>3. \A i \in Ids : Exists(i)' => Exists(i) /\ messages'[i].body = messages[i].body
      BY <2>14 DEF DeleteMessageDelete, Without, Exists, Excused
    <3>4. QED BY <2>14, <3>1, <3>2, <3>3, LostInvKept DEF DeleteMessageDelete, Excused
  <2>15. CASE Environment
    <3>1. ASSUME NEW r \in held, Forget(r)
          PROVE  LostInv'
      BY <3>1, LostInvKept DEF Forget, db, history, Exists, Excused
    <3>2. ASSUME NEW h \in Handles, LeaseExpires(h)
          PROVE  LostInv'
      <4>1. \A i \in Ids : (Exists(i)' <=> Exists(i)) /\ (Exists(i) => messages'[i].body = messages[i].body)
        <5>1. \A i \in Ids : Exists(i) =>
                 /\ [messages[i] EXCEPT !.hidden = FALSE] # NoRow
                 /\ [messages[i] EXCEPT !.hidden = FALSE].body = messages[i].body
          <6>1. \A row \in Row : /\ [row EXCEPT !.hidden = FALSE] \in Row
                                 /\ [row EXCEPT !.hidden = FALSE].body = row.body
            BY DEF Row
          <6>2. QED BY <6>1, RowType, NamesAssumption
        <5>2. QED BY <3>2, <5>1 DEF LeaseExpires, Exists
      <4>2. \A t \in Threads : local'[t].todo = local[t].todo /\ local'[t].pc = local[t].pc
        BY <3>2, LocalType DEF LeaseExpires, LocalRecord
      <4>3. QED BY <3>2, <4>1, <4>2, LostInvKept DEF LeaseExpires, history, Excused
    <3>3. ASSUME NEW i \in Ids, WindowPasses(i)
          PROVE  LostInv'
      BY <3>3, LostInvKept DEF WindowPasses, db, history, Exists, Excused
    <3>4. ASSUME NEW t \in Threads, RequestFails(t)
          PROVE  LostInv'
      BY <3>4, <2>2, <2>3 DEF RequestFails, db, history, Excused
    <3>5. CASE Crash
      BY <3>5, LostInvKept DEF Crash, Idle, db, history, Exists, Excused
    <3>6. QED BY <2>15, <3>1, <3>2, <3>3, <3>4, <3>5 DEF Environment
  <2>16. QED
    BY <2>1, <2>5, <2>6, <2>7, <2>8, <2>9, <2>10, <2>11, <2>12, <2>13, <2>14, <2>15,
       <2>17
    DEF Next, Receive, ReceiveStep, Ack
<1>3. LostInv => NoMessageLost
  BY DEF LostInv
<1>4. QED BY <1>1, <1>2, <1>3, TypeCorrect, PTL DEF Spec

(***************************************************************************)
(* Receipts name one message.                                              *)
(*                                                                         *)
(* A lease writes a fresh handle on the row of its candidate.  That the    *)
(* row is still the one that was SELECTed, in the queue the receipt is for,*)
(* is Candidates; it holds because rows never move between queues and ids  *)
(* are never used twice, even by a queue deleted and created again.        *)
(***************************************************************************)

Candidates ==
    \A t \in Threads : \A m \in local[t].todo :
        /\ m.id <= lastId
        /\ Exists(m.id) => messages[m.id].queue = local[t].name

ReceiptInv == IdsUsed /\ Candidates /\ ReceiptNamesItsMessage

LEMMA ReceiptType ==
  ASSUME TypeOK
  PROVE  Receipts \cup Presented \subseteq Receipt
  BY LocalType DEF TypeOK, LocalRecord, Receipts, Presented

(* Steps that insert no row and give no handle: rows keep queue and handle *)
(* or go, candidates and receipts only get fewer.                          *)
LEMMA ReceiptInvKept ==
  ASSUME TypeOK, ReceiptInv,
         lastId' = lastId,
         \A i \in Ids : Exists(i)' =>
            /\ Exists(i)
            /\ messages'[i].queue = messages[i].queue
            /\ messages'[i].handle = messages[i].handle,
         \A t \in Threads :
            /\ local'[t].todo \subseteq local[t].todo
            /\ local'[t].todo # {} => local'[t].name = local[t].name,
         \A r \in (Receipts \cup Presented)' : \E s \in Receipts \cup Presented :
            r.id = s.id /\ r.queue = s.queue /\ r.handle = s.handle
  PROVE  ReceiptInv'
<1>1. IdsUsed'
  BY DEF ReceiptInv, IdsUsed
<1>2. Candidates'
  <2> SUFFICES ASSUME NEW t \in Threads, NEW m \in local'[t].todo
               PROVE  /\ m.id <= lastId'
                      /\ Exists(m.id)' => messages'[m.id].queue = local'[t].name
    BY DEF Candidates
  <2>1. m \in local[t].todo /\ local'[t].name = local[t].name
    OBVIOUS
  <2>2. m.id \in Ids
    BY <2>1, LocalType DEF LocalRecord, Snapshot
  <2>3. QED BY <2>1, <2>2 DEF ReceiptInv, Candidates
<1>3. ReceiptNamesItsMessage'
  BY DEF ReceiptInv, ReceiptNamesItsMessage
<1>4. QED BY <1>1, <1>2, <1>3 DEF ReceiptInv

(* The same when one thread moves on, without new candidates or receipts.  *)
LEMMA ReceiptInvLocal ==
  ASSUME TypeOK, ReceiptInv, NEW t \in Threads, NEW s,
         local' = [local EXCEPT ![t] = s],
         s.todo = {} \/ (s.todo \subseteq local[t].todo /\ s.name = local[t].name),
         s.out \subseteq Receipts,
         s.receipt \in Receipts \cup Presented \cup {NoReceipt},
         held' \subseteq Receipts,
         lastId' = lastId,
         \A i \in Ids : Exists(i)' => Exists(i) /\ messages'[i] = messages[i]
  PROVE  ReceiptInv'
<1>1. local'[t] = s /\ \A u \in Threads : u # t => local'[u] = local[u]
  BY DEF TypeOK
<1>2. (Receipts \cup Presented)' \subseteq Receipts \cup Presented
  BY <1>1 DEF Receipts, Presented
<1>3. QED BY <1>1, <1>2, ReceiptInvKept

(* The same for a step that also inserts a row: nobody holds its handle.   *)
LEMMA ReceiptInvInsert ==
  ASSUME TypeOK, ReceiptInv, NEW t \in Threads, NEW s,
         local' = [local EXCEPT ![t] = s],
         s.todo = {} \/ (s.todo = local[t].todo /\ s.name = local[t].name),
         s.out \subseteq Receipts,
         s.receipt \in Receipts \cup Presented \cup {NoReceipt},
         held' = held,
         NEW n \in Queues, NEW b \in Ids, NEW d \in DedupIds \cup {NoDedup},
         Insert(n, b, d)
  PROVE  ReceiptInv'
<1>1. local'[t] = s /\ \A u \in Threads : u # t => local'[u] = local[u]
  BY DEF TypeOK
<1>2. (Receipts \cup Presented)' \subseteq Receipts \cup Presented
  BY <1>1 DEF Receipts, Presented
<1>3. /\ lastId \in Nat /\ lastId' = lastId + 1 /\ lastId' \in Ids
      /\ messages'[lastId'].handle = NoHandle
      /\ \A i \in Ids : Exists(i) => messages'[i] = messages[i]
      /\ \A i \in Ids : Exists(i)' => Exists(i) \/ i = lastId'
      /\ \A i \in Ids : Exists(i) => i <= lastId
  BY InsertFacts DEF ReceiptInv
<1>4. IdsUsed'
  BY <1>3 DEF IdsUsed, Ids
<1>5. Candidates'
  <2> SUFFICES ASSUME NEW u \in Threads, NEW m \in local'[u].todo
               PROVE  /\ m.id <= lastId'
                      /\ Exists(m.id)' => messages'[m.id].queue = local'[u].name
    BY DEF Candidates
  <2>1. m \in local[u].todo /\ local'[u].name = local[u].name
    BY <1>1
  <2>2. m.id \in Ids /\ m.id <= lastId
    BY <2>1, LocalType DEF LocalRecord, Snapshot, ReceiptInv, Candidates
  <2>3. m.id <= lastId' /\ m.id # lastId'
    BY <2>2, <1>3, IdOrder
  <2>4. QED BY <2>1, <2>2, <2>3, <1>3 DEF ReceiptInv, Candidates
<1>6. ReceiptNamesItsMessage'
  <2> SUFFICES ASSUME NEW r \in (Receipts \cup Presented)', NEW i \in Ids,
                      Exists(i)', messages'[i].handle = r.handle
               PROVE  i = r.id /\ messages'[i].queue = r.queue
    BY DEF ReceiptNamesItsMessage
  <2>1. r \in Receipts \cup Presented /\ r.handle \in Handles
    BY <1>2, ReceiptType DEF Receipt
  <2>2. i # lastId'
    BY <1>3, <2>1, NamesAssumption
  <2>3. QED BY <1>3, <2>1, <2>2 DEF ReceiptInv, ReceiptNamesItsMessage
<1>7. QED BY <1>4, <1>5, <1>6 DEF ReceiptInv

LEMMA ReceiptInvHolds == Spec => []ReceiptInv
<1>1. Init => ReceiptInv
  <2> SUFFICES ASSUME Init PROVE ReceiptInv
    OBVIOUS
  <2>1. \A t \in Threads : local[t].todo = {}
    BY DEF Init, Idle
  <2>2. \A i \in Ids : ~Exists(i)
    BY DEF Init, Exists
  <2>3. QED BY <2>1, <2>2 DEF ReceiptInv, IdsUsed, Candidates, ReceiptNamesItsMessage
<1>2. ASSUME TypeOK, ReceiptInv, [Next]_vars
      PROVE  ReceiptInv'
  <2> USE ThreadRoles, <1>2
  <2>1. CASE UNCHANGED vars
    <3>1. (Receipts \cup Presented)' = Receipts \cup Presented
      BY <2>1 DEF vars, Receipts, Presented
    <3>2. QED BY <2>1, <3>1, ReceiptInvKept DEF vars, Exists
  <2>2. Idle.todo = {} /\ Idle.out = {} /\ Idle.receipt = NoReceipt
    BY DEF Idle
  <2>3. \A t \in Threads : local[t].out \subseteq Receipts
    BY DEF Receipts
  <2>4. \A t \in Threads : local[t].receipt \in Receipts \cup Presented \cup {NoReceipt}
    BY DEF Presented
  <2>5. held \subseteq Receipts
    BY DEF Receipts
  <2>6. ASSUME NEW t \in Threads, Return(t), held' \subseteq Receipts, lastId' = lastId,
               \A i \in Ids : Exists(i)' => Exists(i) /\ messages'[i] = messages[i]
        PROVE  ReceiptInv'
    BY <2>2, <2>6, ReceiptInvLocal DEF Return
  <2>7. ASSUME NEW t \in Threads, NEW p, Goto(t, p), held' = held, lastId' = lastId,
               \A i \in Ids : Exists(i)' => Exists(i) /\ messages'[i] = messages[i]
        PROVE  ReceiptInv'
    <3> DEFINE s == [local[t] EXCEPT !.pc = p]
    <3>1. local' = [local EXCEPT ![t] = s]
      BY <2>7 DEF Goto, TypeOK
    <3>2. /\ s.todo = local[t].todo /\ s.name = local[t].name
          /\ s.out = local[t].out /\ s.receipt = local[t].receipt
      BY LocalType DEF LocalRecord
    <3> HIDE DEF s
    <3>3. QED BY <2>3, <2>4, <2>5, <2>7, <3>1, <3>2, ReceiptInvLocal
  <2>8. \A S : \A i \in Ids : Without(S)[i] # NoRow => Exists(i) /\ Without(S)[i] = messages[i]
    BY DEF Without, Exists
  <2>9. ASSUME NEW t \in Admins, Admin(t)
        PROVE  ReceiptInv'
    <3>1. ASSUME NEW n \in Queues, NEW c \in Configs, CreateQueueCheck(t, n, c)
          PROVE  ReceiptInv'
      <4> DEFINE p == IF c.dlq = NoName THEN "create" ELSE "create dlq"
                 s == [Idle EXCEPT !.pc = p, !.name = n, !.q = c]
      <4>1. local' = [local EXCEPT ![t] = s]
        BY <3>1 DEF CreateQueueCheck
      <4> HIDE DEF p
      <4>2. s.todo = {} /\ s.out = {} /\ s.receipt = NoReceipt
        BY DEF Idle
      <4> HIDE DEF s
      <4>3. QED BY <3>1, <4>1, <4>2, <2>5, ReceiptInvLocal DEF CreateQueueCheck, db, Exists
    <3>2. CASE CreateQueueCheckDlq(t)
      BY <3>2, <2>5, <2>6, <2>7 DEF CreateQueueCheckDlq, db, Exists
    <3>3. CASE CreateQueueInsert(t)
      BY <3>3, <2>5, <2>6 DEF CreateQueueInsert, Exists
    <3>4. ASSUME NEW n \in Queues, DeleteQueueRequire(t, n)
          PROVE  ReceiptInv'
      <4> DEFINE s == [Idle EXCEPT !.pc = "purge", !.name = n]
      <4>1. local' = [local EXCEPT ![t] = s]
        BY <3>4 DEF DeleteQueueRequire
      <4>2. s.todo = {} /\ s.out = {} /\ s.receipt = NoReceipt
        BY DEF Idle
      <4> HIDE DEF s
      <4>3. QED BY <3>4, <4>1, <4>2, <2>5, ReceiptInvLocal DEF DeleteQueueRequire, db, Exists
    <3>5. CASE DeleteQueuePurge(t)
      BY <3>5, <2>7, <2>8 DEF DeleteQueuePurge, Exists
    <3>6. CASE DeleteQueueDrop(t)
      BY <3>6, <2>5, <2>6 DEF DeleteQueueDrop, Exists
    <3>7. QED BY <2>9, <3>1, <3>2, <3>3, <3>4, <3>5, <3>6 DEF Admin
  <2>10. ASSUME NEW t \in Senders, Send(t)
         PROVE  ReceiptInv'
    <3>1. ASSUME NEW n \in SendQueues, NEW d \in DedupIds \cup {NoDedup}, SendRequire(t, n, d)
          PROVE  ReceiptInv'
      <4> DEFINE p == IF queues[n].fifo /\ d # NoDedup THEN "dedup" ELSE "insert"
                 s == [Idle EXCEPT !.pc = p, !.name = n, !.q = queues[n], !.dedup = d]
      <4>1. local' = [local EXCEPT ![t] = s]
        BY <3>1 DEF SendRequire
      <4> HIDE DEF p
      <4>2. s.todo = {} /\ s.out = {} /\ s.receipt = NoReceipt
        BY DEF Idle
      <4> HIDE DEF s
      <4>3. QED BY <3>1, <4>1, <4>2, <2>5, ReceiptInvLocal DEF SendRequire, db, Exists
    <3>2. CASE SendDedup(t)
      BY <3>2, <2>5, <2>6, <2>7 DEF SendDedup, db, Exists
    <3>3. CASE SendInsert(t)
      <4>1. local[t].name \in Queues /\ local[t].dedup \in DedupIds \cup {NoDedup}
        BY <3>3, LocalType DEF SendInsert, LocalRecord, Assigned
      <4>2. lastId + 1 \in Ids
        BY <3>3, ConfigAssumption DEF SendInsert, Insert, TypeOK, Ids
      <4>3. QED BY <3>3, <4>1, <4>2, <2>2, ReceiptInvInsert DEF SendInsert, Return
    <3>4. QED BY <2>10, <3>1, <3>2, <3>3 DEF Send
  <2>11. ASSUME NEW t \in Receivers, NEW n \in PollQueues, ReceiveRequire(t, n)
         PROVE  ReceiptInv'
    <3> DEFINE s == [Idle EXCEPT !.pc = "select", !.name = n, !.q = queues[n]]
    <3>1. local' = [local EXCEPT ![t] = s]
      BY <2>11 DEF ReceiveRequire
    <3>2. s.todo = {} /\ s.out = {} /\ s.receipt = NoReceipt
      BY DEF Idle
    <3> HIDE DEF s
    <3>3. QED BY <2>11, <3>1, <3>2, <2>5, ReceiptInvLocal DEF ReceiveRequire, db, Exists
  <2>12. ASSUME NEW t \in Receivers, ReceiveSelect(t)
         PROVE  ReceiptInv'
    <3>1. PICK S \in SUBSET Visible(local[t].name) :
             local' = [local EXCEPT ![t].pc = "loop", ![t].todo = {SnapshotOf(i) : i \in S}]
      <4>1. \A n, k : Oldest(Visible(n), k) \in SUBSET Visible(n)
        BY DEF Oldest
      <4>2. QED BY <2>12, <4>1 DEF ReceiveSelect
    <3>2. S \subseteq {i \in Ids : Exists(i) /\ messages[i].queue = local[t].name}
      BY DEF Visible, InQueue
    <3>3. /\ \A u \in Threads : u # t => local'[u] = local[u]
          /\ local'[t].todo = {SnapshotOf(i) : i \in S}
          /\ local'[t].name = local[t].name
          /\ local'[t].out = local[t].out
          /\ local'[t].receipt = local[t].receipt
      BY <3>1, LocalType DEF TypeOK, LocalRecord
    <3>4. lastId' = lastId /\ messages' = messages /\ held' = held
      BY <2>12 DEF ReceiveSelect, db
    <3>5. (Receipts \cup Presented)' = Receipts \cup Presented
      BY <3>3, <3>4 DEF Receipts, Presented
    <3>6. Candidates'
      <4>1. \A i \in S : SnapshotOf(i).id = i
        BY DEF SnapshotOf
      <4>2. \A m \in local'[t].todo : \E i \in S : m.id = i
        BY <3>3, <4>1
      <4>3. QED BY <3>2, <3>3, <3>4, <4>2 DEF ReceiptInv, Candidates, IdsUsed, Exists
    <3>7. QED BY <3>4, <3>5, <3>6 DEF ReceiptInv, IdsUsed, ReceiptNamesItsMessage, Exists
  <2>13. ASSUME NEW t \in Receivers, ReceiveLease(t)
         PROVE  ReceiptInv'
    <3>1. PICK m \in Current(t), h \in NewHandles(t) :
             /\ messages' = IF Exists(m.id)
                            THEN [messages EXCEPT ![m.id].handle = h,
                                                  ![m.id].hidden = TRUE,
                                                  ![m.id].count = NewCount(m)]
                            ELSE messages
             /\ local' = [local EXCEPT
                            ![t].todo = @ \ {m},
                            ![t].out = @ \cup {[id |-> m.id, queue |-> local[t].name,
                                                handle |-> h, live |-> TRUE]}]
      BY <2>13 DEF ReceiveLease
    <3> DEFINE new == [id |-> m.id, queue |-> local[t].name, handle |-> h, live |-> TRUE]
    <3>2. new.id = m.id /\ new.queue = local[t].name /\ new.handle = h
      OBVIOUS
    <3>3. /\ \A u \in Threads : u # t => local'[u] = local[u]
          /\ local'[t].todo \subseteq local[t].todo
          /\ local'[t].name = local[t].name
          /\ local'[t].out = local[t].out \cup {new}
          /\ local'[t].receipt = local[t].receipt
      BY <3>1, LocalType DEF TypeOK, LocalRecord
    <3> HIDE DEF new
    <3>4. lastId' = lastId /\ held' = held
      BY <2>13 DEF ReceiveLease
    <3>5. m \in local[t].todo /\ m.id \in Ids
      BY LocalType DEF Current, LocalRecord, Snapshot
    <3>6. /\ \A i \in Ids : Exists(i)' => Exists(i) /\ messages'[i].queue = messages[i].queue
          /\ \A i \in Ids : Exists(i)' /\ i # m.id => messages'[i] = messages[i]
          /\ Exists(m.id)' => messages'[m.id].handle = h
      <4>1. CASE Exists(m.id)
        <5> DEFINE row == [messages[m.id] EXCEPT !.handle = h, !.hidden = TRUE,
                                                 !.count = NewCount(m)]
        <5>1. messages[m.id] \in Row
          BY <4>1, <3>5, RowType
        <5>2. row.queue = messages[m.id].queue /\ row.handle = h
          BY <5>1 DEF Row
        <5>3. messages' = [messages EXCEPT ![m.id] = row]
          BY <3>1, <4>1 DEF TypeOK
        <5> HIDE DEF row
        <5>4. QED BY <3>5, <4>1, <5>2, <5>3 DEF TypeOK, Exists
      <4>2. CASE ~Exists(m.id)
        BY <3>1, <4>2 DEF Exists
      <4>3. QED BY <4>1, <4>2
    <3>7. (Receipts \cup Presented)' \subseteq Receipts \cup Presented \cup {new}
      BY <3>3, <3>4 DEF Receipts, Presented
    <3>8. /\ \A i \in Ids : Exists(i) => messages[i].handle # h
          /\ \A r \in Receipts \cup Presented : r.handle # h
      BY DEF NewHandles, UsedHandles
    <3>9. IdsUsed'
      BY <3>4, <3>6 DEF ReceiptInv, IdsUsed
    <3>10. Candidates'
      <4> SUFFICES ASSUME NEW u \in Threads, NEW o \in local'[u].todo
                   PROVE  /\ o.id <= lastId'
                          /\ Exists(o.id)' => messages'[o.id].queue = local'[u].name
        BY DEF Candidates
      <4>1. o \in local[u].todo /\ local'[u].name = local[u].name
        BY <3>3
      <4>2. o.id \in Ids
        BY <4>1, LocalType DEF LocalRecord, Snapshot
      <4>3. QED BY <3>4, <3>6, <4>1, <4>2 DEF ReceiptInv, Candidates
    <3>11. ReceiptNamesItsMessage'
      <4> SUFFICES ASSUME NEW r \in (Receipts \cup Presented)', NEW i \in Ids,
                          Exists(i)', messages'[i].handle = r.handle
                   PROVE  i = r.id /\ messages'[i].queue = r.queue
        BY DEF ReceiptNamesItsMessage
      <4>1. CASE r = new
        <5>1. i = m.id
          BY <3>2, <3>6, <3>8, <4>1
        <5>2. messages[m.id].queue = local[t].name
          BY <3>5, <3>6, <5>1 DEF ReceiptInv, Candidates
        <5>3. QED BY <3>2, <3>6, <4>1, <5>1, <5>2
      <4>2. CASE r \in Receipts \cup Presented
        <5>1. i # m.id
          BY <3>6, <3>8, <4>2
        <5>2. QED BY <3>6, <4>2, <5>1 DEF ReceiptInv, ReceiptNamesItsMessage
      <4>3. QED BY <3>7, <4>1, <4>2
    <3>12. QED BY <3>9, <3>10, <3>11 DEF ReceiptInv
  <2>14. ASSUME NEW t \in Receivers, RedriveInsert(t)
         PROVE  ReceiptInv'
    <3>1. PICK m \in Current(t) : Redrives(local[t].q, m) /\ Insert(local[t].q.dlq, m.body, m.dedup)
      BY <2>14 DEF RedriveInsert
    <3>2. m \in Snapshot /\ local[t].q \in QueueRow
      BY <2>14, LocalType DEF RedriveInsert, Current, LocalRecord, Assigned
    <3>3. local[t].q.dlq \in Queues /\ m.body \in Ids /\ m.dedup \in DedupIds \cup {NoDedup}
      BY <3>1, <3>2 DEF Redrives, QueueRow, Snapshot
    <3> DEFINE s == [local[t] EXCEPT !.pc = "redrive delete"]
    <3>4. local' = [local EXCEPT ![t] = s] /\ held' = held
      BY <2>14 DEF RedriveInsert, Goto, TypeOK
    <3>5. /\ s.todo = local[t].todo /\ s.name = local[t].name
          /\ s.out = local[t].out /\ s.receipt = local[t].receipt
      BY LocalType DEF LocalRecord
    <3> HIDE DEF s
    <3>6. QED BY <2>3, <2>4, <3>1, <3>3, <3>4, <3>5, ReceiptInvInsert
  <2>15. ASSUME NEW t \in Receivers, RedriveInsertFails(t)
         PROVE  ReceiptInv'
    BY <2>15, <2>7 DEF RedriveInsertFails, db, Exists
  <2>16. ASSUME NEW t \in Receivers, RedriveDelete(t)
         PROVE  ReceiptInv'
    <3>1. PICK m \in Current(t) :
             /\ messages' = Without({m.id})
             /\ local' = [local EXCEPT ![t].pc = "loop", ![t].todo = @ \ {m}]
      BY <2>16 DEF RedriveDelete
    <3> DEFINE s == [local[t] EXCEPT !.pc = "loop", !.todo = @ \ {m}]
    <3>2. local' = [local EXCEPT ![t] = s]
      BY <3>1 DEF TypeOK
    <3>3. /\ s.todo \subseteq local[t].todo /\ s.name = local[t].name
          /\ s.out = local[t].out /\ s.receipt = local[t].receipt
      BY LocalType DEF LocalRecord
    <3> HIDE DEF s
    <3>4. \A i \in Ids : Exists(i)' => Exists(i) /\ messages'[i] = messages[i]
      BY <3>1, <2>8 DEF Exists
    <3>5. QED BY ZenonT(60), <2>3, <2>4, <2>5, <2>16, <3>2, <3>3, <3>4, ReceiptInvLocal DEF RedriveDelete
  <2>17. ASSUME NEW t \in Receivers, ReceiveReturn(t)
         PROVE  ReceiptInv'
    BY <2>17, <2>3, <2>5, <2>6 DEF ReceiveReturn, db, Exists
  <2>18. ASSUME NEW t \in Ackers, NEW r \in held, DeleteMessageRequire(t, r)
         PROVE  ReceiptInv'
    <3> DEFINE s == [Idle EXCEPT !.pc = "ack", !.receipt = r]
    <3>1. local' = [local EXCEPT ![t] = s]
      BY <2>18 DEF DeleteMessageRequire
    <3>2. s.todo = {} /\ s.out = {} /\ s.receipt = r
      BY DEF Idle
    <3> HIDE DEF s
    <3>3. QED BY <2>18, <3>1, <3>2, <2>5, ReceiptInvLocal DEF DeleteMessageRequire, db, Exists
  <2>19. ASSUME NEW t \in Ackers, DeleteMessageDelete(t)
         PROVE  ReceiptInv'
    BY <2>19, <2>5, <2>6, <2>8 DEF DeleteMessageDelete, Exists
  <2>20. CASE Environment
    <3>1. ASSUME NEW r \in held, Forget(r)
          PROVE  ReceiptInv'
      <4>1. (Receipts \cup Presented)' \subseteq Receipts \cup Presented
        BY <3>1 DEF Forget, Receipts, Presented
      <4>2. QED BY <3>1, <4>1, ReceiptInvKept DEF Forget, db, Exists
    <3>2. ASSUME NEW h \in Handles, LeaseExpires(h)
          PROVE  ReceiptInv'
      <4>1. \A i \in Ids : Exists(i)' => /\ Exists(i)
                                        /\ messages'[i].queue = messages[i].queue
                                        /\ messages'[i].handle = messages[i].handle
        <5>1. \A row \in Row : /\ [row EXCEPT !.hidden = FALSE].queue = row.queue
                               /\ [row EXCEPT !.hidden = FALSE].handle = row.handle
          BY DEF Row
        <5>2. QED BY <3>2, <5>1, RowType DEF LeaseExpires, Exists
      <4>2. ASSUME NEW S \in SUBSET Receipt, NEW r \in Dead(S, h)
            PROVE  \E s \in S : r.id = s.id /\ r.queue = s.queue /\ r.handle = s.handle
        <5>1. \A s \in Receipt : LET d == [s EXCEPT !.live = FALSE]
                                 IN  d.id = s.id /\ d.queue = s.queue /\ d.handle = s.handle
          BY DEF Receipt
        <5>2. QED BY <4>2, <5>1 DEF Dead
      <4>3. /\ held' = Dead(held, h)
            /\ \A t \in Threads : /\ local'[t].todo = local[t].todo
                                  /\ local'[t].name = local[t].name
                                  /\ local'[t].receipt = local[t].receipt
                                  /\ local'[t].out = Dead(local[t].out, h)
        BY <3>2, LocalType DEF LeaseExpires, LocalRecord
      <4>4. /\ held \in SUBSET Receipt
            /\ \A t \in Threads : local[t].out \in SUBSET Receipt
        BY LocalType DEF TypeOK, LocalRecord
      <4>5. \A r \in (Receipts \cup Presented)' : \E s \in Receipts \cup Presented :
               r.id = s.id /\ r.queue = s.queue /\ r.handle = s.handle
        <5> SUFFICES ASSUME NEW r \in (Receipts \cup Presented)'
                     PROVE  \E s \in Receipts \cup Presented :
                               r.id = s.id /\ r.queue = s.queue /\ r.handle = s.handle
          OBVIOUS
        <5>1. CASE r \in held'
          <6>1. \E s \in held : r.id = s.id /\ r.queue = s.queue /\ r.handle = s.handle
            BY <4>2, <4>3, <4>4, <5>1
          <6>2. QED BY <6>1 DEF Receipts
        <5>2. ASSUME NEW t \in Threads, r \in local'[t].out
              PROVE  \E s \in Receipts \cup Presented :
                        r.id = s.id /\ r.queue = s.queue /\ r.handle = s.handle
          <6>1. \E s \in local[t].out : r.id = s.id /\ r.queue = s.queue /\ r.handle = s.handle
            BY <4>2, <4>3, <4>4, <5>2
          <6>2. QED BY <6>1 DEF Receipts
        <5>3. CASE r \in Presented'
          BY <4>3, <5>3 DEF Presented
        <5>4. QED BY <5>1, <5>2, <5>3 DEF Receipts
      <4>6. QED BY <3>2, <4>1, <4>3, <4>5, ReceiptInvKept DEF LeaseExpires
    <3>3. ASSUME NEW i \in Ids, WindowPasses(i)
          PROVE  ReceiptInv'
      <4>1. (Receipts \cup Presented)' = Receipts \cup Presented
        BY <3>3 DEF WindowPasses, Receipts, Presented
      <4>2. QED BY <3>3, <4>1, ReceiptInvKept DEF WindowPasses, db, Exists
    <3>4. ASSUME NEW t \in Threads, RequestFails(t)
          PROVE  ReceiptInv'
      BY <3>4, <2>5, <2>6 DEF RequestFails, db, Exists
    <3>5. CASE Crash
      <4>1. \A t \in Threads : local'[t] = Idle
        BY <3>5 DEF Crash
      <4>2. (Receipts \cup Presented)' \subseteq Receipts \cup Presented
        BY <3>5, <4>1, <2>2 DEF Crash, Receipts, Presented
      <4>3. QED BY <3>5, <4>1, <4>2, <2>2, ReceiptInvKept DEF Crash, db, Exists
    <3>6. QED BY <2>20, <3>1, <3>2, <3>3, <3>4, <3>5 DEF Environment
  <2>21. QED
    BY <2>1, <2>9, <2>10, <2>11, <2>12, <2>13, <2>14, <2>15, <2>16, <2>17, <2>18,
       <2>19, <2>20
    DEF Next, Receive, ReceiveStep, Ack
<1>3. QED BY <1>1, <1>2, TypeCorrect, PTL DEF Spec

(* A receipt outlives its lease, its row and even its queue, but never     *)
(* comes to name another message: delete_message(q, h) removes nothing but *)
(* the message h was handed out with.                                      *)
THEOREM ReceiptsNameOne == Spec => []ReceiptNamesItsMessage
<1>1. ReceiptInv => ReceiptNamesItsMessage
  BY DEF ReceiptInv
<1>2. QED BY <1>1, ReceiptInvHolds, PTL

(***************************************************************************)
(* Receives that do not overlap.                                           *)
(*                                                                         *)
(* A receive SELECTs its candidates in one statement and leases them in    *)
(* others, so what the module comment promises, sqs.py:3-12, holds only    *)
(* while no two receives of one queue are under way together.  The         *)
(* theorems take that as a hypothesis on the behaviour, ReceivesApart, and *)
(* nothing on the constants: receives of different queues, sends, acks,    *)
(* redrives, timeouts, failures and crashes interleave as they please.     *)
(***************************************************************************)

Receiving == {"select", "loop", "redrive delete"}

Holding == {"loop", "redrive delete"}

ReceivesApart ==
    \A t, u \in Threads :
        /\ local[t].pc \in Receiving
        /\ local[u].pc \in Receiving
        /\ local[t].name = local[u].name
        => t = u

(* The receipts whose visibility timeout has not run out.                  *)
Live == {r \in Receipts : r.live}

(* While a receipt lives its row is hidden and has its handle.             *)
LiveIsHidden ==
    \A r \in Live : /\ r.id <= lastId
                    /\ Exists(r.id) => /\ messages[r.id].hidden
                                       /\ messages[r.id].handle = r.handle

(* Nobody was given what a receive has yet to lease, or deleted it.        *)
CandidatesFree ==
    \A t \in Threads : \A m \in local[t].todo :
        /\ \A r \in Live : r.id # m.id
        /\ Exists(m.id) => ~messages[m.id].hidden
        /\ m.id \notin finished

(* No two receives have a candidate in common.                             *)
CandidatesApart ==
    \A t \in Threads :
        /\ local[t].todo # {} => local[t].pc \in Holding
        /\ \A u \in Threads : \A m \in local[t].todo, o \in local[u].todo :
              m.id = o.id => t = u /\ m = o

FinishedGone == \A i \in finished : i <= lastId /\ ~Exists(i)

ApartInv == LiveIsHidden /\ CandidatesFree /\ CandidatesApart /\ FinishedGone /\ LeaseExclusive

(* What every step does but the SELECT and the UPDATE of a receive: rows   *)
(* stay, show up again when their lease is over, or go; new ones are new;  *)
(* candidates and live receipts get fewer; only what was hidden is         *)
(* finished.                                                               *)
QuietStep ==
    /\ lastId \in Nat /\ lastId' \in Nat /\ lastId <= lastId'
    /\ \A i \in Ids : Exists(i)' =>
          \/ /\ i <= lastId
             /\ Exists(i)
             /\ messages'[i].queue = messages[i].queue
             /\ messages'[i].handle = messages[i].handle
             /\ messages'[i].count = messages[i].count
             /\ messages'[i].hidden => messages[i].hidden
          \/ /\ ~(i <= lastId)
             /\ ~messages'[i].hidden
             /\ messages'[i].count = 0
    /\ \A t \in Threads :
          /\ local'[t].todo \subseteq local[t].todo
          /\ local'[t].todo # {} => local'[t].pc \in Holding
    /\ Live' \subseteq Live
    /\ \A r \in Live' : Exists(r.id)' /\ r.id <= lastId => messages'[r.id].hidden = messages[r.id].hidden
    /\ \A i \in finished' :
          i \in finished \/ (i \in Ids /\ Exists(i) /\ messages[i].hidden /\ ~Exists(i)')
    /\ grants' = grants

LEMMA LiveType == ASSUME TypeOK PROVE Live \subseteq Receipt /\ \A r \in Live : r.id \in Ids
  BY ReceiptType DEF Live, Receipts, Receipt

LEMMA CandidateType ==
  ASSUME TypeOK
  PROVE  \A t \in Threads : \A m \in local[t].todo : m \in Snapshot /\ m.id \in Ids
  BY LocalType DEF LocalRecord, Snapshot

(* A quiet step keeps the invariant.                                       *)
LEMMA QuietKeepsApart ==
  ASSUME TypeOK, IdsUsed, Candidates, ApartInv, QuietStep
  PROVE  ApartInv'
<1>1. lastId \in Nat /\ lastId' \in Nat /\ lastId <= lastId'
  BY DEF QuietStep
<1>2. \A i \in Ids : i <= lastId => i <= lastId'
  BY <1>1 DEF Ids
<1>3. LiveIsHidden'
  <2> SUFFICES ASSUME NEW r \in Live'
               PROVE  /\ r.id <= lastId'
                      /\ Exists(r.id)' => /\ messages'[r.id].hidden
                                          /\ messages'[r.id].handle = r.handle
    BY DEF LiveIsHidden
  <2>1. r \in Live /\ r.id \in Ids /\ r.id <= lastId
    BY LiveType DEF QuietStep, ApartInv, LiveIsHidden
  <2>2. QED BY <1>2, <2>1 DEF QuietStep, ApartInv, LiveIsHidden
<1>4. CandidatesFree'
  <2> SUFFICES ASSUME NEW t \in Threads, NEW m \in local'[t].todo
               PROVE  /\ \A r \in Live' : r.id # m.id
                      /\ Exists(m.id)' => ~messages'[m.id].hidden
                      /\ m.id \notin finished'
    BY DEF CandidatesFree
  <2>1. m \in local[t].todo
    BY DEF QuietStep
  <2>2. m.id \in Ids /\ m.id <= lastId
    BY <2>1, CandidateType DEF Candidates
  <2>3. QED BY <2>1, <2>2 DEF QuietStep, ApartInv, CandidatesFree
<1>5. CandidatesApart'
  <2>1. \A t \in Threads : \A m \in local'[t].todo : m \in local[t].todo
    BY DEF QuietStep
  <2>2. \A t \in Threads : local'[t].todo # {} => local'[t].pc \in Holding
    BY DEF QuietStep
  <2>3. \A t, u \in Threads : \A m \in local[t].todo, o \in local[u].todo :
           m.id = o.id => t = u /\ m = o
    BY DEF ApartInv, CandidatesApart
  <2>4. \A t, u \in Threads : \A m \in local'[t].todo, o \in local'[u].todo :
           m.id = o.id => t = u /\ m = o
    BY <2>1, <2>3
  <2>5. QED BY <2>2, <2>4 DEF CandidatesApart
<1>6. FinishedGone'
  <2> SUFFICES ASSUME NEW i \in finished'
               PROVE  i <= lastId' /\ ~Exists(i)'
    BY DEF FinishedGone
  <2>1. CASE i \in finished
    <3>1. i \in Ids /\ i <= lastId /\ ~Exists(i)
      BY <2>1 DEF TypeOK, ApartInv, FinishedGone
    <3>2. QED BY <1>2, <3>1 DEF QuietStep
  <2>2. CASE i \in Ids /\ Exists(i) /\ ~Exists(i)'
    BY <1>2, <2>2 DEF IdsUsed
  <2>3. QED BY <2>1, <2>2 DEF QuietStep
<1>7. LeaseExclusive'
  <2>1. \A r, s \in Live : r.id = s.id => r = s
    BY DEF Live, ApartInv, LeaseExclusive
  <2>2. \A r, s \in Live' : r.id = s.id => r = s
    BY <2>1 DEF QuietStep
  <2>3. QED BY <2>2 DEF Live, LeaseExclusive
<1>8. QED BY <1>3, <1>4, <1>5, <1>6, <1>7 DEF ApartInv

(* Steps that lease nothing: rows stay or go, and what goes was hidden if  *)
(* it counts as finished; one thread moves on.                             *)
LEMMA LocalIsQuiet ==
  ASSUME TypeOK, CandidatesApart, NEW t \in Threads, NEW s,
         local' = [local EXCEPT ![t] = s],
         s.todo = {} \/ (s.todo \subseteq local[t].todo /\ s.pc \in Holding),
         s.out \subseteq Receipts,
         held' \subseteq Receipts,
         lastId' = lastId,
         IdsUsed,
         \A i \in Ids : Exists(i)' => Exists(i) /\ messages'[i] = messages[i],
         \A i \in finished' :
            i \in finished \/ (i \in Ids /\ Exists(i) /\ messages[i].hidden /\ ~Exists(i)'),
         grants' = grants
  PROVE  QuietStep
<1>1. local'[t] = s /\ \A u \in Threads : u # t => local'[u] = local[u]
  BY DEF TypeOK
<1>2. Live' \subseteq Live
  BY <1>1 DEF Live, Receipts
<1>3. lastId \in Nat /\ lastId <= lastId
  BY ConfigAssumption DEF TypeOK
<1>4. \A i \in Ids : Exists(i)' => i <= lastId
  BY DEF IdsUsed
<1>5. \A r \in Live' : r.id \in Ids
  BY <1>2, LiveType
<1>6. \A u \in Threads : /\ local'[u].todo \subseteq local[u].todo
                         /\ local'[u].todo # {} => local'[u].pc \in Holding
  <2> SUFFICES ASSUME NEW u \in Threads
               PROVE  /\ local'[u].todo \subseteq local[u].todo
                      /\ local'[u].todo # {} => local'[u].pc \in Holding
    OBVIOUS
  <2>1. CASE u = t
    BY <1>1, <2>1
  <2>2. CASE u # t
    BY <1>1, <2>2 DEF CandidatesApart
  <2>3. QED BY <2>1, <2>2
<1>7. QED BY <1>2, <1>3, <1>4, <1>5, <1>6 DEF QuietStep

(* The same with a new row. *)
LEMMA InsertIsQuiet ==
  ASSUME TypeOK, CandidatesApart, IdsUsed, NEW t \in Threads, NEW s,
         local' = [local EXCEPT ![t] = s],
         s.todo = {} \/ (s.todo \subseteq local[t].todo /\ s.pc \in Holding),
         s.out \subseteq Receipts,
         held' = held,
         NEW n \in Queues, NEW b \in Ids, NEW d \in DedupIds \cup {NoDedup},
         Insert(n, b, d),
         finished' = finished,
         grants' = grants
  PROVE  QuietStep
<1>1. local'[t] = s /\ \A u \in Threads : u # t => local'[u] = local[u]
  BY DEF TypeOK
<1>2. Live' \subseteq Live
  BY <1>1 DEF Live, Receipts
<1>3. /\ lastId \in Nat /\ lastId' = lastId + 1 /\ lastId' \in Ids
      /\ \A i \in Ids : Exists(i) => messages'[i] = messages[i]
      /\ \A i \in Ids : Exists(i)' => Exists(i) \/ i = lastId'
      /\ \A i \in Ids : Exists(i) => i <= lastId
  BY InsertFacts
<1>4. lastId' \in Nat /\ lastId <= lastId' /\ ~(lastId' <= lastId)
  BY <1>3
<1>5. messages'[lastId'].hidden = FALSE /\ messages'[lastId'].count = 0
  <2> DEFINE row == [queue |-> n, body |-> b, dedup |-> d, handle |-> NoHandle,
                     hidden |-> FALSE, count |-> 0]
  <2>1. row.hidden = FALSE /\ row.count = 0
    OBVIOUS
  <2>2. messages' = [messages EXCEPT ![lastId'] = row]
    BY DEF Insert
  <2> HIDE DEF row
  <2>3. QED BY <1>3, <2>1, <2>2 DEF TypeOK
<1>6. \A r \in Live' : r.id \in Ids
  BY <1>2, LiveType
<1>7. \A r \in Live' : Exists(r.id)' /\ r.id <= lastId => messages'[r.id].hidden = messages[r.id].hidden
  BY <1>3, <1>4, <1>6
<1>8. \A u \in Threads : /\ local'[u].todo \subseteq local[u].todo
                         /\ local'[u].todo # {} => local'[u].pc \in Holding
  <2> SUFFICES ASSUME NEW u \in Threads
               PROVE  /\ local'[u].todo \subseteq local[u].todo
                      /\ local'[u].todo # {} => local'[u].pc \in Holding
    OBVIOUS
  <2>1. CASE u = t
    BY <1>1, <2>1
  <2>2. CASE u # t
    BY <1>1, <2>2 DEF CandidatesApart
  <2>3. QED BY <2>1, <2>2
<1>9. \A i \in Ids : Exists(i)' =>
          \/ /\ i <= lastId
             /\ Exists(i)
             /\ messages'[i] = messages[i]
          \/ /\ ~(i <= lastId)
             /\ ~messages'[i].hidden
             /\ messages'[i].count = 0
  BY <1>3, <1>4, <1>5
<1>10. QED BY <1>2, <1>3, <1>4, <1>7, <1>8, <1>9 DEF QuietStep

(* And when all threads keep what they hold, or all stop.                  *)
LEMMA AllIsQuiet ==
  ASSUME TypeOK, CandidatesApart, IdsUsed,
         \A t \in Threads : local'[t] = local[t] \/ local'[t] = Idle,
         held' \subseteq held,
         messages' = messages, lastId' = lastId, finished' = finished, grants' = grants
  PROVE  QuietStep
<1>1. Idle.todo = {} /\ Idle.out = {}
  BY DEF Idle
<1>2. Live' \subseteq Live
  BY <1>1 DEF Live, Receipts
<1>3. lastId \in Nat /\ lastId <= lastId
  BY ConfigAssumption DEF TypeOK
<1>4. \A i \in Ids : Exists(i)' => Exists(i) /\ i <= lastId
  BY DEF IdsUsed, Exists
<1>5. \A t \in Threads : /\ local'[t].todo \subseteq local[t].todo
                         /\ local'[t].todo # {} => local'[t].pc \in Holding
  BY <1>1 DEF CandidatesApart
<1>6. QED BY <1>2, <1>3, <1>4, <1>5 DEF QuietStep

(* The end of a visibility timeout. *)
LEMMA ExpiryIsQuiet ==
  ASSUME TypeOK, CandidatesApart, IdsUsed, LiveIsHidden, NEW h \in Handles, LeaseExpires(h)
  PROVE  QuietStep
<1>1. /\ lastId' = lastId /\ finished' = finished /\ grants' = grants
      /\ held' = Dead(held, h)
      /\ \A t \in Threads : /\ local'[t].todo = local[t].todo
                            /\ local'[t].pc = local[t].pc
                            /\ local'[t].out = Dead(local[t].out, h)
  BY LocalType DEF LeaseExpires, LocalRecord, history
<1>2. lastId \in Nat /\ lastId <= lastId
  BY ConfigAssumption DEF TypeOK
<1>3. \A row \in Row : LET shown == [row EXCEPT !.hidden = FALSE] IN
         /\ shown.queue = row.queue /\ shown.handle = row.handle
         /\ shown.count = row.count /\ ~shown.hidden
  BY DEF Row
<1>4. ASSUME NEW i \in Ids, Exists(i)'
      PROVE  /\ i <= lastId
             /\ Exists(i)
             /\ messages'[i].queue = messages[i].queue
             /\ messages'[i].handle = messages[i].handle
             /\ messages'[i].count = messages[i].count
             /\ messages'[i].hidden => messages[i].hidden
             /\ messages[i].handle # h => messages'[i] = messages[i]
  <2>1. Exists(i)
    BY <1>4 DEF LeaseExpires, Exists
  <2>2. messages[i] \in Row /\ i <= lastId
    BY <2>1, RowType DEF IdsUsed
  <2>3. messages'[i] = messages[i] \/ messages'[i] = [messages[i] EXCEPT !.hidden = FALSE]
    BY DEF LeaseExpires
  <2>4. messages[i].handle # h => messages'[i] = messages[i]
    BY DEF LeaseExpires
  <2>5. QED BY <1>3, <2>1, <2>2, <2>3, <2>4
<1>5. ASSUME NEW S \in SUBSET Receipt, NEW r \in Dead(S, h), r.live
      PROVE  r \in S /\ r.handle # h
  <2>1. \A s \in Receipt : ~[s EXCEPT !.live = FALSE].live
    BY DEF Receipt
  <2>2. QED BY <1>5, <2>1 DEF Dead
<1>6. /\ held \in SUBSET Receipt
      /\ \A t \in Threads : local[t].out \in SUBSET Receipt
  BY LocalType DEF TypeOK, LocalRecord
<1>7. \A r \in Live' : r \in Live /\ r.handle # h
  <2> SUFFICES ASSUME NEW r \in Receipts', r.live
               PROVE  r \in Receipts /\ r.handle # h
    BY DEF Live
  <2>1. CASE r \in held'
    BY <1>1, <1>5, <1>6, <2>1 DEF Receipts
  <2>2. ASSUME NEW t \in Threads, r \in local'[t].out
        PROVE  r \in Receipts /\ r.handle # h
    <3>1. r \in Dead(local[t].out, h)
      BY <1>1, <2>2
    <3>2. r \in local[t].out /\ r.handle # h
      BY <1>5, <1>6, <3>1
    <3>3. QED BY <3>2 DEF Receipts
  <2>3. QED BY <2>1, <2>2 DEF Receipts
<1>8. ASSUME NEW r \in Live', Exists(r.id)'
      PROVE  messages'[r.id].hidden = messages[r.id].hidden
  <2>1. r \in Live /\ r.handle # h /\ r.id \in Ids
    BY <1>7, LiveType
  <2>2. Exists(r.id)
    BY <1>4, <1>8, <2>1
  <2>3. messages[r.id].handle = r.handle
    BY <2>1, <2>2 DEF LiveIsHidden
  <2>4. QED BY <1>4, <1>8, <2>1, <2>3
<1>9. \A t \in Threads : /\ local'[t].todo \subseteq local[t].todo
                         /\ local'[t].todo # {} => local'[t].pc \in Holding
  BY <1>1 DEF CandidatesApart
<1>10. QED BY <1>1, <1>2, <1>4, <1>7, <1>8, <1>9 DEF QuietStep

(* Only the SELECT and the UPDATE of a receive are not quiet.              *)
LEMMA StepIsQuiet ==
  ASSUME TypeOK, IdsUsed, LiveIsHidden, CandidatesApart, [Next]_vars
  PROVE  QuietStep \/ \E t \in Receivers : ReceiveSelect(t) \/ ReceiveLease(t)
<1> USE ThreadRoles
<1>1. CASE UNCHANGED vars
  BY <1>1, AllIsQuiet DEF vars
<1>2. Idle.todo = {} /\ Idle.out = {}
  BY DEF Idle
<1>3. \A t \in Threads : local[t].out \subseteq Receipts
  BY DEF Receipts
<1>4. held \subseteq Receipts
  BY DEF Receipts
<1>5. \A t \in Threads : local[t].todo # {} => local[t].pc \in Holding
  BY DEF CandidatesApart
<1>6. ASSUME NEW t \in Threads, Return(t), held' \subseteq Receipts, lastId' = lastId,
             \A i \in Ids : Exists(i)' => Exists(i) /\ messages'[i] = messages[i],
             \A i \in finished' : i \in finished \/ (i \in Ids /\ Exists(i) /\ messages[i].hidden /\ ~Exists(i)'),
             grants' = grants
      PROVE  QuietStep
  BY <1>2, <1>6, LocalIsQuiet DEF Return
<1>7. ASSUME NEW t \in Threads, NEW p, Goto(t, p), local[t].pc \in Holding => p \in Holding,
             held' = held, lastId' = lastId,
             \A i \in Ids : Exists(i)' => Exists(i) /\ messages'[i] = messages[i],
             finished' = finished, grants' = grants
      PROVE  QuietStep
  <2> DEFINE s == [local[t] EXCEPT !.pc = p]
  <2>1. local' = [local EXCEPT ![t] = s]
    BY <1>7 DEF Goto, TypeOK
  <2>2. s.todo = local[t].todo /\ s.out = local[t].out /\ s.pc = p
    BY LocalType DEF LocalRecord
  <2> HIDE DEF s
  <2>3. s.todo = {} \/ (s.todo \subseteq local[t].todo /\ s.pc \in Holding)
    BY <1>5, <1>7, <2>2
  <2>4. s.out \subseteq Receipts /\ held' \subseteq Receipts
    BY <1>3, <1>4, <1>7, <2>2
  <2>5. QED BY <1>7, <2>1, <2>3, <2>4, LocalIsQuiet
<1>8. \A S : \A i \in Ids : Without(S)[i] # NoRow => Exists(i) /\ Without(S)[i] = messages[i]
  BY DEF Without, Exists
<1>9. ASSUME NEW t \in Threads, NEW s, local' = [local EXCEPT ![t] = s],
             s.todo = {}, s.out = {},
             held' = held, lastId' = lastId, messages' = messages,
             finished' = finished, grants' = grants
      PROVE  QuietStep
  BY <1>4, <1>9, LocalIsQuiet DEF Exists
<1>10. ASSUME NEW t \in Admins, Admin(t)
       PROVE  QuietStep
  <2>1. ASSUME NEW n \in Queues, NEW c \in Configs, CreateQueueCheck(t, n, c)
        PROVE  QuietStep
    <3> DEFINE p == IF c.dlq = NoName THEN "create" ELSE "create dlq"
               s == [Idle EXCEPT !.pc = p, !.name = n, !.q = c]
    <3>1. local' = [local EXCEPT ![t] = s]
      BY <2>1 DEF CreateQueueCheck
    <3> HIDE DEF p
    <3>2. s.todo = {} /\ s.out = {}
      BY DEF Idle
    <3> HIDE DEF s
    <3>3. QED BY <2>1, <3>1, <3>2, <1>9 DEF CreateQueueCheck, db, history
  <2>2. CASE CreateQueueCheckDlq(t)
    <3>1. local[t].pc \notin Holding
      BY <2>2 DEF CreateQueueCheckDlq, Holding
    <3>2. QED BY <2>2, <3>1, <1>4, <1>6, <1>7 DEF CreateQueueCheckDlq, db, history, Exists
  <2>3. CASE CreateQueueInsert(t)
    BY <2>3, <1>4, <1>6 DEF CreateQueueInsert, history, Exists
  <2>4. ASSUME NEW n \in Queues, DeleteQueueRequire(t, n)
        PROVE  QuietStep
    <3> DEFINE s == [Idle EXCEPT !.pc = "purge", !.name = n]
    <3>1. local' = [local EXCEPT ![t] = s]
      BY <2>4 DEF DeleteQueueRequire
    <3>2. s.todo = {} /\ s.out = {}
      BY DEF Idle
    <3> HIDE DEF s
    <3>3. QED BY <2>4, <3>1, <3>2, <1>9 DEF DeleteQueueRequire, db, history
  <2>5. CASE DeleteQueuePurge(t)
    <3>1. local[t].pc \notin Holding
      BY <2>5 DEF DeleteQueuePurge, Holding
    <3>2. QED BY <2>5, <3>1, <1>7, <1>8 DEF DeleteQueuePurge, Exists
  <2>6. CASE DeleteQueueDrop(t)
    BY <2>6, <1>4, <1>6 DEF DeleteQueueDrop, history, Exists
  <2>7. QED BY <1>10, <2>1, <2>2, <2>3, <2>4, <2>5, <2>6 DEF Admin
<1>11. ASSUME NEW t \in Senders, Send(t)
       PROVE  QuietStep
  <2>1. ASSUME NEW n \in SendQueues, NEW d \in DedupIds \cup {NoDedup}, SendRequire(t, n, d)
        PROVE  QuietStep
    <3> DEFINE p == IF queues[n].fifo /\ d # NoDedup THEN "dedup" ELSE "insert"
               s == [Idle EXCEPT !.pc = p, !.name = n, !.q = queues[n], !.dedup = d]
    <3>1. local' = [local EXCEPT ![t] = s]
      BY <2>1 DEF SendRequire
    <3> HIDE DEF p
    <3>2. s.todo = {} /\ s.out = {}
      BY DEF Idle
    <3> HIDE DEF s
    <3>3. QED BY <2>1, <3>1, <3>2, <1>9 DEF SendRequire, db, history
  <2>2. CASE SendDedup(t)
    <3>1. local[t].pc \notin Holding
      BY <2>2 DEF SendDedup, Holding
    <3>2. QED BY <2>2, <3>1, <1>4, <1>6, <1>7 DEF SendDedup, db, history, Exists
  <2>3. CASE SendInsert(t)
    <3>1. local[t].name \in Queues /\ local[t].dedup \in DedupIds \cup {NoDedup}
      BY <2>3, LocalType DEF SendInsert, LocalRecord, Assigned
    <3>2. lastId + 1 \in Ids
      BY <2>3, ConfigAssumption DEF SendInsert, Insert, TypeOK, Ids
    <3>3. QED BY <2>3, <3>1, <3>2, <1>2, InsertIsQuiet DEF SendInsert, Return
  <2>4. QED BY <1>11, <2>1, <2>2, <2>3 DEF Send
<1>12. ASSUME NEW t \in Receivers, Receive(t), ~ReceiveSelect(t), ~ReceiveLease(t)
       PROVE  QuietStep
  <2>1. ASSUME NEW n \in PollQueues, ReceiveRequire(t, n)
        PROVE  QuietStep
    <3> DEFINE s == [Idle EXCEPT !.pc = "select", !.name = n, !.q = queues[n]]
    <3>1. local' = [local EXCEPT ![t] = s]
      BY <2>1 DEF ReceiveRequire
    <3>2. s.todo = {} /\ s.out = {}
      BY DEF Idle
    <3> HIDE DEF s
    <3>3. QED BY <2>1, <3>1, <3>2, <1>9 DEF ReceiveRequire, db, history
  <2>2. CASE RedriveInsert(t)
    <3>1. PICK m \in Current(t) : Redrives(local[t].q, m) /\ Insert(local[t].q.dlq, m.body, m.dedup)
      BY <2>2 DEF RedriveInsert
    <3>2. m \in Snapshot /\ local[t].q \in QueueRow
      BY <2>2, LocalType DEF RedriveInsert, Current, LocalRecord, Assigned
    <3>3. local[t].q.dlq \in Queues /\ m.body \in Ids /\ m.dedup \in DedupIds \cup {NoDedup}
      BY <3>1, <3>2 DEF Redrives, QueueRow, Snapshot
    <3> DEFINE s == [local[t] EXCEPT !.pc = "redrive delete"]
    <3>4. local' = [local EXCEPT ![t] = s] /\ held' = held /\ finished' = finished /\ grants' = grants
      BY <2>2 DEF RedriveInsert, Goto, TypeOK, history
    <3>5. s.todo = local[t].todo /\ s.out = local[t].out /\ s.pc \in Holding
      BY LocalType DEF LocalRecord, Holding
    <3> HIDE DEF s
    <3>6. QED BY <1>3, <3>1, <3>3, <3>4, <3>5, InsertIsQuiet
  <2>3. CASE RedriveInsertFails(t)
    <3>1. "redrive delete" \in Holding
      BY DEF Holding
    <3>2. QED BY <2>3, <3>1, <1>7 DEF RedriveInsertFails, db, Exists
  <2>4. CASE RedriveDelete(t)
    <3>1. PICK m \in Current(t) :
             /\ messages' = Without({m.id})
             /\ local' = [local EXCEPT ![t].pc = "loop", ![t].todo = @ \ {m}]
      BY <2>4 DEF RedriveDelete
    <3> DEFINE s == [local[t] EXCEPT !.pc = "loop", !.todo = @ \ {m}]
    <3>2. local' = [local EXCEPT ![t] = s]
      BY <3>1 DEF TypeOK
    <3>3. s.todo \subseteq local[t].todo /\ s.out = local[t].out /\ s.pc \in Holding
      BY LocalType DEF LocalRecord, Holding
    <3> HIDE DEF s
    <3>4. \A i \in Ids : Exists(i)' => Exists(i) /\ messages'[i] = messages[i]
      BY <3>1, <1>8 DEF Exists
    <3>5. QED BY <1>3, <1>4, <2>4, <3>2, <3>3, <3>4, LocalIsQuiet DEF RedriveDelete, history
  <2>5. CASE ReceiveReturn(t)
    BY <2>5, <1>3, <1>4, <1>6 DEF ReceiveReturn, db, history, Exists
  <2>6. QED BY <1>12, <2>1, <2>2, <2>3, <2>4, <2>5 DEF Receive, ReceiveStep
<1>13. ASSUME NEW t \in Ackers, Ack(t)
       PROVE  QuietStep
  <2>1. ASSUME NEW r \in held, DeleteMessageRequire(t, r)
        PROVE  QuietStep
    <3> DEFINE s == [Idle EXCEPT !.pc = "ack", !.receipt = r]
    <3>1. local' = [local EXCEPT ![t] = s]
      BY <2>1 DEF DeleteMessageRequire
    <3>2. s.todo = {} /\ s.out = {}
      BY DEF Idle
    <3> HIDE DEF s
    <3>3. QED BY <2>1, <3>1, <3>2, <1>9 DEF DeleteMessageRequire, db, history
  <2>2. CASE DeleteMessageDelete(t)
    <3> DEFINE gone == Named(local[t].receipt)
    <3>1. /\ messages' = Without(gone)
          /\ finished' = finished \cup {i \in gone : messages[i].hidden}
          /\ Return(t) /\ lastId' = lastId /\ held' = held /\ grants' = grants
      BY <2>2 DEF DeleteMessageDelete
    <3>2. \A i \in gone : i \in Ids /\ Exists(i)
      BY DEF Named, InQueue
    <3> HIDE DEF gone
    <3>3. \A i \in gone : ~Exists(i)'
      BY <3>1, <3>2 DEF Without, Exists
    <3>4. \A i \in finished' :
             i \in finished \/ (i \in Ids /\ Exists(i) /\ messages[i].hidden /\ ~Exists(i)')
      BY <3>1, <3>2, <3>3
    <3>5. \A i \in Ids : Exists(i)' => Exists(i) /\ messages'[i] = messages[i]
      BY <3>1, <1>8 DEF Exists
    <3>6. QED BY <3>1, <3>4, <3>5, <1>4, <1>6
  <2>3. QED BY <1>13, <2>1, <2>2 DEF Ack
<1>14. CASE Environment
  <2>1. ASSUME NEW r \in held, Forget(r)
        PROVE  QuietStep
    BY <2>1, AllIsQuiet DEF Forget, db, history
  <2>2. ASSUME NEW h \in Handles, LeaseExpires(h)
        PROVE  QuietStep
    BY <2>2, ExpiryIsQuiet
  <2>3. ASSUME NEW i \in Ids, WindowPasses(i)
        PROVE  QuietStep
    BY <2>3, AllIsQuiet DEF WindowPasses, db, history
  <2>4. ASSUME NEW t \in Threads, RequestFails(t)
        PROVE  QuietStep
    BY <2>4, <1>4, <1>6 DEF RequestFails, db, history, Exists
  <2>5. CASE Crash
    BY <2>5, AllIsQuiet DEF Crash, db, history
  <2>6. QED BY <1>14, <2>1, <2>2, <2>3, <2>4, <2>5 DEF Environment
<1>15. QED BY <1>1, <1>10, <1>11, <1>12, <1>13, <1>14 DEF Next

(* What the SELECT of a receive does.                                      *)
LEMMA SelectFacts ==
  ASSUME TypeOK, NEW t \in Receivers, ReceiveSelect(t)
  PROVE  /\ UNCHANGED <<queues, messages, lastId, inWindow, held, accepted, settled, finished,
                        swallowed, grants>>
         /\ local[t].pc = "select" /\ local'[t].pc = "loop"
         /\ local'[t].name = local[t].name /\ local'[t].q = local[t].q
         /\ local'[t].out = local[t].out
         /\ \A u \in Threads : u # t => local'[u] = local[u]
         /\ \A m \in local'[t].todo : \E i \in Visible(local[t].name) : m = SnapshotOf(i)
<1> USE ThreadRoles
<1>1. PICK S \in SUBSET Visible(local[t].name) :
         local' = [local EXCEPT ![t].pc = "loop", ![t].todo = {SnapshotOf(i) : i \in S}]
  <2>1. \A n, k : Oldest(Visible(n), k) \in SUBSET Visible(n)
    BY DEF Oldest
  <2>2. QED BY <2>1 DEF ReceiveSelect
<1> DEFINE found == {SnapshotOf(i) : i \in S}
<1>2. \A m \in found : \E i \in Visible(local[t].name) : m = SnapshotOf(i)
  OBVIOUS
<1> HIDE DEF found
<1>3. local' = [local EXCEPT ![t].pc = "loop", ![t].todo = found]
  BY <1>1 DEF found
<1>4. /\ local'[t].pc = "loop" /\ local'[t].todo = found
      /\ local'[t].name = local[t].name /\ local'[t].q = local[t].q
      /\ local'[t].out = local[t].out
      /\ \A u \in Threads : u # t => local'[u] = local[u]
  BY <1>3, LocalType DEF TypeOK, LocalRecord
<1>5. QED BY <1>2, <1>4 DEF ReceiveSelect, db, history

(* What the UPDATE of a receive does.                                      *)
LEMMA LeaseFacts ==
  ASSUME TypeOK, NEW t \in Receivers, ReceiveLease(t)
  PROVE  \E m \in local[t].todo, h \in NewHandles(t) :
         /\ m \in Snapshot /\ m.id \in Ids
         /\ ~Redrives(local[t].q, m)
         /\ UNCHANGED <<queues, lastId, inWindow, held, finished>>
         /\ local[t].pc = "loop" /\ local'[t].pc = "loop"
         /\ local'[t].name = local[t].name /\ local'[t].q = local[t].q
         /\ local'[t].todo = local[t].todo \ {m}
         /\ local'[t].out = local[t].out \cup
               {[id |-> m.id, queue |-> local[t].name, handle |-> h, live |-> TRUE]}
         /\ \A u \in Threads : u # t => local'[u] = local[u]
         /\ \A i \in Ids : Exists(i)' => /\ Exists(i)
                                         /\ messages'[i].queue = messages[i].queue
                                         /\ messages'[i].dedup = messages[i].dedup
                                         /\ i # m.id => messages'[i] = messages[i]
         /\ Exists(m.id)' => /\ messages'[m.id].handle = h
                             /\ messages'[m.id].hidden
                             /\ messages'[m.id].count = NewCount(m)
         /\ grants' = [grants EXCEPT ![m.id] = Sat(@ + 1)]
<1> USE ThreadRoles
<1>1. PICK m \in Current(t), h \in NewHandles(t) :
         /\ ~Redrives(local[t].q, m)
         /\ messages' = IF Exists(m.id)
                        THEN [messages EXCEPT ![m.id].handle = h,
                                              ![m.id].hidden = TRUE,
                                              ![m.id].count = NewCount(m)]
                        ELSE messages
         /\ local' = [local EXCEPT
                        ![t].todo = @ \ {m},
                        ![t].out = @ \cup {[id |-> m.id, queue |-> local[t].name,
                                            handle |-> h, live |-> TRUE]}]
         /\ grants' = [grants EXCEPT ![m.id] = Sat(@ + 1)]
  BY DEF ReceiveLease
<1>2. m \in local[t].todo /\ m \in Snapshot /\ m.id \in Ids
  BY LocalType DEF Current, LocalRecord, Snapshot
<1> DEFINE new == [id |-> m.id, queue |-> local[t].name, handle |-> h, live |-> TRUE]
<1>3. local' = [local EXCEPT ![t].todo = @ \ {m}, ![t].out = @ \cup {new}]
  BY <1>1
<1> HIDE DEF new
<1>4. /\ \A u \in Threads : u # t => local'[u] = local[u]
      /\ local'[t].todo = local[t].todo \ {m}
      /\ local'[t].name = local[t].name /\ local'[t].q = local[t].q
      /\ local'[t].out = local[t].out \cup {new}
      /\ local'[t].pc = local[t].pc
  BY <1>3, LocalType DEF TypeOK, LocalRecord
<1>5. /\ \A i \in Ids : Exists(i)' => /\ Exists(i)
                                      /\ messages'[i].queue = messages[i].queue
                                      /\ messages'[i].dedup = messages[i].dedup
                                      /\ i # m.id => messages'[i] = messages[i]
      /\ Exists(m.id)' => /\ messages'[m.id].handle = h
                          /\ messages'[m.id].hidden
                          /\ messages'[m.id].count = NewCount(m)
  <2>1. CASE Exists(m.id)
    <3> DEFINE row == [messages[m.id] EXCEPT !.handle = h, !.hidden = TRUE,
                                             !.count = NewCount(m)]
    <3>1. messages[m.id] \in Row
      BY <2>1, <1>2, RowType
    <3>2. /\ row.queue = messages[m.id].queue /\ row.dedup = messages[m.id].dedup
          /\ row.handle = h /\ row.hidden = TRUE /\ row.count = NewCount(m)
      BY <3>1 DEF Row
    <3>3. messages' = [messages EXCEPT ![m.id] = row]
      BY <1>1, <2>1 DEF TypeOK
    <3> HIDE DEF row
    <3>4. messages'[m.id] = row /\ \A i \in Ids : i # m.id => messages'[i] = messages[i]
      BY <1>2, <3>3 DEF TypeOK
    <3>5. QED BY <1>2, <2>1, <3>2, <3>4 DEF Exists
  <2>2. CASE ~Exists(m.id)
    BY <1>1, <2>2 DEF Exists
  <2>3. QED BY <2>1, <2>2
<1>6. /\ UNCHANGED <<queues, lastId, inWindow, held, finished>>
      /\ local[t].pc = "loop"
  BY DEF ReceiveLease
<1>7. local'[t].out = local[t].out \cup
         {[id |-> m.id, queue |-> local[t].name, handle |-> h, live |-> TRUE]}
  BY <1>4 DEF new
<1>8. m \in local[t].todo
  BY <1>2
<1> USE <1>8
<1> WITNESS m \in local[t].todo, h \in NewHandles(t)
<1>9. QED BY <1>1, <1>2, <1>4, <1>5, <1>6, <1>7

LEMMA SelectKeepsApart ==
  ASSUME TypeOK, IdsUsed, Candidates, ApartInv, ReceivesApart,
         NEW t \in Receivers, ReceiveSelect(t)
  PROVE  ApartInv'
<1> USE ThreadRoles
<1>1. /\ UNCHANGED <<messages, lastId, held, finished>>
      /\ local[t].pc = "select" /\ local'[t].pc = "loop"
      /\ local'[t].out = local[t].out
      /\ \A u \in Threads : u # t => local'[u] = local[u]
      /\ \A m \in local'[t].todo : \E i \in Visible(local[t].name) : m = SnapshotOf(i)
  BY SelectFacts
<1>2. Receipts' = Receipts
  BY <1>1 DEF Receipts
<1>3. ASSUME NEW m \in local'[t].todo
      PROVE  /\ m.id \in Ids /\ Exists(m.id) /\ ~messages[m.id].hidden
             /\ messages[m.id].queue = local[t].name
             /\ m = SnapshotOf(m.id)
  <2>1. PICK i \in Visible(local[t].name) : m = SnapshotOf(i)
    BY <1>1
  <2>2. SnapshotOf(i).id = i
    BY DEF SnapshotOf
  <2>3. m.id = i
    BY <2>1, <2>2
  <2>4. i \in Ids /\ Exists(i) /\ ~messages[i].hidden /\ messages[i].queue = local[t].name
    BY DEF Visible, InQueue
  <2>5. QED BY <2>1, <2>3, <2>4
<1>4. LiveIsHidden'
  BY <1>1, <1>2 DEF ApartInv, LiveIsHidden, Live, Exists
<1>5. CandidatesFree'
  <2> SUFFICES ASSUME NEW u \in Threads, NEW m \in local'[u].todo
               PROVE  /\ \A r \in Live' : r.id # m.id
                      /\ Exists(m.id)' => ~messages'[m.id].hidden
                      /\ m.id \notin finished'
    BY DEF CandidatesFree
  <2>1. Live' = Live
    BY <1>2 DEF Live
  <2>2. CASE u = t
    BY <1>1, <1>3, <2>1, <2>2 DEF ApartInv, LiveIsHidden, FinishedGone, Exists
  <2>3. CASE u # t
    BY <1>1, <2>1, <2>3 DEF ApartInv, CandidatesFree, Exists
  <2>4. QED BY <2>2, <2>3
<1>6. ASSUME NEW u \in Threads, u # t, NEW m \in local'[t].todo, NEW o \in local'[u].todo
      PROVE  m.id # o.id
  <2>1. o \in local[u].todo
    BY <1>1, <1>6
  <2>2. local[u].pc \in Receiving
    BY <2>1 DEF ApartInv, CandidatesApart, Holding, Receiving
  <2>3. local[t].pc \in Receiving
    BY <1>1 DEF Receiving
  <2>4. local[u].name # local[t].name
    BY <1>6, <2>2, <2>3 DEF ReceivesApart
  <2>5. Exists(o.id) => messages[o.id].queue = local[u].name
    BY <2>1 DEF Candidates
  <2>6. QED BY <1>3, <2>4, <2>5
<1>7. CandidatesApart'
  <2>1. ASSUME NEW u \in Threads, local'[u].todo # {}
        PROVE  local'[u].pc \in Holding
    BY <1>1, <2>1 DEF Holding, ApartInv, CandidatesApart
  <2>2. ASSUME NEW u \in Threads, NEW v \in Threads, NEW m \in local'[u].todo,
               NEW o \in local'[v].todo, m.id = o.id
        PROVE  u = v /\ m = o
    <3>1. CASE u = t /\ v = t
      BY <1>3, <2>2, <3>1
    <3>2. CASE u = t /\ v # t
      BY <1>6, <2>2, <3>2
    <3>3. CASE u # t /\ v = t
      BY <1>6, <2>2, <3>3
    <3>4. CASE u # t /\ v # t
      <4>1. m \in local[u].todo /\ o \in local[v].todo
        BY <1>1, <3>4
      <4>2. QED BY <2>2, <4>1 DEF ApartInv, CandidatesApart
    <3>5. QED BY <3>1, <3>2, <3>3, <3>4
  <2>3. QED BY <2>1, <2>2 DEF CandidatesApart
<1>8. FinishedGone' /\ LeaseExclusive'
  BY <1>1, <1>2 DEF ApartInv, FinishedGone, LeaseExclusive, Exists
<1>9. QED BY <1>4, <1>5, <1>7, <1>8 DEF ApartInv

LEMMA LeaseKeepsApart ==
  ASSUME TypeOK, IdsUsed, Candidates, ApartInv, NEW t \in Receivers, ReceiveLease(t)
  PROVE  ApartInv'
<1> USE ThreadRoles
<1>1. PICK m \in local[t].todo, h \in NewHandles(t) :
         /\ m \in Snapshot /\ m.id \in Ids
         /\ UNCHANGED <<lastId, held, finished>>
         /\ local'[t].pc = "loop"
         /\ local'[t].todo = local[t].todo \ {m}
         /\ local'[t].out = local[t].out \cup
               {[id |-> m.id, queue |-> local[t].name, handle |-> h, live |-> TRUE]}
         /\ \A u \in Threads : u # t => local'[u] = local[u]
         /\ \A i \in Ids : Exists(i)' => Exists(i) /\ (i # m.id => messages'[i] = messages[i])
         /\ Exists(m.id)' => messages'[m.id].handle = h /\ messages'[m.id].hidden
  BY LeaseFacts
<1> DEFINE new == [id |-> m.id, queue |-> local[t].name, handle |-> h, live |-> TRUE]
<1>2. new.id = m.id /\ new.handle = h /\ new.live
  OBVIOUS
<1>a. local'[t].out = local[t].out \cup {new}
  BY <1>1
<1> HIDE DEF new
<1>3. Live' \subseteq Live \cup {new}
  <2>1. Receipts' \subseteq Receipts \cup {new}
    BY <1>1, <1>a DEF Receipts
  <2>2. QED BY <2>1 DEF Live
<1>4. \A r \in Live : r.id # m.id /\ r.id \in Ids
  BY LiveType DEF ApartInv, CandidatesFree
<1>5. ASSUME NEW u \in Threads, NEW o \in local'[u].todo
      PROVE  o \in local[u].todo /\ o.id # m.id /\ o.id \in Ids
  <2>1. o \in local[u].todo /\ (u = t => o # m)
    BY <1>1, <1>5
  <2>2. o.id # m.id
    BY <2>1 DEF ApartInv, CandidatesApart
  <2>3. QED BY <2>1, <2>2, CandidateType
<1>6. LiveIsHidden'
  <2> SUFFICES ASSUME NEW r \in Live'
               PROVE  /\ r.id <= lastId'
                      /\ Exists(r.id)' => messages'[r.id].hidden /\ messages'[r.id].handle = r.handle
    BY DEF LiveIsHidden
  <2>1. CASE r = new
    BY <1>1, <1>2, <2>1 DEF Candidates
  <2>2. CASE r \in Live
    BY <1>1, <1>4, <2>2 DEF ApartInv, LiveIsHidden
  <2>3. QED BY <1>3, <2>1, <2>2
<1>7. CandidatesFree'
  <2> SUFFICES ASSUME NEW u \in Threads, NEW o \in local'[u].todo
               PROVE  /\ \A r \in Live' : r.id # o.id
                      /\ Exists(o.id)' => ~messages'[o.id].hidden
                      /\ o.id \notin finished'
    BY DEF CandidatesFree
  <2>1. o \in local[u].todo /\ o.id # m.id /\ o.id \in Ids
    BY <1>5
  <2>2. QED BY <1>1, <1>2, <1>3, <2>1 DEF ApartInv, CandidatesFree
<1>8. CandidatesApart'
  <2>1. ASSUME NEW u \in Threads, local'[u].todo # {}
        PROVE  local'[u].pc \in Holding
    BY <1>1, <2>1 DEF Holding, ApartInv, CandidatesApart
  <2>2. QED BY <1>5, <2>1 DEF ApartInv, CandidatesApart
<1>9. FinishedGone'
  <2>1. \A i \in finished : i \in Ids
    BY DEF TypeOK
  <2>2. QED BY <1>1, <2>1 DEF ApartInv, FinishedGone
<1>10. LeaseExclusive'
  <2>1. \A r, s \in Live : r.id = s.id => r = s
    BY DEF Live, ApartInv, LeaseExclusive
  <2>2. \A r, s \in Live' : r.id = s.id => r = s
    BY <1>2, <1>3, <1>4, <2>1
  <2>3. QED BY <2>2 DEF Live, LeaseExclusive
<1>11. QED BY <1>6, <1>7, <1>8, <1>9, <1>10 DEF ApartInv

(* The invariant, from which both promises follow.  Another client may be  *)
(* given a message only when SELECT found its row visible, and then no     *)
(* lease of it lives; between the SELECT and the UPDATE nobody else can    *)
(* lease it, because only a receive of the same queue could have it among  *)
(* its candidates.                                                         *)
LEMMA ApartInvHolds == Spec /\ []ReceivesApart => []ApartInv
<1>1. Init => ApartInv
  <2> SUFFICES ASSUME Init PROVE ApartInv
    OBVIOUS
  <2>1. Idle.todo = {} /\ Idle.out = {}
    BY DEF Idle
  <2>2. \A t \in Threads : local[t].todo = {} /\ local[t].out = {}
    BY <2>1 DEF Init
  <2>3. Receipts = {} /\ finished = {}
    BY <2>2 DEF Init, Receipts
  <2>4. QED BY <2>2, <2>3 DEF ApartInv, LiveIsHidden, CandidatesFree, CandidatesApart,
                              FinishedGone, LeaseExclusive, Live
<1>2. TypeOK /\ ReceiptInv /\ ReceivesApart /\ ApartInv /\ [Next]_vars => ApartInv'
  <2> SUFFICES ASSUME TypeOK, ReceiptInv, ReceivesApart, ApartInv, [Next]_vars
               PROVE  ApartInv'
    OBVIOUS
  <2>1. IdsUsed /\ Candidates /\ LiveIsHidden /\ CandidatesApart
    BY DEF ReceiptInv, ApartInv
  <2>2. QuietStep \/ \E t \in Receivers : ReceiveSelect(t) \/ ReceiveLease(t)
    BY <2>1, StepIsQuiet
  <2>3. QED BY <2>1, <2>2, QuietKeepsApart, SelectKeepsApart, LeaseKeepsApart
<1>3. QED BY <1>1, <1>2, TypeCorrect, ReceiptInvHolds, PTL DEF Spec

(* While the visibility timeout of a receipt runs nobody else is given its *)
(* message (sqs.py:3-6, 148-153), however sends, acks, redrives, failures  *)
(* and crashes fall between the SELECT and the UPDATEs of a receive, as    *)
(* long as receives of one queue do not overlap.                           *)
THEOREM LeasesExclude == Spec /\ []ReceivesApart => []LeaseExclusive
<1>1. ApartInv => LeaseExclusive
  BY DEF ApartInv
<1>2. QED BY <1>1, ApartInvHolds, PTL

(* Under the same hypothesis a message deleted within its visibility       *)
(* timeout is not among the candidates of any receive, to be handed out or *)
(* redriven once more (sqs.py:5-6, 133-156, 193-199).                      *)
THEOREM DeletedInTimeStaysOut == Spec /\ []ReceivesApart => []DeletedInTimeIsFinal
<1>1. ApartInv => DeletedInTimeIsFinal
  BY DEF ApartInv, CandidatesFree, DeletedInTimeIsFinal
<1>2. QED BY <1>1, ApartInvHolds, PTL

(***************************************************************************)
(* Bounded deliveries, and the deduplication of FIFO queues.               *)
(*                                                                         *)
(* Both compare a message with the row of its queue, which a request reads *)
(* once, at its start: the theorems also assume that no queue is created   *)
(* or deleted meanwhile ([][UNCHANGED queues]_vars), since a queue deleted *)
(* and created again with another configuration keeps what was sent to it  *)
(* between the two DELETEs of delete_queue (sqs.py:74-79).                 *)
(***************************************************************************)

(* A send or a receive that has read its queue.                            *)
Serving == {"dedup", "insert"} \cup Receiving

(* How thread t gets to where it needs its queue, or has found that its    *)
(* message is no duplicate.                                                *)
Progress(t) ==
    /\ local'[t].pc \in Serving =>
          \/ /\ local[t].pc \in Serving
             /\ local'[t].name = local[t].name
             /\ local'[t].q = local[t].q
          \/ local'[t].q = queues[local'[t].name]
    /\ local'[t].pc = "insert" =>
          \/ /\ local[t].pc \in {"dedup", "insert"}
             /\ local[t].pc = "dedup" => Duplicates(local[t].name, local[t].dedup) = {}
             /\ local'[t].name = local[t].name
             /\ local'[t].dedup = local[t].dedup
             /\ local'[t].q = local[t].q
          \/ ~(local'[t].q.fifo /\ local'[t].dedup # NoDedup)
    /\ local'[t].pc \in Receiving => local[t].pc \in Receiving \/ t \in Receivers
    /\ local'[t].pc = "insert" => local[t].pc \in {"dedup", "insert"} \/ t \in Senders
    /\ local'[t].pc = "dedup" => local[t].pc = "dedup" \/ t \in Senders

LEMMA StepProgresses == ASSUME TypeOK, [Next]_vars PROVE \A t \in Threads : Progress(t)
<1> USE ThreadRoles
<1>1. "idle" \notin Serving /\ "ack" \notin Serving /\ "create" \notin Serving
      /\ "create dlq" \notin Serving /\ "purge" \notin Serving /\ "drop" \notin Serving
      /\ "dedup" \in Serving /\ "insert" \in Serving /\ "select" \in Serving
      /\ "loop" \in Serving /\ "redrive delete" \in Serving
      /\ Receiving \subseteq Serving /\ "dedup" \notin Receiving /\ "insert" \notin Receiving
      /\ "loop" \in Receiving /\ "redrive delete" \in Receiving
  BY DEF Serving, Receiving
<1>2. ASSUME NEW u \in Threads, local'[u] = local[u]
      PROVE  Progress(u)
  <2>1. local[u].pc = "insert" => local[u].pc \in {"dedup", "insert"} /\ local[u].pc # "dedup"
    OBVIOUS
  <2>2. QED BY <1>2, <2>1 DEF Progress
<1>3. ASSUME NEW t \in Threads, NEW s, local' = [local EXCEPT ![t] = s], Progress(t)
      PROVE  \A u \in Threads : Progress(u)
  <2>1. \A u \in Threads : u # t => local'[u] = local[u]
    BY <1>3 DEF TypeOK
  <2>2. QED BY <1>2, <1>3, <2>1
<1>4. ASSUME NEW t \in Threads, NEW s, local' = [local EXCEPT ![t] = s],
             s.pc \notin Serving
      PROVE  \A u \in Threads : Progress(u)
  <2>1. local'[t] = s
    BY <1>4 DEF TypeOK
  <2>2. s.pc # "insert" /\ s.pc # "dedup" /\ s.pc \notin Receiving
    BY <1>1, <1>4
  <2>3. Progress(t)
    BY <1>4, <2>1, <2>2 DEF Progress
  <2>4. QED BY <1>3, <1>4, <2>3
<1>5. ASSUME NEW t \in Threads, Return(t)
      PROVE  \A u \in Threads : Progress(u)
  <2>1. Idle.pc = "idle"
    BY DEF Idle
  <2>2. QED BY <1>1, <1>4, <1>5, <2>1 DEF Return
<1>6. ASSUME NEW t \in Threads, NEW p \in Steps, Goto(t, p),
             p \in Serving => local[t].pc \in Serving,
             p \in Receiving => local[t].pc \in Receiving,
             p # "dedup",
             p = "insert" => local[t].pc = "dedup" /\ Duplicates(local[t].name, local[t].dedup) = {}
      PROVE  \A u \in Threads : Progress(u)
  <2> DEFINE s == [local[t] EXCEPT !.pc = p]
  <2>1. local' = [local EXCEPT ![t] = s]
    BY <1>6 DEF Goto, TypeOK
  <2>2. s.pc = p /\ s.name = local[t].name /\ s.q = local[t].q /\ s.dedup = local[t].dedup
    BY LocalType DEF LocalRecord
  <2> HIDE DEF s
  <2>3. local'[t] = s
    BY <2>1 DEF TypeOK
  <2>4. Progress(t)
    BY <1>6, <2>2, <2>3 DEF Progress
  <2>5. QED BY <1>3, <2>1, <2>4
<1>7. ASSUME NEW t \in Threads, local[t].pc \in Receiving, local'[t].pc = "loop",
             local'[t].name = local[t].name, local'[t].q = local[t].q
      PROVE  Progress(t)
  BY <1>7 DEF Progress, Serving
<1>8. CASE UNCHANGED vars
  BY <1>2, <1>8 DEF vars
<1>9. ASSUME NEW t \in Admins, Admin(t)
      PROVE  \A u \in Threads : Progress(u)
  <2>1. ASSUME NEW n \in Queues, NEW c \in Configs, CreateQueueCheck(t, n, c)
        PROVE  \A u \in Threads : Progress(u)
    <3> DEFINE p == IF c.dlq = NoName THEN "create" ELSE "create dlq"
               s == [Idle EXCEPT !.pc = p, !.name = n, !.q = c]
    <3>1. local' = [local EXCEPT ![t] = s]
      BY <2>1 DEF CreateQueueCheck
    <3>2. p \notin Serving
      BY <1>1
    <3> HIDE DEF p
    <3>3. s.pc = p
      BY DEF Idle
    <3> HIDE DEF s
    <3>4. QED BY <3>1, <3>2, <3>3, <1>4
  <2>2. CASE CreateQueueCheckDlq(t)
    BY <2>2, <1>1, <1>5, <1>6 DEF CreateQueueCheckDlq, Steps
  <2>3. CASE CreateQueueInsert(t)
    BY <2>3, <1>5 DEF CreateQueueInsert
  <2>4. ASSUME NEW n \in Queues, DeleteQueueRequire(t, n)
        PROVE  \A u \in Threads : Progress(u)
    <3> DEFINE s == [Idle EXCEPT !.pc = "purge", !.name = n]
    <3>1. local' = [local EXCEPT ![t] = s]
      BY <2>4 DEF DeleteQueueRequire
    <3>2. s.pc = "purge"
      BY DEF Idle
    <3> HIDE DEF s
    <3>3. QED BY <3>1, <3>2, <1>1, <1>4
  <2>5. CASE DeleteQueuePurge(t)
    BY <2>5, <1>1, <1>6 DEF DeleteQueuePurge, Steps
  <2>6. CASE DeleteQueueDrop(t)
    BY <2>6, <1>5 DEF DeleteQueueDrop
  <2>7. QED BY <1>9, <2>1, <2>2, <2>3, <2>4, <2>5, <2>6 DEF Admin
<1>10. ASSUME NEW t \in Senders, Send(t)
       PROVE  \A u \in Threads : Progress(u)
  <2>1. ASSUME NEW n \in SendQueues, NEW d \in DedupIds \cup {NoDedup}, SendRequire(t, n, d)
        PROVE  \A u \in Threads : Progress(u)
    <3> DEFINE p == IF queues[n].fifo /\ d # NoDedup THEN "dedup" ELSE "insert"
               s == [Idle EXCEPT !.pc = p, !.name = n, !.q = queues[n], !.dedup = d]
    <3>1. local' = [local EXCEPT ![t] = s]
      BY <2>1 DEF SendRequire
    <3>2. p = "insert" => ~(queues[n].fifo /\ d # NoDedup)
      OBVIOUS
    <3>a. p \notin Receiving
      BY <1>1
    <3> HIDE DEF p
    <3>3. s.pc = p /\ s.name = n /\ s.q = queues[n] /\ s.dedup = d
      BY DEF Idle
    <3> HIDE DEF s
    <3>4. local'[t] = s
      BY <3>1 DEF TypeOK
    <3>5. Progress(t)
      BY <3>2, <3>3, <3>4, <3>a DEF Progress
    <3>6. QED BY <3>1, <3>5, <1>3
  <2>2. CASE SendDedup(t)
    BY <2>2, <1>1, <1>5, <1>6 DEF SendDedup, Steps
  <2>3. CASE SendInsert(t)
    BY <2>3, <1>5 DEF SendInsert
  <2>4. QED BY <1>10, <2>1, <2>2, <2>3 DEF Send
<1>11. ASSUME NEW t \in Receivers, Receive(t)
       PROVE  \A u \in Threads : Progress(u)
  <2>1. ASSUME NEW n \in PollQueues, ReceiveRequire(t, n)
        PROVE  \A u \in Threads : Progress(u)
    <3> DEFINE s == [Idle EXCEPT !.pc = "select", !.name = n, !.q = queues[n]]
    <3>1. local' = [local EXCEPT ![t] = s]
      BY <2>1 DEF ReceiveRequire
    <3>2. s.pc = "select" /\ s.name = n /\ s.q = queues[n]
      BY DEF Idle
    <3> HIDE DEF s
    <3>3. local'[t] = s
      BY <3>1 DEF TypeOK
    <3>4. Progress(t)
      BY <3>2, <3>3 DEF Progress
    <3>5. QED BY <3>1, <3>4, <1>3
  <2>2. CASE ReceiveSelect(t)
    BY <2>2, <1>2, <1>7, SelectFacts DEF Receiving
  <2>3. CASE ReceiveLease(t)
    BY <2>3, <1>2, <1>7, LeaseFacts DEF Receiving
  <2>4. CASE RedriveInsert(t)
    BY <2>4, <1>1, <1>6 DEF RedriveInsert, Steps
  <2>5. CASE RedriveInsertFails(t)
    BY <2>5, <1>1, <1>6 DEF RedriveInsertFails, Steps
  <2>6. CASE RedriveDelete(t)
    <3>1. PICK m \in Current(t) :
             local' = [local EXCEPT ![t].pc = "loop", ![t].todo = @ \ {m}]
      BY <2>6 DEF RedriveDelete
    <3>2. /\ local'[t].pc = "loop" /\ local'[t].name = local[t].name
          /\ local'[t].q = local[t].q
          /\ \A u \in Threads : u # t => local'[u] = local[u]
      BY <3>1, LocalType DEF TypeOK, LocalRecord
    <3>3. local[t].pc \in Receiving
      BY <2>6 DEF RedriveDelete, Receiving
    <3>4. QED BY <3>2, <3>3, <1>2, <1>7
  <2>7. CASE ReceiveReturn(t)
    BY <2>7, <1>5 DEF ReceiveReturn
  <2>8. QED BY <1>11, <2>1, <2>2, <2>3, <2>4, <2>5, <2>6, <2>7 DEF Receive, ReceiveStep
<1>12. ASSUME NEW t \in Ackers, Ack(t)
       PROVE  \A u \in Threads : Progress(u)
  <2>1. ASSUME NEW r \in held, DeleteMessageRequire(t, r)
        PROVE  \A u \in Threads : Progress(u)
    <3> DEFINE s == [Idle EXCEPT !.pc = "ack", !.receipt = r]
    <3>1. local' = [local EXCEPT ![t] = s]
      BY <2>1 DEF DeleteMessageRequire
    <3>2. s.pc = "ack"
      BY DEF Idle
    <3> HIDE DEF s
    <3>3. QED BY <3>1, <3>2, <1>1, <1>4
  <2>2. QED BY <1>12, <2>1, <1>5 DEF Ack, DeleteMessageDelete
<1>13. CASE Environment
  <2>1. ASSUME NEW h \in Handles, LeaseExpires(h)
        PROVE  \A u \in Threads : Progress(u)
    <3> SUFFICES ASSUME NEW u \in Threads PROVE Progress(u)
      OBVIOUS
    <3>1. /\ local'[u].pc = local[u].pc /\ local'[u].name = local[u].name
          /\ local'[u].q = local[u].q /\ local'[u].dedup = local[u].dedup
      BY <2>1, LocalType DEF LeaseExpires, LocalRecord
    <3>2. local[u].pc = "insert" => local[u].pc \in {"dedup", "insert"} /\ local[u].pc # "dedup"
      OBVIOUS
    <3>3. QED BY <3>1, <3>2 DEF Progress
  <2>2. CASE Crash
    <3>1. \A u \in Threads : local'[u].pc = "idle"
      BY <2>2 DEF Crash, Idle
    <3>2. "idle" \notin Receiving
      BY <1>1
    <3>3. QED BY <1>1, <3>1, <3>2 DEF Progress
  <2>3. QED BY <1>13, <1>2, <1>5, <2>1, <2>2 DEF Environment, Forget, WindowPasses, RequestFails
<1>14. QED BY <1>8, <1>9, <1>10, <1>11, <1>12, <1>13 DEF Next

(* A send or a receive under way works with the row its queue has.         *)
OwnQueueRow == \A t \in Threads : local[t].pc \in Serving => local[t].q = queues[local[t].name]

LEMMA OwnQueueRowKept ==
  ASSUME TypeOK, OwnQueueRow, [Next]_vars, UNCHANGED queues
  PROVE  OwnQueueRow'
<1>1. \A t \in Threads : Progress(t)
  BY StepProgresses
<1>2. QED BY <1>1 DEF OwnQueueRow, Progress

(* received_count counts: the column agrees with the deliveries, and so    *)
(* does what a receive read of it.                                         *)
CountsTrue ==
    \A i \in Ids : /\ Exists(i) => messages[i].count = grants[i]
                   /\ ~(i <= lastId) => grants[i] = 0

CandidateCounts ==
    \A t \in Threads : \A m \in local[t].todo : Exists(m.id) => m.count = messages[m.id].count

CountInv == OwnQueueRow /\ CountsTrue /\ CandidateCounts /\ DeliveriesBounded

LEMMA QuietKeepsCounts ==
  ASSUME TypeOK, TypeOK', Candidates, CountsTrue, CandidateCounts, DeliveriesBounded,
         QuietStep, UNCHANGED queues
  PROVE  CountsTrue' /\ CandidateCounts' /\ DeliveriesBounded'
<1>1. lastId \in Nat /\ lastId' \in Nat /\ lastId <= lastId' /\ grants' = grants
  BY DEF QuietStep
<1>2. \A i \in Ids : ~(i <= lastId') => ~(i <= lastId)
  BY <1>1 DEF Ids
<1>3. ASSUME NEW i \in Ids, Exists(i)'
      PROVE  \/ /\ i <= lastId /\ Exists(i)
                /\ messages'[i].queue = messages[i].queue
                /\ messages'[i].count = messages[i].count
             \/ /\ ~(i <= lastId)
                /\ messages'[i].count = 0
  BY <1>3 DEF QuietStep
<1>4. CountsTrue'
  BY <1>1, <1>2, <1>3 DEF CountsTrue
<1>5. CandidateCounts'
  <2> SUFFICES ASSUME NEW t \in Threads, NEW m \in local'[t].todo, Exists(m.id)'
               PROVE  m.count = messages'[m.id].count
    BY DEF CandidateCounts
  <2>1. m \in local[t].todo
    BY DEF QuietStep
  <2>2. m.id \in Ids /\ m.id <= lastId
    BY <2>1, CandidateType DEF Candidates
  <2>3. QED BY <1>3, <2>1, <2>2 DEF CandidateCounts
<1>6. DeliveriesBounded'
  <2> SUFFICES ASSUME NEW i \in Ids, Exists(i)',
                      NEW q, q = queues[messages'[i].queue],
                      q # NoQueue, q.dlq # NoName, q.max > 0
               PROVE  grants[i] <= q.max
    BY <1>1 DEF DeliveriesBounded
  <2>1. CASE i <= lastId
    BY <1>3, <2>1 DEF DeliveriesBounded
  <2>2. CASE ~(i <= lastId)
    <3>1. messages'[i].queue \in Queues
      BY DEF TypeOK, Row, Exists
    <3>2. q.max \in Int
      BY <3>1 DEF TypeOK, QueueRow
    <3>3. grants[i] = 0
      BY <2>2 DEF CountsTrue
    <3>4. QED BY <3>2, <3>3
  <2>3. QED BY <2>1, <2>2
<1>7. QED BY <1>4, <1>5, <1>6

LEMMA SelectKeepsCounts ==
  ASSUME TypeOK, CountsTrue, CandidateCounts, DeliveriesBounded, NEW t \in Receivers, ReceiveSelect(t)
  PROVE  CountsTrue' /\ CandidateCounts' /\ DeliveriesBounded'
<1>1. /\ UNCHANGED <<queues, messages, lastId, grants>>
      /\ \A u \in Threads : u # t => local'[u] = local[u]
      /\ \A m \in local'[t].todo : \E i \in Visible(local[t].name) : m = SnapshotOf(i)
  BY SelectFacts
<1>2. \A i \in Ids : SnapshotOf(i).id = i /\ SnapshotOf(i).count = messages[i].count
  BY DEF SnapshotOf
<1>3. \A m \in local'[t].todo : m.count = messages[m.id].count
  BY <1>1, <1>2 DEF Visible, InQueue
<1>4. CandidateCounts'
  BY <1>1, <1>3 DEF CandidateCounts, Exists
<1>5. QED BY <1>1, <1>4 DEF CountsTrue, DeliveriesBounded, Exists

LEMMA LeaseKeepsCounts ==
  ASSUME TypeOK, TypeOK', Candidates, CandidatesApart, OwnQueueRow,
         CountsTrue, CandidateCounts, DeliveriesBounded, NEW t \in Receivers, ReceiveLease(t)
  PROVE  CountsTrue' /\ CandidateCounts' /\ DeliveriesBounded'
<1> USE ThreadRoles
<1>1. PICK m \in local[t].todo, h \in NewHandles(t) :
         /\ m \in Snapshot /\ m.id \in Ids
         /\ ~Redrives(local[t].q, m)
         /\ UNCHANGED <<queues, lastId>>
         /\ local[t].pc = "loop"
         /\ local'[t].todo = local[t].todo \ {m}
         /\ \A u \in Threads : u # t => local'[u] = local[u]
         /\ \A i \in Ids : Exists(i)' => /\ Exists(i)
                                         /\ messages'[i].queue = messages[i].queue
                                         /\ i # m.id => messages'[i] = messages[i]
         /\ Exists(m.id)' => messages'[m.id].count = NewCount(m)
         /\ grants' = [grants EXCEPT ![m.id] = Sat(@ + 1)]
  BY LeaseFacts
<1>2. m.id <= lastId /\ (Exists(m.id) => messages[m.id].queue = local[t].name)
  BY DEF Candidates
<1>3. /\ grants'[m.id] = Sat(grants[m.id] + 1)
      /\ \A i \in Ids : i # m.id => grants'[i] = grants[i]
  BY <1>1 DEF TypeOK
<1>4. Exists(m.id) => NewCount(m) = Sat(grants[m.id] + 1)
  <2>1. Exists(m.id) => m.count = grants[m.id]
    BY <1>1 DEF CountsTrue, CandidateCounts
  <2>2. QED BY <2>1 DEF NewCount
<1>5. CountsTrue'
  BY <1>1, <1>2, <1>3, <1>4 DEF CountsTrue
<1>6. CandidateCounts'
  <2> SUFFICES ASSUME NEW u \in Threads, NEW o \in local'[u].todo, Exists(o.id)'
               PROVE  o.count = messages'[o.id].count
    BY DEF CandidateCounts
  <2>1. o \in local[u].todo /\ (u = t => o # m)
    BY <1>1
  <2>2. o.id # m.id
    BY <2>1 DEF CandidatesApart
  <2>3. o.id \in Ids
    BY <2>1, CandidateType
  <2>4. QED BY <1>1, <2>1, <2>2, <2>3 DEF CandidateCounts
<1>7. DeliveriesBounded'
  <2> SUFFICES ASSUME NEW i \in Ids, Exists(i)',
                      NEW q, q = queues[messages'[i].queue],
                      q # NoQueue, q.dlq # NoName, q.max > 0
               PROVE  grants'[i] <= q.max
    BY <1>1 DEF DeliveriesBounded
  <2>1. CASE i # m.id
    BY <1>1, <1>3, <2>1 DEF DeliveriesBounded
  <2>2. CASE i = m.id
    <3>1. Exists(m.id) /\ messages'[m.id].queue = local[t].name
      BY <1>1, <1>2, <2>2
    <3>2. q = local[t].q
      BY ZenonT(60), <1>1, <2>2, <3>1 DEF OwnQueueRow, Serving, Receiving
    <3>3. q.max \in Int /\ NewCount(m) \in Nat
      <4>1. q \in QueueRow
        BY ZenonT(60), <1>1, <3>2, LocalType DEF Assigned
      <4>2. m.count + 1 \in Nat
        BY <1>1 DEF Snapshot
      <4>3. QED BY <4>1, <4>2, SatType DEF QueueRow, NewCount
    <3>4. ~(q.dlq # NoName /\ q.max # 0 /\ NewCount(m) > q.max)
      BY <1>1, <3>2 DEF Redrives
    <3>5. NewCount(m) <= q.max
      BY <3>3, <3>4
    <3>6. QED BY <1>3, <1>4, <2>2, <3>1, <3>5
  <2>3. QED BY <2>1, <2>2
<1>8. QED BY <1>5, <1>6, <1>7

(* A message in a queue with a redrive policy is handed out at most        *)
(* max_receive_count times and then moved (sqs.py:11-12, 143-153), when    *)
(* receives of one queue do not overlap and queues stay as they are.       *)
THEOREM DeliveriesStayBounded ==
  Spec /\ []ReceivesApart /\ [][UNCHANGED queues]_vars => []DeliveriesBounded
<1>1. Init => CountInv
  <2> SUFFICES ASSUME Init PROVE CountInv
    OBVIOUS
  <2>1. Idle.pc \notin Serving /\ Idle.todo = {}
    BY DEF Idle, Serving, Receiving
  <2>2. \A t \in Threads : local[t].pc \notin Serving /\ local[t].todo = {}
    BY <2>1 DEF Init
  <2>3. \A i \in Ids : ~Exists(i) /\ grants[i] = 0
    BY DEF Init, Exists
  <2>4. QED BY <2>2, <2>3 DEF CountInv, OwnQueueRow, CountsTrue, CandidateCounts, DeliveriesBounded
<1>2. /\ TypeOK /\ TypeOK' /\ ReceiptInv /\ ApartInv /\ CountInv
      /\ [Next]_vars /\ [UNCHANGED queues]_vars
      => CountInv'
  <2> SUFFICES ASSUME TypeOK, TypeOK', ReceiptInv, ApartInv, CountInv, [Next]_vars,
                      [UNCHANGED queues]_vars
               PROVE  CountInv'
    OBVIOUS
  <2>1. /\ IdsUsed /\ Candidates /\ LiveIsHidden /\ CandidatesApart
        /\ OwnQueueRow /\ CountsTrue /\ CandidateCounts /\ DeliveriesBounded
    BY DEF ReceiptInv, ApartInv, CountInv
  <2>2. UNCHANGED queues
    BY DEF vars
  <2>3. OwnQueueRow'
    BY <2>1, <2>2, OwnQueueRowKept
  <2>4. QuietStep \/ \E t \in Receivers : ReceiveSelect(t) \/ ReceiveLease(t)
    BY <2>1, StepIsQuiet
  <2>5. CountsTrue' /\ CandidateCounts' /\ DeliveriesBounded'
    BY <2>1, <2>2, <2>4, QuietKeepsCounts, SelectKeepsCounts, LeaseKeepsCounts
  <2>6. QED BY <2>3, <2>5 DEF CountInv
<1>3. CountInv => DeliveriesBounded
  BY DEF CountInv
<1>4. QED BY <1>1, <1>2, <1>3, TypeCorrect, ReceiptInvHolds, ApartInvHolds, PTL DEF Spec

(* Deduplication is one SELECT and one INSERT later: SendsApart says that  *)
(* no two sends with one deduplication id are between them together, and   *)
(* NoFifoDlq that no redrive puts a copy into a FIFO queue.                *)
SendsApart ==
    \A t, u \in Threads :
        /\ local[t].pc = "insert"
        /\ local[u].pc = "insert"
        /\ local[t].q.fifo
        /\ local[t].name = local[u].name
        /\ local[t].dedup = local[u].dedup
        /\ local[t].dedup # NoDedup
        => t = u

NoFifoDlq ==
    \A n, k \in Queues :
        queues[k] # NoQueue /\ queues[k].dlq = n /\ queues[n] # NoQueue => ~queues[n].fifo

(* A send that is about to INSERT duplicates nothing.                      *)
NoDuplicateYet ==
    \A t \in Threads, n \in Queues, d \in DedupIds :
        local[t].pc = "insert" /\ local[t].q.fifo /\ local[t].name = n /\ local[t].dedup = d
        => Duplicates(n, d) = {}

DedupInv == OwnQueueRow /\ NoDuplicateYet /\ NoRecentDuplicate

(* Rows stay in their queue with their deduplication id or go, and windows *)
(* only pass.                                                              *)
NoNewRow ==
    /\ \A i \in Ids : Exists(i)' => /\ Exists(i)
                                    /\ messages'[i].queue = messages[i].queue
                                    /\ messages'[i].dedup = messages[i].dedup
    /\ inWindow' \subseteq inWindow

SendsRow(t) == local[t].pc = "insert" /\ Insert(local[t].name, lastId + 1, local[t].dedup) /\ Return(t)

RedrivesRow(t) ==
    /\ local[t].pc = "loop"
    /\ Goto(t, "redrive delete")
    /\ \E m \in local[t].todo : local[t].q.dlq # NoName /\ Insert(local[t].q.dlq, m.body, m.dedup)

LEMMA StepAddsRow ==
  ASSUME TypeOK, [Next]_vars
  PROVE  NoNewRow \/ \E t \in Threads : SendsRow(t) \/ RedrivesRow(t)
<1> USE ThreadRoles
<1>1. \A S : \A i \in Ids : Without(S)[i] # NoRow => Exists(i) /\ Without(S)[i] = messages[i]
  BY DEF Without, Exists
<1>2. ASSUME NEW S, messages' = Without(S), inWindow' = inWindow
      PROVE  NoNewRow
  BY <1>1, <1>2 DEF NoNewRow, Exists
<1>3. ASSUME messages' = messages, inWindow' \subseteq inWindow
      PROVE  NoNewRow
  BY <1>3 DEF NoNewRow, Exists
<1>4. CASE UNCHANGED vars
  BY <1>3, <1>4 DEF vars
<1>5. ASSUME NEW t \in Admins, Admin(t)
      PROVE  NoNewRow
  BY <1>2, <1>3, <1>5
  DEF Admin, CreateQueueCheck, CreateQueueCheckDlq, CreateQueueInsert, DeleteQueueRequire,
      DeleteQueuePurge, DeleteQueueDrop, db
<1>6. ASSUME NEW t \in Senders, Send(t)
      PROVE  NoNewRow \/ SendsRow(t)
  BY <1>3, <1>6 DEF Send, SendRequire, SendDedup, SendInsert, SendsRow, db
<1>7. ASSUME NEW t \in Receivers, Receive(t)
      PROVE  NoNewRow \/ RedrivesRow(t)
  <2>1. CASE ReceiveLease(t)
    BY <2>1, LeaseFacts DEF NoNewRow
  <2>2. CASE RedriveInsert(t)
    BY <2>2 DEF RedriveInsert, RedrivesRow, Redrives, Current
  <2>3. CASE RedriveDelete(t)
    BY <2>3, <1>2 DEF RedriveDelete
  <2>4. QED BY <1>3, <1>7, <2>1, <2>2, <2>3
            DEF Receive, ReceiveStep, ReceiveRequire, ReceiveSelect, RedriveInsertFails,
                ReceiveReturn, db
<1>8. ASSUME NEW t \in Ackers, Ack(t)
      PROVE  NoNewRow
  BY <1>2, <1>3, <1>8 DEF Ack, DeleteMessageRequire, DeleteMessageDelete, db
<1>9. CASE Environment
  <2>1. ASSUME NEW h \in Handles, LeaseExpires(h)
        PROVE  NoNewRow
    <3>1. \A row \in Row : /\ [row EXCEPT !.hidden = FALSE].queue = row.queue
                           /\ [row EXCEPT !.hidden = FALSE].dedup = row.dedup
      BY DEF Row
    <3>2. QED BY <2>1, <3>1, RowType DEF LeaseExpires, NoNewRow, Exists
  <2>2. QED BY <1>3, <1>9, <2>1 DEF Environment, Forget, WindowPasses, RequestFails, Crash, db
<1>10. QED BY <1>4, <1>5, <1>6, <1>7, <1>8, <1>9 DEF Next

(* What a send that is about to INSERT has not found before the step it    *)
(* will not find after it, unless the step inserts it.                     *)
LEMMA NoNewRowKeepsDedup ==
  ASSUME TypeOK, NoDuplicateYet, NoRecentDuplicate, NoNewRow, [Next]_vars, UNCHANGED queues
  PROVE  NoDuplicateYet' /\ NoRecentDuplicate'
<1>1. ASSUME NEW n, NEW d, Duplicates(n, d) = {}
      PROVE  Duplicates(n, d)' = {}
  BY <1>1 DEF Duplicates, InQueue, NoNewRow
<1>2. NoDuplicateYet'
  <2> SUFFICES ASSUME NEW t \in Threads, NEW n \in Queues, NEW d \in DedupIds,
                      local'[t].pc = "insert", local'[t].q.fifo,
                      local'[t].name = n, local'[t].dedup = d
               PROVE  Duplicates(n, d)' = {}
    BY DEF NoDuplicateYet
  <2>1. Progress(t)
    BY StepProgresses
  <2>2. Duplicates(n, d) = {}
    BY <2>1, NamesAssumption DEF Progress, NoDuplicateYet
  <2>3. QED BY <1>1, <2>2
<1>3. NoRecentDuplicate'
  BY DEF NoRecentDuplicate, InQueue, NoNewRow
<1>4. QED BY <1>2, <1>3

(* The INSERT of a send: its message is the only one with its id, and no   *)
(* other send is about to insert the same.                                 *)
LEMMA SendKeepsDedup ==
  ASSUME TypeOK, IdsUsed, OwnQueueRow, NoDuplicateYet, NoRecentDuplicate, SendsApart,
         UNCHANGED queues, NEW t \in Threads, SendsRow(t)
  PROVE  NoDuplicateYet' /\ NoRecentDuplicate'
<1>1. /\ local[t].pc = "insert" /\ local[t].name \in Queues
      /\ local[t].dedup \in DedupIds \cup {NoDedup} /\ local[t].q \in QueueRow
  BY LocalType DEF SendsRow, LocalRecord, Assigned
<1>2. PICK n \in Queues, d \in DedupIds \cup {NoDedup} :
         /\ n = local[t].name /\ d = local[t].dedup
         /\ Insert(n, lastId + 1, d)
  BY <1>1 DEF SendsRow
<1>3. lastId + 1 \in Ids
  BY <1>2, ConfigAssumption DEF Insert, TypeOK, Ids
<1>4. /\ lastId \in Nat /\ lastId' = lastId + 1 /\ lastId' \in Ids
      /\ \A i \in Ids : Exists(i) => Exists(i)' /\ messages'[i] = messages[i]
      /\ \A i \in Ids : Exists(i)' => Exists(i) \/ i = lastId'
  BY <1>2, <1>3, InsertFacts
<1>5. messages'[lastId'].queue = n /\ messages'[lastId'].dedup = d
  <2> DEFINE row == [queue |-> n, body |-> lastId + 1, dedup |-> d, handle |-> NoHandle,
                     hidden |-> FALSE, count |-> 0]
  <2>1. row.queue = n /\ row.dedup = d
    OBVIOUS
  <2>2. messages' = [messages EXCEPT ![lastId'] = row]
    BY <1>2 DEF Insert
  <2> HIDE DEF row
  <2>3. QED BY <1>4, <2>1, <2>2 DEF TypeOK
<1>6. inWindow' \subseteq inWindow \cup {lastId'} /\ (d = NoDedup => inWindow' = inWindow)
  BY <1>2 DEF Insert
<1>7. /\ local'[t].pc = "idle"
      /\ \A u \in Threads : u # t => local'[u] = local[u]
  BY DEF SendsRow, Return, Idle, TypeOK
<1>8. local[t].q = queues[n]
  BY <1>1, <1>2 DEF OwnQueueRow, Serving
<1>9. NoDuplicateYet'
  <2> SUFFICES ASSUME NEW u \in Threads, NEW k \in Queues, NEW e \in DedupIds,
                      local'[u].pc = "insert", local'[u].q.fifo,
                      local'[u].name = k, local'[u].dedup = e
               PROVE  Duplicates(k, e)' = {}
    BY DEF NoDuplicateYet
  <2>1. u # t /\ local'[u] = local[u]
    BY <1>7
  <2>2. Duplicates(k, e) = {} /\ e # NoDedup
    BY <2>1, NamesAssumption DEF NoDuplicateYet
  <2>3. ~(k = n /\ e = d)
    BY <1>1, <1>2, <2>1, <2>2 DEF SendsApart
  <2>4. ASSUME NEW i \in Ids, Exists(i)', messages'[i].queue = k, messages'[i].dedup = e,
               i \in inWindow'
        PROVE  FALSE
    <3>1. i # lastId'
      BY <1>5, <2>3, <2>4
    <3>2. Exists(i) /\ messages'[i] = messages[i] /\ i \in inWindow
      BY <1>4, <1>6, <2>4, <3>1
    <3>3. QED BY <2>2, <2>4, <3>2 DEF Duplicates, InQueue
  <2>5. QED BY <2>4 DEF Duplicates, InQueue
<1>10. NoRecentDuplicate'
  <2>1. ASSUME NEW i \in Ids, NEW j \in Ids, NEW k \in Queues,
               queues[k].fifo,
               Exists(i)', messages'[i].queue = k, i \in inWindow',
               Exists(j)', messages'[j].queue = k, j \in inWindow',
               messages'[i].dedup = messages'[j].dedup,
               messages'[i].dedup # NoDedup,
               i # lastId'
        PROVE  j # lastId'
    <3> SUFFICES ASSUME j = lastId' PROVE FALSE
      OBVIOUS
    <3>1. k = n /\ d # NoDedup /\ messages'[i].dedup = d
      BY <1>5, <2>1
    <3>2. Exists(i) /\ messages'[i] = messages[i] /\ i \in inWindow
      BY <1>4, <1>6, <2>1
    <3>3. Duplicates(n, d) = {}
      BY <1>1, <1>2, <1>8, <2>1, <3>1 DEF NoDuplicateYet
    <3>4. QED BY <2>1, <3>1, <3>2, <3>3 DEF Duplicates, InQueue
  <2>2. ASSUME NEW k \in Queues, NEW i \in Ids, NEW j \in Ids,
               queues[k] # NoQueue, queues[k].fifo,
               Exists(i)', messages'[i].queue = k, i \in inWindow',
               Exists(j)', messages'[j].queue = k, j \in inWindow',
               messages'[i].dedup = messages'[j].dedup,
               messages'[i].dedup # NoDedup
        PROVE  i = j
    <3>1. CASE i = lastId'
      BY <2>1, <2>2, <3>1
    <3>2. CASE i # lastId'
      <4>1. j # lastId'
        BY <2>1, <2>2, <3>2
      <4>2. /\ Exists(i) /\ messages'[i] = messages[i] /\ i \in inWindow
            /\ Exists(j) /\ messages'[j] = messages[j] /\ j \in inWindow
        BY <1>4, <1>6, <2>2, <3>2, <4>1
      <4>3. QED BY <2>2, <4>2 DEF NoRecentDuplicate, InQueue
    <3>3. QED BY <3>1, <3>2
  <2>3. QED BY <2>2 DEF NoRecentDuplicate, InQueue
<1>11. QED BY <1>9, <1>10

(* The INSERT of a redrive: not into a FIFO queue.                         *)
LEMMA RedriveKeepsDedup ==
  ASSUME TypeOK, IdsUsed, OwnQueueRow, NoDuplicateYet, NoRecentDuplicate, NoFifoDlq,
         UNCHANGED queues, NEW t \in Threads, RedrivesRow(t)
  PROVE  NoDuplicateYet' /\ NoRecentDuplicate'
<1>1. PICK m \in local[t].todo : local[t].q.dlq # NoName /\ Insert(local[t].q.dlq, m.body, m.dedup)
  BY DEF RedrivesRow
<1>2. /\ local[t].pc = "loop" /\ local[t].name \in Queues /\ local[t].q \in QueueRow
      /\ local[t].q = queues[local[t].name]
  BY LocalType DEF RedrivesRow, LocalRecord, Assigned, OwnQueueRow, Serving, Receiving
<1>3. m.body \in Ids /\ m.dedup \in DedupIds \cup {NoDedup}
  BY CandidateType DEF Snapshot
<1>4. PICK n \in Queues : n = local[t].q.dlq /\ Insert(n, m.body, m.dedup)
  BY <1>1, <1>2 DEF QueueRow
<1>5. /\ lastId' \in Ids
      /\ \A i \in Ids : Exists(i) => Exists(i)' /\ messages'[i] = messages[i]
      /\ \A i \in Ids : Exists(i)' => Exists(i) \/ i = lastId'
  BY <1>3, <1>4, InsertFacts
<1>6. messages'[lastId'].queue = n
  <2> DEFINE row == [queue |-> n, body |-> m.body, dedup |-> m.dedup, handle |-> NoHandle,
                     hidden |-> FALSE, count |-> 0]
  <2>1. row.queue = n
    OBVIOUS
  <2>2. messages' = [messages EXCEPT ![lastId'] = row]
    BY <1>4 DEF Insert
  <2> HIDE DEF row
  <2>3. QED BY <1>5, <2>1, <2>2 DEF TypeOK
<1>7. inWindow' \subseteq inWindow \cup {lastId'}
  BY <1>4 DEF Insert
<1>8. ASSUME NEW k \in Queues, queues[k] # NoQueue, queues[k].fifo
      PROVE  k # n
  BY <1>2, <1>4, <1>8, NamesAssumption DEF NoFifoDlq
<1>9. ASSUME NEW i \in Ids, NEW k \in Queues, k # n,
             Exists(i)', messages'[i].queue = k, i \in inWindow'
      PROVE  Exists(i) /\ messages'[i] = messages[i] /\ i \in inWindow
  BY <1>5, <1>6, <1>7, <1>9
<1>10. NoDuplicateYet'
  <2> SUFFICES ASSUME NEW u \in Threads, NEW k \in Queues, NEW e \in DedupIds,
                      local'[u].pc = "insert", local'[u].q.fifo,
                      local'[u].name = k, local'[u].dedup = e
               PROVE  Duplicates(k, e)' = {}
    BY DEF NoDuplicateYet
  <2>1. /\ local[u].pc = "insert" /\ local[u].q = local'[u].q
        /\ local[u].name = k /\ local[u].dedup = e
    <3>1. u # t
      BY LocalType DEF RedrivesRow, Goto, TypeOK, LocalRecord
    <3>2. local'[u] = local[u]
      BY <3>1 DEF RedrivesRow, Goto, TypeOK
    <3>3. QED BY <3>2
  <2>2. Duplicates(k, e) = {}
    BY <2>1 DEF NoDuplicateYet
  <2>3. k # n
    <3>1. local[u].q = queues[k] /\ local[u].q \in QueueRow
      BY <2>1, LocalType DEF OwnQueueRow, Serving, Assigned
    <3>2. QED BY <1>8, <2>1, <3>1, NamesAssumption
  <2>4. QED BY <1>9, <2>2, <2>3 DEF Duplicates, InQueue
<1>11. NoRecentDuplicate'
  <2>1. ASSUME NEW k \in Queues, NEW i \in Ids, NEW j \in Ids,
               queues[k] # NoQueue, queues[k].fifo,
               Exists(i)', messages'[i].queue = k, i \in inWindow',
               Exists(j)', messages'[j].queue = k, j \in inWindow',
               messages'[i].dedup = messages'[j].dedup,
               messages'[i].dedup # NoDedup
        PROVE  i = j
    <3>1. /\ Exists(i) /\ messages'[i] = messages[i] /\ i \in inWindow
          /\ Exists(j) /\ messages'[j] = messages[j] /\ j \in inWindow
      BY <1>8, <1>9, <2>1
    <3>2. QED BY <2>1, <3>1 DEF NoRecentDuplicate, InQueue
  <2>2. QED BY <2>1 DEF NoRecentDuplicate, InQueue
<1>12. QED BY <1>10, <1>11

(* A FIFO queue never holds two messages of one deduplication id within    *)
(* its window (sqs.py:99-109), when no two sends of that id are between    *)
(* the SELECT for an earlier message and the INSERT together and no FIFO   *)
(* queue is the dead-letter queue of another: without the second, a        *)
(* redrive copies a message past the check (sqs.py:171-187).               *)
THEOREM NoDuplicates ==
  Spec /\ []SendsApart /\ []NoFifoDlq /\ [][UNCHANGED queues]_vars => []NoRecentDuplicate
<1>1. Init => DedupInv
  <2> SUFFICES ASSUME Init PROVE DedupInv
    OBVIOUS
  <2>1. Idle.pc \notin Serving /\ Idle.pc # "insert"
    BY DEF Idle, Serving, Receiving
  <2>2. \A t \in Threads : local[t].pc \notin Serving /\ local[t].pc # "insert"
    BY <2>1 DEF Init
  <2>3. inWindow = {}
    BY DEF Init
  <2>4. QED BY <2>2, <2>3 DEF DedupInv, OwnQueueRow, NoDuplicateYet, NoRecentDuplicate
<1>2. /\ TypeOK /\ ReceiptInv /\ SendsApart /\ NoFifoDlq /\ DedupInv
      /\ [Next]_vars /\ [UNCHANGED queues]_vars
      => DedupInv'
  <2> SUFFICES ASSUME TypeOK, ReceiptInv, SendsApart, NoFifoDlq, DedupInv, [Next]_vars,
                      [UNCHANGED queues]_vars
               PROVE  DedupInv'
    OBVIOUS
  <2>1. IdsUsed /\ OwnQueueRow /\ NoDuplicateYet /\ NoRecentDuplicate
    BY DEF ReceiptInv, DedupInv
  <2>2. UNCHANGED queues
    BY DEF vars
  <2>3. OwnQueueRow'
    BY <2>1, <2>2, OwnQueueRowKept
  <2>4. NoNewRow \/ \E t \in Threads : SendsRow(t) \/ RedrivesRow(t)
    BY StepAddsRow
  <2>5. NoDuplicateYet' /\ NoRecentDuplicate'
    BY <2>1, <2>2, <2>4, NoNewRowKeepsDedup, SendKeepsDedup, RedriveKeepsDedup
  <2>6. QED BY <2>3, <2>5 DEF DedupInv
<1>3. DedupInv => NoRecentDuplicate
  BY DEF DedupInv
<1>4. QED BY <1>1, <1>2, <1>3, TypeCorrect, ReceiptInvHolds, PTL DEF Spec

(* Only receivers receive and only senders send.                           *)
Roles ==
    \A t \in Threads : /\ local[t].pc \in Receiving => t \in Receivers
                       /\ local[t].pc \in {"dedup", "insert"} => t \in Senders

LEMMA RolesHold == Spec => []Roles
<1>1. Init => Roles
  <2>1. Idle.pc \notin Receiving /\ Idle.pc \notin {"dedup", "insert"}
    BY DEF Idle, Receiving
  <2>2. QED BY <2>1 DEF Init, Roles
<1>2. TypeOK /\ Roles /\ [Next]_vars => Roles'
  <2> SUFFICES ASSUME TypeOK, Roles, [Next]_vars, NEW t \in Threads
               PROVE  /\ local'[t].pc \in Receiving => t \in Receivers
                      /\ local'[t].pc \in {"dedup", "insert"} => t \in Senders
    BY DEF Roles
  <2>1. Progress(t)
    BY StepProgresses
  <2>2. QED BY <2>1 DEF Progress, Roles
<1>3. QED BY <1>1, <1>2, TypeCorrect, PTL DEF Spec

(* ReceivesApart is met, whatever the requests are, by a server that runs  *)
(* one receive_messages at a time (sqs.py:128-156).                        *)
THEOREM OneReceiverIsApart ==
  ASSUME \A t, u \in Receivers : t = u
  PROVE  Spec => []ReceivesApart
<1>1. Roles => ReceivesApart
  BY DEF Roles, ReceivesApart
<1>2. QED BY <1>1, RolesHold, PTL

(* The same for sends: one sender thread at a time checks for an earlier   *)
(* message and inserts (sqs.py:99-125).                                    *)
THEOREM OneSenderIsApart ==
  ASSUME \A t, u \in Senders : t = u
  PROVE  Spec => []SendsApart
<1>1. Roles => SendsApart
  BY DEF Roles, SendsApart
<1>2. QED BY <1>1, RolesHold, PTL

-----------------------------------------------------------------------------
(***************************************************************************)
(* An event source is a client of SQS: each of its steps is one of SQS, or *)
(* changes nothing there.  What is proved of SQS holds with it.            *)
(***************************************************************************)

LEMMA PollerRoles == Pollers \subseteq Receivers /\ Pollers \subseteq Ackers /\ Pollers \subseteq Threads
  BY PollersAssumption DEF Threads

LEMMA StepIsSQS == [EventSourceNext]_allvars => [Next]_vars
<1> SUFFICES ASSUME [EventSourceNext]_allvars PROVE [Next]_vars
  OBVIOUS
<1> USE PollerRoles
<1>1. CASE UNCHANGED allvars
  BY <1>1 DEF allvars
<1>2. ASSUME NEW t \in Pollers, Serve(t)
      PROVE  [Next]_vars
  <2>1. CASE PollReceive(t)
    BY <2>1 DEF PollReceive, Next, Receive, ReceiveStep
  <2>2. CASE PollReturn(t)
    BY <2>2 DEF PollReturn, Next, Receive, ReceiveStep
  <2>3. CASE InvokeReturns(t) \/ InvokeRaises(t)
    BY <2>3 DEF InvokeReturns, InvokeRaises
  <2>4. CASE PollDelete(t)
    BY <2>4 DEF PollDelete, First, Batch, Next, Ack
  <2>5. CASE PollDeleted(t)
    BY <2>5 DEF PollDeleted, Next, Ack
  <2>. QED BY <1>2, <2>1, <2>2, <2>3, <2>4, <2>5 DEF Serve
<1>3. ASSUME NEW t \in Pollers, PollFails(t)
      PROVE  [Next]_vars
  BY <1>3 DEF PollFails, Next, Environment
<1>4. ASSUME NEW t \in Pollers, NEW n \in PollQueues, Poll(t, n)
      PROVE  [Next]_vars
  BY <1>4 DEF Poll, Next, Receive
<1>5. ASSUME NEW r \in held, Drop(r)
      PROVE  [Next]_vars
  BY <1>5 DEF Drop, Next, Environment
<1>6. CASE ClientStep
  BY <1>6 DEF ClientStep, Client, Next, Ack, Environment
<1>7. CASE Tick \/ Restart
  BY <1>7 DEF Tick, Restart, Next, Environment
<1>. QED BY <1>1, <1>2, <1>3, <1>4, <1>5, <1>6, <1>7 DEF EventSourceNext

(* lambdas.py:427-450: whatever else it does, a thread that serves         *)
(* invoke_from_sqs uses the queue as its other clients do.                 *)
THEOREM ClientOfSQS == EventSourceSpec => Spec
<1>1. EventSourceInit => Init
  BY DEF EventSourceInit
<1>. QED BY <1>1, StepIsSQS, PTL DEF EventSourceSpec, Spec

(***************************************************************************)
(* What a step of SQS does to rows, receipts and threads.                  *)
(***************************************************************************)

HeldHandles == {r.handle : r \in held}

(* A row with a handle of a receipt had it before, and its body. *)
RowsKept(B) ==
    \A i \in Ids : Exists(i)' /\ messages'[i].handle \in B =>
        /\ Exists(i)
        /\ messages[i].handle = messages'[i].handle
        /\ messages[i].body = messages'[i].body

LEMMA DeletedRows ==
  ASSUME NEW S, messages' = Without(S), NEW B
  PROVE  RowsKept(B)
  BY DEF RowsKept, Without, Exists

LEMMA SameRowsKept ==
  ASSUME messages' = messages, NEW B
  PROVE  RowsKept(B)
  BY DEF RowsKept, Exists

LEMMA InsertedRows ==
  ASSUME TypeOK, NEW n, NEW b, NEW d, Insert(n, b, d), NEW B \in SUBSET Handles
  PROVE  RowsKept(B)
<1>1. \A i \in Ids : i # lastId' => messages'[i] = messages[i]
  BY DEF Insert, TypeOK
<1>2. \A i \in Ids : i = lastId' => messages'[i].handle = NoHandle
  BY DEF Insert, TypeOK
<1>. QED BY <1>1, <1>2, NamesAssumption DEF RowsKept, Exists

LEMMA LeasedRows ==
  ASSUME TypeOK, NEW t \in Receivers, ReceiveLease(t)
  PROVE  RowsKept(HeldHandles)
<1>1. PICK m \in Current(t), h \in NewHandles(t) :
        messages' = IF Exists(m.id)
                    THEN [messages EXCEPT ![m.id].handle = h, ![m.id].hidden = TRUE,
                                          ![m.id].count = NewCount(m)]
                    ELSE messages
  BY DEF ReceiveLease
<1>2. h \notin HeldHandles
  BY DEF NewHandles, UsedHandles, Receipts, HeldHandles
<1>3. ASSUME NEW i \in Ids, Exists(i)', messages'[i].handle \in HeldHandles
      PROVE  messages'[i] = messages[i]
  <2>1. CASE Exists(m.id) /\ i = m.id
    <3>1. messages[i] \in Row /\ messages \in [Ids -> Row \cup {NoRow}]
      BY <2>1, RowType DEF TypeOK
    <3>2. messages'[i] = [messages[i] EXCEPT !.handle = h, !.hidden = TRUE, !.count = NewCount(m)]
      BY <1>1, <2>1, <3>1
    <3>3. messages'[i].handle = h
      BY <3>1, <3>2 DEF Row
    <3>. QED BY <1>2, <1>3, <3>3
  <2>2. CASE ~(Exists(m.id) /\ i = m.id)
    BY <1>1, <2>2 DEF TypeOK
  <2>. QED BY <2>1, <2>2
<1>. QED BY <1>3 DEF RowsKept, Exists

LEMMA ExpiredRows ==
  ASSUME TypeOK, NEW h \in Handles, LeaseExpires(h), NEW B
  PROVE  RowsKept(B)
<1>1. ASSUME NEW i \in Ids, Exists(i)', messages'[i].handle \in B
      PROVE  /\ Exists(i)
             /\ messages[i].handle = messages'[i].handle
             /\ messages[i].body = messages'[i].body
  <2>1. Exists(i)
    BY <1>1 DEF LeaseExpires, Exists
  <2>2. messages[i] \in Row
    BY <2>1, RowType
  <2>3. \/ messages'[i] = messages[i]
        \/ messages'[i] = [messages[i] EXCEPT !.hidden = FALSE]
    BY DEF LeaseExpires
  <2>. QED BY <2>1, <2>2, <2>3 DEF Row
<1>. QED BY <1>1 DEF RowsKept

LEMMA HeldInHandles == ASSUME TypeOK PROVE HeldHandles \in SUBSET Handles
  BY DEF TypeOK, HeldHandles, Receipt

LEMMA StepKeepsRows ==
  ASSUME TypeOK, [Next]_vars
  PROVE  RowsKept(HeldHandles)
<1> USE ThreadRoles, HeldInHandles
<1>1. CASE messages' = messages
  BY <1>1, SameRowsKept
<1>2. ASSUME NEW t \in Threads, DeleteQueuePurge(t)
      PROVE  RowsKept(HeldHandles)
  BY <1>2, DeletedRows DEF DeleteQueuePurge
<1>3. ASSUME NEW t \in Threads, SendInsert(t)
      PROVE  RowsKept(HeldHandles)
  BY <1>3, InsertedRows DEF SendInsert
<1>4. ASSUME NEW t \in Threads, RedriveInsert(t)
      PROVE  RowsKept(HeldHandles)
  BY <1>4, InsertedRows DEF RedriveInsert
<1>5. ASSUME NEW t \in Threads, RedriveDelete(t)
      PROVE  RowsKept(HeldHandles)
  BY <1>5, DeletedRows DEF RedriveDelete
<1>6. ASSUME NEW t \in Threads, DeleteMessageDelete(t)
      PROVE  RowsKept(HeldHandles)
  BY <1>6, DeletedRows DEF DeleteMessageDelete
<1>7. CASE UNCHANGED vars
  BY <1>1, <1>7 DEF vars
<1>8. CASE \E t \in Admins : Admin(t)
  BY <1>1, <1>2, <1>8 DEF Admin, CreateQueueCheck, CreateQueueCheckDlq, CreateQueueInsert,
       DeleteQueueRequire, DeleteQueueDrop, db
<1>9. CASE \E t \in Senders : Send(t)
  BY <1>1, <1>3, <1>9 DEF Send, SendRequire, SendDedup, db
<1>10. CASE \E t \in Receivers : Receive(t)
  BY <1>1, <1>4, <1>5, <1>10, LeasedRows
  DEF Receive, ReceiveStep, ReceiveRequire, ReceiveSelect, RedriveInsertFails, ReceiveReturn, db
<1>11. CASE \E t \in Ackers : Ack(t)
  BY <1>1, <1>6, <1>11 DEF Ack, DeleteMessageRequire, db
<1>12. CASE Environment
  BY <1>1, <1>12, ExpiredRows DEF Environment, Forget, WindowPasses, RequestFails, Crash, db
<1>. QED BY <1>7, <1>8, <1>9, <1>10, <1>11, <1>12 DEF Next

(* What a thread does besides accepting a delete_message.                  *)
ThreadStep(t) ==
    \/ Admin(t) \/ Send(t) \/ Receive(t)
    \/ DeleteMessageDelete(t) \/ RequestFails(t)

LEMMA ThreadStepFacts ==
  ASSUME TypeOK, NEW t \in Threads, ThreadStep(t)
  PROVE  /\ held \subseteq held'
         /\ \A u \in Threads : u # t => local'[u] = local[u]
         /\ local'[t].pc # "ack"
<1> DEFINE Goal == /\ held \subseteq held'
                   /\ \A u \in Threads : u # t => local'[u] = local[u]
                   /\ local'[t].pc # "ack"
<1>1. local \in [Threads -> LocalState] /\ local[t] \in LocalRecord
  BY LocalType DEF TypeOK
<1>2. ASSUME Return(t), held \subseteq held'
      PROVE  Goal
  BY <1>1, <1>2 DEF Return, Idle
<1>3. ASSUME NEW step, step # "ack", Goto(t, step), held \subseteq held'
      PROVE  Goal
  BY <1>1, <1>3 DEF Goto, LocalRecord
<1>4. CASE Admin(t)
  <2>1. CASE \E n \in Queues, c \in Configs : CreateQueueCheck(t, n, c)
    BY <1>1, <2>1 DEF CreateQueueCheck, Idle
  <2>2. CASE CreateQueueCheckDlq(t)
    BY <1>2, <1>3, <2>2 DEF CreateQueueCheckDlq
  <2>3. CASE CreateQueueInsert(t)
    BY <1>2, <2>3 DEF CreateQueueInsert
  <2>4. CASE \E n \in Queues : DeleteQueueRequire(t, n)
    BY <1>1, <2>4 DEF DeleteQueueRequire, Idle
  <2>5. CASE DeleteQueuePurge(t)
    BY <1>3, <2>5 DEF DeleteQueuePurge
  <2>6. CASE DeleteQueueDrop(t)
    BY <1>2, <2>6 DEF DeleteQueueDrop
  <2>. QED BY <1>4, <2>1, <2>2, <2>3, <2>4, <2>5, <2>6 DEF Admin
<1>5. CASE Send(t)
  <2>1. CASE \E n \in SendQueues, d \in DedupIds \cup {NoDedup} : SendRequire(t, n, d)
    BY <1>1, <2>1 DEF SendRequire, Idle
  <2>2. CASE SendDedup(t)
    BY <1>2, <1>3, <2>2 DEF SendDedup
  <2>3. CASE SendInsert(t)
    BY <1>2, <2>3 DEF SendInsert
  <2>. QED BY <1>5, <2>1, <2>2, <2>3 DEF Send
<1>6. CASE Receive(t)
  <2>1. CASE \E n \in PollQueues : ReceiveRequire(t, n)
    BY <1>1, <2>1 DEF ReceiveRequire, Idle
  <2>2. CASE ReceiveSelect(t)
    BY <1>1, <2>2 DEF ReceiveSelect, LocalRecord
  <2>3. CASE ReceiveLease(t)
    BY <1>1, <2>3 DEF ReceiveLease, LocalRecord
  <2>4. CASE RedriveInsert(t)
    BY <1>3, <2>4 DEF RedriveInsert
  <2>5. CASE RedriveInsertFails(t)
    BY <1>3, <2>5 DEF RedriveInsertFails
  <2>6. CASE RedriveDelete(t)
    BY <1>1, <2>6 DEF RedriveDelete, LocalRecord
  <2>7. CASE ReceiveReturn(t)
    BY <1>2, <2>7 DEF ReceiveReturn
  <2>. QED BY <1>6, <2>1, <2>2, <2>3, <2>4, <2>5, <2>6, <2>7 DEF Receive, ReceiveStep
<1>7. CASE DeleteMessageDelete(t)
  BY <1>2, <1>7 DEF DeleteMessageDelete
<1>8. CASE RequestFails(t)
  BY <1>2, <1>8 DEF RequestFails
<1>. QED BY <1>4, <1>5, <1>6, <1>7, <1>8 DEF ThreadStep

(***************************************************************************)
(* LeftOnlyIfHandled follows from NoMessageLost if what was settled was    *)
(* handled or discarded.  That needs, of a poller that deletes, that the   *)
(* rows its receipts name are those the invocation saw: HandledRows.       *)
(***************************************************************************)

SettledSeen == settled \subseteq handled \cup discarded

BatchHeld == \A t \in Pollers : polls[t].batch \subseteq HeldHandles

HandledRows ==
    \A t \in Pollers : polls[t].pc = "delete" =>
        \A i \in Ids : Exists(i) /\ messages[i].handle \in polls[t].batch => messages[i].body \in handled

(* A delete_message of a poller is of its batch. *)
AckOwn ==
    \A t \in Pollers : local[t].pc = "ack" =>
        polls[t].pc = "delete" /\ local[t].receipt.handle \in polls[t].batch

Polls == [pc : {"idle", "receive", "invoke", "delete"}, batch : SUBSET Handles]

PollsOK == polls \in [Pollers -> Polls] /\ BatchHeld /\ AckOwn

HandledInv == PollsOK /\ HandledRows /\ SettledSeen

(* Pollers go on with less, or stop deleting; handled only grows.          *)
LEMMA HandledRowsKept ==
  ASSUME TypeOK, [Next]_vars, BatchHeld, HandledRows, handled \subseteq handled',
         \A t \in Pollers : polls'[t].pc = "delete" =>
            polls[t].pc = "delete" /\ polls'[t].batch \subseteq polls[t].batch
  PROVE  HandledRows'
  BY StepKeepsRows DEF HandledRows, BatchHeld, RowsKept, Exists

LEMMA InitHandled == EventSourceInit => HandledInv
  BY PollerRoles DEF EventSourceInit, Init, HandledInv, PollsOK, BatchHeld, AckOwn, HandledRows, SettledSeen,
         Polls, NotPolling, Idle, Exists

-----------------------------------------------------------------------------
(* A step in which thread u does something else than begin a               *)
(* delete_message; if u is a poller, polls may change for it.              *)
LEMMA PollsKept ==
  ASSUME TypeOK, PollsOK, NEW u \in Threads, ThreadStep(u),
         polls' \in [Pollers -> Polls],
         \A t \in Pollers : t # u => polls'[t] = polls[t],
         u \in Pollers => polls'[u].batch \subseteq HeldHandles'
  PROVE  PollsOK'
<1>1. HeldHandles \subseteq HeldHandles'
  BY ThreadStepFacts DEF HeldHandles
<1>2. BatchHeld'
  BY <1>1 DEF PollsOK, BatchHeld
<1>3. AckOwn'
  BY ThreadStepFacts, PollerRoles DEF PollsOK, AckOwn
<1>. QED BY <1>2, <1>3 DEF PollsOK

(* The same where polls stays. *)
LEMMA PollsSame ==
  ASSUME TypeOK, PollsOK, NEW u \in Threads, ThreadStep(u), UNCHANGED polls
  PROVE  PollsOK'
<1>1. HeldHandles \subseteq HeldHandles'
  BY ThreadStepFacts DEF HeldHandles
<1>2. u \in Pollers => polls'[u].batch \subseteq HeldHandles'
  BY <1>1 DEF PollsOK, BatchHeld
<1>. QED BY <1>2, PollsKept DEF PollsOK

LEMMA GoOnType ==
  ASSUME PollsOK, NEW t \in Pollers, NEW s \in Polls, GoOn(t, s)
  PROVE  /\ polls' \in [Pollers -> Polls]
         /\ \A u \in Pollers : u # t => polls'[u] = polls[u]
         /\ polls'[t].batch = s.batch
         /\ polls'[t].pc \in {s.pc, "idle"}
  BY DEF PollsOK, GoOn, Polls, NotPolling

LEMMA NotPollingType == NotPolling \in Polls /\ NotPolling.batch = {} /\ NotPolling.pc = "idle"
  BY DEF NotPolling, Polls

-----------------------------------------------------------------------------
LEMMA ServeHandled ==
  ASSUME TypeOK, ReceiptNamesItsMessage, HandledInv, NEW t \in Pollers, Serve(t)
  PROVE  HandledInv'
<1> USE PollerRoles
<1>1. [Next]_vars
  BY StepIsSQS DEF EventSourceNext
<1>2. PollsOK /\ BatchHeld /\ HandledRows /\ SettledSeen /\ polls[t] \in Polls
  BY DEF HandledInv, PollsOK
<1>3. CASE PollReceive(t)
  <2>1. ThreadStep(t) /\ UNCHANGED <<polls, handled, discarded>>
    BY <1>3 DEF PollReceive, ThreadStep, Receive, ReceiveStep
  <2>2. settled' = settled
    BY <1>3 DEF PollReceive, ReceiveSelect, ReceiveLease, RedriveInsert, RedriveInsertFails,
                RedriveDelete, history
  <2>3. PollsOK'
    BY <1>2, <2>1, PollsSame
  <2>4. HandledRows'
    BY <1>1, <1>2, <2>1, HandledRowsKept
  <2>. QED BY <1>2, <2>1, <2>2, <2>3, <2>4 DEF HandledInv, SettledSeen
<1>4. CASE PollReturn(t)
  <2> DEFINE new == {r.handle : r \in local[t].out}
             s == [pc |-> "invoke", batch |-> new]
  <2>1. /\ ReceiveReturn(t) /\ ThreadStep(t) /\ GoOn(t, s) /\ UNCHANGED <<handled, discarded>>
    BY <1>4 DEF PollReturn, ThreadStep, Receive, ReceiveStep
  <2>2. new \in SUBSET Handles
    BY LocalType DEF LocalRecord, Receipt
  <2>3. s \in Polls /\ s.batch = new /\ s.pc = "invoke"
    BY <2>2 DEF Polls
  <2>4. new \subseteq HeldHandles'
    BY <2>1 DEF ReceiveReturn, HeldHandles
  <2> HIDE DEF s, new
  <2>5. /\ polls' \in [Pollers -> Polls]
        /\ \A u \in Pollers : u # t => polls'[u] = polls[u]
        /\ polls'[t].batch = new /\ polls'[t].pc # "delete"
    BY <1>2, <2>1, <2>3, GoOnType
  <2>6. PollsOK'
    BY <1>2, <2>1, <2>4, <2>5, PollsKept
  <2>7. HandledRows'
    BY <1>1, <1>2, <2>1, <2>5, HandledRowsKept
  <2>8. settled' = settled
    BY <2>1 DEF ReceiveReturn, history
  <2>. QED BY <1>2, <2>1, <2>6, <2>7, <2>8 DEF HandledInv, SettledSeen
<1>5. CASE InvokeReturns(t)
  <2> DEFINE s == [polls[t] EXCEPT !.pc = "delete"]
  <2>1. s \in Polls /\ s.batch = polls[t].batch
    BY <1>2 DEF Polls
  <2>2. /\ polls[t].pc = "invoke" /\ GoOn(t, s) /\ UNCHANGED <<vars, discarded>>
        /\ handled' = handled \cup {messages[r.id].body : r \in {q \in Batch(t) : Exists(q.id)}}
    BY <1>5 DEF InvokeReturns
  <2> HIDE DEF s
  <2>3. /\ polls' \in [Pollers -> Polls]
        /\ \A u \in Pollers : u # t => polls'[u] = polls[u]
        /\ polls'[t].batch = polls[t].batch
    BY <1>2, <2>1, <2>2, GoOnType
  <2>4. PollsOK'
    BY <1>2, <2>2, <2>3 DEF PollsOK, BatchHeld, AckOwn, HeldHandles, vars
  <2>5. ASSUME NEW i \in Ids, Exists(i), messages[i].handle \in polls[t].batch
        PROVE  messages[i].body \in handled'
    <3>1. PICK r \in held : r.handle = messages[i].handle
      BY <1>2, <2>5 DEF BatchHeld, HeldHandles
    <3>2. i = r.id
      BY <2>5, <3>1 DEF ReceiptNamesItsMessage, Receipts
    <3>. QED BY <2>2, <2>5, <3>1, <3>2 DEF Batch
  <2>6. HandledRows'
    BY <1>2, <2>2, <2>3, <2>5 DEF HandledRows, vars, Exists
  <2>. QED BY <1>2, <2>2, <2>4, <2>6 DEF HandledInv, SettledSeen, vars
<1>6. ASSUME GoOn(t, NotPolling), UNCHANGED <<vars, handled, discarded>>, local[t].pc # "ack"
      PROVE  HandledInv'
  <2>1. /\ polls' \in [Pollers -> Polls]
        /\ \A u \in Pollers : u # t => polls'[u] = polls[u]
        /\ polls'[t].batch = {} /\ polls'[t].pc = "idle"
    BY <1>2, <1>6, GoOnType, NotPollingType
  <2>2. PollsOK'
    BY <1>2, <1>6, <2>1 DEF PollsOK, BatchHeld, AckOwn, HeldHandles, vars
  <2>3. HandledRows'
    BY <1>2, <1>6, <2>1 DEF HandledRows, vars, Exists
  <2>. QED BY <1>2, <1>6, <2>2, <2>3 DEF HandledInv, SettledSeen, vars
<1>7. CASE InvokeRaises(t)
  BY <1>2, <1>6, <1>7 DEF InvokeRaises, PollsOK, AckOwn
<1>8. CASE PollDelete(t)
  <2>1. /\ polls[t].pc = "delete" /\ local[t] = Idle /\ UNCHANGED <<handled, discarded>>
    BY <1>8 DEF PollDelete
  <2>2. PICK r \in First(Batch(t)) :
          IF queues[r.queue] = NoQueue THEN GoOn(t, NotPolling) /\ UNCHANGED vars
                                       ELSE DeleteMessageRequire(t, r) /\ UNCHANGED polls
    BY <1>8 DEF PollDelete
  <2>3. CASE queues[r.queue] = NoQueue
    BY <1>6, <2>1, <2>2, <2>3 DEF Idle
  <2>4. CASE queues[r.queue] # NoQueue
    <3>1. r.handle \in polls[t].batch
      BY DEF First, Batch
    <3>2. DeleteMessageRequire(t, r) /\ UNCHANGED polls
      BY <2>2, <2>4
    <3>3. /\ \A u \in Threads : u # t => local'[u] = local[u]
          /\ local'[t].receipt = r
      BY <3>2 DEF DeleteMessageRequire, TypeOK, Idle
    <3>4. held' = held /\ settled' = settled
      BY <3>2 DEF DeleteMessageRequire, history
    <3>5. PollsOK'
      BY <1>2, <2>1, <3>1, <3>2, <3>3, <3>4 DEF PollsOK, BatchHeld, AckOwn, HeldHandles
    <3>6. HandledRows'
      BY <1>1, <1>2, <2>1, <3>2, HandledRowsKept
    <3>. QED BY <1>2, <2>1, <3>4, <3>5, <3>6 DEF HandledInv, SettledSeen
  <2>. QED BY <2>3, <2>4
<1>9. CASE PollDeleted(t)
  <2> DEFINE s == [polls[t] EXCEPT !.batch = @ \ {local[t].receipt.handle}]
  <2>1. s \in Polls /\ s.batch \subseteq polls[t].batch /\ s.pc = polls[t].pc
    BY <1>2 DEF Polls
  <2>2. /\ polls[t].pc = "delete" /\ DeleteMessageDelete(t) /\ ThreadStep(t) /\ GoOn(t, s)
        /\ UNCHANGED <<handled, discarded>>
    BY <1>9 DEF PollDeleted, ThreadStep
  <2> HIDE DEF s
  <2>3. /\ polls' \in [Pollers -> Polls]
        /\ \A u \in Pollers : u # t => polls'[u] = polls[u]
        /\ polls'[t].batch \subseteq polls[t].batch
    BY <1>2, <2>1, <2>2, GoOnType
  <2>4. HeldHandles \subseteq HeldHandles'
    BY <2>2, ThreadStepFacts DEF HeldHandles
  <2>5. polls'[t].batch \subseteq HeldHandles'
    BY <1>2, <2>3, <2>4 DEF BatchHeld
  <2>6. PollsOK'
    BY <1>2, <2>2, <2>3, <2>5, PollsKept
  <2>7. HandledRows'
    BY <1>1, <1>2, <2>2, <2>3, HandledRowsKept
  <2>8. \A i \in Named(local[t].receipt) : messages[i].body \in handled
    BY <1>2, <2>2 DEF DeleteMessageDelete, Named, InQueue, PollsOK, AckOwn, HandledRows
  <2>9. settled' = settled \cup {messages[i].body : i \in Named(local[t].receipt)}
    BY <2>2 DEF DeleteMessageDelete
  <2>. QED BY <1>2, <2>2, <2>6, <2>7, <2>8, <2>9 DEF HandledInv, SettledSeen
<1>. QED BY <1>3, <1>4, <1>5, <1>7, <1>8, <1>9 DEF Serve
-----------------------------------------------------------------------------
(* The same for the steps that leave settled, handled and discarded alone. *)
LEMMA PollHandled ==
  ASSUME TypeOK, HandledInv, NEW t \in Pollers, NEW n \in PollQueues, Poll(t, n)
  PROVE  HandledInv'
<1> USE PollerRoles
<1>1. [Next]_vars
  BY StepIsSQS DEF EventSourceNext
<1>2. PollsOK /\ BatchHeld /\ HandledRows /\ SettledSeen
  BY DEF HandledInv, PollsOK
<1>3. /\ ReceiveRequire(t, n) /\ ThreadStep(t) /\ UNCHANGED <<handled, discarded>>
      /\ polls' = [polls EXCEPT ![t].pc = "receive"]
  BY DEF Poll, ThreadStep, Receive
<1>4. /\ polls' \in [Pollers -> Polls]
      /\ \A u \in Pollers : u # t => polls'[u] = polls[u]
      /\ polls'[t].batch = polls[t].batch /\ polls'[t].pc = "receive"
  BY <1>2, <1>3 DEF PollsOK, Polls
<1>5. held' = held /\ settled' = settled
  BY <1>3 DEF ReceiveRequire, history
<1>6. PollsOK'
  BY <1>2, <1>3, <1>4, <1>5, PollsKept DEF BatchHeld, HeldHandles
<1>7. HandledRows'
  BY <1>1, <1>2, <1>3, <1>4, HandledRowsKept
<1>. QED BY <1>2, <1>3, <1>5, <1>6, <1>7 DEF HandledInv, SettledSeen

LEMMA PollFailsHandled ==
  ASSUME TypeOK, HandledInv, NEW t \in Pollers, PollFails(t)
  PROVE  HandledInv'
<1> USE PollerRoles
<1>1. [Next]_vars
  BY StepIsSQS DEF EventSourceNext
<1>2. PollsOK /\ BatchHeld /\ HandledRows /\ SettledSeen
  BY DEF HandledInv, PollsOK
<1>3. /\ RequestFails(t) /\ ThreadStep(t) /\ UNCHANGED <<handled, discarded>>
      /\ GoOn(t, NotPolling)
  BY DEF PollFails, ThreadStep
<1>4. /\ polls' \in [Pollers -> Polls]
      /\ \A u \in Pollers : u # t => polls'[u] = polls[u]
      /\ polls'[t].batch = {} /\ polls'[t].pc = "idle"
  BY <1>2, <1>3, GoOnType, NotPollingType
<1>5. settled' = settled
  BY <1>3 DEF RequestFails, history
<1>6. PollsOK'
  BY <1>2, <1>3, <1>4, PollsKept
<1>7. HandledRows'
  BY <1>1, <1>2, <1>3, <1>4, HandledRowsKept
<1>. QED BY <1>2, <1>3, <1>5, <1>6, <1>7 DEF HandledInv, SettledSeen

LEMMA DropHandled ==
  ASSUME TypeOK, HandledInv, NEW r \in held, Drop(r)
  PROVE  HandledInv'
<1>1. [Next]_vars
  BY StepIsSQS DEF EventSourceNext
<1>2. PollsOK /\ BatchHeld /\ HandledRows /\ SettledSeen
  BY DEF HandledInv, PollsOK
<1>3. /\ \A t \in Pollers : r.handle \notin polls[t].batch
      /\ held' = held \ {r} /\ UNCHANGED <<local, settled, polls, handled, discarded>>
  BY DEF Drop, Forget, history
<1>4. BatchHeld'
  BY <1>2, <1>3 DEF BatchHeld, HeldHandles
<1>5. AckOwn'
  BY <1>2, <1>3 DEF PollsOK, AckOwn
<1>6. HandledRows'
  BY <1>1, <1>2, <1>3, HandledRowsKept
<1>. QED BY <1>2, <1>3, <1>4, <1>5, <1>6 DEF HandledInv, PollsOK, SettledSeen

(* What another client settles is discarded.                               *)
LEMMA ClientHandled ==
  ASSUME TypeOK, HandledInv, ClientStep
  PROVE  HandledInv'
<1> USE ThreadRoles
<1>1. [Next]_vars
  BY StepIsSQS DEF EventSourceNext
<1>2. PollsOK /\ BatchHeld /\ HandledRows /\ SettledSeen
  BY DEF HandledInv, PollsOK
<1>3. Client /\ discarded' = discarded \cup (settled' \ settled) /\ UNCHANGED <<polls, handled>>
  BY DEF ClientStep
<1>4. HandledRows'
  BY <1>1, <1>2, <1>3, HandledRowsKept
<1>5. SettledSeen'
  BY <1>2, <1>3 DEF SettledSeen
<1>6. ASSUME NEW u \in Threads, ThreadStep(u)
      PROVE  PollsOK'
  BY <1>2, <1>3, <1>6, PollsSame
<1>7. ASSUME NEW u \in Ackers \ Pollers, NEW r \in held, DeleteMessageRequire(u, r)
      PROVE  PollsOK'
  <2>1. \A t \in Threads : t # u => local'[t] = local[t]
    BY <1>7 DEF DeleteMessageRequire, TypeOK
  <2>2. \A t \in Pollers : local'[t] = local[t]
    BY <2>1, PollerRoles
  <2>3. held' = held
    BY <1>7 DEF DeleteMessageRequire
  <2>. QED BY <1>2, <1>3, <2>2, <2>3 DEF PollsOK, BatchHeld, AckOwn, HeldHandles
<1>8. PollsOK'
  BY <1>3, <1>6, <1>7 DEF Client, ThreadStep
<1>. QED BY <1>4, <1>5, <1>8 DEF HandledInv

LEMMA TickHandled ==
  ASSUME TypeOK, HandledInv, Tick
  PROVE  HandledInv'
<1> USE PollerRoles
<1>1. [Next]_vars
  BY StepIsSQS DEF EventSourceNext
<1>2. PollsOK /\ BatchHeld /\ HandledRows /\ SettledSeen
  BY DEF HandledInv, PollsOK
<1>3. PICK h \in Handles : LeaseExpires(h)
  BY DEF Tick
<1>4. UNCHANGED <<polls, handled, discarded, settled>>
  BY <1>3 DEF Tick, esvars, LeaseExpires, history
<1>5. ASSUME NEW r \in held
      PROVE  r.handle \in HeldHandles'
  <2>1. r \in Receipt
    BY DEF TypeOK
  <2> DEFINE d == IF r.handle = h THEN [r EXCEPT !.live = FALSE] ELSE r
  <2>2. d.handle = r.handle
    BY <2>1 DEF Receipt
  <2>3. d \in held'
    BY <1>3 DEF LeaseExpires, Dead
  <2>. QED BY <2>2, <2>3 DEF HeldHandles
<1>6. HeldHandles \subseteq HeldHandles'
  BY <1>5 DEF HeldHandles
<1>7. BatchHeld'
  BY <1>2, <1>4, <1>6 DEF BatchHeld
<1>8. ASSUME NEW t \in Pollers
      PROVE  local'[t].pc = local[t].pc /\ local'[t].receipt = local[t].receipt
  <2>1. local[t] \in LocalRecord
    BY LocalType
  <2>2. local'[t] = [local[t] EXCEPT !.out = Dead(@, h)]
    BY <1>3 DEF LeaseExpires
  <2>. QED BY <2>1, <2>2 DEF LocalRecord
<1>9. AckOwn'
  BY <1>2, <1>4, <1>8 DEF PollsOK, AckOwn
<1>10. HandledRows'
  BY <1>1, <1>2, <1>4, HandledRowsKept
<1>. QED BY <1>2, <1>4, <1>7, <1>9, <1>10 DEF HandledInv, PollsOK, SettledSeen

LEMMA RestartHandled ==
  ASSUME TypeOK, HandledInv, Restart
  PROVE  HandledInv'
<1>1. [Next]_vars
  BY StepIsSQS DEF EventSourceNext
<1>2. PollsOK /\ BatchHeld /\ HandledRows /\ SettledSeen
  BY DEF HandledInv, PollsOK
<1>3. /\ \A t \in Threads : local'[t] = Idle
      /\ polls' = [t \in Pollers |-> NotPolling]
      /\ UNCHANGED <<held, settled, handled, discarded>>
  BY DEF Restart, Crash, history
<1>4. BatchHeld'
  BY <1>3, NotPollingType DEF BatchHeld
<1>5. AckOwn'
  BY <1>3, PollerRoles DEF AckOwn, Idle
<1>6. HandledRows'
  BY <1>1, <1>2, <1>3, NotPollingType, HandledRowsKept
<1>. QED BY <1>2, <1>3, <1>4, <1>5, <1>6, NotPollingType DEF HandledInv, PollsOK, SettledSeen

LEMMA NextHandled ==
  ASSUME TypeOK, ReceiptNamesItsMessage, HandledInv, [EventSourceNext]_allvars
  PROVE  HandledInv'
<1>1. CASE UNCHANGED allvars
  BY <1>1 DEF allvars, vars, esvars, HandledInv, PollsOK, BatchHeld, AckOwn, HandledRows,
              SettledSeen, HeldHandles, Exists
<1>. QED
  BY <1>1, ServeHandled, PollFailsHandled, PollHandled, DropHandled, ClientHandled,
     TickHandled, RestartHandled DEF EventSourceNext

(* lambdas.py:427-450: the batch is deleted only after self.invoke has     *)
(* returned, and by receipts that name what the function was given         *)
(* (sqs.py:193-199); so wherever a thread stops, a message that has left   *)
(* the queue was handled, unless somebody else took it out.                *)
THEOREM OnlyIfHandled == EventSourceSpec => []LeftOnlyIfHandled
<1>1. NoMessageLost /\ HandledInv => LeftOnlyIfHandled
  BY DEF NoMessageLost, HandledInv, SettledSeen, LeftOnlyIfHandled
<1>2. TypeOK /\ ReceiptNamesItsMessage /\ HandledInv /\ [EventSourceNext]_allvars => HandledInv'
  BY NextHandled
<1>. QED
  BY <1>1, <1>2, ClientOfSQS, TypeCorrect, ReceiptsNameOne, NeverLost, InitHandled, PTL
  DEF EventSourceSpec
=============================================================================
