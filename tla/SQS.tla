-------------------------------- MODULE SQS --------------------------------
(***************************************************************************)
(* The message queue service, src/openaws/sqs.py, as the threads of the    *)
(* HTTP server run it.  A request is a sequence of SQL statements; each    *)
(* statement is atomic and committed on its own (module Storage shows why  *)
(* one action per statement is the right grain) and nothing joins two      *)
(* statements of one request, so the statements of concurrent requests     *)
(* interleave and a crash may fall between any two of them.                *)
(*                                                                         *)
(* One action is one statement together with the Python code from it to    *)
(* the next statement.  A request that its first statement refuses (no     *)
(* such queue, queue exists, bad argument) changes nothing and is no step: *)
(* the refusing condition is the negation of the first action's guard.     *)
(*                                                                         *)
(* Time is abstract.  A row of sqs_messages has visible_at > now exactly   *)
(* while its field hidden is TRUE, and an id with a dedup_id is in inWindow *)
(* while its created_at >= now - dedup_window; LeaseExpires and WindowPasses are *)
(* the clock reaching these instants, in any order the timeouts allow.     *)
(***************************************************************************)
EXTENDS Integers, FiniteSets

CONSTANTS
    Queues,         \* queue names
    DedupIds,       \* values of message_deduplication_id
    Handles,        \* receipt handles (uuid4)
    Senders,        \* server threads that run send_message
    Receivers,      \* server threads that run receive_messages
    Ackers,         \* server threads that run delete_message
    Admins,         \* server threads that run create_queue and delete_queue
    SendQueues,     \* the queues clients send to
    PollQueues,     \* the queues clients receive from
    Configs,        \* the queue configurations an admin creates
    InitialQueues,  \* the sqs_queues table of the data directory at start
    MaxSends,       \* bound: messages ever accepted
    MaxIds,         \* bound: rows of sqs_messages ever created
    MaxBatch,       \* bound: max_messages of a receive
    CountCap,       \* bound: received_count saturates here (see Sat)
    MayCrash,       \* whether the process is killed and restarted
    StoreBusy,      \* whether a write may raise (module Storage: ExecBusy)
    NoQueue, NoRow, NoHandle, NoDedup, NoReceipt, NoName

Ids == 1 .. MaxIds

Threads == Senders \cup Receivers \cup Ackers \cup Admins

(* A row of sqs_queues; visibility_timeout and dedup_window are time.      *)
QueueRow == [fifo : BOOLEAN, dlq : Queues \cup {NoName}, max : Int]

(* A row of sqs_messages.  created_at orders rows as their ids do; body is *)
(* named after the id of the row that send_message inserted for it.        *)
Row == [queue  : Queues,
        body   : Ids,
        dedup  : DedupIds \cup {NoDedup},
        handle : Handles \cup {NoHandle},
        hidden : BOOLEAN,
        count  : Nat]

(* What receive_messages keeps of a candidate row, m.                      *)
Snapshot == [id : Ids, body : Ids, dedup : DedupIds \cup {NoDedup}, count : Nat]

(* One element of the list receive_messages returns; live until the        *)
(* visibility timeout it was granted runs out.                             *)
Receipt == [id : Ids, queue : Queues, handle : Handles, live : BOOLEAN]

ASSUME NamesAssumption ==
    /\ NoQueue \notin QueueRow
    /\ NoRow \notin Row
    /\ NoHandle \notin Handles
    /\ NoDedup \notin DedupIds
    /\ NoName \notin Queues
    /\ NoReceipt \notin Receipt

ASSUME ConfigAssumption ==
    /\ SendQueues \subseteq Queues /\ PollQueues \subseteq Queues
    /\ MaxSends \in Nat
    /\ MaxIds \in Nat
    /\ MaxBatch \in Nat
    /\ CountCap \in Nat
    /\ MayCrash \in BOOLEAN
    /\ StoreBusy \in BOOLEAN
    /\ Configs \subseteq QueueRow
    /\ InitialQueues \in [Queues -> QueueRow \cup {NoQueue}]
    /\ \A c \in Configs : c.max < CountCap
    /\ \A n \in Queues : InitialQueues[n] # NoQueue => InitialQueues[n].max < CountCap

VARIABLES
    queues,    \* table sqs_queues, by name
    messages,  \* table sqs_messages, by id
    lastId,    \* the newest id
    inWindow,  \* ids of messages with a dedup_id created less than dedup_window ago
    local,     \* the local variables of each server thread
    held,      \* receipts the clients hold
    \* history variables
    accepted,  \* bodies send_message inserted
    settled,   \* bodies whose removal somebody asked for (ack, delete_queue)
    finished,  \* ids deleted by the receipt of a lease that was still live
    swallowed, \* bodies whose redrive was not INSERTed, and passed over
    grants     \* how often each id was handed out

db == <<queues, messages, lastId>>
history == <<accepted, settled, finished, swallowed, grants>>
vars == <<queues, messages, lastId, inWindow, local, held, accepted, settled,
          finished, swallowed, grants>>

Steps == {"idle", "create dlq", "create", "purge", "drop", "dedup", "insert",
          "select", "loop", "redrive delete", "ack"}

LocalRecord == [pc      : Steps,
                name    : Queues \cup {NoName},
                q       : QueueRow \cup {NoQueue},
                dedup   : DedupIds \cup {NoDedup},
                receipt : Receipt \cup {NoReceipt},
                todo    : SUBSET Snapshot,
                out     : SUBSET Receipt]

(* What a request has assigned by the time it gets to a step.              *)
Assigned(s) ==
    /\ s.pc \notin {"idle", "ack"} => s.name \in Queues
    /\ s.pc \notin {"idle", "purge", "drop", "ack"} => s.q \in QueueRow
    /\ s.pc = "create dlq" => s.q.dlq \in Queues
    /\ s.pc = "redrive delete" => s.todo # {}
    /\ s.pc = "ack" => s.receipt \in Receipt

LocalState == {s \in LocalRecord : Assigned(s)}

Idle == [pc |-> "idle", name |-> NoName, q |-> NoQueue,
         dedup |-> NoDedup, receipt |-> NoReceipt, todo |-> {}, out |-> {}]

TypeOK ==
    /\ queues \in [Queues -> QueueRow \cup {NoQueue}]
    /\ messages \in [Ids -> Row \cup {NoRow}]
    /\ lastId \in 0 .. MaxIds
    /\ inWindow \subseteq Ids
    /\ local \in [Threads -> LocalState]
    /\ held \subseteq Receipt
    /\ accepted \subseteq Ids
    /\ settled \subseteq Ids
    /\ finished \subseteq Ids
    /\ swallowed \subseteq Ids
    /\ grants \in [Ids -> Nat]

-----------------------------------------------------------------------------
(* Helpers *)

Exists(i) == messages[i] # NoRow

InQueue(n) == {i \in Ids : Exists(i) /\ messages[i].queue = n}

(* Receipts somebody has or is about to get, receipts a delete_message     *)
(* under way was given, and the handles still known.                       *)
Receipts == held \cup UNION {local[t].out : t \in Threads}

Presented == {local[t].receipt : t \in Threads} \ {NoReceipt}

UsedHandles == {messages[i].handle : i \in {j \in Ids : Exists(j)}}
               \cup {r.handle : r \in Receipts \cup Presented}

(* received_count is only ever compared with max_receive_count, so counts  *)
(* beyond every max_receive_count need not be told apart.                  *)
Sat(n) == IF n > CountCap THEN CountCap ELSE n

(* The rows a SELECT ... ORDER BY created_at LIMIT k returns out of S.     *)
Oldest(S, k) == {i \in S : Cardinality({j \in S : j < i}) < k}

SnapshotOf(i) == [id |-> i, body |-> messages[i].body,
                  dedup |-> messages[i].dedup, count |-> messages[i].count]

(* The candidate the loop of receive_messages is at.                       *)
Current(t) == {m \in local[t].todo : \A o \in local[t].todo : m.id <= o.id}

(* INSERT INTO sqs_messages: a new row, visible at once, never received.   *)
Insert(n, body, dedup) ==
    /\ lastId < MaxIds
    /\ lastId' = lastId + 1
    /\ inWindow' = IF dedup = NoDedup THEN inWindow ELSE inWindow \cup {lastId'}
    /\ messages' = [messages EXCEPT ![lastId'] =
                      [queue |-> n, body |-> body, dedup |-> dedup,
                       handle |-> NoHandle, hidden |-> FALSE, count |-> 0]]

(* DELETE FROM sqs_messages WHERE id in S.                                 *)
Without(S) == [i \in Ids |-> IF i \in S THEN NoRow ELSE messages[i]]

Return(t) == local' = [local EXCEPT ![t] = Idle]

Goto(t, step) == local' = [local EXCEPT ![t].pc = step]

-----------------------------------------------------------------------------
(* create_queue *)

(* No queue of that name: the checks go on.  A DLQ, if any, must exist.    *)
CreateQueueCheck(t, n, c) ==
    /\ local[t].pc = "idle"
    /\ queues[n] = NoQueue
    /\ local' = [local EXCEPT ![t] =
                   [Idle EXCEPT !.pc = IF c.dlq = NoName THEN "create" ELSE "create dlq",
                                !.name = n, !.q = c]]
    /\ UNCHANGED <<db, inWindow, held, history>>

CreateQueueCheckDlq(t) ==
    /\ local[t].pc = "create dlq"
    /\ IF queues[local[t].q.dlq] = NoQueue THEN Return(t) ELSE Goto(t, "create")
    /\ UNCHANGED <<db, inWindow, held, history>>

(* The name is the primary key: a second INSERT of it raises.              *)
CreateQueueInsert(t) ==
    /\ local[t].pc = "create"
    /\ queues' = IF queues[local[t].name] = NoQueue
                 THEN [queues EXCEPT ![local[t].name] = local[t].q]
                 ELSE queues
    /\ Return(t)
    /\ UNCHANGED <<messages, lastId, inWindow, held, history>>

(* delete_queue *)

DeleteQueueRequire(t, n) ==
    /\ local[t].pc = "idle"
    /\ queues[n] # NoQueue
    /\ local' = [local EXCEPT ![t] = [Idle EXCEPT !.pc = "purge", !.name = n]]
    /\ UNCHANGED <<db, inWindow, held, history>>

DeleteQueuePurge(t) ==
    /\ local[t].pc = "purge"
    /\ messages' = Without(InQueue(local[t].name))
    /\ settled' = settled \cup {messages[i].body : i \in InQueue(local[t].name)}
    /\ Goto(t, "drop")
    /\ UNCHANGED <<queues, lastId, inWindow, held, accepted, finished, swallowed, grants>>

DeleteQueueDrop(t) ==
    /\ local[t].pc = "drop"
    /\ queues' = [queues EXCEPT ![local[t].name] = NoQueue]
    /\ Return(t)
    /\ UNCHANGED <<messages, lastId, inWindow, held, history>>

-----------------------------------------------------------------------------
(* send_message *)

(* _require_queue.  A FIFO queue asked to deduplicate goes on to look for  *)
(* an earlier message, every other send to the INSERT.                     *)
SendRequire(t, n, d) ==
    /\ local[t].pc = "idle"
    /\ queues[n] # NoQueue
    /\ local' = [local EXCEPT ![t] =
                   [Idle EXCEPT !.pc = IF queues[n].fifo /\ d # NoDedup
                                       THEN "dedup" ELSE "insert",
                                !.name = n, !.q = queues[n], !.dedup = d]]
    /\ UNCHANGED <<db, inWindow, held, history>>

(* Mutant: only messages nobody has received count as duplicates. *)
DuplicatesUnreceived(n, d) ==
    {i \in InQueue(n) \cap inWindow : messages[i].dedup = d /\ messages[i].count = 0}

Duplicates(n, d) == {i \in InQueue(n) \cap inWindow : messages[i].dedup = d}

SendDedup(t) ==
    /\ local[t].pc = "dedup"
    /\ IF Duplicates(local[t].name, local[t].dedup) # {}
       THEN Return(t)
       ELSE Goto(t, "insert")
    /\ UNCHANGED <<db, inWindow, held, history>>

SendInsert(t) ==
    /\ local[t].pc = "insert"
    /\ Cardinality(accepted) < MaxSends
    /\ Insert(local[t].name, lastId + 1, local[t].dedup)
    /\ Return(t)
    /\ accepted' = accepted \cup {lastId'}
    /\ UNCHANGED <<queues, held, settled, finished, swallowed, grants>>

-----------------------------------------------------------------------------
(* receive_messages *)

ReceiveRequire(t, n) ==
    /\ local[t].pc = "idle"
    /\ queues[n] # NoQueue
    /\ local' = [local EXCEPT ![t] =
                   [Idle EXCEPT !.pc = "select", !.name = n, !.q = queues[n]]]
    /\ UNCHANGED <<db, inWindow, held, history>>

(* Mutant: the visibility timeout is not looked at. *)
VisibleAlways(n) == InQueue(n)

Visible(n) == {i \in InQueue(n) : ~messages[i].hidden}

ReceiveSelect(t) ==
    /\ local[t].pc = "select"
    /\ \E k \in 1 .. MaxBatch :
          local' = [local EXCEPT ![t].pc = "loop",
                                 ![t].todo = {SnapshotOf(i) :
                                    i \in Oldest(Visible(local[t].name), k)}]
    /\ UNCHANGED <<db, inWindow, held, history>>

(* Mutant: the receive under way is not counted. *)
NewCountStale(m) == m.count

(* new_rc *)
NewCount(m) == Sat(m.count + 1)

(* Mutant: the limit is compared one receive late. *)
RedrivesOneLate(q, m) == q.dlq # NoName /\ q.max # 0 /\ m.count > q.max

Redrives(q, m) == q.dlq # NoName /\ q.max # 0 /\ NewCount(m) > q.max

(* Mutant: the handle column as it was SELECTed, NULL at first. *)
NewHandlesOld(t) == {NoHandle}

(* Mutant: one handle for the whole batch. *)
NewHandlesShared(t) == IF local[t].out = {} THEN Handles \ UsedHandles
                                            ELSE {r.handle : r \in local[t].out}

(* What uuid4 may return: a handle nobody knows.                           *)
NewHandles(t) == Handles \ UsedHandles

(* UPDATE ... WHERE id: the row gets a fresh handle, becomes invisible and *)
(* its count is the SELECTed one plus one; nothing if the row has gone.    *)
(* The message joins the answer either way.                                *)
ReceiveLease(t) ==
    /\ local[t].pc = "loop"
    /\ \E m \in Current(t), h \in NewHandles(t) :
          /\ ~Redrives(local[t].q, m)
          /\ messages' = IF Exists(m.id)
                         THEN [messages EXCEPT ![m.id].handle = h,
                                               ![m.id].hidden = TRUE,
                                               ![m.id].count = NewCount(m)]
                         ELSE messages
          /\ local' = [local EXCEPT
                         ![t].todo = @ \ {m},
                         ![t].out = @ \cup {[id |-> m.id, queue |-> local[t].name,
                                             handle |-> h, live |-> TRUE]}]
          /\ grants' = [grants EXCEPT ![m.id] = Sat(@ + 1)]
    /\ UNCHANGED <<queues, lastId, inWindow, held, accepted, settled, finished, swallowed>>

(* Mutant: the statements in the other order, DELETE before INSERT. *)
RedriveInsertAfterDelete(t) ==
    /\ local[t].pc = "loop"
    /\ \E m \in Current(t) :
          /\ Redrives(local[t].q, m)
          /\ messages' = Without({m.id})
    /\ Goto(t, "redrive delete")
    /\ UNCHANGED <<queues, lastId, inWindow, held, history>>

(* _redrive_to_dlq copies the message as SELECTed; whether the DLQ still   *)
(* exists is not asked.                                                    *)
RedriveInsert(t) ==
    /\ local[t].pc = "loop"
    /\ \E m \in Current(t) :
          /\ Redrives(local[t].q, m)
          /\ Insert(local[t].q.dlq, m.body, m.dedup)
    /\ Goto(t, "redrive delete")
    /\ UNCHANGED <<queues, held, history>>

(* The same when the INSERT raises: the exception is passed over.          *)
RedriveInsertFails(t) ==
    /\ StoreBusy
    /\ local[t].pc = "loop"
    /\ \E m \in Current(t) : /\ Redrives(local[t].q, m)
                            /\ swallowed' = swallowed \cup {m.body}
    /\ Goto(t, "redrive delete")
    /\ UNCHANGED <<db, inWindow, held, accepted, settled, finished, grants>>

RedriveDelete(t) ==
    /\ local[t].pc = "redrive delete"
    /\ \E m \in Current(t) :
          /\ messages' = Without({m.id})
          /\ local' = [local EXCEPT ![t].pc = "loop", ![t].todo = @ \ {m}]
    /\ UNCHANGED <<queues, lastId, inWindow, held, history>>

(* The answer reaches the client.                                          *)
ReceiveReturn(t) ==
    /\ local[t].pc = "loop"
    /\ local[t].todo = {}
    /\ held' = held \cup local[t].out
    /\ Return(t)
    /\ UNCHANGED <<db, inWindow, history>>

-----------------------------------------------------------------------------
(* delete_message: a client may use a receipt more than once.              *)

DeleteMessageRequire(t, r) ==
    /\ local[t].pc = "idle"
    /\ queues[r.queue] # NoQueue
    /\ local' = [local EXCEPT ![t] = [Idle EXCEPT !.pc = "ack", !.receipt = r]]
    /\ UNCHANGED <<db, inWindow, held, history>>

(* WHERE queue=? AND receipt_handle=?                                      *)
Named(r) == {i \in InQueue(r.queue) : messages[i].handle = r.handle}

DeleteMessageDelete(t) ==
    /\ local[t].pc = "ack"
    /\ LET gone == Named(local[t].receipt)
       IN  /\ messages' = Without(gone)
           /\ settled' = settled \cup {messages[i].body : i \in gone}
           /\ finished' = finished \cup {i \in gone : messages[i].hidden}
    /\ Return(t)
    /\ UNCHANGED <<queues, lastId, inWindow, held, accepted, swallowed, grants>>

-----------------------------------------------------------------------------
(* Clients, clock and process *)

(* A client lets go of a receipt, after it deleted the message or without. *)
Forget(r) ==
    /\ held' = held \ {r}
    /\ UNCHANGED <<db, inWindow, local, history>>

Dead(S, h) == {IF r.handle = h THEN [r EXCEPT !.live = FALSE] ELSE r : r \in S}

(* The visibility timeout granted with handle h runs out.                  *)
LeaseExpires(h) ==
    /\ \/ \E i \in Ids : Exists(i) /\ messages[i].handle = h /\ messages[i].hidden
       \/ \E r \in Receipts : r.handle = h /\ r.live
    /\ messages' = [i \in Ids |-> IF Exists(i) /\ messages[i].handle = h
                                  THEN [messages[i] EXCEPT !.hidden = FALSE]
                                  ELSE messages[i]]
    /\ held' = Dead(held, h)
    /\ local' = [t \in Threads |-> [local[t] EXCEPT !.out = Dead(@, h)]]
    /\ UNCHANGED <<queues, lastId, inWindow, history>>

(* The deduplication window of row i passes.                               *)
WindowPasses(i) ==
    /\ i \in inWindow
    /\ inWindow' = inWindow \ {i}
    /\ UNCHANGED <<db, local, held, history>>

(* A write statement raises "database is locked": the request ends there   *)
(* with a 500 and keeps what its earlier statements did.  In the loop of   *)
(* receive_messages the write is the UPDATE.                               *)
RequestFails(t) ==
    /\ StoreBusy
    /\ \/ local[t].pc \in {"create", "purge", "drop", "insert", "redrive delete", "ack"}
       \/ /\ local[t].pc = "loop"
          /\ \E m \in Current(t) : ~Redrives(local[t].q, m)
    /\ Return(t)
    /\ UNCHANGED <<db, inWindow, held, history>>

(* The server process dies and is started again on its data directory.     *)
Crash ==
    /\ MayCrash
    /\ local' = [t \in Threads |-> Idle]
    /\ UNCHANGED <<db, inWindow, held, history>>

-----------------------------------------------------------------------------
Init ==
    /\ queues = InitialQueues
    /\ messages = [i \in Ids |-> NoRow]
    /\ lastId = 0
    /\ inWindow = {}
    /\ local = [t \in Threads |-> Idle]
    /\ held = {}
    /\ accepted = {}
    /\ settled = {}
    /\ finished = {}
    /\ swallowed = {}
    /\ grants = [i \in Ids |-> 0]

Admin(t) == \/ \E n \in Queues, c \in Configs : CreateQueueCheck(t, n, c)
            \/ CreateQueueCheckDlq(t)
            \/ CreateQueueInsert(t)
            \/ \E n \in Queues : DeleteQueueRequire(t, n)
            \/ DeleteQueuePurge(t)
            \/ DeleteQueueDrop(t)

Send(t) == \/ \E n \in SendQueues, d \in DedupIds \cup {NoDedup} : SendRequire(t, n, d)
           \/ SendDedup(t)
           \/ SendInsert(t)

(* The steps of a receive that has begun.                                  *)
ReceiveStep(t) == \/ ReceiveSelect(t)
                  \/ ReceiveLease(t)
                  \/ RedriveInsert(t)
                  \/ RedriveInsertFails(t)
                  \/ RedriveDelete(t)
                  \/ ReceiveReturn(t)

Receive(t) == (\E n \in PollQueues : ReceiveRequire(t, n)) \/ ReceiveStep(t)

Ack(t) == (\E r \in held : DeleteMessageRequire(t, r)) \/ DeleteMessageDelete(t)

Environment == \/ \E r \in held : Forget(r)
               \/ \E h \in Handles : LeaseExpires(h)
               \/ \E i \in Ids : WindowPasses(i)
               \/ \E t \in Threads : RequestFails(t)
               \/ Crash

Next == \/ \E t \in Admins : Admin(t)
        \/ \E t \in Senders : Send(t)
        \/ \E t \in Receivers : Receive(t)
        \/ \E t \in Ackers : Ack(t)
        \/ Environment

Spec == Init /\ [][Next]_vars

(* Server threads run, time passes, and clients poll each queue again and  *)
(* again (strongly: a receiver thread busy with one queue is disabled for  *)
(* the other).                                                             *)
Fairness ==
    /\ \A t \in Receivers : WF_vars(ReceiveStep(t))
    /\ \A t \in Receivers, n \in PollQueues : SF_vars(ReceiveRequire(t, n))
    /\ \A h \in Handles : WF_vars(LeaseExpires(h))

FairSpec == Spec /\ Fairness

-----------------------------------------------------------------------------
(* Properties *)

(* No accepted message disappears: as long as nobody acknowledged it or    *)
(* deleted its queue there is a row with its body, whatever receivers,     *)
(* redrives, queue deletions and crashes do meanwhile (the INSERT-before-  *)
(* DELETE order of _redrive_to_dlq, sqs.py:171-187).  Only a redrive whose *)
(* INSERT raised, which sqs.py:185 passes over, loses one.                 *)
NoMessageLost ==
    \A b \in accepted : \/ b \in settled \cup swallowed
                        \/ \E i \in Ids : Exists(i) /\ messages[i].body = b

(* A receipt names at most the message it was given for: no sequence of    *)
(* receives, redrives and redeliveries lets a client's delete_message      *)
(* remove a message it was not given (sqs.py:148-153 and 193-199).         *)
ReceiptNamesItsMessage ==
    \A r \in Receipts \cup Presented, i \in Ids :
        Exists(i) /\ messages[i].handle = r.handle => i = r.id /\ messages[i].queue = r.queue

(* While the visibility timeout of one receipt runs nobody is given the    *)
(* same message (sqs.py:3-6).  Holds when receives do not overlap.         *)
LeaseExclusive ==
    \A r, s \in Receipts : r.live /\ s.live /\ r.id = s.id => r = s

(* A message deleted within its visibility timeout is final: no receive    *)
(* still has it among its candidates, to hand out or to redrive            *)
(* (sqs.py:5-6).  Holds when receives do not overlap.                      *)
DeletedInTimeIsFinal ==
    \A t \in Threads : \A m \in local[t].todo : m.id \notin finished

(* A message in a queue with a redrive policy is handed out at most        *)
(* max_receive_count times (sqs.py:11-12, 143-147).  Holds when receives   *)
(* do not overlap.                                                         *)
DeliveriesBounded ==
    \A i \in Ids :
        LET q == queues[messages[i].queue]
        IN  Exists(i) /\ q # NoQueue /\ q.dlq # NoName /\ q.max > 0 => grants[i] <= q.max

(* A FIFO queue never holds two messages of one deduplication id created   *)
(* within the window (sqs.py:99-109).  Holds when sends do not overlap and *)
(* the queue is no DLQ.                                                    *)
NoRecentDuplicate ==
    \A n \in Queues, i, j \in Ids :
        /\ queues[n] # NoQueue
        /\ queues[n].fifo
        /\ {i, j} \subseteq InQueue(n) \cap inWindow
        /\ messages[i].dedup = messages[j].dedup
        /\ messages[i].dedup # NoDedup
        => i = j

HasPolicy(n) == queues[n] # NoQueue /\ queues[n].dlq # NoName /\ queues[n].max > 0

(* Under a redrive policy no message keeps coming back for ever: receivers *)
(* that go on polling get every message out of the queue, into the DLQ if  *)
(* no client deletes it, even when they overwrite each other's             *)
(* received_count (sqs.py:142-153).                                        *)
PolicyDrains ==
    \A n \in PollQueues, i \in Ids :
        (HasPolicy(n) /\ i \in InQueue(n)) ~> (i \notin InQueue(n))
=============================================================================
