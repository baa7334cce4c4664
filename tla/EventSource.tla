---------------------------- MODULE EventSource ----------------------------
(***************************************************************************)
(* A Lambda function fed from a queue: invoke_from_sqs, lambdas.py:427-450, *)
(* on top of SQS.  The thread that serves it receives messages, invokes    *)
(* the function once with all of them, and if that returns deletes them    *)
(* one after another; an exception anywhere, out of the function too, ends *)
(* the request.  The other clients of the queue go on as in SQS.           *)
(***************************************************************************)
EXTENDS SQS

CONSTANT Pollers  \* the threads that serve invoke_from_sqs

(* They are receivers and acknowledgers of SQS, and do nothing else.       *)
ASSUME PollersAssumption == Pollers \subseteq Receivers \cap Ackers

VARIABLES
    polls,     \* where each poller is, and the handles it has yet to delete
    polled,    \* handles that went to pollers and not to clients
    handled,   \* history: bodies an invocation that returned has seen
    discarded  \* history: bodies settled by anybody but a poller

esvars == <<polls, polled, handled, discarded>>
allvars == <<vars, esvars>>

NotPolling == [pc |-> "idle", batch |-> {}]

-----------------------------------------------------------------------------
(* The receipts a poller has yet to use. *)
Batch(t) == {r \in held : r.handle \in polls[t].batch}

GoOn(t, s) == polls' = [polls EXCEPT ![t] = IF s.batch = {} THEN NotPolling ELSE s]

(* sqs.receive_messages *)
Poll(t, n) ==
    /\ polls[t].pc = "idle"
    /\ ReceiveRequire(t, n)
    /\ polls' = [polls EXCEPT ![t].pc = "receive"]
    /\ UNCHANGED <<polled, handled, discarded>>

PollReceive(t) ==
    /\ polls[t].pc = "receive"
    /\ \/ ReceiveSelect(t) \/ ReceiveLease(t)
       \/ RedriveInsert(t) \/ RedriveInsertFails(t) \/ RedriveDelete(t)
    /\ UNCHANGED <<polls, polled, handled, discarded>>

(* It has what it received; without a message there is no invocation.      *)
PollReturn(t) ==
    LET new == {r.handle : r \in local[t].out} IN
    /\ polls[t].pc = "receive"
    /\ ReceiveReturn(t)
    /\ GoOn(t, [pc |-> "invoke", batch |-> new])
    /\ polled' = polled \cup new
    /\ UNCHANGED <<handled, discarded>>

(* self.invoke returns, or raises: the function does, or there is none.    *)
InvokeReturns(t) ==
    /\ polls[t].pc = "invoke"
    /\ handled' = handled \cup {messages[r.id].body : r \in {q \in Batch(t) : Exists(q.id)}}
    /\ GoOn(t, [polls[t] EXCEPT !.pc = "delete"])
    /\ UNCHANGED <<vars, polled, discarded>>

(* Mutant: the messages are deleted whatever became of the invocation.     *)
InvokeRaisesPassedOver(t) ==
    /\ polls[t].pc = "invoke"
    /\ GoOn(t, [polls[t] EXCEPT !.pc = "delete"])
    /\ UNCHANGED <<vars, polled, handled, discarded>>

InvokeRaises(t) ==
    /\ polls[t].pc = "invoke"
    /\ GoOn(t, NotPolling)
    /\ UNCHANGED <<vars, polled, handled, discarded>>

First(S) == {r \in S : \A q \in S : r.id <= q.id}

(* sqs.delete_message of the next one; NotFound if the queue has gone.     *)
PollDelete(t) ==
    /\ polls[t].pc = "delete" /\ local[t] = Idle
    /\ \E r \in First(Batch(t)) :
          IF queues[r.queue] = NoQueue
          THEN GoOn(t, NotPolling) /\ UNCHANGED vars
          ELSE DeleteMessageRequire(t, r) /\ UNCHANGED polls
    /\ UNCHANGED <<polled, handled, discarded>>

PollDeleted(t) ==
    /\ polls[t].pc = "delete"
    /\ DeleteMessageDelete(t)
    /\ GoOn(t, [polls[t] EXCEPT !.batch = @ \ {local[t].receipt.handle}])
    /\ UNCHANGED <<polled, handled, discarded>>

(* A statement raises: invoke_from_sqs ends with delete_message or         *)
(* receive_messages.                                                       *)
PollFails(t) ==
    /\ RequestFails(t)
    /\ GoOn(t, NotPolling)
    /\ UNCHANGED <<polled, handled, discarded>>

-----------------------------------------------------------------------------
(* Everybody else.  A receipt is dropped when nobody will use it.          *)

Client == \/ \E t \in Admins : Admin(t)
          \/ \E t \in Senders : Send(t)
          \/ \E t \in Receivers \ Pollers : Receive(t)
          \/ \E t \in Ackers \ Pollers : \/ \E r \in held : r.handle \notin polled /\ DeleteMessageRequire(t, r)
                               \/ DeleteMessageDelete(t)
          \/ \E t \in Threads \ Pollers : RequestFails(t)

ClientStep ==
    /\ Client
    /\ discarded' = discarded \cup (settled' \ settled)
    /\ UNCHANGED <<polls, polled, handled>>

Drop(r) ==
    /\ \A t \in Pollers : r.handle \notin polls[t].batch
    /\ Forget(r)
    /\ polled' = polled \ {r.handle}
    /\ UNCHANGED <<polls, handled, discarded>>

Tick == (\E h \in Handles : LeaseExpires(h)) /\ UNCHANGED esvars

Restart ==
    /\ Crash
    /\ polls' = [t \in Pollers |-> NotPolling]
    /\ UNCHANGED <<polled, handled, discarded>>

EventSourceInit ==
    /\ Init
    /\ polls = [t \in Pollers |-> NotPolling]
    /\ polled = {} /\ handled = {} /\ discarded = {}

Serve(t) == \/ PollReceive(t) \/ PollReturn(t)
            \/ InvokeReturns(t) \/ InvokeRaises(t)
            \/ PollDelete(t) \/ PollDeleted(t)

EventSourceNext == \/ \E t \in Pollers : Serve(t) \/ PollFails(t) \/ \E n \in PollQueues : Poll(t, n)
                   \/ \E r \in held : Drop(r)
                   \/ ClientStep \/ Tick \/ Restart

EventSourceSpec == EventSourceInit /\ [][EventSourceNext]_allvars

-----------------------------------------------------------------------------
(* Properties *)

(* lambdas.py:430-433 "delete on success": a message that left the queue   *)
(* and was neither acknowledged by another client nor deleted with its     *)
(* queue was part of an invocation that returned, wherever the function,   *)
(* or the server, failed.                                                  *)
LeftOnlyIfHandled ==
    \A b \in accepted : \/ \E i \in Ids : Exists(i) /\ messages[i].body = b
                        \/ b \in handled \cup discarded \cup swallowed
=============================================================================
