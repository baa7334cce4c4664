-------------------------------- MODULE SNS --------------------------------
(***************************************************************************)
(* Topics and the fan-out of what is published, src/openaws/sns.py.  A     *)
(* subscription has the number of the request that made it.  What a        *)
(* delivery does to a queue or a function is the business of SQS and       *)
(* Lambda: here it returns or raises.                                      *)
(***************************************************************************)
EXTENDS Requests

CONSTANTS Topics, NoSubscription

Ids == 1 .. MaxRequests

Protocols == {"sqs", "lambda", "log"}

VARIABLES
    topics,         \* table sns_topics
    subscriptions,  \* table sns_subscriptions
    deliveries,     \* table sns_deliveries: [message, subscription]
    subscribed      \* history: subscriptions there since a publish began

snsvars == <<topics, subscriptions, deliveries, subscribed>>
vars == <<requests, snsvars>>

Subscription == [topic : Topics, protocol : Protocols]

TypeOK ==
    /\ RequestsTypeOK(Topics \X Workers)
    /\ topics \subseteq Topics
    /\ subscriptions \in [Ids -> Subscription \cup {NoSubscription}]
    /\ deliveries \subseteq Ids \X Ids
    /\ subscribed \in [Workers -> SUBSET Ids]

-----------------------------------------------------------------------------
SubscribersOf(n) == {i \in Ids : subscriptions[i] # NoSubscription /\ subscriptions[i].topic = n}

On(rows, todo, r) == Also([todo |-> todo, touches |-> rows, at |-> begun + 1], r)

Ask(t, s) == Begin(t, s) /\ UNCHANGED <<topics, subscriptions, deliveries>>

(* create_topic: the name is the primary key. *)
CreateTopicCheck(t, n) ==
    n \notin topics /\ Ask(t, On({n} \X Workers, <<"topic">>, [topic |-> n]))

CreateTopic(t) ==
    /\ Does(t, "topic")
    /\ topics' = topics \cup {local[t].topic}
    /\ UNCHANGED <<subscriptions, deliveries>>

DeleteTopicRequire(t, n) ==
    n \in topics /\ Ask(t, On({n} \X Workers, <<"drop subscriptions", "drop topic">>, [topic |-> n]))

DropSubscriptions(t) ==
    /\ Does(t, "drop subscriptions")
    /\ subscriptions' = [i \in Ids |-> IF i \in SubscribersOf(local[t].topic)
                                       THEN NoSubscription ELSE subscriptions[i]]
    /\ UNCHANGED <<topics, deliveries>>

DropTopic(t) ==
    /\ Does(t, "drop topic")
    /\ topics' = topics \ {local[t].topic}
    /\ UNCHANGED <<subscriptions, deliveries>>

SubscribeRequire(t, n, protocol) ==
    n \in topics /\ Ask(t, On({<<n, t>>}, <<"subscribe">>,
                           [subscription |-> [topic |-> n, protocol |-> protocol]]))

Subscribe(t) ==
    /\ Does(t, "subscribe")
    /\ subscriptions' = [subscriptions EXCEPT ![local[t].at] = local[t].subscription]
    /\ UNCHANGED <<topics, deliveries>>

UnsubscribeSelect(t, i) ==
    subscriptions[i] # NoSubscription /\ Ask(t, On({}, <<"unsubscribe">>, [id |-> i]))

Unsubscribe(t) ==
    /\ Does(t, "unsubscribe")
    /\ subscriptions' = [subscriptions EXCEPT ![local[t].id] = NoSubscription]
    /\ UNCHANGED <<topics, deliveries>>

-----------------------------------------------------------------------------
(* publish *)
PublishRequire(t, n) ==
    n \in topics /\ Ask(t, On({}, <<"subscribers", "deliver", "answer">>, [published |-> n]))

PublishSelect(t) ==
    /\ At(t, "subscribers")
    /\ Continue(t, Also([local[t] EXCEPT !.todo = Tail(@)],
                        [subs |-> SubscribersOf(local[t].published), rows |-> subscriptions, tried |-> {}]))
    /\ UNCHANGED <<topics, subscriptions, deliveries>>

(* Those it has still to deliver to, as SELECTed. *)
Left(t) == {i \in local[t].subs : i \notin local[t].tried}

(* Mutant: an exception leaves the loop. *)
DeliverUntilOneRaises(t) ==
    LET s == local[t] IN
    /\ At(t, "deliver") /\ Left(t) # {}
    /\ \E i \in Left(t) :
          \/ /\ Continue(t, [s EXCEPT !.tried = @ \cup {i}])
             /\ deliveries' = IF s.rows[i].protocol = "log" THEN deliveries \cup {<<s.at, i>>} ELSE deliveries
          \/ /\ s.rows[i].protocol # "log"
             /\ Continue(t, [s EXCEPT !.todo = <<"answer">>])
             /\ UNCHANGED deliveries
    /\ UNCHANGED <<topics, subscriptions>>

(* One after another in any order; a queue or a function that raises is    *)
(* passed over, an INSERT that does is not (Next: Fails).                  *)
Deliver(t) ==
    LET s == local[t] IN
    /\ At(t, "deliver")
    /\ \E i \in Left(t) :
          /\ Continue(t, [s EXCEPT !.tried = @ \cup {i}])
          /\ deliveries' = IF s.rows[i].protocol = "log" THEN deliveries \cup {<<s.at, i>>} ELSE deliveries
    /\ UNCHANGED <<topics, subscriptions>>

Delivered(t) ==
    At(t, "deliver") /\ Left(t) = {} /\ Advance(t) /\ UNCHANGED <<topics, subscriptions, deliveries>>

PublishAnswer(t) == Does(t, "answer") /\ UNCHANGED <<topics, subscriptions, deliveries>>

-----------------------------------------------------------------------------
Publishing(t) == "published" \in DOMAIN local[t]

(* Bookkeeping of every step: the subscriptions that were there all along. *)
Watch ==
    subscribed' = [t \in Workers |->
        IF ~Publishing(t)' THEN {}
        ELSE (IF Publishing(t) THEN subscribed[t] ELSE Ids) \cap SubscribersOf(local[t].published)']

InitTables ==
    /\ topics \in {{}, Topics}
    /\ subscriptions = [i \in Ids |-> NoSubscription]
    /\ deliveries = {}
    /\ subscribed = [t \in Workers |-> {}]

Init == InitRequests /\ InitTables

Serve(t) ==
    \/ \E n \in Topics : \/ CreateTopicCheck(t, n) \/ DeleteTopicRequire(t, n) \/ PublishRequire(t, n)
                         \/ \E protocol \in Protocols : SubscribeRequire(t, n, protocol)
    \/ \E i \in Ids : UnsubscribeSelect(t, i)
    \/ CreateTopic(t) \/ DropSubscriptions(t) \/ DropTopic(t) \/ Subscribe(t) \/ Unsubscribe(t)
    \/ PublishSelect(t) \/ Deliver(t) \/ Delivered(t) \/ PublishAnswer(t)

(* What _sqs and _lambdas raise does not get out of publish. *)
Raises(t) ==
    /\ At(t, "deliver") => \E i \in Left(t) : local[t].rows[i].protocol = "log"
    /\ Fails(t)

Next ==
    /\ \/ \E t \in Workers : Serve(t)
       \/ (Crash \/ \E t \in Workers : Raises(t)) /\ UNCHANGED <<topics, subscriptions, deliveries>>
    /\ Watch

Spec == Init /\ [][Next]_vars

-----------------------------------------------------------------------------
(* Properties *)

(* sns.py:134-158 "best-effort delivery": a publish that answers has tried *)
(* every subscription there was all along, whoever raised before it.       *)
StandingSubscribersTried ==
    \A t \in Workers : At(t, "answer") => subscribed[t] \subseteq local[t].tried

(* sns.py:50-53: a subscription whose topic is gone, which would come back *)
(* with a topic of the same name, needs a subscribe that overlapped        *)
(* the deletion, or one that broke off.                                    *)
SubscriptionsHaveTopics ==
    \A i \in Ids : subscriptions[i] # NoSubscription =>
        \/ subscriptions[i].topic \in topics
        \/ \E t \in Workers : ~Quiet(<<subscriptions[i].topic, t>>)
=============================================================================
