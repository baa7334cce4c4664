--------------------------- MODULE ServicesProofs ---------------------------
(* Theorems about the services of module Services, for every value of      *)
(* their constants.                                                        *)
EXTENDS Services, FiniteSetTheorems, WellFoundedInduction, TLAPS

-----------------------------------------------------------------------------
(* A step of the server is one of the service the behaviour is about.      *)
LEMMA ServiceStep ==
  ASSUME [Next]_vars
  PROVE  /\ service' = service
         /\ service = "lambda" => [Function!Next]_(Function!vars)
         /\ service = "sns" => [Topic!Next]_(Topic!vars)
         /\ service = "eventbridge" => [Bus!Next]_(Bus!vars)
         /\ service = "cloudwatch" => [Watching!Next]_(Watching!vars)
         /\ service = "apigateway" => [Gateway!Next]_(Gateway!vars)
<1>1. CASE Next
  BY <1>1 DEF Next
<1>2. CASE UNCHANGED vars
  <2>1. UNCHANGED <<service, requests, lambdavars, snsvars, ebvars, cwvars, agvars>>
    BY <1>2 DEF vars
  <2>2. UNCHANGED Function!vars
    BY <2>1 DEF lambdavars, requests, Function!vars, Function!lambdavars, Function!functionTables,
                Function!requests
  <2>3. UNCHANGED Topic!vars
    BY <2>1 DEF snsvars, requests, Topic!vars, Topic!snsvars, Topic!requests
  <2>4. UNCHANGED Bus!vars
    BY <2>1 DEF ebvars, requests, Bus!vars, Bus!ebvars, Bus!requests
  <2>5. UNCHANGED Watching!vars
    BY <2>1 DEF cwvars, requests, Watching!vars, Watching!cwvars, Watching!logtables, Watching!requests
  <2>6. UNCHANGED Gateway!vars
    BY <2>1 DEF agvars, requests, Gateway!vars, Gateway!agvars, Gateway!requests
  <2>. QED BY <2>1, <2>2, <2>3, <2>4, <2>5, <2>6
<1>. QED BY <1>1, <1>2

-----------------------------------------------------------------------------
(* What a step does to the requests under way, whatever bounds their       *)
(* number.                                                                 *)
Begins(t, s) ==
    /\ local[t] = Idle
    /\ begun' = begun + 1
    /\ local' = [local EXCEPT ![t] = s]
    /\ disturbed' = disturbed \cup {row \in s.touches : \E u \in Workers : row \in local[u].touches}

Goes(t, s) ==
    /\ local' = [local EXCEPT ![t] = IF s.todo = <<>> THEN Idle ELSE s]
    /\ UNCHANGED <<begun, disturbed>>

Breaks ==
    /\ \A u \in Workers : \/ local'[u] = local[u]
                          \/ local'[u] = Idle /\ local[u].touches \subseteq disturbed'
    /\ local' = [u \in Workers |-> local'[u]]
    /\ disturbed \subseteq disturbed' /\ begun' = begun

Threads == local = [t \in Workers |-> local[t]]

(* Where no two requests overlapped, at most one is at work on a row.      *)
Apart ==
    \A t, u \in Workers : t # u => local[t].touches \cap local[u].touches \subseteq disturbed

(* t is the only thread whose request changes. *)
Only(t, s) == \A u \in Workers : local'[u] = IF u = t THEN s ELSE local[u]

Rest(s) == [s EXCEPT !.todo = Tail(@)]

LEMMA BeginsOnly ==
  ASSUME Threads, NEW t \in Workers, NEW s, Begins(t, s)
  PROVE  Threads' /\ Only(t, s)
  BY DEF Threads, Only, Begins

LEMMA GoesOnly ==
  ASSUME Threads, NEW t \in Workers, NEW s, Goes(t, s)
  PROVE  Threads' /\ Only(t, IF s.todo = <<>> THEN Idle ELSE s)
  BY DEF Threads, Only, Goes

LEMMA BreaksThreads == ASSUME Breaks PROVE Threads'
  BY DEF Breaks, Threads

LEMMA BeginsApart ==
  ASSUME Apart, Threads, NEW t \in Workers, NEW s, Begins(t, s)
  PROVE  Apart'
<1>1. Only(t, s)
  BY BeginsOnly
<1>. QED BY <1>1 DEF Apart, Only, Begins

LEMMA GoesApart ==
  ASSUME Apart, Threads, NEW t \in Workers, NEW s, Goes(t, s), s.touches \subseteq local[t].touches
  PROVE  Apart'
<1> DEFINE r == IF s.todo = <<>> THEN Idle ELSE s
<1>1. Only(t, r) /\ disturbed' = disturbed
  BY GoesOnly DEF Goes
<1>2. r.touches \subseteq local[t].touches
  BY DEF Idle
<1>. QED BY <1>1, <1>2 DEF Apart, Only

LEMMA BreaksApart == ASSUME Apart, Breaks PROVE Apart'
  BY DEF Apart, Breaks, Idle

(* Sequences of steps. *)
LEMMA Tails ==
  /\ \A a : <<a>> # <<>> /\ Head(<<a>>) = a /\ Tail(<<a>>) = <<>>
  /\ \A a, b : <<a, b>> # <<>> /\ Head(<<a, b>>) = a /\ Tail(<<a, b>>) = <<b>>
  /\ \A a, b, c : <<a, b, c>> # <<>> /\ Head(<<a, b, c>>) = a /\ Tail(<<a, b, c>>) = <<b, c>>
  /\ \A a, b, c, d : <<a, b, c, d>> # <<>> /\ Head(<<a, b, c, d>>) = a /\ Tail(<<a, b, c, d>>) = <<b, c, d>>
<1>1. \A a : <<a>> # <<>> /\ Head(<<a>>) = a /\ Tail(<<a>>) = <<>>
  OBVIOUS
<1>2. \A a, b : <<a, b>> # <<>> /\ Head(<<a, b>>) = a /\ Tail(<<a, b>>) = <<b>>
  OBVIOUS
<1>3. \A a, b, c : <<a, b, c>> # <<>> /\ Head(<<a, b, c>>) = a /\ Tail(<<a, b, c>>) = <<b, c>>
  OBVIOUS
<1>4. \A a, b, c, d : <<a, b, c, d>> # <<>> /\ Head(<<a, b, c, d>>) = a /\ Tail(<<a, b, c, d>>) = <<b, c, d>>
  OBVIOUS
<1>. QED BY <1>1, <1>2, <1>3, <1>4

LEMMA RestFields ==
  ASSUME NEW s, "todo" \in DOMAIN s
  PROVE  /\ DOMAIN Rest(s) = DOMAIN s /\ Rest(s).todo = Tail(s.todo)
         /\ \A x \in DOMAIN s : x # "todo" => Rest(s)[x] = s[x]
  BY DEF Rest


LEMMA JoinedSeq ==
  ASSUME NEW S, NEW a \in Seq(S), NEW b \in Seq(S)
  PROVE  a \o b \in Seq(S)
  OBVIOUS

(* There is a least one of some numbers. *)
LEMMA Least ==
  ASSUME NEW S, S \subseteq Nat, S # {}
  PROVE  \E i \in S : \A j \in S : i <= j
<1> DEFINE R == {x \in Nat \X Nat : x[1] < x[2]}
<1>1. IsWellFoundedOn(R, Nat)
  BY NatLessThanWellFounded DEF OpToRel
<1>2. \A x, y \in Nat : <<y, x>> \notin R => x <= y
  OBVIOUS
<1> HIDE DEF R
<1>3. PICK x \in S : \A y \in S : <<y, x>> \notin R
  BY <1>1, WFMin
<1>. QED BY <1>2, <1>3

LEMMA TopicThreads ==
  /\ \A t, s : Topic!Begin(t, s) => Begins(t, s)
  /\ \A t, s : Topic!Continue(t, s) => Goes(t, s)
  /\ \A t : Topic!Advance(t) => Goes(t, Rest(local[t]))
  /\ \A t : Topic!Ends(t) => Goes(t, Idle)
  /\ Threads /\ (Topic!Crash \/ \E t \in Workers : Topic!Fails(t)) => Breaks
<1>1. /\ \A t, s : Topic!Begin(t, s) => Begins(t, s)
      /\ \A t, s : Topic!Continue(t, s) => Goes(t, s)
  BY DEF Topic!Begin, Begins, Topic!Continue, Goes, Idle, Topic!Idle
<1>2. /\ \A t : Topic!Advance(t) => Goes(t, Rest(local[t]))
      /\ \A t : Topic!Ends(t) => Goes(t, Idle)
  BY <1>1 DEF Topic!Advance, Rest, Topic!Ends, Idle, Topic!Idle
<1>3. ASSUME Threads, NEW S, Topic!BreakOff(S) PROVE Breaks
  <2>1. /\ local' = [u \in Workers |-> IF u \in S THEN Idle ELSE local[u]]
        /\ disturbed' = disturbed \cup UNION {local[u].touches : u \in S} /\ begun' = begun
    BY <1>3 DEF Topic!BreakOff, Idle, Topic!Idle
  <2>2. \A u \in S : local[u].touches \subseteq disturbed'
    BY <2>1
  <2>. QED BY <2>1, <2>2 DEF Breaks
<1>. QED BY <1>1, <1>2, <1>3 DEF Topic!Crash, Topic!Fails

(* SNS: the statements of a publish, and those of all other requests.      *)
PubSelect == <<"subscribers", "deliver", "answer">>
PubDeliver == <<"deliver", "answer">>
PubAnswer == <<"answer">>

PubSteps == {"subscribers", "deliver", "answer"}

TopicPlain == {"topic", "drop subscriptions", "drop topic", "subscribe", "unsubscribe"}

IsPublish(s) == "published" \in DOMAIN s

PubLocal(s) ==
    /\ {"todo", "touches"} \subseteq DOMAIN s
    /\ ~IsPublish(s) => s.todo \in Seq(TopicPlain)
    /\ IsPublish(s) =>
          \/ s.todo = PubSelect /\ DOMAIN s = {"todo", "touches", "at", "published"}
          \/ /\ s.todo \in {PubDeliver, PubAnswer}
             /\ DOMAIN s = {"todo", "touches", "at", "published", "subs", "rows", "tried"}

(* Topic!SubscribersOf, of the table S.                                    *)
SubscribersIn(n, S) == {i \in Topic!Ids : S[i] # NoSubscription /\ S[i].topic = n}

(* A publish sees every subscription of B, and then has tried it. *)
Covers(s, B) ==
    /\ s.todo = PubDeliver => B \subseteq s.subs
    /\ s.todo = PubAnswer => B \subseteq s.tried

Subscribers(s, B, S) == IsPublish(s) => B \subseteq SubscribersIn(s.published, S) /\ Covers(s, B)

FanInv ==
    /\ Threads
    /\ \A t \in Workers : PubLocal(local[t]) /\ Subscribers(local[t], subscribed[t], subscriptions)

LEMMA PubWatch ==
  ASSUME Topic!Watch
  PROVE  \A u \in Workers : IsPublish(local'[u]) =>
            subscribed'[u] = (IF IsPublish(local[u]) THEN subscribed[u] ELSE Topic!Ids)
                             \cap SubscribersIn(local'[u].published, subscriptions')
  BY DEF Topic!Watch, Topic!Publishing, Topic!SubscribersOf, IsPublish, SubscribersIn

LEMMA PubTodos ==
  /\ PubSelect # <<>> /\ Head(PubSelect) = "subscribers" /\ Tail(PubSelect) = PubDeliver
  /\ PubDeliver # <<>> /\ Head(PubDeliver) = "deliver" /\ Tail(PubDeliver) = PubAnswer
  /\ PubAnswer # <<>> /\ Head(PubAnswer) = "answer" /\ Tail(PubAnswer) = <<>>
  BY Tails DEF PubSelect, PubDeliver, PubAnswer

LEMMA PubApart == PubDeliver # PubSelect /\ PubAnswer # PubSelect /\ PubAnswer # PubDeliver
<1>1. "deliver" # "subscribers" /\ "answer" # "subscribers" /\ "answer" # "deliver"
  OBVIOUS
<1>. QED BY <1>1, PubTodos

LEMMA PubNotPlain == "subscribers" \notin TopicPlain /\ "deliver" \notin TopicPlain /\ "answer" \notin TopicPlain
  BY DEF TopicPlain

(* A step of thread t, to r; the requests of others stay as they are. *)
LEMMA PubStep ==
  ASSUME FanInv, Topic!Watch, Threads', NEW t \in Workers, NEW r, Only(t, r), PubLocal(r),
         \/ ~IsPublish(r)
         \/ r.todo = PubSelect
         \/ /\ IsPublish(local[t]) /\ r.published = local[t].published
            /\ \A B \in SUBSET subscribed[t] :
                  B \subseteq SubscribersIn(r.published, subscriptions') => Covers(r, B)
  PROVE  FanInv'
<1>1. \A u \in Workers : PubLocal(local'[u])
  BY DEF FanInv, Only
<1>2. ASSUME NEW u \in Workers, IsPublish(local'[u])
      PROVE  /\ subscribed'[u] \subseteq SubscribersIn(local'[u].published, subscriptions')
             /\ Covers(local'[u], subscribed'[u])
  <2>1. subscribed'[u] = (IF IsPublish(local[u]) THEN subscribed[u] ELSE Topic!Ids)
                         \cap SubscribersIn(local'[u].published, subscriptions')
    BY <1>2, PubWatch
  <2>2. CASE u # t
    <3>1. local'[u] = local[u]
      BY <2>2 DEF Only
    <3>2. Covers(local[u], subscribed[u])
      BY <1>2, <3>1 DEF FanInv, Subscribers
    <3>. QED BY <1>2, <2>1, <3>1, <3>2 DEF Covers
  <2>3. CASE u = t
    <3>1. local'[u] = r
      BY <2>3 DEF Only
    <3>2. CASE r.todo = PubSelect
      BY <2>1, <3>1, <3>2, PubApart DEF Covers
    <3>3. CASE /\ IsPublish(local[t]) /\ r.published = local[t].published
               /\ \A B \in SUBSET subscribed[t] :
                     B \subseteq SubscribersIn(r.published, subscriptions') => Covers(r, B)
      BY <2>1, <2>3, <3>1, <3>3
    <3>. QED BY <1>2, <3>1, <3>2, <3>3
  <2>. QED BY <2>2, <2>3
<1>3. \A u \in Workers : Subscribers(local'[u], subscribed'[u], subscriptions')
  BY <1>2 DEF Subscribers
<1>. QED BY <1>1, <1>3 DEF FanInv

LEMMA PubIdle == PubLocal(Idle) /\ ~IsPublish(Idle)
<1>1. Idle.todo = <<>> /\ DOMAIN Idle = {"todo", "touches"}
  BY DEF Idle
<1>2. <<>> \in Seq(TopicPlain)
  OBVIOUS
<1>3. ~IsPublish(Idle)
  BY <1>1 DEF IsPublish
<1>. QED BY <1>1, <1>2, <1>3 DEF PubLocal

LEMMA PubAsk ==
  ASSUME FanInv, Topic!Watch, NEW t \in Workers, NEW s, Topic!Ask(t, s), PubLocal(s),
         ~IsPublish(s) \/ s.todo = PubSelect
  PROVE  FanInv'
<1>1. Begins(t, s)
  BY TopicThreads DEF Topic!Ask
<1>2. Threads' /\ Only(t, s)
  BY <1>1, BeginsOnly DEF FanInv
<1>. QED BY <1>2, PubStep

LEMMA TopicFields ==
  /\ \A a : "published" \notin DOMAIN [topic |-> a]
  /\ \A a : "published" \notin DOMAIN [subscription |-> a]
  /\ \A a : "published" \notin DOMAIN [id |-> a]
  OBVIOUS

LEMMA PubAskPlain ==
  ASSUME FanInv, Topic!Watch, NEW t \in Workers, NEW rows, NEW todo \in Seq(TopicPlain), NEW r,
         "published" \notin DOMAIN r, Topic!Ask(t, Topic!On(rows, todo, r))
  PROVE  FanInv'
<1> DEFINE s == Topic!On(rows, todo, r)
<1>1. DOMAIN s = {"todo", "touches", "at"} \cup DOMAIN r /\ s.todo = todo
  BY DEF Topic!On, Topic!Also
<1>2. s = Topic!On(rows, todo, r)
  OBVIOUS
<1> HIDE DEF s
<1>3. ~IsPublish(s)
  BY <1>1 DEF IsPublish
<1>4. PubLocal(s)
  BY <1>1, <1>3 DEF PubLocal
<1>. QED BY <1>2, <1>3, <1>4, PubAsk

LEMMA PubDoesPlain ==
  ASSUME FanInv, Topic!Watch, NEW t \in Workers, NEW step \in TopicPlain, Topic!Does(t, step)
  PROVE  FanInv'
<1> DEFINE s == local[t]  r == Rest(s)  q == IF r.todo = <<>> THEN Idle ELSE r
<1>1. s.todo # <<>> /\ Head(s.todo) = step /\ Goes(t, r)
  BY TopicThreads DEF Topic!Does, Topic!At
<1>2. Threads' /\ Only(t, q)
  BY <1>1, GoesOnly DEF FanInv
<1>3. PubLocal(s)
  BY DEF FanInv
<1>4. ~IsPublish(s) /\ s.todo \in Seq(TopicPlain)
  BY <1>1, <1>3, PubTodos, PubNotPlain DEF PubLocal
<1>5. DOMAIN r = DOMAIN s /\ r.todo = Tail(s.todo)
  BY <1>3, RestFields DEF PubLocal
<1> HIDE DEF r
<1>6. Tail(s.todo) \in Seq(TopicPlain)
  BY <1>1, <1>4
<1>7. PubLocal(r) /\ ~IsPublish(r)
  BY <1>3, <1>4, <1>5, <1>6 DEF PubLocal, IsPublish
<1>8. PubLocal(q) /\ ~IsPublish(q)
  BY <1>7, PubIdle
<1> HIDE DEF q
<1>. QED BY <1>2, <1>8, PubStep

LEMMA TopicPlainTodos ==
  /\ <<"topic">> \in Seq(TopicPlain) /\ <<"drop subscriptions", "drop topic">> \in Seq(TopicPlain)
  /\ <<"subscribe">> \in Seq(TopicPlain) /\ <<"unsubscribe">> \in Seq(TopicPlain)
  BY DEF TopicPlain

LEMMA PubAt ==
  ASSUME FanInv, NEW t \in Workers, NEW step \in PubSteps, Topic!At(t, step)
  PROVE  /\ PubLocal(local[t]) /\ IsPublish(local[t])
         /\ step = "subscribers" => /\ local[t].todo = PubSelect
                                    /\ DOMAIN local[t] = {"todo", "touches", "at", "published"}
         /\ step # "subscribers" =>
               /\ local[t].todo = IF step = "deliver" THEN PubDeliver ELSE PubAnswer
               /\ DOMAIN local[t] = {"todo", "touches", "at", "published", "subs", "rows", "tried"}
<1> DEFINE s == local[t]
<1>1. PubLocal(s) /\ s.todo # <<>> /\ Head(s.todo) = step
  BY DEF FanInv, Topic!At
<1>2. IsPublish(s)
  <2>1. SUFFICES ASSUME s.todo \in Seq(TopicPlain) PROVE FALSE
    BY <1>1 DEF PubLocal
  <2>2. step \in TopicPlain
    BY <1>1, <2>1
  <2>. QED BY <2>2, PubNotPlain DEF PubSteps
<1>3. \/ s.todo = PubSelect /\ DOMAIN s = {"todo", "touches", "at", "published"}
      \/ /\ s.todo \in {PubDeliver, PubAnswer}
         /\ DOMAIN s = {"todo", "touches", "at", "published", "subs", "rows", "tried"}
  BY <1>1, <1>2 DEF PubLocal
<1>4. Head(PubSelect) = "subscribers" /\ Head(PubDeliver) = "deliver" /\ Head(PubAnswer) = "answer"
  BY PubTodos
<1>5. "deliver" # "subscribers" /\ "answer" # "subscribers" /\ "answer" # "deliver"
  OBVIOUS
<1>. QED BY <1>1, <1>2, <1>3, <1>4, <1>5 DEF PubSteps

(* A statement of the publish itself. *)
LEMMA PubGoes ==
  ASSUME FanInv, Topic!Watch, NEW t \in Workers, NEW r, IsPublish(local[t]), Goes(t, r), r.todo # <<>>,
         r.published = local[t].published, PubLocal(r), subscriptions' = subscriptions,
         \A B \in SUBSET subscribed[t] : B \subseteq SubscribersIn(r.published, subscriptions) => Covers(r, B)
  PROVE  FanInv'
<1>1. Threads' /\ Only(t, r)
  BY GoesOnly DEF FanInv
<1>. QED BY <1>1, PubStep

LEMMA PubSelected ==
  ASSUME FanInv, Topic!Watch, NEW t \in Workers, Topic!PublishSelect(t)
  PROVE  FanInv'
<1> DEFINE s == local[t]
           q == [subs |-> Topic!SubscribersOf(s.published), rows |-> subscriptions, tried |-> {}]
           r == Topic!Also(Rest(s), q)
<1>1. Topic!At(t, "subscribers") /\ Topic!Continue(t, r) /\ subscriptions' = subscriptions
  BY DEF Topic!PublishSelect, Rest
<1>2. IsPublish(s) /\ s.todo = PubSelect /\ DOMAIN s = {"todo", "touches", "at", "published"}
  BY <1>1, PubAt DEF PubSteps
<1>3. /\ DOMAIN r = {"todo", "touches", "at", "published", "subs", "rows", "tried"}
      /\ r.todo = PubDeliver /\ r.published = s.published /\ r.subs = Topic!SubscribersOf(s.published)
  <2>1. DOMAIN Rest(s) = DOMAIN s /\ Rest(s).todo = PubDeliver /\ Rest(s).published = s.published
    BY <1>2, PubTodos, RestFields
  <2>2. DOMAIN q = {"subs", "rows", "tried"} /\ q.subs = Topic!SubscribersOf(s.published)
    OBVIOUS
  <2> HIDE DEF q
  <2>. QED BY <1>2, <2>1, <2>2 DEF Topic!Also
<1>4. Goes(t, r)
  BY <1>1, TopicThreads
<1> HIDE DEF r
<1>5. PubLocal(r) /\ r.todo # <<>>
  BY <1>3, PubTodos DEF PubLocal, IsPublish
<1>6. \A B : B \subseteq SubscribersIn(r.published, subscriptions) => Covers(r, B)
  BY <1>3, PubApart DEF Covers, Topic!SubscribersOf, SubscribersIn
<1>. QED BY <1>1, <1>2, <1>3, <1>4, <1>5, <1>6, PubGoes

LEMMA PubDelivers ==
  ASSUME FanInv, Topic!Watch, NEW t \in Workers, Topic!Deliver(t)
  PROVE  FanInv'
<1> DEFINE s == local[t]
<1>1. /\ Topic!At(t, "deliver") /\ subscriptions' = subscriptions
      /\ \E i \in Topic!Left(t) : Topic!Continue(t, [s EXCEPT !.tried = @ \cup {i}])
  BY DEF Topic!Deliver
<1>2. /\ IsPublish(s) /\ s.todo = PubDeliver
      /\ DOMAIN s = {"todo", "touches", "at", "published", "subs", "rows", "tried"}
  BY <1>1, PubAt DEF PubSteps
<1>3. PICK i : Topic!Continue(t, [s EXCEPT !.tried = @ \cup {i}])
  BY <1>1
<1> DEFINE r == [s EXCEPT !.tried = @ \cup {i}]
<1>4. DOMAIN r = DOMAIN s /\ r.todo = PubDeliver /\ r.published = s.published /\ r.subs = s.subs
  BY <1>2
<1>5. Goes(t, r)
  BY <1>3, TopicThreads
<1> HIDE DEF r
<1>6. PubLocal(r) /\ r.todo # <<>>
  BY <1>2, <1>4, PubTodos DEF PubLocal, IsPublish
<1>7. subscribed[t] \subseteq s.subs
  BY <1>2 DEF FanInv, Subscribers, Covers
<1>8. \A B \in SUBSET subscribed[t] : Covers(r, B)
  BY <1>4, <1>7, PubApart DEF Covers
<1>. QED BY <1>1, <1>2, <1>4, <1>5, <1>6, <1>8, PubGoes

LEMMA PubDelivered ==
  ASSUME FanInv, Topic!Watch, NEW t \in Workers, Topic!Delivered(t)
  PROVE  FanInv'
<1> DEFINE s == local[t]  r == Rest(s)
<1>1. Topic!At(t, "deliver") /\ subscriptions' = subscriptions /\ Topic!Left(t) = {} /\ Goes(t, r)
  BY TopicThreads DEF Topic!Delivered
<1>2. /\ IsPublish(s) /\ s.todo = PubDeliver
      /\ DOMAIN s = {"todo", "touches", "at", "published", "subs", "rows", "tried"}
  BY <1>1, PubAt DEF PubSteps
<1>3. DOMAIN r = DOMAIN s /\ r.todo = PubAnswer /\ r.published = s.published /\ r.tried = s.tried
  BY <1>2, PubTodos, RestFields
<1> HIDE DEF r
<1>4. PubLocal(r) /\ r.todo # <<>>
  BY <1>2, <1>3, PubTodos DEF PubLocal, IsPublish
<1>5. subscribed[t] \subseteq s.tried
  BY <1>1, <1>2 DEF FanInv, Subscribers, Covers, Topic!Left
<1>6. \A B \in SUBSET subscribed[t] : Covers(r, B)
  BY <1>3, <1>5, PubApart DEF Covers
<1>. QED BY <1>1, <1>2, <1>3, <1>4, <1>6, PubGoes

LEMMA PubAnswers ==
  ASSUME FanInv, Topic!Watch, NEW t \in Workers, Topic!PublishAnswer(t)
  PROVE  FanInv'
<1>1. Goes(t, Rest(local[t])) /\ Topic!At(t, "answer")
  BY TopicThreads DEF Topic!PublishAnswer, Topic!Does
<1>2. local[t].todo = PubAnswer /\ "todo" \in DOMAIN local[t]
  BY <1>1, PubAt DEF PubSteps, PubLocal
<1>3. Rest(local[t]).todo = <<>>
  BY <1>2, RestFields, PubTodos
<1>4. Threads' /\ Only(t, Idle)
  BY <1>1, <1>3, GoesOnly DEF FanInv
<1>. QED BY <1>4, PubIdle, PubStep

LEMMA PubBreaks ==
  ASSUME FanInv, Breaks, Topic!Watch
  PROVE  FanInv'
<1>1. Threads' /\ \A u \in Workers : local'[u] = local[u] \/ local'[u] = Idle
  BY BreaksThreads DEF Breaks
<1>2. \A u \in Workers : PubLocal(local'[u])
  BY <1>1, PubIdle DEF FanInv
<1>3. ASSUME NEW u \in Workers, IsPublish(local'[u])
      PROVE  /\ subscribed'[u] \subseteq SubscribersIn(local'[u].published, subscriptions')
             /\ Covers(local'[u], subscribed'[u])
  <2>1. local'[u] = local[u] /\ IsPublish(local[u])
    BY <1>1, <1>3, PubIdle
  <2>2. subscribed'[u] = subscribed[u] \cap SubscribersIn(local'[u].published, subscriptions')
    BY <1>3, <2>1, PubWatch
  <2>3. Covers(local[u], subscribed[u])
    BY <2>1 DEF FanInv, Subscribers
  <2>. QED BY <2>1, <2>2, <2>3 DEF Covers
<1>4. \A u \in Workers : Subscribers(local'[u], subscribed'[u], subscriptions')
  BY <1>3 DEF Subscribers
<1>. QED BY <1>1, <1>2, <1>4 DEF FanInv

LEMMA PubServe ==
  ASSUME FanInv, Topic!Watch, NEW t \in Workers, Topic!Serve(t)
  PROVE  FanInv'
<1>1. CASE \E n \in Topics : Topic!CreateTopicCheck(t, n)
  BY <1>1, PubAskPlain, TopicPlainTodos, TopicFields DEF Topic!CreateTopicCheck
<1>2. CASE \E n \in Topics : Topic!DeleteTopicRequire(t, n)
  BY <1>2, PubAskPlain, TopicPlainTodos, TopicFields DEF Topic!DeleteTopicRequire
<1>3. CASE \E n \in Topics : Topic!PublishRequire(t, n)
  <2>1. PICK n \in Topics : Topic!PublishRequire(t, n)
    BY <1>3
  <2> DEFINE s == Topic!On({}, PubSelect, [published |-> n])
  <2>2. Topic!Ask(t, s)
    BY <2>1 DEF Topic!PublishRequire, PubSelect
  <2>3. s.todo = PubSelect /\ DOMAIN s = {"todo", "touches", "at", "published"}
    BY DEF Topic!On, Topic!Also
  <2> HIDE DEF s
  <2>4. PubLocal(s)
    BY <2>3 DEF PubLocal, IsPublish
  <2>. QED BY <2>2, <2>3, <2>4, PubAsk
<1>4. CASE \E n \in Topics, protocol \in Topic!Protocols : Topic!SubscribeRequire(t, n, protocol)
  BY <1>4, PubAskPlain, TopicPlainTodos, TopicFields DEF Topic!SubscribeRequire
<1>5. CASE \E i \in Topic!Ids : Topic!UnsubscribeSelect(t, i)
  BY <1>5, PubAskPlain, TopicPlainTodos, TopicFields DEF Topic!UnsubscribeSelect
<1>6. CASE \/ Topic!CreateTopic(t) \/ Topic!DropSubscriptions(t) \/ Topic!DropTopic(t)
           \/ Topic!Subscribe(t) \/ Topic!Unsubscribe(t)
  <2>1. \E step \in TopicPlain : Topic!Does(t, step)
    BY <1>6 DEF Topic!CreateTopic, Topic!DropSubscriptions, Topic!DropTopic, Topic!Subscribe,
           Topic!Unsubscribe, TopicPlain
  <2>. QED BY <2>1, PubDoesPlain
<1>. QED BY <1>1, <1>2, <1>3, <1>4, <1>5, <1>6, PubSelected, PubDelivers, PubDelivered, PubAnswers
         DEF Topic!Serve

LEMMA PubNext ==
  ASSUME FanInv, [Topic!Next]_(Topic!vars)
  PROVE  FanInv'
<1>1. CASE UNCHANGED Topic!vars
  <2>1. UNCHANGED <<local, subscribed, subscriptions>>
    BY <1>1 DEF Topic!vars, Topic!requests, Topic!snsvars
  <2>. QED BY <2>1 DEF FanInv, Threads
<1>2. CASE Topic!Next
  <2>1. Topic!Watch
    BY <1>2 DEF Topic!Next
  <2>2. CASE \E t \in Workers : Topic!Serve(t)
    BY <2>1, <2>2, PubServe
  <2>3. CASE Topic!Crash \/ \E t \in Workers : Topic!Raises(t)
    <3>1. Topic!Crash \/ \E t \in Workers : Topic!Fails(t)
      BY <2>3 DEF Topic!Raises
    <3>2. Breaks
      BY <3>1, TopicThreads DEF FanInv
    <3>. QED BY <2>1, <3>2, PubBreaks
  <2>. QED BY <1>2, <2>2, <2>3 DEF Topic!Next
<1>. QED BY <1>1, <1>2

LEMMA PubInit == InitRequests => FanInv
<1> SUFFICES ASSUME InitRequests PROVE FanInv
  OBVIOUS
<1>1. \A t \in Workers : local[t] = Idle
  BY DEF InitRequests
<1>2. Threads
  BY <1>1 DEF InitRequests, Threads
<1>. QED BY <1>1, <1>2, PubIdle DEF FanInv, Subscribers

LEMMA PubTried == FanInv => Topic!StandingSubscribersTried
<1> SUFFICES ASSUME FanInv, NEW t \in Workers, Topic!At(t, "answer")
             PROVE  subscribed[t] \subseteq local[t].tried
  BY DEF Topic!StandingSubscribersTried
<1>1. IsPublish(local[t]) /\ local[t].todo = PubAnswer
  BY PubAt DEF PubSteps
<1>. QED BY <1>1 DEF FanInv, Subscribers, Covers

(* SNS: requests that make or delete a topic have all its rows for         *)
(* themselves; a subscribe shares them.                                    *)
TopicOther == {"unsubscribe", "subscribers", "deliver", "answer"}

DropAll == <<"drop subscriptions", "drop topic">>
DropLast == <<"drop topic">>

IsSubscribe(s) == "subscription" \in DOMAIN s
IsTopic(s) == "topic" \in DOMAIN s

TopicLocal(t, s) ==
    /\ {"todo", "touches"} \subseteq DOMAIN s
    /\ ~IsSubscribe(s) /\ ~IsTopic(s) => s.todo \in Seq(TopicOther)
    /\ IsSubscribe(s) =>
          /\ s.todo = <<"subscribe">> /\ DOMAIN s = {"todo", "touches", "at", "subscription"}
          /\ <<s.subscription.topic, t>> \in s.touches
    /\ IsTopic(s) =>
          /\ s.todo \in {<<"topic">>, DropAll, DropLast} /\ DOMAIN s = {"todo", "touches", "at", "topic"}
          /\ {s.topic} \X Workers \subseteq s.touches

Subscribes(s, n) == IsSubscribe(s) /\ s.subscription.topic = n

Administers(s, n) == IsTopic(s) /\ s.topic = n

(* No requests for the topic have overlapped, and none has broken off. *)
CalmTopic(n) == \A t \in Workers : <<n, t>> \notin disturbed

TopicOwned(n) ==
    CalmTopic(n) =>
        /\ (\E i \in Topic!Ids : subscriptions[i] # NoSubscription /\ subscriptions[i].topic = n) => n \in topics
        /\ \A t \in Workers :
              /\ Subscribes(local[t], n) => n \in topics
              /\ Administers(local[t], n) /\ local[t].todo = DropLast =>
                    \A i \in Topic!Ids : subscriptions[i] # NoSubscription => subscriptions[i].topic # n

TopicInv ==
    /\ Threads /\ Apart
    /\ subscriptions = [i \in Topic!Ids |-> subscriptions[i]]
    /\ \A t \in Workers : TopicLocal(t, local[t])
    /\ \A n : TopicOwned(n)

LEMMA TopicTodos ==
  /\ DropAll # <<>> /\ Head(DropAll) = "drop subscriptions" /\ Tail(DropAll) = DropLast
  /\ DropLast # <<>> /\ Head(DropLast) = "drop topic" /\ Tail(DropLast) = <<>>
  /\ <<"topic">> # <<>> /\ Head(<<"topic">>) = "topic" /\ Tail(<<"topic">>) = <<>>
  /\ <<"subscribe">> # <<>> /\ Head(<<"subscribe">>) = "subscribe" /\ Tail(<<"subscribe">>) = <<>>
  BY Tails DEF DropAll, DropLast

LEMMA TopicStepsApart ==
  /\ DropAll # DropLast /\ <<"topic">> # DropLast /\ <<"topic">> # DropAll
  /\ \A step \in {"topic", "drop subscriptions", "drop topic", "subscribe"} : step \notin TopicOther
<1>1. "drop subscriptions" # "drop topic" /\ "topic" # "drop topic" /\ "topic" # "drop subscriptions"
  OBVIOUS
<1>2. \A step \in {"topic", "drop subscriptions", "drop topic", "subscribe"} : step \notin TopicOther
  BY DEF TopicOther
<1>. QED BY <1>1, <1>2, TopicTodos

LEMMA TopicIdle == \A t : TopicLocal(t, Idle) /\ ~IsSubscribe(Idle) /\ ~IsTopic(Idle)
<1>1. Idle.todo = <<>> /\ DOMAIN Idle = {"todo", "touches"}
  BY DEF Idle
<1>2. <<>> \in Seq(TopicOther)
  OBVIOUS
<1>3. ~IsSubscribe(Idle) /\ ~IsTopic(Idle)
  BY <1>1 DEF IsSubscribe, IsTopic
<1>. QED BY <1>1, <1>2, <1>3 DEF TopicLocal

(* Who makes or deletes a topic meets nobody, or it is disturbed. *)
LEMMA TopicAlone ==
  ASSUME TopicInv, NEW n, CalmTopic(n), NEW t \in Workers, Administers(local[t], n)
  PROVE  \A u \in Workers : u # t => ~Subscribes(local[u], n) /\ ~Administers(local[u], n)
<1>1. ASSUME NEW u \in Workers, u # t, Subscribes(local[u], n) \/ Administers(local[u], n) PROVE FALSE
  <2>1. {n} \X Workers \subseteq local[t].touches
    BY DEF TopicInv, TopicLocal, Administers
  <2>2. <<n, u>> \in local[u].touches
    BY <1>1 DEF TopicInv, TopicLocal, Administers, Subscribes
  <2>3. <<n, u>> \in local[t].touches
    BY <2>1
  <2>4. <<n, u>> \notin disturbed
    BY DEF CalmTopic
  <2>. QED BY <1>1, <2>2, <2>3, <2>4 DEF TopicInv, Apart
<1>. QED BY <1>1

(* Subscriptions go or stay, topics stay or come; what has begun is no     *)
(* subscribe and has not dropped subscriptions.                            *)
LEMMA TopicAside ==
  ASSUME TopicInv, Threads', Apart', disturbed \subseteq disturbed',
         subscriptions' = [i \in Topic!Ids |-> subscriptions'[i]],
         \A i \in Topic!Ids : subscriptions'[i] \in {subscriptions[i], NoSubscription},
         topics \subseteq topics',
         \A u \in Workers : \/ local'[u] = local[u]
                            \/ /\ TopicLocal(u, local'[u]) /\ ~IsSubscribe(local'[u])
                               /\ IsTopic(local'[u]) => local'[u].todo # DropLast
  PROVE  TopicInv'
<1>1. \A u \in Workers : TopicLocal(u, local'[u])
  BY DEF TopicInv
<1>2. ASSUME NEW n PROVE TopicOwned(n)'
  <2>1. SUFFICES ASSUME CalmTopic(n)'
        PROVE  /\ (\E i \in Topic!Ids : subscriptions'[i] # NoSubscription /\ subscriptions'[i].topic = n) =>
                     n \in topics'
               /\ \A t \in Workers :
                     /\ Subscribes(local'[t], n) => n \in topics'
                     /\ Administers(local'[t], n) /\ local'[t].todo = DropLast =>
                           \A i \in Topic!Ids : subscriptions'[i] # NoSubscription => subscriptions'[i].topic # n
    BY DEF TopicOwned
  <2>2. CalmTopic(n)
    BY <2>1 DEF CalmTopic
  <2>3. /\ (\E i \in Topic!Ids : subscriptions[i] # NoSubscription /\ subscriptions[i].topic = n) => n \in topics
        /\ \A t \in Workers :
              /\ Subscribes(local[t], n) => n \in topics
              /\ Administers(local[t], n) /\ local[t].todo = DropLast =>
                    \A i \in Topic!Ids : subscriptions[i] # NoSubscription => subscriptions[i].topic # n
    BY <2>2 DEF TopicInv, TopicOwned
  <2>. QED BY <2>3 DEF Subscribes, Administers
<1>. QED BY <1>1, <1>2 DEF TopicInv

LEMMA TopicBreaks ==
  ASSUME TopicInv, Breaks, UNCHANGED <<topics, subscriptions>>
  PROVE  TopicInv'
<1>1. Threads' /\ Apart' /\ disturbed \subseteq disturbed' /\ \A u \in Workers : local'[u] = local[u] \/ local'[u] = Idle
  BY BreaksThreads, BreaksApart DEF TopicInv, Breaks
<1>2. subscriptions' = [i \in Topic!Ids |-> subscriptions'[i]]
  BY DEF TopicInv
<1>. QED BY <1>1, <1>2, TopicIdle, TopicAside

LEMMA TopicAsk ==
  ASSUME TopicInv, NEW t \in Workers, NEW s, Topic!Ask(t, s), TopicLocal(t, s), ~IsSubscribe(s),
         IsTopic(s) => s.todo # DropLast
  PROVE  TopicInv'
<1>1. Begins(t, s) /\ UNCHANGED <<topics, subscriptions>>
  BY TopicThreads DEF Topic!Ask
<1>2. Threads' /\ Apart' /\ Only(t, s) /\ disturbed \subseteq disturbed'
  BY <1>1, BeginsOnly, BeginsApart DEF TopicInv, Begins
<1>3. subscriptions' = [i \in Topic!Ids |-> subscriptions'[i]]
  BY <1>1 DEF TopicInv
<1>. QED BY <1>1, <1>2, <1>3, TopicAside DEF Only

(* A thread goes on or ends, with no table that matters less. *)
LEMMA TopicGoes ==
  ASSUME TopicInv, NEW t \in Workers, NEW r, Goes(t, r), TopicLocal(t, r), ~IsSubscribe(r),
         IsTopic(r) => r.todo # DropLast, r.touches \subseteq local[t].touches,
         subscriptions' = [i \in Topic!Ids |-> subscriptions'[i]],
         \A i \in Topic!Ids : subscriptions'[i] \in {subscriptions[i], NoSubscription},
         topics \subseteq topics'
  PROVE  TopicInv'
<1>1. Threads' /\ Apart' /\ Only(t, IF r.todo = <<>> THEN Idle ELSE r) /\ disturbed' = disturbed
  BY GoesOnly, GoesApart DEF TopicInv, Goes
<1>. QED BY <1>1, TopicIdle, TopicAside DEF Only

(* Which request has the statement next. *)
LEMMA TopicAt ==
  ASSUME TopicInv, NEW t \in Workers, NEW step, Topic!At(t, step)
  PROVE  /\ TopicLocal(t, local[t])
         /\ step \in TopicOther =>
               local[t].todo \in Seq(TopicOther) /\ ~IsSubscribe(local[t]) /\ ~IsTopic(local[t])
         /\ step = "subscribe" => IsSubscribe(local[t]) /\ ~IsTopic(local[t]) /\ local[t].todo = <<"subscribe">>
         /\ step \in {"topic", "drop subscriptions", "drop topic"} => IsTopic(local[t]) /\ ~IsSubscribe(local[t])
         /\ step = "topic" => local[t].todo = <<"topic">>
         /\ step = "drop subscriptions" => local[t].todo = DropAll
         /\ step = "drop topic" => local[t].todo = DropLast
<1> DEFINE s == local[t]
<1>1. TopicLocal(t, s) /\ s.todo # <<>> /\ Head(s.todo) = step
  BY DEF TopicInv, Topic!At
<1>2. s.todo \in Seq(TopicOther) => step \in TopicOther
  BY <1>1
<1>3. IsTopic(s) => ~IsSubscribe(s)
  BY <1>1 DEF TopicLocal, IsSubscribe
<1>4. CASE IsTopic(s)
  <2>1. s.todo \in {<<"topic">>, DropAll, DropLast}
    BY <1>1, <1>4 DEF TopicLocal
  <2>. QED BY <1>1, <1>3, <1>4, <2>1, TopicTodos, TopicStepsApart
<1>5. CASE IsSubscribe(s)
  <2>1. s.todo = <<"subscribe">>
    BY <1>1, <1>5 DEF TopicLocal
  <2>2. step = "subscribe"
    BY <1>1, <2>1, TopicTodos
  <2>. QED BY <1>1, <1>3, <1>5, <2>1, <2>2, TopicStepsApart
<1>6. CASE ~IsTopic(s) /\ ~IsSubscribe(s)
  <2>1. s.todo \in Seq(TopicOther)
    BY <1>1, <1>6 DEF TopicLocal
  <2>. QED BY <1>1, <1>2, <1>6, <2>1, TopicStepsApart
<1>. QED BY <1>4, <1>5, <1>6

(* The last statement of a request that has no other. *)
LEMMA TopicEnds ==
  ASSUME TopicInv, NEW t \in Workers, NEW step, Topic!Does(t, step), Tail(local[t].todo) = <<>>
  PROVE  Threads' /\ Apart' /\ Only(t, Idle) /\ disturbed' = disturbed /\ Goes(t, Rest(local[t])) /\ Rest(local[t]).todo = <<>>
<1>1. Goes(t, Rest(local[t])) /\ "todo" \in DOMAIN local[t] /\ "touches" \in DOMAIN local[t]
  BY TopicThreads DEF Topic!Does, TopicInv, TopicLocal
<1>2. Rest(local[t]).todo = <<>>
  BY <1>1, RestFields
<1>3. Rest(local[t]).touches = local[t].touches
  BY <1>1 DEF Rest
<1>4. Threads' /\ Only(t, Idle) /\ disturbed' = disturbed
  BY <1>1, <1>2, GoesOnly DEF TopicInv, Goes
<1>5. Apart'
  BY <1>1, <1>3, GoesApart DEF TopicInv
<1>. QED BY <1>1, <1>2, <1>4, <1>5

LEMMA TopicCreates ==
  ASSUME TopicInv, NEW t \in Workers, Topic!CreateTopic(t)
  PROVE  TopicInv'
<1>1. Topic!Does(t, "topic") /\ topics \subseteq topics' /\ subscriptions' = subscriptions
  BY DEF Topic!CreateTopic
<1>2. local[t].todo = <<"topic">>
  BY <1>1, TopicAt DEF Topic!Does
<1>3. Threads' /\ Apart' /\ Only(t, Idle) /\ disturbed' = disturbed
  BY <1>1, <1>2, TopicTodos, TopicEnds
<1>4. subscriptions' = [i \in Topic!Ids |-> subscriptions'[i]]
  BY <1>1 DEF TopicInv
<1>. QED BY <1>1, <1>3, <1>4, TopicIdle, TopicAside DEF Only

LEMMA TopicUnsubscribes ==
  ASSUME TopicInv, NEW t \in Workers, Topic!Unsubscribe(t)
  PROVE  TopicInv'
<1>1. Topic!Does(t, "unsubscribe") /\ topics' = topics
  BY DEF Topic!Unsubscribe
<1>2. PICK i : subscriptions' = [subscriptions EXCEPT ![i] = NoSubscription]
  BY DEF Topic!Unsubscribe
<1>3. DOMAIN subscriptions = Topic!Ids
  BY DEF TopicInv
<1>4. /\ subscriptions' = [j \in Topic!Ids |-> subscriptions'[j]]
      /\ \A j \in Topic!Ids : subscriptions'[j] \in {subscriptions[j], NoSubscription}
  BY <1>2, <1>3
<1> DEFINE s == local[t]  r == Rest(s)
<1>5. /\ s.todo \in Seq(TopicOther) /\ s.todo # <<>> /\ ~IsSubscribe(s) /\ ~IsTopic(s)
      /\ "todo" \in DOMAIN s /\ "touches" \in DOMAIN s /\ Goes(t, r)
  BY <1>1, TopicAt, TopicThreads DEF Topic!Does, Topic!At, TopicOther, TopicLocal
<1>6. DOMAIN r = DOMAIN s /\ r.todo = Tail(s.todo)
  BY <1>5, RestFields
<1>7. r.touches = s.touches
  BY <1>5 DEF Rest
<1> HIDE DEF r
<1>8. Tail(s.todo) \in Seq(TopicOther)
  BY <1>5
<1>9. TopicLocal(t, r) /\ ~IsSubscribe(r) /\ ~IsTopic(r)
  BY <1>5, <1>6, <1>8 DEF TopicLocal, IsSubscribe, IsTopic
<1>. QED BY <1>1, <1>4, <1>5, <1>7, <1>9, TopicGoes

(* delete_topic: the subscriptions first. *)
LEMMA TopicDropsSubscriptions ==
  ASSUME TopicInv, NEW t \in Workers, Topic!DropSubscriptions(t)
  PROVE  TopicInv'
<1> DEFINE s == local[t]  r == Rest(s)
<1>. PICK n : n = s.topic
  OBVIOUS
<1>1. /\ Topic!Does(t, "drop subscriptions") /\ topics' = topics
      /\ subscriptions' = [i \in Topic!Ids |-> IF i \in Topic!SubscribersOf(n) THEN NoSubscription ELSE subscriptions[i]]
  BY DEF Topic!DropSubscriptions
<1>2. IsTopic(s) /\ ~IsSubscribe(s) /\ s.todo = DropAll /\ TopicLocal(t, s) /\ Goes(t, r)
  BY <1>1, TopicAt, TopicThreads DEF Topic!Does
<1>3. DOMAIN s = {"todo", "touches", "at", "topic"} /\ {n} \X Workers \subseteq s.touches
  BY <1>2 DEF TopicLocal
<1>4. DOMAIN r = DOMAIN s /\ r.todo = DropLast /\ r.topic = n /\ r.touches = s.touches
  <2>1. r.topic = n /\ r.touches = s.touches
    BY <1>3 DEF Rest
  <2>. QED BY <1>2, <1>3, <2>1, RestFields, TopicTodos
<1> HIDE DEF r
<1>5. r.todo # <<>> /\ TopicLocal(t, r) /\ IsTopic(r) /\ ~IsSubscribe(r)
  <2>1. IsTopic(r) /\ ~IsSubscribe(r)
    BY <1>3, <1>4 DEF IsTopic, IsSubscribe
  <2>2. {r.topic} \X Workers \subseteq r.touches
    BY <1>3, <1>4
  <2>3. TopicLocal(t, r)
    BY <1>3, <1>4, <2>1, <2>2 DEF TopicLocal
  <2>. QED BY <1>4, <2>1, <2>3, TopicTodos
<1>6. Threads' /\ Apart' /\ Only(t, r) /\ disturbed' = disturbed
  BY <1>2, <1>4, <1>5, GoesOnly, GoesApart DEF TopicInv, Goes
<1>7. \A u \in Workers : local'[u] = IF u = t THEN r ELSE local[u]
  BY <1>6 DEF Only
<1>8. \A i \in Topic!Ids : subscriptions'[i] # NoSubscription =>
         subscriptions'[i] = subscriptions[i] /\ subscriptions'[i].topic # n
  BY <1>1 DEF Topic!SubscribersOf
<1>9. ASSUME NEW m PROVE TopicOwned(m)'
  <2>1. SUFFICES ASSUME CalmTopic(m)
        PROVE  /\ (\E i \in Topic!Ids : subscriptions'[i] # NoSubscription /\ subscriptions'[i].topic = m) => m \in topics'
               /\ \A u \in Workers :
                     /\ Subscribes(local'[u], m) => m \in topics'
                     /\ Administers(local'[u], m) /\ local'[u].todo = DropLast =>
                           \A i \in Topic!Ids : subscriptions'[i] # NoSubscription => subscriptions'[i].topic # m
    BY <1>6 DEF TopicOwned, CalmTopic
  <2>2. /\ (\E i \in Topic!Ids : subscriptions[i] # NoSubscription /\ subscriptions[i].topic = m) => m \in topics
        /\ \A u \in Workers :
              /\ Subscribes(local[u], m) => m \in topics
              /\ Administers(local[u], m) /\ local[u].todo = DropLast =>
                    \A i \in Topic!Ids : subscriptions[i] # NoSubscription => subscriptions[i].topic # m
    BY <2>1 DEF TopicInv, TopicOwned
  <2>3. \A u \in Workers : Subscribes(local'[u], m) => m \in topics'
    BY <1>1, <1>5, <1>7, <2>2 DEF Subscribes
  <2>4. ASSUME NEW u \in Workers, Administers(local'[u], m), local'[u].todo = DropLast
        PROVE  \A i \in Topic!Ids : subscriptions'[i] # NoSubscription => subscriptions'[i].topic # m
    <3>1. CASE u = t
      BY <1>4, <1>7, <1>8, <2>4, <3>1 DEF Administers
    <3>2. CASE u # t
      BY <1>7, <1>8, <2>2, <2>4, <3>2
    <3>. QED BY <3>1, <3>2
  <2>. QED BY <1>1, <1>8, <2>2, <2>3, <2>4
<1>10. \A u \in Workers : TopicLocal(u, local'[u])
  BY <1>5, <1>7 DEF TopicInv
<1>11. subscriptions' = [i \in Topic!Ids |-> subscriptions'[i]]
  BY <1>1
<1>. QED BY <1>6, <1>9, <1>10, <1>11 DEF TopicInv

(* Then the topic, which nobody subscribes to meanwhile. *)
LEMMA TopicDrops ==
  ASSUME TopicInv, NEW t \in Workers, Topic!DropTopic(t)
  PROVE  TopicInv'
<1> DEFINE s == local[t]
<1>. PICK n : n = s.topic
  OBVIOUS
<1>1. Topic!Does(t, "drop topic") /\ topics' = topics \ {n} /\ subscriptions' = subscriptions
  BY DEF Topic!DropTopic
<1>2. IsTopic(s) /\ s.todo = DropLast
  BY <1>1, TopicAt DEF Topic!Does
<1>3. Threads' /\ Apart' /\ Only(t, Idle) /\ disturbed' = disturbed
  BY <1>1, <1>2, TopicTodos, TopicEnds
<1>4. \A u \in Workers : local'[u] = IF u = t THEN Idle ELSE local[u]
  BY <1>3 DEF Only
<1>5. Administers(s, n)
  BY <1>2 DEF Administers
<1>6. ASSUME NEW m PROVE TopicOwned(m)'
  <2>1. SUFFICES ASSUME CalmTopic(m)
        PROVE  /\ (\E i \in Topic!Ids : subscriptions[i] # NoSubscription /\ subscriptions[i].topic = m) => m \in topics'
               /\ \A u \in Workers :
                     /\ Subscribes(local'[u], m) => m \in topics'
                     /\ Administers(local'[u], m) /\ local'[u].todo = DropLast =>
                           \A i \in Topic!Ids : subscriptions[i] # NoSubscription => subscriptions[i].topic # m
    BY <1>1, <1>3 DEF TopicOwned, CalmTopic
  <2>2. /\ (\E i \in Topic!Ids : subscriptions[i] # NoSubscription /\ subscriptions[i].topic = m) => m \in topics
        /\ \A u \in Workers :
              /\ Subscribes(local[u], m) => m \in topics
              /\ Administers(local[u], m) /\ local[u].todo = DropLast =>
                    \A i \in Topic!Ids : subscriptions[i] # NoSubscription => subscriptions[i].topic # m
    BY <2>1 DEF TopicInv, TopicOwned
  <2>3. m = n => /\ \A i \in Topic!Ids : subscriptions[i] # NoSubscription => subscriptions[i].topic # m
                 /\ \A u \in Workers : u # t => ~Subscribes(local[u], m)
    BY <1>2, <1>5, <2>1, <2>2, TopicAlone
  <2>4. \A u \in Workers : Subscribes(local'[u], m) => u # t /\ Subscribes(local[u], m)
    BY <1>4, TopicIdle DEF Subscribes
  <2>5. \A u \in Workers : Administers(local'[u], m) => u # t /\ local'[u] = local[u]
    BY <1>4, TopicIdle DEF Administers
  <2>. QED BY <1>1, <2>2, <2>3, <2>4, <2>5
<1>7. \A u \in Workers : TopicLocal(u, local'[u])
  BY <1>4, TopicIdle DEF TopicInv
<1>8. subscriptions' = [i \in Topic!Ids |-> subscriptions'[i]]
  BY <1>1 DEF TopicInv
<1>. QED BY <1>3, <1>6, <1>7, <1>8 DEF TopicInv

LEMMA TopicSubscribes ==
  ASSUME TopicInv, NEW t \in Workers, Topic!Subscribe(t)
  PROVE  TopicInv'
<1> DEFINE s == local[t]
<1>. PICK at : at = s.at
  OBVIOUS
<1>. PICK row : row = s.subscription
  OBVIOUS
<1>1. Topic!Does(t, "subscribe") /\ topics' = topics /\ subscriptions' = [subscriptions EXCEPT ![at] = row]
  BY DEF Topic!Subscribe
<1>2. IsSubscribe(s) /\ s.todo = <<"subscribe">>
  BY <1>1, TopicAt DEF Topic!Does
<1>3. Threads' /\ Apart' /\ Only(t, Idle) /\ disturbed' = disturbed
  BY <1>1, <1>2, TopicTodos, TopicEnds
<1>4. \A u \in Workers : local'[u] = IF u = t THEN Idle ELSE local[u]
  BY <1>3 DEF Only
<1>5. Subscribes(s, row.topic)
  BY <1>2 DEF Subscribes
<1>6. DOMAIN subscriptions = Topic!Ids
  BY DEF TopicInv
<1>7. \A i \in Topic!Ids : subscriptions'[i] = subscriptions[i] \/ subscriptions'[i] = row
  BY <1>1, <1>6
<1>8. subscriptions' = [i \in Topic!Ids |-> subscriptions'[i]]
  BY <1>1, <1>6
<1>9. ASSUME NEW m PROVE TopicOwned(m)'
  <2>1. SUFFICES ASSUME CalmTopic(m)
        PROVE  /\ (\E i \in Topic!Ids : subscriptions'[i] # NoSubscription /\ subscriptions'[i].topic = m) => m \in topics
               /\ \A u \in Workers :
                     /\ Subscribes(local'[u], m) => m \in topics
                     /\ Administers(local'[u], m) /\ local'[u].todo = DropLast =>
                           \A i \in Topic!Ids : subscriptions'[i] # NoSubscription => subscriptions'[i].topic # m
    BY <1>1, <1>3 DEF TopicOwned, CalmTopic
  <2>2. /\ (\E i \in Topic!Ids : subscriptions[i] # NoSubscription /\ subscriptions[i].topic = m) => m \in topics
        /\ \A u \in Workers :
              /\ Subscribes(local[u], m) => m \in topics
              /\ Administers(local[u], m) /\ local[u].todo = DropLast =>
                    \A i \in Topic!Ids : subscriptions[i] # NoSubscription => subscriptions[i].topic # m
    BY <2>1 DEF TopicInv, TopicOwned
  <2>3. row.topic = m => m \in topics
    BY <1>5, <2>2
  <2>4. row.topic = m => \A u \in Workers : ~Administers(local'[u], m)
    <3>1. SUFFICES ASSUME row.topic = m, NEW u \in Workers, Administers(local'[u], m) PROVE FALSE
      OBVIOUS
    <3>2. u # t /\ Administers(local[u], m)
      BY <1>4, <3>1, TopicIdle DEF Administers
    <3>. QED BY <1>5, <2>1, <3>1, <3>2, TopicAlone
  <2>5. \A u \in Workers : Subscribes(local'[u], m) => Subscribes(local[u], m)
    BY <1>4, TopicIdle DEF Subscribes
  <2>6. \A u \in Workers : Administers(local'[u], m) => local'[u] = local[u]
    BY <1>4, TopicIdle DEF Administers
  <2>. QED BY <1>7, <2>2, <2>3, <2>4, <2>5, <2>6
<1>10. \A u \in Workers : TopicLocal(u, local'[u])
  BY <1>4, TopicIdle DEF TopicInv
<1>. QED BY <1>3, <1>8, <1>9, <1>10 DEF TopicInv

(* subscribe begins with the topic there, and relies on its staying.       *)
LEMMA TopicSubscribeAsked ==
  ASSUME TopicInv, NEW t \in Workers, NEW n, NEW protocol, Topic!SubscribeRequire(t, n, protocol)
  PROVE  TopicInv'
<1>. PICK row : row = [topic |-> n, protocol |-> protocol]
  OBVIOUS
<1>. PICK q : q = [subscription |-> row]
  OBVIOUS
<1> DEFINE s == Topic!On({<<n, t>>}, <<"subscribe">>, q)
<1>1. n \in topics /\ Begins(t, s) /\ UNCHANGED <<topics, subscriptions>>
  BY TopicThreads DEF Topic!SubscribeRequire, Topic!Ask
<1>2. DOMAIN q = {"subscription"} /\ q.subscription = row /\ row.topic = n
  OBVIOUS
<1>3. /\ DOMAIN s = {"todo", "touches", "at", "subscription"} /\ s.todo = <<"subscribe">>
      /\ s.touches = {<<n, t>>} /\ s.subscription = row
  BY <1>2 DEF Topic!On, Topic!Also
<1> HIDE DEF s
<1>4. IsSubscribe(s) /\ ~IsTopic(s) /\ TopicLocal(t, s) /\ \A m : Subscribes(s, m) => m = n
  <2>1. IsSubscribe(s) /\ ~IsTopic(s)
    BY <1>3 DEF IsSubscribe, IsTopic
  <2>. QED BY <1>2, <1>3, <2>1 DEF TopicLocal, Subscribes
<1>5. Threads' /\ Apart' /\ Only(t, s) /\ disturbed \subseteq disturbed'
  BY <1>1, BeginsOnly, BeginsApart DEF TopicInv, Begins
<1>6. \A u \in Workers : local'[u] = IF u = t THEN s ELSE local[u]
  BY <1>5 DEF Only
<1>7. ASSUME NEW m PROVE TopicOwned(m)'
  <2>1. SUFFICES ASSUME CalmTopic(m)'
        PROVE  /\ (\E i \in Topic!Ids : subscriptions[i] # NoSubscription /\ subscriptions[i].topic = m) => m \in topics
               /\ \A u \in Workers :
                     /\ Subscribes(local'[u], m) => m \in topics
                     /\ Administers(local'[u], m) /\ local'[u].todo = DropLast =>
                           \A i \in Topic!Ids : subscriptions[i] # NoSubscription => subscriptions[i].topic # m
    BY <1>1 DEF TopicOwned
  <2>2. CalmTopic(m)
    BY <1>5, <2>1 DEF CalmTopic
  <2>3. /\ (\E i \in Topic!Ids : subscriptions[i] # NoSubscription /\ subscriptions[i].topic = m) => m \in topics
        /\ \A u \in Workers :
              /\ Subscribes(local[u], m) => m \in topics
              /\ Administers(local[u], m) /\ local[u].todo = DropLast =>
                    \A i \in Topic!Ids : subscriptions[i] # NoSubscription => subscriptions[i].topic # m
    BY <2>2 DEF TopicInv, TopicOwned
  <2>4. \A u \in Workers : Administers(local'[u], m) => local'[u] = local[u]
    BY <1>4, <1>6 DEF Administers
  <2>5. \A u \in Workers : Subscribes(local'[u], m) => m = n \/ Subscribes(local[u], m)
    BY <1>4, <1>6
  <2>. QED BY <1>1, <2>3, <2>4, <2>5
<1>8. \A u \in Workers : TopicLocal(u, local'[u])
  BY <1>4, <1>6 DEF TopicInv
<1>9. subscriptions' = [i \in Topic!Ids |-> subscriptions'[i]]
  BY <1>1 DEF TopicInv
<1>. QED BY <1>5, <1>7, <1>8, <1>9 DEF TopicInv

(* Requests that make or delete a topic begin. *)
LEMMA TopicAdministerAsked ==
  ASSUME TopicInv, NEW t \in Workers, NEW n, NEW todo \in {<<"topic">>, DropAll},
         Topic!Ask(t, Topic!On({n} \X Workers, todo, [topic |-> n]))
  PROVE  TopicInv'
<1>. PICK q : q = [topic |-> n]
  OBVIOUS
<1> DEFINE s == Topic!On({n} \X Workers, todo, q)
<1>1. Topic!Ask(t, s)
  OBVIOUS
<1>2. DOMAIN q = {"topic"} /\ q.topic = n
  OBVIOUS
<1>3. /\ DOMAIN s = {"todo", "touches", "at", "topic"} /\ s.todo = todo
      /\ s.touches = {n} \X Workers /\ s.topic = n
  BY <1>2 DEF Topic!On, Topic!Also
<1> HIDE DEF s
<1>4. IsTopic(s) /\ ~IsSubscribe(s)
  BY <1>3 DEF IsSubscribe, IsTopic
<1>5. TopicLocal(t, s) /\ s.todo # DropLast
  BY <1>3, <1>4, TopicStepsApart DEF TopicLocal
<1>. QED BY <1>1, <1>4, <1>5, TopicAsk

LEMMA TopicOtherAsked ==
  ASSUME TopicInv, NEW t \in Workers, NEW rows, NEW todo \in Seq(TopicOther), NEW r,
         "topic" \notin DOMAIN r, "subscription" \notin DOMAIN r, Topic!Ask(t, Topic!On(rows, todo, r))
  PROVE  TopicInv'
<1> DEFINE s == Topic!On(rows, todo, r)
<1>1. DOMAIN s = {"todo", "touches", "at"} \cup DOMAIN r /\ s.todo = todo
  BY DEF Topic!On, Topic!Also
<1>2. s = Topic!On(rows, todo, r)
  OBVIOUS
<1> HIDE DEF s
<1>3. ~IsTopic(s) /\ ~IsSubscribe(s)
  BY <1>1 DEF IsTopic, IsSubscribe
<1>4. TopicLocal(t, s)
  BY <1>1, <1>3 DEF TopicLocal
<1>. QED BY <1>2, <1>3, <1>4, TopicAsk

LEMMA TopicOtherFields ==
  /\ \A a : "topic" \notin DOMAIN [published |-> a] /\ "subscription" \notin DOMAIN [published |-> a]
  /\ \A a : "topic" \notin DOMAIN [id |-> a] /\ "subscription" \notin DOMAIN [id |-> a]
  OBVIOUS

LEMMA TopicOtherTodos == <<"subscribers", "deliver", "answer">> \in Seq(TopicOther) /\ <<"unsubscribe">> \in Seq(TopicOther)
  BY DEF TopicOther

(* A statement of a publish. *)
LEMMA TopicPublishes ==
  ASSUME TopicInv, NEW t \in Workers,
         Topic!PublishSelect(t) \/ Topic!Deliver(t) \/ Topic!Delivered(t) \/ Topic!PublishAnswer(t)
  PROVE  TopicInv'
<1> DEFINE s == local[t]
<1>1. UNCHANGED <<topics, subscriptions>>
  BY DEF Topic!PublishSelect, Topic!Deliver, Topic!Delivered, Topic!PublishAnswer
<1>2. \E step \in TopicOther : Topic!At(t, step)
  BY DEF Topic!PublishSelect, Topic!Deliver, Topic!Delivered, Topic!PublishAnswer, Topic!Does, TopicOther
<1>3. /\ s.todo \in Seq(TopicOther) /\ s.todo # <<>> /\ ~IsSubscribe(s) /\ ~IsTopic(s)
      /\ "todo" \in DOMAIN s /\ "touches" \in DOMAIN s
  BY <1>2, TopicAt DEF Topic!At, TopicLocal
<1>4. Tail(s.todo) \in Seq(TopicOther)
  BY <1>3
<1>5. DOMAIN Rest(s) = DOMAIN s /\ Rest(s).todo = Tail(s.todo) /\ Rest(s).touches = s.touches
  <2>1. Rest(s).touches = s.touches
    BY <1>3 DEF Rest
  <2>. QED BY <1>3, <2>1, RestFields
<1>6. PICK r : /\ Goes(t, r) /\ r.touches = s.touches /\ r.todo \in Seq(TopicOther)
               /\ DOMAIN s \subseteq DOMAIN r /\ DOMAIN r \subseteq DOMAIN s \cup {"subs", "rows", "tried"}
  <2>1. CASE Topic!Delivered(t) \/ Topic!PublishAnswer(t)
    <3>1. Goes(t, Rest(s))
      BY <2>1, TopicThreads DEF Topic!Delivered, Topic!PublishAnswer, Topic!Does
    <3>. QED BY <1>4, <1>5, <3>1
  <2>2. CASE Topic!Deliver(t)
    <3>1. PICK i : Topic!Continue(t, [s EXCEPT !.tried = @ \cup {i}])
      BY <2>2 DEF Topic!Deliver
    <3> DEFINE q == [s EXCEPT !.tried = @ \cup {i}]
    <3>2. DOMAIN q = DOMAIN s /\ q.touches = s.touches /\ q.todo = s.todo
      BY <1>3
    <3>3. Goes(t, q)
      BY <3>1, TopicThreads
    <3> HIDE DEF q
    <3>. QED BY <1>3, <3>2, <3>3
  <2>3. CASE Topic!PublishSelect(t)
    <3>. PICK p : p = [subs |-> Topic!SubscribersOf(s.published), rows |-> subscriptions, tried |-> {}]
      OBVIOUS
    <3> DEFINE q == Topic!Also(Rest(s), p)
    <3>1. Goes(t, q)
      BY <2>3, TopicThreads DEF Topic!PublishSelect, Rest
    <3>2. DOMAIN p = {"subs", "rows", "tried"}
      OBVIOUS
    <3>3. DOMAIN q = DOMAIN s \cup {"subs", "rows", "tried"} /\ q.touches = s.touches /\ q.todo = Tail(s.todo)
      BY <1>3, <1>5, <3>2 DEF Topic!Also
    <3> HIDE DEF q
    <3>. QED BY <1>4, <3>1, <3>3
  <2>. QED BY <2>1, <2>2, <2>3
<1>7. ~IsSubscribe(r) /\ ~IsTopic(r)
  BY <1>3, <1>6 DEF IsSubscribe, IsTopic
<1>8. TopicLocal(t, r)
  BY <1>3, <1>6, <1>7 DEF TopicLocal
<1>9. subscriptions' = [i \in Topic!Ids |-> subscriptions'[i]]
  BY <1>1 DEF TopicInv
<1>. QED BY <1>1, <1>6, <1>7, <1>8, <1>9, TopicGoes

LEMMA TopicNext ==
  ASSUME TopicInv, [Topic!Next]_(Topic!vars)
  PROVE  TopicInv'
<1>1. CASE UNCHANGED Topic!vars
  <2>1. UNCHANGED <<local, disturbed, topics, subscriptions>>
    BY <1>1 DEF Topic!vars, Topic!requests, Topic!snsvars
  <2>. QED BY <2>1 DEF TopicInv, Threads, Apart, TopicOwned, CalmTopic
<1>2. ASSUME NEW t \in Workers, Topic!Serve(t) PROVE TopicInv'
  <2>1. CASE \E n \in Topics : Topic!CreateTopicCheck(t, n)
    BY <2>1, TopicAdministerAsked DEF Topic!CreateTopicCheck
  <2>2. CASE \E n \in Topics : Topic!DeleteTopicRequire(t, n)
    BY <2>2, TopicAdministerAsked DEF Topic!DeleteTopicRequire, DropAll
  <2>3. CASE \E n \in Topics : Topic!PublishRequire(t, n)
    BY <2>3, TopicOtherAsked, TopicOtherTodos, TopicOtherFields DEF Topic!PublishRequire
  <2>4. CASE \E i \in Topic!Ids : Topic!UnsubscribeSelect(t, i)
    BY <2>4, TopicOtherAsked, TopicOtherTodos, TopicOtherFields DEF Topic!UnsubscribeSelect
  <2>5. CASE \E n \in Topics, protocol \in Topic!Protocols : Topic!SubscribeRequire(t, n, protocol)
    BY <2>5, TopicSubscribeAsked
  <2>. QED BY <1>2, <2>1, <2>2, <2>3, <2>4, <2>5, TopicCreates, TopicDropsSubscriptions, TopicDrops,
              TopicSubscribes, TopicUnsubscribes, TopicPublishes DEF Topic!Serve
<1>3. CASE (Topic!Crash \/ \E t \in Workers : Topic!Raises(t)) /\ UNCHANGED <<topics, subscriptions, deliveries>>
  <2>1. Breaks
    BY <1>3, TopicThreads DEF TopicInv, Topic!Raises
  <2>. QED BY <1>3, <2>1, TopicBreaks
<1>. QED BY <1>1, <1>2, <1>3 DEF Topic!Next

LEMMA TopicInit == InitRequests /\ Topic!InitTables => TopicInv
<1> SUFFICES ASSUME InitRequests, Topic!InitTables PROVE TopicInv
  OBVIOUS
<1>1. \A t \in Workers : local[t] = Idle /\ Idle.touches = {}
  BY DEF InitRequests, Idle
<1>2. Threads /\ Apart
  BY <1>1 DEF InitRequests, Threads, Apart
<1>3. subscriptions = [i \in Topic!Ids |-> NoSubscription]
  BY DEF Topic!InitTables
<1>. QED BY <1>1, <1>2, <1>3, TopicIdle DEF TopicInv, TopicOwned, Subscribes, Administers

LEMMA TopicOwnedAll == TopicInv => Topic!SubscriptionsHaveTopics
<1> SUFFICES ASSUME TopicInv, NEW i \in Topic!Ids, subscriptions[i] # NoSubscription,
                    \A t \in Workers : Topic!Quiet(<<subscriptions[i].topic, t>>)
             PROVE  subscriptions[i].topic \in topics
  BY DEF Topic!SubscriptionsHaveTopics
<1>. PICK n : n = subscriptions[i].topic
  OBVIOUS
<1>1. CalmTopic(n)
  BY DEF Topic!Quiet, CalmTopic
<1>2. TopicOwned(n)
  BY DEF TopicInv
<1>. QED BY <1>1, <1>2 DEF TopicOwned

LEMMA BusThreads ==
  /\ \A t, s : Bus!Begin(t, s) => Begins(t, s)
  /\ \A t, s : Bus!Continue(t, s) => Goes(t, s)
  /\ \A t : Bus!Advance(t) => Goes(t, Rest(local[t]))
  /\ \A t : Bus!Ends(t) => Goes(t, Idle)
  /\ Threads /\ (Bus!Crash \/ \E t \in Workers : Bus!Fails(t)) => Breaks
<1>1. /\ \A t, s : Bus!Begin(t, s) => Begins(t, s)
      /\ \A t, s : Bus!Continue(t, s) => Goes(t, s)
  BY DEF Bus!Begin, Begins, Bus!Continue, Goes, Idle, Bus!Idle
<1>2. /\ \A t : Bus!Advance(t) => Goes(t, Rest(local[t]))
      /\ \A t : Bus!Ends(t) => Goes(t, Idle)
  BY <1>1 DEF Bus!Advance, Rest, Bus!Ends, Idle, Bus!Idle
<1>3. ASSUME Threads, NEW S, Bus!BreakOff(S) PROVE Breaks
  <2>1. /\ local' = [u \in Workers |-> IF u \in S THEN Idle ELSE local[u]]
        /\ disturbed' = disturbed \cup UNION {local[u].touches : u \in S} /\ begun' = begun
    BY <1>3 DEF Bus!BreakOff, Idle, Bus!Idle
  <2>2. \A u \in S : local[u].touches \subseteq disturbed'
    BY <2>1
  <2>. QED BY <2>1, <2>2 DEF Breaks
<1>. QED BY <1>1, <1>2, <1>3 DEF Bus!Crash, Bus!Fails

(* EventBridge: the statements of put_events, and those of all other       *)
(* requests.                                                               *)
RouteRules == <<"rules", "targets", "answer">>
RouteTargets == <<"targets", "answer">>
RouteAnswer == <<"answer">>

RouteSteps == {"rules", "targets", "answer"}

BusPlain == {"create bus", "drop rules", "drop bus", "rule", "drop targets", "drop rule", "target", "remove"}

IsRouted(s) == "event" \in DOMAIN s

RouteLocal(s) ==
    /\ {"todo", "touches"} \subseteq DOMAIN s
    /\ ~IsRouted(s) => s.todo \in Seq(BusPlain)
    /\ IsRouted(s) =>
          \/ s.todo = RouteRules /\ DOMAIN s = {"todo", "touches", "event", "on"}
          \/ /\ s.todo \in {RouteTargets, RouteAnswer}
             /\ DOMAIN s = {"todo", "touches", "event", "on", "firing", "tried"}

(* Bus!Fires and Bus!RoutesTo, of the tables R and T.                      *)
FiresIn(r, event, R) ==
    /\ R[r] # NoRule /\ R[r].enabled
    /\ R[r].pattern # NoPattern => Bus!Matches(R[r].pattern, event)

RoutesIn(on, event, R, T) == {x \in T : x[1] = on /\ FiresIn(<<x[1], x[2]>>, event, R)}

(* A target of B is tried, or belongs to a rule whose targets will be.     *)
Reaches(s, B) ==
    /\ s.todo = RouteTargets => \A x \in B : <<x[1], x[2]>> \in s.firing \/ x \in s.tried
    /\ s.todo = RouteAnswer => B \subseteq s.tried

Routed(s, B, R, T) ==
    IsRouted(s) => B \subseteq Bus!Targets /\ B \subseteq RoutesIn(s.on, s.event, R, T) /\ Reaches(s, B)

RouteInv ==
    /\ Threads
    /\ \A t \in Workers : RouteLocal(local[t]) /\ Routed(local[t], routed[t], rules, targets)

LEMMA RouteWatch ==
  ASSUME Bus!Watch
  PROVE  \A u \in Workers : IsRouted(local'[u]) =>
            routed'[u] = (IF IsRouted(local[u]) THEN routed[u] ELSE Bus!Targets)
                             \cap RoutesIn(local'[u].on, local'[u].event, rules', targets')
  BY DEF Bus!Watch, Bus!Routing, Bus!RoutesTo, Bus!Fires, IsRouted, RoutesIn, FiresIn

LEMMA RouteTodos ==
  /\ RouteRules # <<>> /\ Head(RouteRules) = "rules" /\ Tail(RouteRules) = RouteTargets
  /\ RouteTargets # <<>> /\ Head(RouteTargets) = "targets" /\ Tail(RouteTargets) = RouteAnswer
  /\ RouteAnswer # <<>> /\ Head(RouteAnswer) = "answer" /\ Tail(RouteAnswer) = <<>>
  BY Tails DEF RouteRules, RouteTargets, RouteAnswer

LEMMA RouteApart == RouteTargets # RouteRules /\ RouteAnswer # RouteRules /\ RouteAnswer # RouteTargets
<1>1. "targets" # "rules" /\ "answer" # "rules" /\ "answer" # "targets"
  OBVIOUS
<1>. QED BY <1>1, RouteTodos

LEMMA RouteNotPlain == "rules" \notin BusPlain /\ "targets" \notin BusPlain /\ "answer" \notin BusPlain
  BY DEF BusPlain

(* A step of thread t, to r; the requests of others stay as they are. *)
LEMMA RouteStep ==
  ASSUME RouteInv, Bus!Watch, Threads', NEW t \in Workers, NEW r, Only(t, r), RouteLocal(r),
         \/ ~IsRouted(r)
         \/ r.todo = RouteRules
         \/ /\ IsRouted(local[t]) /\ r.on = local[t].on /\ r.event = local[t].event
            /\ \A B \in SUBSET routed[t] :
                  B \subseteq RoutesIn(r.on, r.event, rules', targets') => Reaches(r, B)
  PROVE  RouteInv'
<1>1. \A u \in Workers : RouteLocal(local'[u])
  BY DEF RouteInv, Only
<1>2. ASSUME NEW u \in Workers, IsRouted(local'[u])
      PROVE  /\ routed'[u] \subseteq Bus!Targets
             /\ routed'[u] \subseteq RoutesIn(local'[u].on, local'[u].event, rules', targets')
             /\ Reaches(local'[u], routed'[u])
  <2>1. routed'[u] = (IF IsRouted(local[u]) THEN routed[u] ELSE Bus!Targets)
                     \cap RoutesIn(local'[u].on, local'[u].event, rules', targets')
    BY <1>2, RouteWatch
  <2>2. routed'[u] \subseteq Bus!Targets
    BY <2>1 DEF RouteInv, Routed
  <2>3. CASE u # t
    <3>1. local'[u] = local[u]
      BY <2>3 DEF Only
    <3>2. Reaches(local[u], routed[u])
      BY <1>2, <3>1 DEF RouteInv, Routed
    <3>. QED BY <1>2, <2>1, <2>2, <3>1, <3>2 DEF Reaches
  <2>4. CASE u = t
    <3>1. local'[u] = r
      BY <2>4 DEF Only
    <3>2. CASE r.todo = RouteRules
      BY <2>1, <2>2, <3>1, <3>2, RouteApart DEF Reaches
    <3>3. CASE /\ IsRouted(local[t]) /\ r.on = local[t].on /\ r.event = local[t].event
               /\ \A B \in SUBSET routed[t] :
                     B \subseteq RoutesIn(r.on, r.event, rules', targets') => Reaches(r, B)
      BY <2>1, <2>2, <2>4, <3>1, <3>3
    <3>. QED BY <1>2, <3>1, <3>2, <3>3
  <2>. QED BY <2>3, <2>4
<1>3. \A u \in Workers : Routed(local'[u], routed'[u], rules', targets')
  BY <1>2 DEF Routed
<1>. QED BY <1>1, <1>3 DEF RouteInv

LEMMA RouteIdle == RouteLocal(Idle) /\ ~IsRouted(Idle)
<1>1. Idle.todo = <<>> /\ DOMAIN Idle = {"todo", "touches"}
  BY DEF Idle
<1>2. <<>> \in Seq(BusPlain)
  OBVIOUS
<1>3. ~IsRouted(Idle)
  BY <1>1 DEF IsRouted
<1>. QED BY <1>1, <1>2, <1>3 DEF RouteLocal

LEMMA RouteAsk ==
  ASSUME RouteInv, Bus!Watch, NEW t \in Workers, NEW s, Bus!Ask(t, s), RouteLocal(s),
         ~IsRouted(s) \/ s.todo = RouteRules
  PROVE  RouteInv'
<1>1. Begins(t, s)
  BY BusThreads DEF Bus!Ask
<1>2. Threads' /\ Only(t, s)
  BY <1>1, BeginsOnly DEF RouteInv
<1>. QED BY <1>2, RouteStep

LEMMA BusFields ==
  /\ \A a : "event" \notin DOMAIN [bus |-> a]
  /\ \A a : "event" \notin DOMAIN [rule |-> a]
  /\ \A a : "event" \notin DOMAIN [target |-> a]
  /\ \A a, b : "event" \notin DOMAIN [target |-> a, found |-> b]
  /\ \A a, b, c : "event" \notin DOMAIN [rule |-> a, new |-> b, found |-> c]
  OBVIOUS

LEMMA RouteAskPlain ==
  ASSUME RouteInv, Bus!Watch, NEW t \in Workers, NEW rows, NEW todo \in Seq(BusPlain), NEW r,
         "event" \notin DOMAIN r, Bus!Ask(t, Bus!On(rows, todo, r))
  PROVE  RouteInv'
<1> DEFINE s == Bus!On(rows, todo, r)
<1>1. DOMAIN s = {"todo", "touches"} \cup DOMAIN r /\ s.todo = todo
  BY DEF Bus!On, Bus!Also
<1>2. s = Bus!On(rows, todo, r)
  OBVIOUS
<1> HIDE DEF s
<1>3. ~IsRouted(s)
  BY <1>1 DEF IsRouted
<1>4. RouteLocal(s)
  BY <1>1, <1>3 DEF RouteLocal
<1>. QED BY <1>2, <1>3, <1>4, RouteAsk

LEMMA RouteDoesPlain ==
  ASSUME RouteInv, Bus!Watch, NEW t \in Workers, NEW step \in BusPlain, Bus!Does(t, step)
  PROVE  RouteInv'
<1> DEFINE s == local[t]  r == Rest(s)  q == IF r.todo = <<>> THEN Idle ELSE r
<1>1. s.todo # <<>> /\ Head(s.todo) = step /\ Goes(t, r)
  BY BusThreads DEF Bus!Does, Bus!At
<1>2. Threads' /\ Only(t, q)
  BY <1>1, GoesOnly DEF RouteInv
<1>3. RouteLocal(s)
  BY DEF RouteInv
<1>4. ~IsRouted(s) /\ s.todo \in Seq(BusPlain)
  BY <1>1, <1>3, RouteTodos, RouteNotPlain DEF RouteLocal
<1>5. DOMAIN r = DOMAIN s /\ r.todo = Tail(s.todo)
  BY <1>3, RestFields DEF RouteLocal
<1> HIDE DEF r
<1>6. Tail(s.todo) \in Seq(BusPlain)
  BY <1>1, <1>4
<1>7. RouteLocal(r) /\ ~IsRouted(r)
  BY <1>3, <1>4, <1>5, <1>6 DEF RouteLocal, IsRouted
<1>8. RouteLocal(q) /\ ~IsRouted(q)
  BY <1>7, RouteIdle
<1> HIDE DEF q
<1>. QED BY <1>2, <1>8, RouteStep

LEMMA BusPlainTodos ==
  /\ <<"create bus">> \in Seq(BusPlain) /\ <<"drop rules", "drop bus">> \in Seq(BusPlain)
  /\ <<"rule">> \in Seq(BusPlain) /\ <<"drop targets", "drop rule">> \in Seq(BusPlain)
  /\ <<"target">> \in Seq(BusPlain) /\ <<"remove">> \in Seq(BusPlain)
  BY DEF BusPlain

LEMMA RouteAt ==
  ASSUME RouteInv, NEW t \in Workers, NEW step \in RouteSteps, Bus!At(t, step)
  PROVE  /\ RouteLocal(local[t]) /\ IsRouted(local[t])
         /\ step = "rules" => /\ local[t].todo = RouteRules
                              /\ DOMAIN local[t] = {"todo", "touches", "event", "on"}
         /\ step # "rules" =>
               /\ local[t].todo = IF step = "targets" THEN RouteTargets ELSE RouteAnswer
               /\ DOMAIN local[t] = {"todo", "touches", "event", "on", "firing", "tried"}
<1> DEFINE s == local[t]
<1>1. RouteLocal(s) /\ s.todo # <<>> /\ Head(s.todo) = step
  BY DEF RouteInv, Bus!At
<1>2. IsRouted(s)
  <2>1. SUFFICES ASSUME s.todo \in Seq(BusPlain) PROVE FALSE
    BY <1>1 DEF RouteLocal
  <2>2. step \in BusPlain
    BY <1>1, <2>1
  <2>. QED BY <2>2, RouteNotPlain DEF RouteSteps
<1>3. \/ s.todo = RouteRules /\ DOMAIN s = {"todo", "touches", "event", "on"}
      \/ /\ s.todo \in {RouteTargets, RouteAnswer}
         /\ DOMAIN s = {"todo", "touches", "event", "on", "firing", "tried"}
  BY <1>1, <1>2 DEF RouteLocal
<1>4. Head(RouteRules) = "rules" /\ Head(RouteTargets) = "targets" /\ Head(RouteAnswer) = "answer"
  BY RouteTodos
<1>5. "targets" # "rules" /\ "answer" # "rules" /\ "answer" # "targets"
  OBVIOUS
<1>. QED BY <1>1, <1>2, <1>3, <1>4, <1>5 DEF RouteSteps

(* A statement of put_events itself. *)
LEMMA RouteGoes ==
  ASSUME RouteInv, Bus!Watch, NEW t \in Workers, NEW r, IsRouted(local[t]), Goes(t, r), r.todo # <<>>,
         r.on = local[t].on, r.event = local[t].event, RouteLocal(r), UNCHANGED <<rules, targets>>,
         \A B \in SUBSET routed[t] :
            B \subseteq Bus!Targets /\ B \subseteq RoutesIn(r.on, r.event, rules, targets) => Reaches(r, B)
  PROVE  RouteInv'
<1>1. Threads' /\ Only(t, r)
  BY GoesOnly DEF RouteInv
<1>2. routed[t] \subseteq Bus!Targets
  BY DEF RouteInv, Routed
<1>3. \A B \in SUBSET routed[t] : B \subseteq RoutesIn(r.on, r.event, rules', targets') => Reaches(r, B)
  BY <1>2
<1>. QED BY <1>1, <1>3, RouteStep

LEMMA RouteRulesSelected ==
  ASSUME RouteInv, Bus!Watch, NEW t \in Workers, Bus!SelectRules(t)
  PROVE  RouteInv'
<1> DEFINE s == local[t]
           f == {x \in Bus!RuleNames : x[1] = s.on /\ Bus!Fires(x, s.event)}
           q == [firing |-> f, tried |-> {}]
           r == Bus!Also(Rest(s), q)
<1>1. Bus!At(t, "rules") /\ Bus!Continue(t, r) /\ UNCHANGED <<rules, targets>>
  BY DEF Bus!SelectRules, Rest
<1>2. IsRouted(s) /\ s.todo = RouteRules /\ DOMAIN s = {"todo", "touches", "event", "on"}
  BY <1>1, RouteAt DEF RouteSteps
<1>3. /\ DOMAIN r = {"todo", "touches", "event", "on", "firing", "tried"}
      /\ r.todo = RouteTargets /\ r.on = s.on /\ r.event = s.event /\ r.firing = f
  <2> HIDE DEF f
  <2>1. DOMAIN Rest(s) = DOMAIN s /\ Rest(s).todo = RouteTargets /\ Rest(s).on = s.on /\ Rest(s).event = s.event
    BY <1>2, RouteTodos, RestFields
  <2>2. DOMAIN q = {"firing", "tried"} /\ q.firing = f
    OBVIOUS
  <2> HIDE DEF q
  <2>. QED BY <1>2, <2>1, <2>2 DEF Bus!Also
<1>4. Goes(t, r)
  BY <1>1, BusThreads
<1> HIDE DEF r
<1>5. RouteLocal(r) /\ r.todo # <<>>
  BY <1>3, RouteTodos DEF RouteLocal, IsRouted
<1>6. \A x \in Bus!Targets : x \in RoutesIn(s.on, s.event, rules, targets) => <<x[1], x[2]>> \in f
  BY DEF RoutesIn, FiresIn, Bus!Fires, Bus!Targets, Bus!RuleNames
<1>7. \A B : B \subseteq Bus!Targets /\ B \subseteq RoutesIn(r.on, r.event, rules, targets) => Reaches(r, B)
  BY <1>3, <1>6, RouteApart DEF Reaches
<1>. QED BY <1>1, <1>2, <1>3, <1>4, <1>5, <1>7, RouteGoes

LEMMA RouteTargetsSelected ==
  ASSUME RouteInv, Bus!Watch, NEW t \in Workers, Bus!SelectTargets(t)
  PROVE  RouteInv'
<1> DEFINE s == local[t]
<1>1. Bus!At(t, "targets") /\ UNCHANGED <<rules, targets>>
  BY DEF Bus!SelectTargets
<1>2. /\ IsRouted(s) /\ s.todo = RouteTargets
      /\ DOMAIN s = {"todo", "touches", "event", "on", "firing", "tried"}
  BY <1>1, RouteAt DEF RouteSteps
<1>3. \A x \in routed[t] : <<x[1], x[2]>> \in s.firing \/ x \in s.tried
  BY <1>2 DEF RouteInv, Routed, Reaches
<1>4. CASE s.firing = {} /\ Bus!Advance(t)
  <2> DEFINE r == Rest(s)
  <2>1. Goes(t, r)
    BY <1>4, BusThreads
  <2>2. DOMAIN r = DOMAIN s /\ r.todo = RouteAnswer /\ r.tried = s.tried /\ r.on = s.on /\ r.event = s.event
    BY <1>2, RouteTodos, RestFields
  <2> HIDE DEF r
  <2>3. RouteLocal(r) /\ r.todo # <<>>
    BY <1>2, <2>2, RouteTodos DEF RouteLocal, IsRouted
  <2>4. routed[t] \subseteq s.tried
    BY <1>3, <1>4
  <2>5. \A B \in SUBSET routed[t] : Reaches(r, B)
    BY <2>2, <2>4, RouteApart DEF Reaches
  <2>. QED BY <1>1, <1>2, <2>1, <2>2, <2>3, <2>5, RouteGoes
<1>5. ASSUME NEW f, Bus!Continue(t, [s EXCEPT !.firing = @ \ {f}, !.tried = @ \cup Bus!InvokeTargetsOf(t, f)])
      PROVE  RouteInv'
  <2> DEFINE r == [s EXCEPT !.firing = @ \ {f}, !.tried = @ \cup Bus!InvokeTargetsOf(t, f)]
  <2>1. Goes(t, r)
    BY <1>5, BusThreads
  <2>2. /\ DOMAIN r = DOMAIN s /\ r.todo = s.todo /\ r.on = s.on /\ r.event = s.event
        /\ r.firing = s.firing \ {f} /\ r.tried = s.tried \cup Bus!InvokeTargetsOf(t, f)
    BY <1>2
  <2> HIDE DEF r
  <2>3. RouteLocal(r) /\ r.todo # <<>>
    BY <1>2, <2>2, RouteTodos DEF RouteLocal, IsRouted
  <2>4. \A B \in SUBSET routed[t] : B \subseteq RoutesIn(r.on, r.event, rules, targets) => Reaches(r, B)
    BY <1>2, <1>3, <2>2, RouteApart DEF Reaches, RoutesIn, Bus!InvokeTargetsOf
  <2>. QED BY <1>1, <1>2, <2>1, <2>2, <2>3, <2>4, RouteGoes
<1>. QED BY <1>4, <1>5 DEF Bus!SelectTargets

LEMMA RouteAnswers ==
  ASSUME RouteInv, Bus!Watch, NEW t \in Workers, Bus!EventsAnswer(t)
  PROVE  RouteInv'
<1>1. Goes(t, Rest(local[t])) /\ Bus!At(t, "answer")
  BY BusThreads DEF Bus!EventsAnswer, Bus!Does
<1>2. local[t].todo = RouteAnswer /\ "todo" \in DOMAIN local[t]
  BY <1>1, RouteAt DEF RouteSteps, RouteLocal
<1>3. Rest(local[t]).todo = <<>>
  BY <1>2, RestFields, RouteTodos
<1>4. Threads' /\ Only(t, Idle)
  BY <1>1, <1>3, GoesOnly DEF RouteInv
<1>. QED BY <1>4, RouteIdle, RouteStep

LEMMA RouteBreaks ==
  ASSUME RouteInv, Breaks, Bus!Watch
  PROVE  RouteInv'
<1>1. Threads' /\ \A u \in Workers : local'[u] = local[u] \/ local'[u] = Idle
  BY BreaksThreads DEF Breaks
<1>2. \A u \in Workers : RouteLocal(local'[u])
  BY <1>1, RouteIdle DEF RouteInv
<1>3. ASSUME NEW u \in Workers, IsRouted(local'[u])
      PROVE  /\ routed'[u] \subseteq Bus!Targets
             /\ routed'[u] \subseteq RoutesIn(local'[u].on, local'[u].event, rules', targets')
             /\ Reaches(local'[u], routed'[u])
  <2>1. local'[u] = local[u] /\ IsRouted(local[u])
    BY <1>1, <1>3, RouteIdle
  <2>2. routed'[u] = routed[u] \cap RoutesIn(local'[u].on, local'[u].event, rules', targets')
    BY <1>3, <2>1, RouteWatch
  <2>3. Reaches(local[u], routed[u]) /\ routed[u] \subseteq Bus!Targets
    BY <2>1 DEF RouteInv, Routed
  <2>. QED BY <2>1, <2>2, <2>3 DEF Reaches
<1>4. \A u \in Workers : Routed(local'[u], routed'[u], rules', targets')
  BY <1>3 DEF Routed
<1>. QED BY <1>1, <1>2, <1>4 DEF RouteInv

LEMMA RouteAdminister ==
  ASSUME RouteInv, Bus!Watch, NEW t \in Workers, Bus!Administer(t)
  PROVE  RouteInv'
<1>1. CASE \E b \in Buses : Bus!CreateBusCheck(t, b)
  BY <1>1, RouteAskPlain, BusPlainTodos, BusFields DEF Bus!CreateBusCheck
<1>2. CASE \E b \in Buses : Bus!DeleteBusRequire(t, b)
  BY <1>2, RouteAskPlain, BusPlainTodos, BusFields DEF Bus!DeleteBusRequire
<1>3. CASE \E r \in Bus!RuleNames : Bus!DeleteRuleSelect(t, r)
  BY <1>3, RouteAskPlain, BusPlainTodos, BusFields DEF Bus!DeleteRuleSelect
<1>4. CASE \E r \in Bus!RuleNames, new \in Bus!Rule : Bus!PutRuleSelect(t, r, new)
  <2>1. PICK r \in Bus!RuleNames, new \in Bus!Rule : Bus!PutRuleSelect(t, r, new)
    BY <1>4
  <2> DEFINE q == [rule |-> r, new |-> new, found |-> rules[r] # NoRule]
  <2>2. Bus!Ask(t, Bus!On({<<r[1], t>>}, <<"rule">>, q))
    BY <2>1 DEF Bus!PutRuleSelect
  <2>3. "event" \notin DOMAIN q
    BY BusFields
  <2> HIDE DEF q
  <2>. QED BY <2>2, <2>3, RouteAskPlain, BusPlainTodos
<1>5. CASE \E x \in Bus!Targets : Bus!PutTargetRequire(t, x)
  <2>1. PICK x \in Bus!Targets : Bus!PutTargetRequire(t, x)
    BY <1>5
  <2> DEFINE q == [target |-> x, found |-> x \in targets]
  <2>2. Bus!Ask(t, Bus!On({<<x[2], t>>}, <<"target">>, q))
    BY <2>1 DEF Bus!PutTargetRequire
  <2>3. "event" \notin DOMAIN q
    BY BusFields
  <2> HIDE DEF q
  <2>. QED BY <2>2, <2>3, RouteAskPlain, BusPlainTodos
<1>6. CASE \E x \in Bus!Targets : Bus!RemoveTarget(t, x)
  BY <1>6, RouteAskPlain, BusPlainTodos, BusFields DEF Bus!RemoveTarget
<1>7. CASE \/ Bus!CreateBus(t) \/ Bus!DropRules(t) \/ Bus!DropBus(t) \/ Bus!PutRule(t)
           \/ Bus!DropTargets(t) \/ Bus!DropRule(t) \/ Bus!PutTarget(t) \/ Bus!RemoveTargetDelete(t)
  <2>1. \E step \in BusPlain : Bus!Does(t, step)
    BY <1>7 DEF Bus!CreateBus, Bus!DropRules, Bus!DropBus, Bus!PutRule, Bus!DropTargets, Bus!DropRule,
           Bus!PutTarget, Bus!RemoveTargetDelete, BusPlain
  <2>. QED BY <2>1, RouteDoesPlain
<1>. QED BY <1>1, <1>2, <1>3, <1>4, <1>5, <1>6, <1>7 DEF Bus!Administer

LEMMA RouteRoute ==
  ASSUME RouteInv, Bus!Watch, NEW t \in Workers, Bus!Route(t)
  PROVE  RouteInv'
<1>1. CASE \E b \in Buses, event \in Events : Bus!PutEvent(t, b, event)
  <2>1. PICK b \in Buses, event \in Events : Bus!PutEvent(t, b, event)
    BY <1>1
  <2> DEFINE q == [event |-> event, on |-> b]  s == Bus!On({}, RouteRules, q)
  <2>2. Bus!Ask(t, s)
    BY <2>1 DEF Bus!PutEvent, RouteRules
  <2>3. s.todo = RouteRules /\ DOMAIN s = {"todo", "touches", "event", "on"}
    <3>1. DOMAIN q = {"event", "on"}
      OBVIOUS
    <3> HIDE DEF q
    <3>. QED BY <3>1 DEF Bus!On, Bus!Also
  <2> HIDE DEF s
  <2>4. RouteLocal(s)
    BY <2>3 DEF RouteLocal, IsRouted
  <2>. QED BY <2>2, <2>3, <2>4, RouteAsk
<1>. QED BY <1>1, RouteRulesSelected, RouteTargetsSelected, RouteAnswers DEF Bus!Route

LEMMA RouteNext ==
  ASSUME RouteInv, [Bus!Next]_(Bus!vars)
  PROVE  RouteInv'
<1>1. CASE UNCHANGED Bus!vars
  <2>1. UNCHANGED <<local, routed, rules, targets>>
    BY <1>1 DEF Bus!vars, Bus!requests, Bus!ebvars
  <2>. QED BY <2>1 DEF RouteInv, Threads
<1>2. CASE Bus!Next
  <2>1. Bus!Watch
    BY <1>2 DEF Bus!Next
  <2>2. CASE \E t \in Workers : Bus!Administer(t) \/ Bus!Route(t)
    BY <2>1, <2>2, RouteAdminister, RouteRoute
  <2>3. CASE Bus!Crash \/ \E t \in Workers : Bus!Raises(t)
    <3>1. Bus!Crash \/ \E t \in Workers : Bus!Fails(t)
      BY <2>3 DEF Bus!Raises
    <3>2. Breaks
      BY <3>1, BusThreads DEF RouteInv
    <3>. QED BY <2>1, <3>2, RouteBreaks
  <2>. QED BY <1>2, <2>2, <2>3 DEF Bus!Next
<1>. QED BY <1>1, <1>2

LEMMA RouteInit == InitRequests => RouteInv
<1> SUFFICES ASSUME InitRequests PROVE RouteInv
  OBVIOUS
<1>1. \A t \in Workers : local[t] = Idle
  BY DEF InitRequests
<1>2. Threads
  BY <1>1 DEF InitRequests, Threads
<1>. QED BY <1>1, <1>2, RouteIdle DEF RouteInv, Routed

LEMMA RouteTried == RouteInv => Bus!StandingTargetsTried
<1> SUFFICES ASSUME RouteInv, NEW t \in Workers, Bus!At(t, "answer")
             PROVE  routed[t] \subseteq local[t].tried
  BY DEF Bus!StandingTargetsTried
<1>1. IsRouted(local[t]) /\ local[t].todo = RouteAnswer
  BY RouteAt DEF RouteSteps
<1>. QED BY <1>1 DEF RouteInv, Routed, Reaches

-----------------------------------------------------------------------------
(* A publish, or an event, has tried every subscriber, or every target of  *)
(* a rule that matches, that was there all along: sns.py:134-158,          *)
(* eventbridge.py:273-307.  Both loops go over rows they have read once;   *)
(* what stood all along was read, and each row read is tried.              *)
THEOREM StandingOnesTried == Spec => []FanOutComplete
<1> DEFINE Inv == /\ service = "sns" => FanInv
                  /\ service = "eventbridge" => RouteInv
<1>1. Init => Inv
  BY PubInit, RouteInit DEF Init
<1>2. Inv /\ [Next]_vars => Inv'
  <2> SUFFICES ASSUME Inv, [Next]_vars PROVE Inv'
    OBVIOUS
  <2>1. service' = service
    BY ServiceStep
  <2>2. ASSUME service = "sns" PROVE FanInv'
    BY <2>2, ServiceStep, PubNext
  <2>3. ASSUME service = "eventbridge" PROVE RouteInv'
    BY <2>3, ServiceStep, RouteNext
  <2>. QED BY <2>1, <2>2, <2>3
<1>3. Inv => FanOutComplete
  BY PubTried, RouteTried DEF FanOutComplete
<1>. QED BY <1>1, <1>2, <1>3, PTL DEF Spec

(* EventBridge: requests that make or delete a bus have all its rows for   *)
(* themselves, those that put a rule on it share them; the same of rules   *)
(* and the requests that put targets on them.                              *)
CreateTodo == <<"create bus">>
BusAll == <<"drop rules", "drop bus">>
BusLast == <<"drop bus">>
PutTodo == <<"rule">>
RuleAll == <<"drop targets", "drop rule">>
RuleLast == <<"drop rule">>
TargetTodo == <<"target">>
RemoveTodo == <<"remove">>

IsBus(s) == "bus" \in DOMAIN s
IsPut(s) == "new" \in DOMAIN s
IsDrop(s) == "rule" \in DOMAIN s /\ "new" \notin DOMAIN s
IsTarget(s) == "target" \in DOMAIN s

BusLocal(t, s) ==
    /\ {"todo", "touches"} \subseteq DOMAIN s
    /\ IsBus(s) =>
          /\ DOMAIN s = {"todo", "touches", "bus"} /\ s.todo \in {CreateTodo, BusAll, BusLast}
          /\ {s.bus} \X Workers \subseteq s.touches
    /\ IsPut(s) =>
          /\ DOMAIN s = {"todo", "touches", "rule", "new", "found"} /\ s.todo = PutTodo
          /\ s.rule \in Bus!RuleNames /\ s.new # NoRule /\ <<s.rule[1], t>> \in s.touches
    /\ IsDrop(s) =>
          /\ DOMAIN s = {"todo", "touches", "rule"} /\ s.todo \in {RuleAll, RuleLast}
          /\ s.rule \in Bus!RuleNames /\ {s.rule[2]} \X Workers \subseteq s.touches
    /\ IsTarget(s) =>
          /\ DOMAIN s \subseteq {"todo", "touches", "target", "found"} /\ s.todo \in {TargetTodo, RemoveTodo}
          /\ s.target \in Bus!Targets /\ (s.todo = TargetTodo => <<s.target[2], t>> \in s.touches)
    /\ ~IsBus(s) /\ ~IsPut(s) /\ ~IsDrop(s) /\ ~IsTarget(s) => s.todo \in Seq(RouteSteps)

(* Who relies on a bus, and who may take it away; of a rule's name too.    *)
PutsRuleOn(s, b) == IsPut(s) /\ s.rule[1] = b
DropsBus(s, b) == IsBus(s) /\ s.bus = b
PutsTargetOn(s, n) == IsTarget(s) /\ s.todo = TargetTodo /\ s.target[2] = n
DropsRule(s, n) == IsDrop(s) /\ s.rule[2] = n

(* No requests for the bus, or rules of the name, overlapped or broke off. *)
Calm(n, D) == \A t \in Workers : <<n, t>> \notin D

(* The rules R of bus b, when the buses are B and the requests L.          *)
RulesOwned(b, R, B, L) ==
    /\ \A r \in Bus!RuleNames : R[r] # NoRule /\ r[1] = b => b \in B \cup {Default}
    /\ \A t \in Workers :
          /\ PutsRuleOn(L[t], b) => b \in B \cup {Default}
          /\ DropsBus(L[t], b) /\ L[t].todo = BusLast => \A r \in Bus!RuleNames : r[1] = b => R[r] = NoRule

(* A target has its rule, or its bus was deleted with the rule.            *)
HasRule(x, R, E) == R[<<x[1], x[2]>>] # NoRule \/ x[1] \in E

TargetsOwned(n, T, R, E, L) ==
    /\ \A x \in T : x[2] = n => HasRule(x, R, E)
    /\ \A t \in Workers :
          /\ PutsTargetOn(L[t], n) => HasRule(L[t].target, R, E)
          /\ DropsRule(L[t], n) /\ L[t].todo = RuleLast => \A x \in T : <<x[1], x[2]>> # L[t].rule

BusShape ==
    /\ Threads /\ Apart
    /\ rules = [r \in Bus!RuleNames |-> rules[r]] /\ targets \subseteq Bus!Targets
    /\ \A t \in Workers : BusLocal(t, local[t])

RulesInv == \A b \in Buses : Calm(b, disturbed) => RulesOwned(b, rules, buses, local)
TargetsInv == \A n \in Rules : Calm(n, disturbed) => TargetsOwned(n, targets, rules, emptied, local)

BusInv == BusShape /\ RulesInv /\ TargetsInv

LEMMA BusTodos ==
  /\ CreateTodo # <<>> /\ Head(CreateTodo) = "create bus" /\ Tail(CreateTodo) = <<>>
  /\ BusAll # <<>> /\ Head(BusAll) = "drop rules" /\ Tail(BusAll) = BusLast
  /\ BusLast # <<>> /\ Head(BusLast) = "drop bus" /\ Tail(BusLast) = <<>>
  /\ PutTodo # <<>> /\ Head(PutTodo) = "rule" /\ Tail(PutTodo) = <<>>
  /\ RuleAll # <<>> /\ Head(RuleAll) = "drop targets" /\ Tail(RuleAll) = RuleLast
  /\ RuleLast # <<>> /\ Head(RuleLast) = "drop rule" /\ Tail(RuleLast) = <<>>
  /\ TargetTodo # <<>> /\ Head(TargetTodo) = "target" /\ Tail(TargetTodo) = <<>>
  /\ RemoveTodo # <<>> /\ Head(RemoveTodo) = "remove" /\ Tail(RemoveTodo) = <<>>
<1>1. /\ CreateTodo # <<>> /\ Head(CreateTodo) = "create bus" /\ Tail(CreateTodo) = <<>>
      /\ BusAll # <<>> /\ Head(BusAll) = "drop rules" /\ Tail(BusAll) = BusLast
      /\ BusLast # <<>> /\ Head(BusLast) = "drop bus" /\ Tail(BusLast) = <<>>
      /\ PutTodo # <<>> /\ Head(PutTodo) = "rule" /\ Tail(PutTodo) = <<>>
  BY Tails DEF CreateTodo, BusAll, BusLast, PutTodo
<1>2. /\ RuleAll # <<>> /\ Head(RuleAll) = "drop targets" /\ Tail(RuleAll) = RuleLast
      /\ RuleLast # <<>> /\ Head(RuleLast) = "drop rule" /\ Tail(RuleLast) = <<>>
      /\ TargetTodo # <<>> /\ Head(TargetTodo) = "target" /\ Tail(TargetTodo) = <<>>
      /\ RemoveTodo # <<>> /\ Head(RemoveTodo) = "remove" /\ Tail(RemoveTodo) = <<>>
  BY Tails DEF RuleAll, RuleLast, TargetTodo, RemoveTodo
<1>. QED BY <1>1, <1>2

LEMMA BusTodosApart ==
  /\ BusAll # BusLast /\ CreateTodo # BusLast /\ RuleAll # RuleLast /\ RemoveTodo # TargetTodo
  /\ \A step \in {"create bus", "drop rules", "drop bus", "rule", "drop targets", "drop rule", "target", "remove"} :
        step \notin RouteSteps
<1>1. \A step \in {"create bus", "drop rules", "drop bus", "rule", "drop targets", "drop rule", "target", "remove"} :
        step \notin RouteSteps
  BY DEF RouteSteps
<1>2. "drop rules" # "drop bus" /\ "create bus" # "drop bus" /\ "drop targets" # "drop rule" /\ "remove" # "target"
  OBVIOUS
<1>. QED BY <1>1, <1>2, BusTodos

LEMMA BusIdle == \A t : BusLocal(t, Idle) /\ ~IsBus(Idle) /\ ~IsPut(Idle) /\ ~IsDrop(Idle) /\ ~IsTarget(Idle)
<1>1. Idle.todo = <<>> /\ DOMAIN Idle = {"todo", "touches"}
  BY DEF Idle
<1>2. <<>> \in Seq(RouteSteps)
  OBVIOUS
<1>3. ~IsBus(Idle) /\ ~IsPut(Idle) /\ ~IsDrop(Idle) /\ ~IsTarget(Idle)
  BY <1>1 DEF IsBus, IsPut, IsDrop, IsTarget
<1>. QED BY <1>1, <1>2, <1>3 DEF BusLocal

(* A request is of one kind. *)
LEMMA BusKinds ==
  ASSUME NEW t, NEW s, BusLocal(t, s)
  PROVE  /\ IsBus(s) => ~IsPut(s) /\ ~IsDrop(s) /\ ~IsTarget(s)
         /\ IsPut(s) => ~IsBus(s) /\ ~IsDrop(s) /\ ~IsTarget(s)
         /\ IsDrop(s) => ~IsBus(s) /\ ~IsPut(s) /\ ~IsTarget(s)
         /\ IsTarget(s) => ~IsBus(s) /\ ~IsPut(s) /\ ~IsDrop(s)
<1>1. IsBus(s) => DOMAIN s = {"todo", "touches", "bus"}
  BY DEF BusLocal
<1>2. IsPut(s) => DOMAIN s = {"todo", "touches", "rule", "new", "found"}
  BY DEF BusLocal
<1>3. IsDrop(s) => DOMAIN s = {"todo", "touches", "rule"}
  BY DEF BusLocal
<1>4. IsTarget(s) => DOMAIN s \subseteq {"todo", "touches", "target", "found"}
  BY DEF BusLocal
<1>. QED BY <1>1, <1>2, <1>3, <1>4 DEF IsBus, IsPut, IsDrop, IsTarget

(* Who makes or deletes meets nobody, or it is disturbed. *)
LEMMA BusAlone ==
  ASSUME BusShape, NEW b, Calm(b, disturbed), NEW t \in Workers, DropsBus(local[t], b)
  PROVE  \A u \in Workers : u # t => ~PutsRuleOn(local[u], b) /\ ~DropsBus(local[u], b)
<1>1. ASSUME NEW u \in Workers, u # t, PutsRuleOn(local[u], b) \/ DropsBus(local[u], b) PROVE FALSE
  <2>1. {b} \X Workers \subseteq local[t].touches
    BY DEF BusShape, BusLocal, DropsBus
  <2>2. <<b, u>> \in local[u].touches
    BY <1>1 DEF BusShape, BusLocal, PutsRuleOn, DropsBus
  <2>3. <<b, u>> \in local[t].touches
    BY <2>1
  <2>4. <<b, u>> \notin disturbed
    BY DEF Calm
  <2>. QED BY <1>1, <2>2, <2>3, <2>4 DEF BusShape, Apart
<1>. QED BY <1>1

LEMMA RuleAlone ==
  ASSUME BusShape, NEW n, Calm(n, disturbed), NEW t \in Workers, DropsRule(local[t], n)
  PROVE  \A u \in Workers : u # t => ~PutsTargetOn(local[u], n) /\ ~DropsRule(local[u], n)
<1>1. ASSUME NEW u \in Workers, u # t, PutsTargetOn(local[u], n) \/ DropsRule(local[u], n) PROVE FALSE
  <2>1. {n} \X Workers \subseteq local[t].touches
    BY DEF BusShape, BusLocal, DropsRule
  <2>2. <<n, u>> \in local[u].touches
    BY <1>1 DEF BusShape, BusLocal, PutsTargetOn, DropsRule
  <2>3. <<n, u>> \in local[t].touches
    BY <2>1
  <2>4. <<n, u>> \notin disturbed
    BY DEF Calm
  <2>. QED BY <1>1, <2>2, <2>3, <2>4 DEF BusShape, Apart
<1>. QED BY <1>1

(* Which request has the statement next. *)
LEMMA BusAt ==
  ASSUME BusShape, NEW t \in Workers, NEW step, Bus!At(t, step)
  PROVE  /\ BusLocal(t, local[t])
         /\ step = "create bus" => IsBus(local[t]) /\ local[t].todo = CreateTodo
         /\ step = "drop rules" => IsBus(local[t]) /\ local[t].todo = BusAll
         /\ step = "drop bus" => IsBus(local[t]) /\ local[t].todo = BusLast
         /\ step = "rule" => IsPut(local[t]) /\ local[t].todo = PutTodo
         /\ step = "drop targets" => IsDrop(local[t]) /\ local[t].todo = RuleAll
         /\ step = "drop rule" => IsDrop(local[t]) /\ local[t].todo = RuleLast
         /\ step = "target" => IsTarget(local[t]) /\ local[t].todo = TargetTodo
         /\ step = "remove" => IsTarget(local[t]) /\ local[t].todo = RemoveTodo
         /\ step \in RouteSteps =>
               /\ ~IsBus(local[t]) /\ ~IsPut(local[t]) /\ ~IsDrop(local[t]) /\ ~IsTarget(local[t])
               /\ local[t].todo \in Seq(RouteSteps)
<1> DEFINE s == local[t]
<1>1. BusLocal(t, s) /\ s.todo # <<>> /\ Head(s.todo) = step
  BY DEF BusShape, Bus!At
<1>2. s.todo \in Seq(RouteSteps) => step \in RouteSteps
  BY <1>1
<1>3. CASE IsBus(s)
  <2>1. s.todo \in {CreateTodo, BusAll, BusLast}
    BY <1>1, <1>3 DEF BusLocal
  <2>. QED BY <1>1, <1>3, <2>1, BusTodos, BusTodosApart
<1>4. CASE IsPut(s)
  <2>1. s.todo = PutTodo
    BY <1>1, <1>4 DEF BusLocal
  <2>. QED BY <1>1, <1>4, <2>1, BusTodos, BusTodosApart
<1>5. CASE IsDrop(s)
  <2>1. s.todo \in {RuleAll, RuleLast}
    BY <1>1, <1>5 DEF BusLocal
  <2>. QED BY <1>1, <1>5, <2>1, BusTodos, BusTodosApart
<1>6. CASE IsTarget(s)
  <2>1. s.todo \in {TargetTodo, RemoveTodo}
    BY <1>1, <1>6 DEF BusLocal
  <2>. QED BY <1>1, <1>6, <2>1, BusTodos, BusTodosApart
<1>7. CASE ~IsBus(s) /\ ~IsPut(s) /\ ~IsDrop(s) /\ ~IsTarget(s)
  <2>1. s.todo \in Seq(RouteSteps)
    BY <1>1, <1>7 DEF BusLocal
  <2>. QED BY <1>1, <1>2, <1>7, <2>1, BusTodosApart
<1>. QED BY <1>3, <1>4, <1>5, <1>6, <1>7

(* What leaves the rules of a bus as they were, or fewer. *)
LEMMA RulesAside ==
  ASSUME RulesInv, disturbed \subseteq disturbed',
         \A r \in Bus!RuleNames : rules'[r] # NoRule => rules[r] # NoRule,
         buses \subseteq buses',
         \A u \in Workers : \/ local'[u] = local[u]
                            \/ ~IsPut(local'[u]) /\ (IsBus(local'[u]) => local'[u].todo # BusLast)
  PROVE  RulesInv'
<1>1. ASSUME NEW b \in Buses, Calm(b, disturbed') PROVE RulesOwned(b, rules', buses', local')
  <2>1. RulesOwned(b, rules, buses, local)
    BY <1>1 DEF Calm, RulesInv
  <2>2. \A r \in Bus!RuleNames : rules'[r] # NoRule /\ r[1] = b => b \in buses' \cup {Default}
    BY <2>1 DEF RulesOwned
  <2>3. ASSUME NEW u \in Workers
        PROVE  /\ PutsRuleOn(local'[u], b) => b \in buses' \cup {Default}
               /\ DropsBus(local'[u], b) /\ local'[u].todo = BusLast =>
                     \A r \in Bus!RuleNames : r[1] = b => rules'[r] = NoRule
    <3>1. CASE local'[u] = local[u]
      BY <2>1, <3>1 DEF RulesOwned
    <3>2. CASE ~IsPut(local'[u]) /\ (IsBus(local'[u]) => local'[u].todo # BusLast)
      BY <3>2 DEF PutsRuleOn, DropsBus
    <3>. QED BY <3>1, <3>2
  <2>. QED BY <2>2, <2>3 DEF RulesOwned
<1>. QED BY <1>1 DEF RulesInv

(* What leaves the targets, or fewer, and the rules they have. *)
LEMMA TargetsAside ==
  ASSUME BusShape, TargetsInv, disturbed \subseteq disturbed', targets' \subseteq targets,
         \A x \in Bus!Targets : HasRule(x, rules, emptied) => HasRule(x, rules', emptied'),
         \A u \in Workers : \/ local'[u] = local[u]
                            \/ /\ IsTarget(local'[u]) => local'[u].todo # TargetTodo
                               /\ IsDrop(local'[u]) => local'[u].todo # RuleLast
  PROVE  TargetsInv'
<1>1. ASSUME NEW n \in Rules, Calm(n, disturbed') PROVE TargetsOwned(n, targets', rules', emptied', local')
  <2>1. TargetsOwned(n, targets, rules, emptied, local)
    BY <1>1 DEF Calm, TargetsInv
  <2>2. \A x \in targets' : x[2] = n => HasRule(x, rules', emptied')
    BY <2>1 DEF TargetsOwned, BusShape
  <2>3. ASSUME NEW u \in Workers
        PROVE  /\ PutsTargetOn(local'[u], n) => HasRule(local'[u].target, rules', emptied')
               /\ DropsRule(local'[u], n) /\ local'[u].todo = RuleLast =>
                     \A x \in targets' : <<x[1], x[2]>> # local'[u].rule
    <3>1. CASE local'[u] = local[u]
      <4>1. PutsTargetOn(local[u], n) => local[u].target \in Bus!Targets
        BY DEF BusShape, BusLocal, PutsTargetOn
      <4>. QED BY <2>1, <3>1, <4>1 DEF TargetsOwned
    <3>2. CASE /\ IsTarget(local'[u]) => local'[u].todo # TargetTodo
               /\ IsDrop(local'[u]) => local'[u].todo # RuleLast
      BY <3>2 DEF PutsTargetOn, DropsRule
    <3>. QED BY <3>1, <3>2
  <2>. QED BY <2>2, <2>3 DEF TargetsOwned
<1>. QED BY <1>1 DEF TargetsInv

(* A thread goes on, ends or begins. *)
LEMMA BusGoesOn ==
  ASSUME BusShape, NEW t \in Workers, NEW r, Goes(t, r), BusLocal(t, r), r.touches \subseteq local[t].touches,
         rules' = [x \in Bus!RuleNames |-> rules'[x]], targets' \subseteq Bus!Targets
  PROVE  /\ BusShape' /\ disturbed' = disturbed
         /\ \A u \in Workers : local'[u] = IF u = t THEN IF r.todo = <<>> THEN Idle ELSE r ELSE local[u]
<1>1. Threads' /\ Apart' /\ Only(t, IF r.todo = <<>> THEN Idle ELSE r) /\ disturbed' = disturbed
  BY GoesOnly, GoesApart DEF BusShape, Goes
<1>2. \A u \in Workers : local'[u] = IF u = t THEN IF r.todo = <<>> THEN Idle ELSE r ELSE local[u]
  BY <1>1 DEF Only
<1>3. \A u \in Workers : BusLocal(u, local'[u])
  BY <1>2, BusIdle DEF BusShape
<1>. QED BY <1>1, <1>2, <1>3 DEF BusShape

LEMMA BusEnds ==
  ASSUME BusShape, NEW t \in Workers, NEW step, Bus!Does(t, step), Tail(local[t].todo) = <<>>,
         rules' = [x \in Bus!RuleNames |-> rules'[x]], targets' \subseteq Bus!Targets
  PROVE  /\ BusShape' /\ disturbed' = disturbed
         /\ \A u \in Workers : local'[u] = IF u = t THEN Idle ELSE local[u]
<1>1. Goes(t, Rest(local[t])) /\ "todo" \in DOMAIN local[t] /\ "touches" \in DOMAIN local[t]
  BY BusThreads DEF Bus!Does, BusShape, BusLocal
<1>2. Rest(local[t]).todo = <<>>
  BY <1>1, RestFields
<1>3. Rest(local[t]).touches = local[t].touches
  BY <1>1 DEF Rest
<1>4. Threads' /\ Only(t, Idle) /\ disturbed' = disturbed
  BY <1>1, <1>2, GoesOnly DEF BusShape, Goes
<1>5. Apart'
  BY <1>1, <1>3, GoesApart DEF BusShape
<1>6. \A u \in Workers : local'[u] = IF u = t THEN Idle ELSE local[u]
  BY <1>4 DEF Only
<1>7. \A u \in Workers : BusLocal(u, local'[u])
  BY <1>6, BusIdle DEF BusShape
<1>. QED BY <1>4, <1>5, <1>6, <1>7 DEF BusShape

LEMMA BusAsk ==
  ASSUME BusShape, NEW t \in Workers, NEW s, Bus!Ask(t, s), BusLocal(t, s)
  PROVE  /\ BusShape' /\ disturbed \subseteq disturbed' /\ UNCHANGED <<buses, rules, targets, emptied>>
         /\ \A u \in Workers : local'[u] = IF u = t THEN s ELSE local[u]
<1>1. Begins(t, s) /\ UNCHANGED <<buses, rules, targets, emptied>>
  BY BusThreads DEF Bus!Ask
<1>2. Threads' /\ Apart' /\ Only(t, s) /\ disturbed \subseteq disturbed'
  BY <1>1, BeginsOnly, BeginsApart DEF BusShape, Begins
<1>3. \A u \in Workers : local'[u] = IF u = t THEN s ELSE local[u]
  BY <1>2 DEF Only
<1>4. \A u \in Workers : BusLocal(u, local'[u])
  BY <1>3 DEF BusShape
<1>. QED BY <1>1, <1>2, <1>3, <1>4 DEF BusShape

(* Tables as they are, or fewer targets, and no request that relies on a   *)
(* row or has dropped some.                                                *)
LEMMA BusAside ==
  ASSUME BusInv, BusShape', disturbed \subseteq disturbed', targets' \subseteq targets, UNCHANGED <<rules, emptied>>,
         buses \subseteq buses',
         \A u \in Workers : \/ local'[u] = local[u]
                            \/ /\ ~IsPut(local'[u])
                               /\ IsBus(local'[u]) => local'[u].todo # BusLast
                               /\ IsTarget(local'[u]) => local'[u].todo # TargetTodo
                               /\ IsDrop(local'[u]) => local'[u].todo # RuleLast
  PROVE  BusInv'
<1>1. RulesInv'
  <2>1. \A u \in Workers : \/ local'[u] = local[u]
                           \/ ~IsPut(local'[u]) /\ (IsBus(local'[u]) => local'[u].todo # BusLast)
    OBVIOUS
  <2>. QED BY <2>1, RulesAside DEF BusInv
<1>2. TargetsInv'
  <2>1. \A u \in Workers : \/ local'[u] = local[u]
                           \/ /\ IsTarget(local'[u]) => local'[u].todo # TargetTodo
                              /\ IsDrop(local'[u]) => local'[u].todo # RuleLast
    OBVIOUS
  <2>2. \A x \in Bus!Targets : HasRule(x, rules, emptied) => HasRule(x, rules', emptied')
    OBVIOUS
  <2>. QED BY <2>1, <2>2, TargetsAside DEF BusInv
<1>. QED BY <1>1, <1>2 DEF BusInv

LEMMA BusBreaks ==
  ASSUME BusInv, Breaks, UNCHANGED <<buses, rules, targets, emptied>>
  PROVE  BusInv'
<1>1. Threads' /\ Apart' /\ disturbed \subseteq disturbed' /\ \A u \in Workers : local'[u] = local[u] \/ local'[u] = Idle
  BY BreaksThreads, BreaksApart DEF BusInv, BusShape, Breaks
<1>2. \A u \in Workers : BusLocal(u, local'[u])
  BY <1>1, BusIdle DEF BusInv, BusShape
<1>3. BusShape'
  BY <1>1, <1>2 DEF BusInv, BusShape
<1>. QED BY <1>1, <1>3, BusIdle, BusAside

LEMMA BusCreates ==
  ASSUME BusInv, NEW t \in Workers, Bus!CreateBus(t)
  PROVE  BusInv'
<1>1. Bus!Does(t, "create bus") /\ buses \subseteq buses' /\ UNCHANGED <<rules, targets, emptied>>
  BY DEF Bus!CreateBus
<1>2. Tail(local[t].todo) = <<>>
  BY <1>1, BusAt, BusTodos DEF BusInv, Bus!Does
<1>3. BusShape' /\ disturbed' = disturbed /\ \A u \in Workers : local'[u] = IF u = t THEN Idle ELSE local[u]
  BY <1>1, <1>2, BusEnds DEF BusInv, BusShape
<1>. QED BY <1>1, <1>3, BusIdle, BusAside

LEMMA BusRemoves ==
  ASSUME BusInv, NEW t \in Workers, Bus!RemoveTargetDelete(t)
  PROVE  BusInv'
<1>1. Bus!Does(t, "remove") /\ targets' \subseteq targets /\ UNCHANGED <<buses, rules, emptied>>
  BY DEF Bus!RemoveTargetDelete
<1>2. Tail(local[t].todo) = <<>>
  BY <1>1, BusAt, BusTodos DEF BusInv, Bus!Does
<1>3. rules' = [x \in Bus!RuleNames |-> rules'[x]] /\ targets' \subseteq Bus!Targets
  BY <1>1 DEF BusInv, BusShape
<1>4. BusShape' /\ disturbed' = disturbed /\ \A u \in Workers : local'[u] = IF u = t THEN Idle ELSE local[u]
  BY <1>1, <1>2, <1>3, BusEnds DEF BusInv
<1>. QED BY <1>1, <1>4, BusIdle, BusAside

(* delete_event_bus: the rules first. *)
LEMMA BusDropsRules ==
  ASSUME BusInv, NEW t \in Workers, Bus!DropRules(t)
  PROVE  BusInv'
<1> DEFINE s == local[t]  r == Rest(s)
<1>. PICK b : b = s.bus
  OBVIOUS
<1>1. /\ Bus!Does(t, "drop rules") /\ UNCHANGED <<buses, targets>> /\ emptied' = emptied \cup {b}
      /\ rules' = [x \in Bus!RuleNames |-> IF x[1] = b THEN NoRule ELSE rules[x]]
  BY DEF Bus!DropRules
<1>2. BusLocal(t, s) /\ IsBus(s) /\ s.todo = BusAll /\ Goes(t, r)
  BY <1>1, BusAt, BusThreads DEF Bus!Does, BusInv
<1>3. DOMAIN s = {"todo", "touches", "bus"} /\ {b} \X Workers \subseteq s.touches
  BY <1>2 DEF BusLocal
<1>4. DOMAIN r = DOMAIN s /\ r.todo = BusLast /\ r.bus = b /\ r.touches = s.touches
  <2>1. r.bus = b /\ r.touches = s.touches
    BY <1>3 DEF Rest
  <2>. QED BY <1>2, <1>3, <2>1, RestFields, BusTodos
<1> HIDE DEF r
<1>5. r.todo # <<>> /\ IsBus(r) /\ ~IsPut(r) /\ ~IsDrop(r) /\ ~IsTarget(r) /\ BusLocal(t, r)
  <2>1. IsBus(r) /\ ~IsPut(r) /\ ~IsDrop(r) /\ ~IsTarget(r)
    BY <1>3, <1>4 DEF IsBus, IsPut, IsDrop, IsTarget
  <2>. QED BY <1>3, <1>4, <2>1, BusTodos DEF BusLocal
<1>6. BusShape' /\ disturbed' = disturbed /\ \A u \in Workers : local'[u] = IF u = t THEN r ELSE local[u]
  <2>1. rules' = [x \in Bus!RuleNames |-> rules'[x]] /\ targets' \subseteq Bus!Targets
    BY <1>1 DEF BusInv, BusShape
  <2>2. BusShape /\ Goes(t, r) /\ r.touches \subseteq local[t].touches
    BY <1>2, <1>4 DEF BusInv
  <2>. QED BY <1>5, <2>1, <2>2, BusGoesOn
<1>7. RulesInv'
  <2>1. ASSUME NEW a \in Buses, Calm(a, disturbed) PROVE RulesOwned(a, rules', buses, local')
    <3>1. RulesOwned(a, rules, buses, local)
      BY <2>1 DEF BusInv, RulesInv
    <3>2. \A x \in Bus!RuleNames : rules'[x] # NoRule /\ x[1] = a => a \in buses \cup {Default}
      BY <1>1, <3>1 DEF RulesOwned
    <3>3. ASSUME NEW u \in Workers
          PROVE  /\ PutsRuleOn(local'[u], a) => a \in buses \cup {Default}
                 /\ DropsBus(local'[u], a) /\ local'[u].todo = BusLast =>
                       \A x \in Bus!RuleNames : x[1] = a => rules'[x] = NoRule
      <4>1. CASE u = t
        BY <1>1, <1>4, <1>5, <1>6, <4>1 DEF PutsRuleOn, DropsBus
      <4>2. CASE u # t
        BY <1>1, <1>6, <3>1, <4>2 DEF RulesOwned
      <4>. QED BY <4>1, <4>2
    <3>. QED BY <3>2, <3>3 DEF RulesOwned
  <2>. QED BY <1>1, <1>6, <2>1 DEF RulesInv
<1>8. TargetsInv'
  <2>1. ASSUME NEW x \in Bus!Targets, HasRule(x, rules, emptied) PROVE HasRule(x, rules', emptied')
    <3>1. <<x[1], x[2]>> \in Bus!RuleNames
      BY DEF Bus!Targets, Bus!RuleNames
    <3>. QED BY <1>1, <2>1, <3>1 DEF HasRule
  <2>. QED BY <1>1, <1>5, <1>6, <2>1, TargetsAside DEF BusInv
<1>. QED BY <1>6, <1>7, <1>8 DEF BusInv

(* Then the bus, which nobody puts a rule on meanwhile. *)
LEMMA BusDrops ==
  ASSUME BusInv, NEW t \in Workers, Bus!DropBus(t)
  PROVE  BusInv'
<1> DEFINE s == local[t]
<1>. PICK b : b = s.bus
  OBVIOUS
<1>1. Bus!Does(t, "drop bus") /\ buses' = buses \ {b} /\ UNCHANGED <<rules, targets, emptied>>
  BY DEF Bus!DropBus
<1>2. IsBus(s) /\ s.todo = BusLast
  BY <1>1, BusAt DEF Bus!Does, BusInv
<1>3. BusShape' /\ disturbed' = disturbed /\ \A u \in Workers : local'[u] = IF u = t THEN Idle ELSE local[u]
  BY <1>1, <1>2, BusTodos, BusEnds DEF BusInv, BusShape
<1>4. RulesInv'
  <2>1. ASSUME NEW a \in Buses, Calm(a, disturbed) PROVE RulesOwned(a, rules, buses', local')
    <3>1. RulesOwned(a, rules, buses, local)
      BY <2>1 DEF BusInv, RulesInv
    <3>2. a = b => /\ \A x \in Bus!RuleNames : x[1] = a => rules[x] = NoRule
                   /\ \A u \in Workers : u # t => ~PutsRuleOn(local[u], a)
      <4>1. a = b => DropsBus(s, a)
        BY <1>2 DEF DropsBus
      <4>. QED BY <1>2, <2>1, <3>1, <4>1, BusAlone DEF BusInv, RulesOwned
    <3>3. \A x \in Bus!RuleNames : rules[x] # NoRule /\ x[1] = a => a \in buses' \cup {Default}
      BY <1>1, <3>1, <3>2 DEF RulesOwned
    <3>4. ASSUME NEW u \in Workers
          PROVE  /\ PutsRuleOn(local'[u], a) => a \in buses' \cup {Default}
                 /\ DropsBus(local'[u], a) /\ local'[u].todo = BusLast =>
                       \A x \in Bus!RuleNames : x[1] = a => rules[x] = NoRule
      <4>1. CASE u = t
        BY <1>3, <4>1, BusIdle DEF PutsRuleOn, DropsBus
      <4>2. CASE u # t
        BY <1>1, <1>3, <3>1, <3>2, <4>2 DEF RulesOwned
      <4>. QED BY <4>1, <4>2
    <3>. QED BY <3>3, <3>4 DEF RulesOwned
  <2>. QED BY <1>1, <1>3, <2>1 DEF RulesInv
<1>5. TargetsInv'
  <2>1. \A x \in Bus!Targets : HasRule(x, rules, emptied) => HasRule(x, rules', emptied')
    BY <1>1
  <2>. QED BY <1>1, <1>3, <2>1, BusIdle, TargetsAside DEF BusInv
<1>. QED BY <1>3, <1>4, <1>5 DEF BusInv

(* put_rule relies on the bus it saw; it never takes a rule away. *)
LEMMA BusPutsRule ==
  ASSUME BusInv, NEW t \in Workers, Bus!PutRule(t)
  PROVE  BusInv'
<1> DEFINE s == local[t]
<1>. PICK r, new, found : r = s.rule /\ new = s.new /\ found = s.found
  OBVIOUS
<1>1. /\ Bus!Does(t, "rule") /\ UNCHANGED <<buses, targets, emptied>>
      /\ rules' = [rules EXCEPT ![r] = IF (@ # NoRule) = found THEN new ELSE @]
  BY DEF Bus!PutRule
<1>2. IsPut(s) /\ s.todo = PutTodo /\ BusLocal(t, s)
  BY <1>1, BusAt DEF Bus!Does, BusInv
<1>3. r \in Bus!RuleNames /\ new # NoRule
  BY <1>2 DEF BusLocal
<1>4. /\ rules' = [x \in Bus!RuleNames |-> rules'[x]]
      /\ \A x \in Bus!RuleNames : x # r => rules'[x] = rules[x]
      /\ rules[r] # NoRule => rules'[r] # NoRule
  <2>1. DOMAIN rules = Bus!RuleNames
    BY DEF BusInv, BusShape
  <2>. QED BY <1>1, <1>3, <2>1
<1>5. BusShape' /\ disturbed' = disturbed /\ \A u \in Workers : local'[u] = IF u = t THEN Idle ELSE local[u]
  BY <1>1, <1>2, <1>4, BusTodos, BusEnds DEF BusInv, BusShape
<1>6. RulesInv'
  <2>1. ASSUME NEW a \in Buses, Calm(a, disturbed) PROVE RulesOwned(a, rules', buses, local')
    <3>1. RulesOwned(a, rules, buses, local)
      BY <2>1 DEF BusInv, RulesInv
    <3>2. r[1] = a => PutsRuleOn(s, a)
      BY <1>2 DEF PutsRuleOn
    <3>3. \A x \in Bus!RuleNames : rules'[x] # NoRule /\ x[1] = a => a \in buses \cup {Default}
      BY <1>4, <3>1, <3>2 DEF RulesOwned
    <3>4. ASSUME NEW u \in Workers
          PROVE  /\ PutsRuleOn(local'[u], a) => a \in buses \cup {Default}
                 /\ DropsBus(local'[u], a) /\ local'[u].todo = BusLast =>
                       \A x \in Bus!RuleNames : x[1] = a => rules'[x] = NoRule
      <4>1. CASE u = t
        BY <1>5, <4>1, BusIdle DEF PutsRuleOn, DropsBus
      <4>2. CASE u # t
        <5>1. DropsBus(local[u], a) => r[1] # a
          BY <2>1, <3>2, <4>2, BusAlone DEF BusInv
        <5>2. local'[u] = local[u]
          BY <1>5, <4>2
        <5>3. DropsBus(local[u], a) /\ local[u].todo = BusLast => \A x \in Bus!RuleNames : x[1] = a => rules[x] = NoRule
          BY <3>1 DEF RulesOwned
        <5>4. PutsRuleOn(local[u], a) => a \in buses \cup {Default}
          BY <3>1 DEF RulesOwned
        <5>. QED BY <1>4, <5>1, <5>2, <5>3, <5>4
      <4>. QED BY <4>1, <4>2
    <3>. QED BY <3>3, <3>4 DEF RulesOwned
  <2>. QED BY <1>1, <1>5, <2>1 DEF RulesInv
<1>7. TargetsInv'
  <2>1. ASSUME NEW x \in Bus!Targets, HasRule(x, rules, emptied) PROVE HasRule(x, rules', emptied')
    <3>1. <<x[1], x[2]>> \in Bus!RuleNames
      BY DEF Bus!Targets, Bus!RuleNames
    <3>. QED BY <1>1, <1>4, <2>1, <3>1 DEF HasRule
  <2>. QED BY <1>1, <1>5, <2>1, BusIdle, TargetsAside DEF BusInv
<1>. QED BY <1>5, <1>6, <1>7 DEF BusInv

(* delete_rule: the targets first. *)
LEMMA RuleDropsTargets ==
  ASSUME BusInv, NEW t \in Workers, Bus!DropTargets(t)
  PROVE  BusInv'
<1> DEFINE s == local[t]  q == Rest(s)
<1>. PICK r : r = s.rule
  OBVIOUS
<1>1. /\ Bus!Does(t, "drop targets") /\ UNCHANGED <<buses, rules, emptied>>
      /\ targets' = {x \in targets : <<x[1], x[2]>> # r}
  BY DEF Bus!DropTargets
<1>2. BusLocal(t, s) /\ IsDrop(s) /\ s.todo = RuleAll /\ Goes(t, q)
  BY <1>1, BusAt, BusThreads DEF Bus!Does, BusInv
<1>3. DOMAIN s = {"todo", "touches", "rule"} /\ r \in Bus!RuleNames /\ {r[2]} \X Workers \subseteq s.touches
  BY <1>2 DEF BusLocal
<1>4. DOMAIN q = DOMAIN s /\ q.todo = RuleLast /\ q.rule = r /\ q.touches = s.touches
  <2>1. q.rule = r /\ q.touches = s.touches
    BY <1>3 DEF Rest
  <2>. QED BY <1>2, <1>3, <2>1, RestFields, BusTodos
<1> HIDE DEF q
<1>5. q.todo # <<>> /\ IsDrop(q) /\ ~IsPut(q) /\ ~IsBus(q) /\ ~IsTarget(q) /\ BusLocal(t, q)
  <2>1. IsDrop(q) /\ ~IsPut(q) /\ ~IsBus(q) /\ ~IsTarget(q)
    BY <1>3, <1>4 DEF IsBus, IsPut, IsDrop, IsTarget
  <2>. QED BY <1>3, <1>4, <2>1, BusTodos DEF BusLocal
<1>6. BusShape' /\ disturbed' = disturbed /\ \A u \in Workers : local'[u] = IF u = t THEN q ELSE local[u]
  <2>1. rules' = [x \in Bus!RuleNames |-> rules'[x]] /\ targets' \subseteq Bus!Targets
    BY <1>1 DEF BusInv, BusShape
  <2>2. BusShape /\ Goes(t, q) /\ q.touches \subseteq local[t].touches
    BY <1>2, <1>4 DEF BusInv
  <2>. QED BY <1>5, <2>1, <2>2, BusGoesOn
<1>7. TargetsInv'
  <2>1. ASSUME NEW n \in Rules, Calm(n, disturbed) PROVE TargetsOwned(n, targets', rules, emptied, local')
    <3>1. TargetsOwned(n, targets, rules, emptied, local)
      BY <2>1 DEF BusInv, TargetsInv
    <3>2. \A x \in targets' : x[2] = n => HasRule(x, rules, emptied)
      BY <1>1, <3>1 DEF TargetsOwned
    <3>3. ASSUME NEW u \in Workers
          PROVE  /\ PutsTargetOn(local'[u], n) => HasRule(local'[u].target, rules, emptied)
                 /\ DropsRule(local'[u], n) /\ local'[u].todo = RuleLast =>
                       \A x \in targets' : <<x[1], x[2]>> # local'[u].rule
      <4>1. CASE u = t
        BY <1>1, <1>4, <1>5, <1>6, <4>1 DEF PutsTargetOn
      <4>2. CASE u # t
        BY <1>1, <1>6, <3>1, <4>2 DEF TargetsOwned
      <4>. QED BY <4>1, <4>2
    <3>. QED BY <3>2, <3>3 DEF TargetsOwned
  <2>. QED BY <1>1, <1>6, <2>1 DEF TargetsInv
<1>8. RulesInv'
  BY <1>1, <1>5, <1>6, RulesAside DEF BusInv
<1>. QED BY <1>6, <1>7, <1>8 DEF BusInv

(* Then the rule, which nobody puts a target on meanwhile. *)
LEMMA RuleDrops ==
  ASSUME BusInv, NEW t \in Workers, Bus!DropRule(t)
  PROVE  BusInv'
<1> DEFINE s == local[t]
<1>. PICK r : r = s.rule
  OBVIOUS
<1>1. Bus!Does(t, "drop rule") /\ rules' = [rules EXCEPT ![r] = NoRule] /\ UNCHANGED <<buses, targets, emptied>>
  BY DEF Bus!DropRule
<1>2. IsDrop(s) /\ s.todo = RuleLast /\ BusLocal(t, s)
  BY <1>1, BusAt DEF Bus!Does, BusInv
<1>3. r \in Bus!RuleNames
  BY <1>2 DEF BusLocal
<1>4. /\ rules' = [x \in Bus!RuleNames |-> rules'[x]]
      /\ \A x \in Bus!RuleNames : rules'[x] = IF x = r THEN NoRule ELSE rules[x]
  <2>1. DOMAIN rules = Bus!RuleNames
    BY DEF BusInv, BusShape
  <2>. QED BY <1>1, <1>3, <2>1
<1>5. BusShape' /\ disturbed' = disturbed /\ \A u \in Workers : local'[u] = IF u = t THEN Idle ELSE local[u]
  BY <1>1, <1>2, <1>4, BusTodos, BusEnds DEF BusInv, BusShape
<1>6. TargetsInv'
  <2>1. ASSUME NEW n \in Rules, Calm(n, disturbed) PROVE TargetsOwned(n, targets, rules', emptied, local')
    <3>1. TargetsOwned(n, targets, rules, emptied, local)
      BY <2>1 DEF BusInv, TargetsInv
    <3>2. r[2] = n => /\ \A x \in targets : <<x[1], x[2]>> # r
                      /\ \A u \in Workers : u # t => ~PutsTargetOn(local[u], n)
      <4>1. r[2] = n => DropsRule(s, n)
        BY <1>2 DEF DropsRule
      <4>. QED BY <1>2, <2>1, <3>1, <4>1, RuleAlone DEF BusInv, TargetsOwned
    <3>3. ASSUME NEW x \in Bus!Targets, x[2] = n, HasRule(x, rules, emptied), <<x[1], x[2]>> # r
          PROVE  HasRule(x, rules', emptied)
      <4>1. <<x[1], x[2]>> \in Bus!RuleNames
        BY DEF Bus!Targets, Bus!RuleNames
      <4>. QED BY <1>4, <3>3, <4>1 DEF HasRule
    <3>4. \A x \in targets : x[2] = n => HasRule(x, rules', emptied)
      <4>1. \A x \in targets : x \in Bus!Targets /\ (x[2] = n => HasRule(x, rules, emptied))
        BY <3>1 DEF TargetsOwned, BusInv, BusShape
      <4>2. \A x \in targets : x[2] = n => <<x[1], x[2]>> # r
        BY <3>2
      <4>. QED BY <3>3, <4>1, <4>2
    <3>5. ASSUME NEW u \in Workers
          PROVE  /\ PutsTargetOn(local'[u], n) => HasRule(local'[u].target, rules', emptied)
                 /\ DropsRule(local'[u], n) /\ local'[u].todo = RuleLast =>
                       \A x \in targets : <<x[1], x[2]>> # local'[u].rule
      <4>1. CASE u = t
        BY <1>5, <4>1, BusIdle DEF PutsTargetOn, DropsRule
      <4>2. CASE u # t
        <5>1. local'[u] = local[u]
          BY <1>5, <4>2
        <5>2. PutsTargetOn(local[u], n) => r[2] # n /\ HasRule(local[u].target, rules, emptied)
          BY <3>1, <3>2, <4>2 DEF TargetsOwned
        <5>3. PutsTargetOn(local[u], n) => local[u].target \in Bus!Targets /\ local[u].target[2] = n
          BY DEF PutsTargetOn, BusInv, BusShape, BusLocal
        <5>4. DropsRule(local[u], n) /\ local[u].todo = RuleLast => \A x \in targets : <<x[1], x[2]>> # local[u].rule
          BY <3>1 DEF TargetsOwned
        <5>. QED BY <3>3, <5>1, <5>2, <5>3, <5>4
      <4>. QED BY <4>1, <4>2
    <3>. QED BY <3>4, <3>5 DEF TargetsOwned
  <2>. QED BY <1>1, <1>5, <2>1 DEF TargetsInv
<1>7. RulesInv'
  <2>1. \A x \in Bus!RuleNames : rules'[x] # NoRule => rules[x] # NoRule
    BY <1>4
  <2>. QED BY <1>1, <1>5, <2>1, BusIdle, RulesAside DEF BusInv
<1>. QED BY <1>5, <1>6, <1>7 DEF BusInv

(* put_targets relies on the rule it saw. *)
LEMMA RulePutsTarget ==
  ASSUME BusInv, NEW t \in Workers, Bus!PutTarget(t)
  PROVE  BusInv'
<1> DEFINE s == local[t]
<1>. PICK y : y = s.target
  OBVIOUS
<1>1. Bus!Does(t, "target") /\ targets' \subseteq targets \cup {y} /\ UNCHANGED <<buses, rules, emptied>>
  BY DEF Bus!PutTarget
<1>2. IsTarget(s) /\ s.todo = TargetTodo /\ BusLocal(t, s)
  BY <1>1, BusAt DEF Bus!Does, BusInv
<1>3. y \in Bus!Targets
  BY <1>2 DEF BusLocal
<1>4. rules' = [x \in Bus!RuleNames |-> rules'[x]] /\ targets' \subseteq Bus!Targets
  BY <1>1, <1>3 DEF BusInv, BusShape
<1>5. BusShape' /\ disturbed' = disturbed /\ \A u \in Workers : local'[u] = IF u = t THEN Idle ELSE local[u]
  BY <1>1, <1>2, <1>4, BusTodos, BusEnds DEF BusInv
<1>6. TargetsInv'
  <2>1. ASSUME NEW n \in Rules, Calm(n, disturbed) PROVE TargetsOwned(n, targets', rules, emptied, local')
    <3>1. TargetsOwned(n, targets, rules, emptied, local)
      BY <2>1 DEF BusInv, TargetsInv
    <3>2. y[2] = n => PutsTargetOn(s, n)
      BY <1>2 DEF PutsTargetOn
    <3>3. \A x \in targets' : x[2] = n => HasRule(x, rules, emptied)
      BY <1>1, <3>1, <3>2 DEF TargetsOwned
    <3>4. ASSUME NEW u \in Workers
          PROVE  /\ PutsTargetOn(local'[u], n) => HasRule(local'[u].target, rules, emptied)
                 /\ DropsRule(local'[u], n) /\ local'[u].todo = RuleLast =>
                       \A x \in targets' : <<x[1], x[2]>> # local'[u].rule
      <4>1. CASE u = t
        BY <1>5, <4>1, BusIdle DEF PutsTargetOn, DropsRule
      <4>2. CASE u # t
        <5>1. local'[u] = local[u]
          BY <1>5, <4>2
        <5>2. DropsRule(local[u], n) => y[2] # n /\ local[u].rule[2] = n
          BY <2>1, <3>2, <4>2, RuleAlone DEF BusInv, DropsRule
        <5>3. DropsRule(local[u], n) /\ local[u].todo = RuleLast => \A x \in targets : <<x[1], x[2]>> # local[u].rule
          BY <3>1 DEF TargetsOwned
        <5>4. PutsTargetOn(local[u], n) => HasRule(local[u].target, rules, emptied)
          BY <3>1 DEF TargetsOwned
        <5>. QED BY <1>1, <5>1, <5>2, <5>3, <5>4
      <4>. QED BY <4>1, <4>2
    <3>. QED BY <3>3, <3>4 DEF TargetsOwned
  <2>. QED BY <1>1, <1>5, <2>1 DEF TargetsInv
<1>7. RulesInv'
  BY <1>1, <1>5, BusIdle, RulesAside DEF BusInv
<1>. QED BY <1>5, <1>6, <1>7 DEF BusInv

(* Requests begin. *)
LEMMA BusAsks ==
  ASSUME BusInv, NEW t \in Workers, NEW s, Bus!Ask(t, s), BusLocal(t, s), ~IsPut(s), IsBus(s) => s.todo # BusLast,
         IsTarget(s) => s.todo # TargetTodo, IsDrop(s) => s.todo # RuleLast
  PROVE  BusInv'
<1>1. /\ BusShape' /\ disturbed \subseteq disturbed' /\ UNCHANGED <<buses, rules, targets, emptied>>
      /\ \A u \in Workers : local'[u] = IF u = t THEN s ELSE local[u]
  BY BusAsk DEF BusInv
<1>2. BusShape
  BY DEF BusInv
<1>. QED BY <1>1, BusAside

LEMMA BusAdministerAsked ==
  ASSUME BusInv, NEW t \in Workers, NEW b, NEW todo \in {CreateTodo, BusAll},
         Bus!Ask(t, Bus!On({b} \X Workers, todo, [bus |-> b]))
  PROVE  BusInv'
<1>. PICK q : q = [bus |-> b]
  OBVIOUS
<1>. PICK s : s = Bus!On({b} \X Workers, todo, q)
  OBVIOUS
<1>1. DOMAIN q = {"bus"} /\ q.bus = b
  OBVIOUS
<1>2. DOMAIN s = {"todo", "touches", "bus"} /\ s.todo = todo /\ s.touches = {b} \X Workers /\ s.bus = b
  BY <1>1 DEF Bus!On, Bus!Also
<1>3. IsBus(s) /\ ~IsPut(s) /\ ~IsDrop(s) /\ ~IsTarget(s)
  BY <1>2 DEF IsBus, IsPut, IsDrop, IsTarget
<1>4. BusLocal(t, s) /\ s.todo # BusLast
  BY <1>2, <1>3, BusTodosApart DEF BusLocal
<1>. QED BY <1>3, <1>4, BusAsks

LEMMA RuleDropAsked ==
  ASSUME BusInv, NEW t \in Workers, NEW r \in Bus!RuleNames, Bus!DeleteRuleSelect(t, r)
  PROVE  BusInv'
<1>. PICK q : q = [rule |-> r]
  OBVIOUS
<1>. PICK s : s = Bus!On({r[2]} \X Workers, RuleAll, q)
  OBVIOUS
<1>0. Bus!Ask(t, s)
  BY DEF Bus!DeleteRuleSelect, RuleAll
<1>1. DOMAIN q = {"rule"} /\ q.rule = r
  OBVIOUS
<1>2. DOMAIN s = {"todo", "touches", "rule"} /\ s.todo = RuleAll /\ s.touches = {r[2]} \X Workers /\ s.rule = r
  BY <1>1 DEF Bus!On, Bus!Also
<1>3. ~IsBus(s) /\ ~IsPut(s) /\ IsDrop(s) /\ ~IsTarget(s)
  BY <1>2 DEF IsBus, IsPut, IsDrop, IsTarget
<1>4. BusLocal(t, s) /\ s.todo # RuleLast
  BY <1>2, <1>3, BusTodosApart DEF BusLocal
<1>. QED BY <1>0, <1>3, <1>4, BusAsks

LEMMA TargetRemoveAsked ==
  ASSUME BusInv, NEW t \in Workers, NEW x \in Bus!Targets, Bus!RemoveTarget(t, x)
  PROVE  BusInv'
<1>. PICK q : q = [target |-> x]
  OBVIOUS
<1>. PICK s : s = Bus!On({}, RemoveTodo, q)
  OBVIOUS
<1>0. Bus!Ask(t, s)
  BY DEF Bus!RemoveTarget, RemoveTodo
<1>1. DOMAIN q = {"target"} /\ q.target = x
  OBVIOUS
<1>2. DOMAIN s = {"todo", "touches", "target"} /\ s.todo = RemoveTodo /\ s.target = x
  BY <1>1 DEF Bus!On, Bus!Also
<1>3. ~IsBus(s) /\ ~IsPut(s) /\ ~IsDrop(s) /\ IsTarget(s)
  BY <1>2 DEF IsBus, IsPut, IsDrop, IsTarget
<1>4. BusLocal(t, s) /\ s.todo # TargetTodo
  BY <1>2, <1>3, BusTodosApart DEF BusLocal
<1>. QED BY <1>0, <1>3, <1>4, BusAsks

(* put_rule begins with the bus there. *)
LEMMA RulePutAsked ==
  ASSUME BusInv, NEW t \in Workers, NEW r \in Bus!RuleNames, NEW new \in Bus!Rule, Bus!PutRuleSelect(t, r, new)
  PROVE  BusInv'
<1>. PICK found : found = (rules[r] # NoRule)
  OBVIOUS
<1>. PICK q : q = [rule |-> r, new |-> new, found |-> found]
  OBVIOUS
<1>. PICK s : s = Bus!On({<<r[1], t>>}, PutTodo, q)
  OBVIOUS
<1>0. r[1] \in buses \cup {Default} /\ Bus!Ask(t, s)
  BY DEF Bus!PutRuleSelect, PutTodo
<1>1. DOMAIN q = {"rule", "new", "found"} /\ q.rule = r /\ q.new = new
  OBVIOUS
<1>2. /\ DOMAIN s = {"todo", "touches", "rule", "new", "found"} /\ s.todo = PutTodo
      /\ s.touches = {<<r[1], t>>} /\ s.rule = r /\ s.new = new
  BY <1>1 DEF Bus!On, Bus!Also
<1>3. ~IsBus(s) /\ IsPut(s) /\ ~IsDrop(s) /\ ~IsTarget(s)
  BY <1>2 DEF IsBus, IsPut, IsDrop, IsTarget
<1>4. BusLocal(t, s)
  BY <1>2, <1>3, RowAssumption DEF BusLocal
<1>5. /\ BusShape' /\ disturbed \subseteq disturbed' /\ UNCHANGED <<buses, rules, targets, emptied>>
      /\ \A u \in Workers : local'[u] = IF u = t THEN s ELSE local[u]
  BY <1>0, <1>4, BusAsk DEF BusInv
<1>6. RulesInv'
  <2>1. ASSUME NEW b \in Buses, Calm(b, disturbed') PROVE RulesOwned(b, rules, buses, local')
    <3>1. RulesOwned(b, rules, buses, local)
      BY <1>5, <2>1 DEF BusInv, RulesInv, Calm
    <3>2. PutsRuleOn(s, b) => b \in buses \cup {Default}
      BY <1>0, <1>2 DEF PutsRuleOn
    <3>3. ~DropsBus(s, b)
      BY <1>3 DEF DropsBus
    <3>. QED BY <1>5, <3>1, <3>2, <3>3 DEF RulesOwned
  <2>. QED BY <1>5, <2>1 DEF RulesInv
<1>7. TargetsInv'
  <2>1. \A x \in Bus!Targets : HasRule(x, rules, emptied) => HasRule(x, rules', emptied')
    BY <1>5
  <2>. QED BY <1>3, <1>5, <2>1, TargetsAside DEF BusInv
<1>. QED BY <1>5, <1>6, <1>7 DEF BusInv

(* put_targets begins with the rule there. *)
LEMMA TargetPutAsked ==
  ASSUME BusInv, NEW t \in Workers, NEW x \in Bus!Targets, Bus!PutTargetRequire(t, x)
  PROVE  BusInv'
<1>. PICK found : found = (x \in targets)
  OBVIOUS
<1>. PICK q : q = [target |-> x, found |-> found]
  OBVIOUS
<1>. PICK s : s = Bus!On({<<x[2], t>>}, TargetTodo, q)
  OBVIOUS
<1>0. rules[<<x[1], x[2]>>] # NoRule /\ Bus!Ask(t, s)
  BY DEF Bus!PutTargetRequire, TargetTodo
<1>1. DOMAIN q = {"target", "found"} /\ q.target = x
  OBVIOUS
<1>2. DOMAIN s = {"todo", "touches", "target", "found"} /\ s.todo = TargetTodo /\ s.touches = {<<x[2], t>>} /\ s.target = x
  BY <1>1 DEF Bus!On, Bus!Also
<1>3. ~IsBus(s) /\ ~IsPut(s) /\ ~IsDrop(s) /\ IsTarget(s)
  BY <1>2 DEF IsBus, IsPut, IsDrop, IsTarget
<1>4. BusLocal(t, s)
  BY <1>2, <1>3 DEF BusLocal
<1>5. /\ BusShape' /\ disturbed \subseteq disturbed' /\ UNCHANGED <<buses, rules, targets, emptied>>
      /\ \A u \in Workers : local'[u] = IF u = t THEN s ELSE local[u]
  BY <1>0, <1>4, BusAsk DEF BusInv
<1>6. TargetsInv'
  <2>1. ASSUME NEW n \in Rules, Calm(n, disturbed') PROVE TargetsOwned(n, targets, rules, emptied, local')
    <3>1. TargetsOwned(n, targets, rules, emptied, local)
      BY <1>5, <2>1 DEF BusInv, TargetsInv, Calm
    <3>2. HasRule(s.target, rules, emptied)
      BY <1>0, <1>2 DEF HasRule
    <3>3. ~DropsRule(s, n)
      BY <1>3 DEF DropsRule
    <3>. QED BY <1>5, <3>1, <3>2, <3>3 DEF TargetsOwned
  <2>. QED BY <1>5, <2>1 DEF TargetsInv
<1>7. RulesInv'
  BY <1>3, <1>5, RulesAside DEF BusInv
<1>. QED BY <1>5, <1>6, <1>7 DEF BusInv

(* put_events changes no table of these. *)
LEMMA BusRoutes ==
  ASSUME BusInv, NEW t \in Workers, Bus!Route(t)
  PROVE  BusInv'
<1>1. CASE \E b \in Buses, event \in Events : Bus!PutEvent(t, b, event)
  <2>1. PICK b \in Buses, event \in Events : Bus!PutEvent(t, b, event)
    BY <1>1
  <2>. PICK q : q = [event |-> event, on |-> b]
    OBVIOUS
  <2>. PICK s : s = Bus!On({}, RouteRules, q)
    OBVIOUS
  <2>2. Bus!Ask(t, s)
    BY <2>1 DEF Bus!PutEvent, RouteRules
  <2>3. DOMAIN q = {"event", "on"}
    OBVIOUS
  <2>4. DOMAIN s = {"todo", "touches", "event", "on"} /\ s.todo = RouteRules
    BY <2>3 DEF Bus!On, Bus!Also
  <2>5. ~IsBus(s) /\ ~IsPut(s) /\ ~IsDrop(s) /\ ~IsTarget(s)
    BY <2>4 DEF IsBus, IsPut, IsDrop, IsTarget
  <2>6. RouteRules \in Seq(RouteSteps)
    BY DEF RouteRules, RouteSteps
  <2>7. BusLocal(t, s)
    BY <2>4, <2>5, <2>6 DEF BusLocal
  <2>. QED BY <2>2, <2>5, <2>7, BusAsks
<1>2. CASE Bus!SelectRules(t) \/ Bus!SelectTargets(t) \/ Bus!EventsAnswer(t)
  <2> DEFINE s == local[t]
  <2>1. UNCHANGED <<buses, rules, targets, emptied>>
    BY <1>2 DEF Bus!SelectRules, Bus!SelectTargets, Bus!EventsAnswer
  <2>2. \E step \in RouteSteps : Bus!At(t, step)
    BY <1>2 DEF Bus!SelectRules, Bus!SelectTargets, Bus!EventsAnswer, Bus!Does, RouteSteps
  <2>3. /\ s.todo \in Seq(RouteSteps) /\ s.todo # <<>> /\ ~IsBus(s) /\ ~IsPut(s) /\ ~IsDrop(s) /\ ~IsTarget(s)
        /\ "todo" \in DOMAIN s /\ "touches" \in DOMAIN s
    BY <2>2, BusAt DEF BusInv, Bus!At, BusLocal
  <2>4. Tail(s.todo) \in Seq(RouteSteps)
    BY <2>3
  <2>5. DOMAIN Rest(s) = DOMAIN s /\ Rest(s).todo = Tail(s.todo) /\ Rest(s).touches = s.touches
    <3>1. Rest(s).touches = s.touches
      BY <2>3 DEF Rest
    <3>. QED BY <2>3, <3>1, RestFields
  <2>6. PICK r : /\ Goes(t, r) /\ r.touches = s.touches /\ r.todo \in Seq(RouteSteps)
                 /\ DOMAIN s \subseteq DOMAIN r /\ DOMAIN r \subseteq DOMAIN s \cup {"firing", "tried"}
    <3>1. CASE Bus!Advance(t)
      <4>1. Goes(t, Rest(s))
        BY <3>1, BusThreads
      <4>. QED BY <2>4, <2>5, <4>1
    <3>2. CASE Bus!SelectRules(t)
      <4>. PICK firing : firing = {r \in Bus!RuleNames : r[1] = s.on /\ Bus!Fires(r, s.event)}
        OBVIOUS
      <4>. PICK p : p = [firing |-> firing, tried |-> {}]
        OBVIOUS
      <4> DEFINE q == Bus!Also(Rest(s), p)
      <4>1. Goes(t, q)
        BY <3>2, BusThreads DEF Bus!SelectRules, Rest
      <4>2. DOMAIN p = {"firing", "tried"}
        OBVIOUS
      <4>3. DOMAIN q = DOMAIN s \cup {"firing", "tried"} /\ q.touches = s.touches /\ q.todo = Tail(s.todo)
        BY <2>3, <2>5, <4>2 DEF Bus!Also
      <4> HIDE DEF q
      <4>. QED BY <2>4, <4>1, <4>3
    <3>3. CASE Bus!SelectTargets(t) /\ ~Bus!Advance(t)
      <4>1. PICK r : Bus!Continue(t, [s EXCEPT !.firing = @ \ {r}, !.tried = @ \cup Bus!InvokeTargetsOf(t, r)])
        BY <3>3 DEF Bus!SelectTargets
      <4> DEFINE q == [s EXCEPT !.firing = @ \ {r}, !.tried = @ \cup Bus!InvokeTargetsOf(t, r)]
      <4>2. DOMAIN q = DOMAIN s /\ q.touches = s.touches /\ q.todo = s.todo
        BY <2>3
      <4>3. Goes(t, q)
        BY <4>1, BusThreads
      <4> HIDE DEF q
      <4>. QED BY <2>3, <4>2, <4>3
    <3>. QED BY <1>2, <3>1, <3>2, <3>3 DEF Bus!EventsAnswer, Bus!Does
  <2>7. ~IsBus(r) /\ ~IsPut(r) /\ ~IsDrop(r) /\ ~IsTarget(r)
    <3>1. "bus" \notin DOMAIN s /\ "new" \notin DOMAIN s /\ "rule" \notin DOMAIN s /\ "target" \notin DOMAIN s
      BY <2>3 DEF IsBus, IsPut, IsDrop, IsTarget
    <3>. QED BY <2>6, <3>1 DEF IsBus, IsPut, IsDrop, IsTarget
  <2>8. BusLocal(t, r)
    BY <2>3, <2>6, <2>7 DEF BusLocal
  <2>9. rules' = [x \in Bus!RuleNames |-> rules'[x]] /\ targets' \subseteq Bus!Targets
    BY <2>1 DEF BusInv, BusShape
  <2>10. /\ BusShape' /\ disturbed' = disturbed
         /\ \A u \in Workers : local'[u] = IF u = t THEN IF r.todo = <<>> THEN Idle ELSE r ELSE local[u]
    BY <2>6, <2>8, <2>9, BusGoesOn DEF BusInv
  <2>. QED BY <2>1, <2>7, <2>10, BusIdle, BusAside
<1>. QED BY <1>1, <1>2 DEF Bus!Route

LEMMA BusAdministers ==
  ASSUME BusInv, NEW t \in Workers, Bus!Administer(t)
  PROVE  BusInv'
<1>1. CASE \E b \in Buses : Bus!CreateBusCheck(t, b)
  BY <1>1, BusAdministerAsked DEF Bus!CreateBusCheck, CreateTodo
<1>2. CASE \E b \in Buses : Bus!DeleteBusRequire(t, b)
  BY <1>2, BusAdministerAsked DEF Bus!DeleteBusRequire, BusAll
<1>3. CASE \E r \in Bus!RuleNames : Bus!DeleteRuleSelect(t, r) \/ \E new \in Bus!Rule : Bus!PutRuleSelect(t, r, new)
  BY <1>3, RuleDropAsked, RulePutAsked
<1>4. CASE \E x \in Bus!Targets : Bus!PutTargetRequire(t, x) \/ Bus!RemoveTarget(t, x)
  BY <1>4, TargetPutAsked, TargetRemoveAsked
<1>. QED BY <1>1, <1>2, <1>3, <1>4, BusCreates, BusDropsRules, BusDrops, BusPutsRule, RuleDropsTargets, RuleDrops,
            RulePutsTarget, BusRemoves DEF Bus!Administer

LEMMA BusNext ==
  ASSUME BusInv, [Bus!Next]_(Bus!vars)
  PROVE  BusInv'
<1>1. CASE UNCHANGED Bus!vars
  <2>1. UNCHANGED <<local, disturbed, buses, rules, targets, emptied>>
    BY <1>1 DEF Bus!vars, Bus!requests, Bus!ebvars
  <2>. QED BY <2>1 DEF BusInv, BusShape, RulesInv, TargetsInv, Threads, Apart
<1>2. CASE (Bus!Crash \/ \E t \in Workers : Bus!Raises(t)) /\ UNCHANGED <<buses, rules, targets, emptied>>
  <2>1. Breaks
    BY <1>2, BusThreads DEF BusInv, BusShape, Bus!Raises
  <2>. QED BY <1>2, <2>1, BusBreaks
<1>. QED BY <1>1, <1>2, BusAdministers, BusRoutes DEF Bus!Next

LEMMA BusInit ==
  ASSUME InitRequests, Bus!InitTables
  PROVE  BusInv
<1>1. \A t \in Workers : local[t] = Idle /\ Idle.touches = {}
  BY DEF InitRequests, Idle
<1>2. Threads /\ Apart
  BY <1>1 DEF InitRequests, Threads, Apart
<1>3. BusShape
  BY <1>1, <1>2, BusIdle DEF BusShape, Bus!InitTables
<1>4. ASSUME NEW b \in Buses PROVE RulesOwned(b, rules, buses, local)
  BY <1>1, BusIdle DEF RulesOwned, Bus!InitTables, PutsRuleOn, DropsBus
<1>5. ASSUME NEW n \in Rules PROVE TargetsOwned(n, targets, rules, emptied, local)
  BY <1>1, BusIdle DEF TargetsOwned, Bus!InitTables, PutsTargetOn, DropsRule, HasRule
<1>. QED BY <1>3, <1>4, <1>5 DEF BusInv, RulesInv, TargetsInv

LEMMA BusOwned == BusInv => Bus!RowsHaveOwners
<1> SUFFICES ASSUME BusInv PROVE Bus!RowsHaveOwners
  OBVIOUS
<1>1. ASSUME NEW r \in Bus!RuleNames, rules[r] # NoRule, \A t \in Workers : Bus!Quiet(<<r[1], t>>)
      PROVE  r[1] \in buses \cup {Default}
  <2>1. r[1] \in Buses /\ Calm(r[1], disturbed)
    BY <1>1 DEF Bus!RuleNames, Bus!Quiet, Calm
  <2>. QED BY <1>1, <2>1 DEF BusInv, RulesInv, RulesOwned
<1>2. ASSUME NEW x \in targets, \A t \in Workers : Bus!Quiet(<<x[2], t>>)
      PROVE  rules[<<x[1], x[2]>>] # NoRule \/ x[1] \in emptied
  <2>1. x[2] \in Rules
    BY DEF BusInv, BusShape, Bus!Targets
  <2>2. Calm(x[2], disturbed)
    BY <1>2 DEF Bus!Quiet, Calm
  <2>. QED BY <2>1, <2>2 DEF BusInv, TargetsInv, TargetsOwned, HasRule
<1>. QED BY <1>1, <1>2 DEF Bus!RowsHaveOwners

LEMMA GatewayThreads ==
  /\ \A t, s : Gateway!Begin(t, s) => Begins(t, s)
  /\ \A t, s : Gateway!Continue(t, s) => Goes(t, s)
  /\ \A t : Gateway!Advance(t) => Goes(t, Rest(local[t]))
  /\ \A t : Gateway!Ends(t) => Goes(t, Idle)
  /\ Threads /\ (Gateway!Crash \/ \E t \in Workers : Gateway!Fails(t)) => Breaks
<1>1. /\ \A t, s : Gateway!Begin(t, s) => Begins(t, s)
      /\ \A t, s : Gateway!Continue(t, s) => Goes(t, s)
  BY DEF Gateway!Begin, Begins, Gateway!Continue, Goes, Idle, Gateway!Idle
<1>2. /\ \A t : Gateway!Advance(t) => Goes(t, Rest(local[t]))
      /\ \A t : Gateway!Ends(t) => Goes(t, Idle)
  BY <1>1 DEF Gateway!Advance, Rest, Gateway!Ends, Idle, Gateway!Idle
<1>3. ASSUME Threads, NEW S, Gateway!BreakOff(S) PROVE Breaks
  <2>1. /\ local' = [u \in Workers |-> IF u \in S THEN Idle ELSE local[u]]
        /\ disturbed' = disturbed \cup UNION {local[u].touches : u \in S} /\ begun' = begun
    BY <1>3 DEF Gateway!BreakOff, Idle, Gateway!Idle
  <2>2. \A u \in S : local[u].touches \subseteq disturbed'
    BY <2>1
  <2>. QED BY <2>1, <2>2 DEF Breaks
<1>. QED BY <1>1, <1>2, <1>3 DEF Gateway!Crash, Gateway!Fails

(* API Gateway: the statements of create_resource, of invoke, and of all   *)
(* other requests.                                                         *)
GateFind == <<"find", "resource">>
GatePut == <<"resource">>
GateExact == <<"exact", "answer">>
GateTemplate == <<"template", "answer">>
GateAnswer == <<"answer">>

GatePlain == {"create api", "drop resources", "drop api", "drop resource"}

IsMake(s) == "route" \in DOMAIN s
IsInvoke(s) == "invoked" \in DOMAIN s

GateLocal(s) ==
    /\ {"todo", "touches"} \subseteq DOMAIN s
    /\ ~IsMake(s) /\ ~IsInvoke(s) => s.todo \in Seq(GatePlain)
    /\ IsMake(s) =>
          /\ s.todo \in {GateFind, GatePut} /\ s.route \in Routes
          /\ DOMAIN s = {"todo", "touches", "at", "api", "route", "row"}
    /\ IsInvoke(s) =>
          /\ s.todo \in {GateExact, GateTemplate, GateAnswer}
          /\ DOMAIN s = {"todo", "touches", "at", "invoked", "found"}

(* It may insert row i. *)
Making(s, i) == IsMake(s) /\ s.at = i

(* Rows are inserted where there was none, and keep their route. *)
RowsInv ==
    /\ Threads /\ begun \in Nat
    /\ resources = [i \in Gateway!Ids |-> resources[i]]
    /\ \A i \in Gateway!Ids : resources[i] # NoRow =>
          DOMAIN resources[i] = {"api", "route", "set"} /\ resources[i].route \in Routes
    /\ \A t \in Workers : GateLocal(local[t])
    /\ \A t \in Workers : \A i : Making(local[t], i) => i \in Nat /\ i <= begun
    /\ \A t, u \in Workers : \A i : Making(local[t], i) /\ Making(local[u], i) => t = u
    /\ \A i \in Gateway!Ids : i > begun \/ (\E t \in Workers : Making(local[t], i)) => resources[i] = NoRow

RouteKept ==
    \A i \in Gateway!Ids : resources[i] # NoRow /\ resources'[i] # NoRow =>
        resources'[i].route = resources[i].route

(* Gateway!RoutesTo, of the table R. *)
MatchesIn(inv, R) ==
    {i \in Gateway!Ids : R[i] # NoRow /\ R[i].api = inv[1] /\ Gateway!MatchesTemplate(R[i].route, inv[2])}

(* What the lookups so far say of the resources B that matched all along.  *)
Finds(s, B, R) ==
    /\ s.todo = GateTemplate => \A i \in B : R[i].route # s.invoked[2]
    /\ s.todo = GateAnswer =>
          /\ B # {} => s.found # <<>>
          /\ (\E i \in B : R[i].route = s.invoked[2]) => s.found = s.invoked[2]

Matched(s, B, R) == IsInvoke(s) => B \subseteq MatchesIn(s.invoked, R) /\ Finds(s, B, R)

MatchInv == RowsInv /\ \A t \in Workers : Matched(local[t], matching[t], resources)

LEMMA GateTodos ==
  /\ GateFind # <<>> /\ Head(GateFind) = "find" /\ Tail(GateFind) = GatePut
  /\ GatePut # <<>> /\ Head(GatePut) = "resource" /\ Tail(GatePut) = <<>>
  /\ GateExact # <<>> /\ Head(GateExact) = "exact" /\ Tail(GateExact) = GateAnswer
  /\ GateTemplate # <<>> /\ Head(GateTemplate) = "template" /\ Tail(GateTemplate) = GateAnswer
  /\ GateAnswer # <<>> /\ Head(GateAnswer) = "answer" /\ Tail(GateAnswer) = <<>>
  BY Tails DEF GateFind, GatePut, GateExact, GateTemplate, GateAnswer

LEMMA GateApart ==
  GateExact # GateTemplate /\ GateExact # GateAnswer /\ GateTemplate # GateAnswer /\ GateFind # GatePut
<1>1. "exact" # "template" /\ "exact" # "answer" /\ "template" # "answer" /\ "find" # "resource"
  OBVIOUS
<1>. QED BY <1>1, GateTodos

LEMMA GateNotPlain == \A step \in {"find", "resource", "exact", "template", "answer"} : step \notin GatePlain
  BY DEF GatePlain

LEMMA GateIds == Gateway!Ids \subseteq Nat
  BY BoundsAssumption DEF Gateway!Ids

LEMMA GateIdle == GateLocal(Idle) /\ ~IsMake(Idle) /\ ~IsInvoke(Idle)
<1>1. Idle.todo = <<>> /\ DOMAIN Idle = {"todo", "touches"}
  BY DEF Idle
<1>2. <<>> \in Seq(GatePlain)
  OBVIOUS
<1>3. ~IsMake(Idle) /\ ~IsInvoke(Idle)
  BY <1>1 DEF IsMake, IsInvoke
<1>. QED BY <1>1, <1>2, <1>3 DEF GateLocal

(* Rows go, or change but for their route; nobody takes a new id. *)
LEMMA RowsAside ==
  ASSUME RowsInv, Threads', begun' \in Nat, begun <= begun',
         resources' = [i \in Gateway!Ids |-> resources'[i]],
         \A i \in Gateway!Ids :
            \/ resources'[i] \in {resources[i], NoRow}
            \/ /\ resources[i] # NoRow /\ DOMAIN resources'[i] = {"api", "route", "set"}
               /\ resources'[i].route = resources[i].route,
         \A u \in Workers : \/ local'[u] = local[u]
                            \/ GateLocal(local'[u]) /\ \A i : Making(local'[u], i) => Making(local[u], i)
  PROVE  RowsInv' /\ RouteKept
<1>1. \A u \in Workers : GateLocal(local'[u])
  BY DEF RowsInv
<1>2. \A u \in Workers : \A i : Making(local'[u], i) => Making(local[u], i)
  OBVIOUS
<1>3. \A u \in Workers : \A i : Making(local'[u], i) => i \in Nat /\ i <= begun'
  <2>1. begun \in Nat /\ \A u \in Workers : \A i : Making(local'[u], i) => i \in Nat /\ i <= begun
    BY <1>2 DEF RowsInv
  <2>2. \A i \in Nat : i <= begun => i <= begun'
    BY <2>1
  <2>. QED BY <2>1, <2>2
<1>4. \A t, u \in Workers : \A i : Making(local'[t], i) /\ Making(local'[u], i) => t = u
  BY <1>2 DEF RowsInv
<1>5. \A i \in Gateway!Ids : i > begun' => i > begun
  BY GateIds DEF RowsInv
<1>6. \A i \in Gateway!Ids : i > begun' \/ (\E t \in Workers : Making(local'[t], i)) => resources'[i] = NoRow
  BY <1>2, <1>5 DEF RowsInv
<1>7. \A i \in Gateway!Ids : resources'[i] # NoRow =>
          DOMAIN resources'[i] = {"api", "route", "set"} /\ resources'[i].route \in Routes
  BY DEF RowsInv
<1>. QED BY <1>1, <1>3, <1>4, <1>6, <1>7 DEF RowsInv, RouteKept

LEMMA RowsBreaks ==
  ASSUME RowsInv, Breaks, resources' = resources
  PROVE  RowsInv' /\ RouteKept
<1>1. Threads' /\ begun' = begun /\ \A u \in Workers : local'[u] = local[u] \/ local'[u] = Idle
  BY BreaksThreads DEF Breaks
<1>2. \A u \in Workers : \/ local'[u] = local[u]
                         \/ GateLocal(local'[u]) /\ \A i : Making(local'[u], i) => Making(local[u], i)
  BY <1>1, GateIdle DEF Making
<1>3. begun' \in Nat /\ begun <= begun' /\ resources' = [i \in Gateway!Ids |-> resources'[i]]
  BY <1>1 DEF RowsInv
<1>. QED BY <1>1, <1>2, <1>3, RowsAside

LEMMA RowsAsk ==
  ASSUME RowsInv, NEW t \in Workers, NEW s, Gateway!Ask(t, s), GateLocal(s), ~IsMake(s)
  PROVE  RowsInv' /\ RouteKept /\ Only(t, s)
<1>1. Begins(t, s) /\ resources' = resources
  BY GatewayThreads DEF Gateway!Ask
<1>2. Threads' /\ Only(t, s) /\ begun' = begun + 1
  BY <1>1, BeginsOnly DEF RowsInv, Begins
<1>3. \A u \in Workers : \/ local'[u] = local[u]
                         \/ GateLocal(local'[u]) /\ \A i : Making(local'[u], i) => Making(local[u], i)
  BY <1>2 DEF Only, Making
<1>4. begun' \in Nat /\ begun <= begun' /\ resources' = [i \in Gateway!Ids |-> resources'[i]]
  BY <1>1, <1>2 DEF RowsInv
<1>. QED BY <1>1, <1>2, <1>3, <1>4, RowsAside

LEMMA RowsGoes ==
  ASSUME RowsInv, NEW t \in Workers, NEW r, Goes(t, r), GateLocal(r),
         \A i : Making(r, i) => Making(local[t], i),
         resources' = [i \in Gateway!Ids |-> resources'[i]],
         \A i \in Gateway!Ids :
            \/ resources'[i] \in {resources[i], NoRow}
            \/ /\ resources[i] # NoRow /\ DOMAIN resources'[i] = {"api", "route", "set"}
               /\ resources'[i].route = resources[i].route
  PROVE  RowsInv' /\ RouteKept /\ Only(t, IF r.todo = <<>> THEN Idle ELSE r)
<1>. PICK q : q = IF r.todo = <<>> THEN Idle ELSE r
  OBVIOUS
<1>1. Threads' /\ Only(t, q) /\ begun' = begun
  BY GoesOnly DEF RowsInv, Goes
<1>2. GateLocal(q) /\ \A i : Making(q, i) => Making(local[t], i)
  BY GateIdle DEF Making
<1>3. \A u \in Workers : \/ local'[u] = local[u]
                         \/ GateLocal(local'[u]) /\ \A i : Making(local'[u], i) => Making(local[u], i)
  BY <1>1, <1>2 DEF Only
<1>4. begun' \in Nat /\ begun <= begun'
  BY <1>1 DEF RowsInv
<1>. QED BY <1>1, <1>3, <1>4, RowsAside

LEMMA GateFields ==
  /\ \A a : "route" \notin DOMAIN [name |-> a] /\ "invoked" \notin DOMAIN [name |-> a]
  /\ \A a : "route" \notin DOMAIN [api |-> a] /\ "invoked" \notin DOMAIN [api |-> a]
  /\ \A a : "route" \notin DOMAIN [row |-> a] /\ "invoked" \notin DOMAIN [row |-> a]
  OBVIOUS

LEMMA RowsAskPlain ==
  ASSUME RowsInv, NEW t \in Workers, NEW rows, NEW todo \in Seq(GatePlain), NEW r,
         "route" \notin DOMAIN r, "invoked" \notin DOMAIN r, Gateway!Ask(t, Gateway!On(rows, todo, r))
  PROVE  RowsInv' /\ RouteKept /\ \E s : Only(t, s) /\ ~IsInvoke(s)
<1> DEFINE s == Gateway!On(rows, todo, r)
<1>1. DOMAIN s = {"todo", "touches", "at"} \cup DOMAIN r /\ s.todo = todo
  BY DEF Gateway!On, Gateway!Also
<1>2. s = Gateway!On(rows, todo, r)
  OBVIOUS
<1> HIDE DEF s
<1>3. ~IsMake(s) /\ ~IsInvoke(s)
  BY <1>1 DEF IsMake, IsInvoke
<1>4. GateLocal(s)
  BY <1>1, <1>3 DEF GateLocal
<1>. QED BY <1>2, <1>3, <1>4, RowsAsk

(* create_resource takes an id that nobody has. *)
LEMMA RowsMake ==
  ASSUME RowsInv, NEW t \in Workers, NEW a, NEW route \in Routes, Gateway!CreateResourceRequire(t, a, route)
  PROVE  RowsInv' /\ RouteKept /\ \E s : Only(t, s) /\ ~IsInvoke(s)
<1>. PICK q : q = [api |-> a, route |-> route, row |-> begun + 1]
  OBVIOUS
<1>. PICK rows : rows = {<<a, t>>, <<a, route>>}
  OBVIOUS
<1> DEFINE s == Gateway!On(rows, GateFind, q)
<1>1. Begins(t, s) /\ resources' = resources
  BY GatewayThreads DEF Gateway!CreateResourceRequire, Gateway!Ask, GateFind
<1>2. DOMAIN q = {"api", "route", "row"} /\ q.route = route
  OBVIOUS
<1>3. /\ DOMAIN s = {"todo", "touches", "at", "api", "route", "row"}
      /\ s.todo = GateFind /\ s.at = begun + 1 /\ s.route = route
  BY <1>2 DEF Gateway!On, Gateway!Also
<1> HIDE DEF s
<1>4. IsMake(s) /\ ~IsInvoke(s) /\ GateLocal(s) /\ \A i : Making(s, i) <=> i = begun + 1
  BY <1>3 DEF IsMake, IsInvoke, GateLocal, Making
<1>5. Threads' /\ Only(t, s) /\ begun' = begun + 1 /\ begun \in Nat
  BY <1>1, BeginsOnly DEF RowsInv, Begins
<1>6. \A u \in Workers : \A i : Making(local'[u], i) => (u = t /\ i = begun + 1) \/ (u # t /\ Making(local[u], i))
  BY <1>4, <1>5 DEF Only
<1>7. \A u \in Workers : \A i : Making(local[u], i) => i \in Nat /\ i <= begun
  BY DEF RowsInv
<1>8. \A u \in Workers : \A i : Making(local'[u], i) => i \in Nat /\ i <= begun'
  BY <1>5, <1>6, <1>7
<1>9. ASSUME NEW u \in Workers, NEW v \in Workers, NEW i, Making(local'[u], i), Making(local'[v], i)
      PROVE  u = v
  <2>1. \A x, y \in Workers : \A j : Making(local[x], j) /\ Making(local[y], j) => x = y
    BY DEF RowsInv
  <2>2. CASE i = begun + 1
    <3>1. ~(begun + 1 <= begun)
      BY <1>5
    <3>2. \A x \in Workers : ~Making(local[x], i)
      BY <1>7, <2>2, <3>1
    <3>. QED BY <1>6, <1>9, <3>2
  <2>3. CASE i # begun + 1
    BY <1>6, <1>9, <2>1, <2>3
  <2>. QED BY <2>2, <2>3
<1>10. \A i \in Gateway!Ids : i > begun' \/ (\E u \in Workers : Making(local'[u], i)) => resources'[i] = NoRow
  <2>1. \A i \in Gateway!Ids : i > begun' => i > begun
    BY <1>5, GateIds
  <2>2. begun + 1 > begun
    BY <1>5
  <2>3. \A i \in Gateway!Ids : i > begun \/ (\E u \in Workers : Making(local[u], i)) => resources[i] = NoRow
    BY DEF RowsInv
  <2>. QED BY <1>1, <1>6, <2>1, <2>2, <2>3
<1>11. \A u \in Workers : GateLocal(local'[u])
  BY <1>4, <1>5 DEF Only, RowsInv
<1>12. begun' \in Nat
  BY <1>5
<1>13. RowsInv'
  BY <1>1, <1>5, <1>8, <1>9, <1>10, <1>11, <1>12 DEF RowsInv
<1>. QED BY <1>1, <1>4, <1>5, <1>13 DEF RouteKept

(* Which request has the statement next. *)
LEMMA GateAt ==
  ASSUME RowsInv, NEW t \in Workers, NEW step, Gateway!At(t, step)
  PROVE  /\ GateLocal(local[t])
         /\ step \in GatePlain =>
               local[t].todo \in Seq(GatePlain) /\ ~IsMake(local[t]) /\ ~IsInvoke(local[t])
         /\ step \in {"find", "resource"} => IsMake(local[t]) /\ ~IsInvoke(local[t])
         /\ step = "find" => local[t].todo = GateFind
         /\ step = "resource" => local[t].todo = GatePut
         /\ step \in {"exact", "template", "answer"} => IsInvoke(local[t]) /\ ~IsMake(local[t])
         /\ step = "exact" => local[t].todo = GateExact
         /\ step = "template" => local[t].todo = GateTemplate
         /\ step = "answer" => local[t].todo = GateAnswer
<1> DEFINE s == local[t]
<1>1. GateLocal(s) /\ s.todo # <<>> /\ Head(s.todo) = step
  BY DEF RowsInv, Gateway!At
<1>2. s.todo \in Seq(GatePlain) => step \in GatePlain
  BY <1>1
<1>3. IsMake(s) => ~IsInvoke(s)
  BY <1>1 DEF GateLocal, IsInvoke
<1>4. CASE IsMake(s)
  BY <1>1, <1>3, <1>4, GateTodos, GateNotPlain DEF GateLocal
<1>5. CASE IsInvoke(s)
  BY <1>1, <1>3, <1>5, GateTodos, GateNotPlain DEF GateLocal
<1>6. CASE ~IsMake(s) /\ ~IsInvoke(s)
  BY <1>1, <1>2, <1>6, GateNotPlain DEF GateLocal
<1>. QED BY <1>4, <1>5, <1>6

(* A statement of a request that is neither create_resource nor invoke.    *)
LEMMA RowsDoes ==
  ASSUME RowsInv, NEW t \in Workers, NEW step \in GatePlain, Gateway!Does(t, step),
         resources' = [i \in Gateway!Ids |-> resources'[i]],
         \A i \in Gateway!Ids : resources'[i] \in {resources[i], NoRow}
  PROVE  RowsInv' /\ RouteKept /\ \E s : Only(t, s) /\ ~IsInvoke(s)
<1> DEFINE s == local[t]  r == Rest(s)
<1>1. Goes(t, r) /\ Gateway!At(t, step)
  BY GatewayThreads DEF Gateway!Does
<1>2. /\ GateLocal(s) /\ s.todo \in Seq(GatePlain) /\ s.todo # <<>> /\ ~IsMake(s) /\ ~IsInvoke(s)
      /\ "todo" \in DOMAIN s
  BY <1>1, GateAt DEF Gateway!At, GateLocal
<1>3. DOMAIN r = DOMAIN s /\ r.todo = Tail(s.todo)
  BY <1>2, RestFields
<1> HIDE DEF r
<1>4. Tail(s.todo) \in Seq(GatePlain)
  BY <1>2
<1>5. GateLocal(r) /\ ~IsMake(r) /\ ~IsInvoke(r)
  BY <1>2, <1>3, <1>4 DEF GateLocal, IsMake, IsInvoke
<1>6. RowsInv' /\ RouteKept /\ Only(t, IF r.todo = <<>> THEN Idle ELSE r)
  BY <1>1, <1>5, RowsGoes DEF Making
<1>. QED BY <1>5, <1>6, GateIdle

LEMMA RowsFind ==
  ASSUME RowsInv, NEW t \in Workers, Gateway!CreateResourceSelect(t)
  PROVE  RowsInv' /\ RouteKept /\ \E s : Only(t, s) /\ ~IsInvoke(s)
<1> DEFINE s == local[t]
<1>1. Gateway!At(t, "find") /\ resources' = resources
  BY DEF Gateway!CreateResourceSelect
<1>2. GateLocal(s) /\ IsMake(s) /\ s.todo = GateFind
  BY <1>1, GateAt
<1>3. \E i : Gateway!Continue(t, [s EXCEPT !.todo = Tail(@), !.row = i])
  BY DEF Gateway!CreateResourceSelect
<1>4. PICK i : Goes(t, [s EXCEPT !.todo = Tail(@), !.row = i])
  BY <1>3, GatewayThreads
<1> DEFINE r == [s EXCEPT !.todo = Tail(@), !.row = i]
<1>5. DOMAIN r = DOMAIN s /\ r.todo = GatePut /\ r.at = s.at /\ r.route = s.route
  BY <1>2, GateTodos DEF GateLocal
<1>6. Goes(t, r)
  BY <1>4
<1> HIDE DEF r
<1>7. GateLocal(r) /\ IsMake(r) /\ ~IsInvoke(r)
  BY <1>2, <1>5 DEF GateLocal, IsMake, IsInvoke
<1>8. \A j : Making(r, j) => Making(s, j)
  BY <1>2, <1>5 DEF Making
<1>9. resources' = [j \in Gateway!Ids |-> resources'[j]]
  BY <1>1 DEF RowsInv
<1>10. RowsInv' /\ RouteKept /\ Only(t, IF r.todo = <<>> THEN Idle ELSE r)
  BY <1>1, <1>6, <1>7, <1>8, <1>9, RowsGoes
<1>. QED BY <1>7, <1>10, GateIdle

(* The INSERT at the id of the request, or the UPDATE of the row it found. *)
LEMMA RowsPut ==
  ASSUME RowsInv, NEW t \in Workers, Gateway!CreateResource(t)
  PROVE  RowsInv' /\ RouteKept /\ \E s : Only(t, s) /\ ~IsInvoke(s)
<1> DEFINE s == local[t]
<1>1. Goes(t, Rest(s)) /\ Gateway!At(t, "resource")
  BY GatewayThreads DEF Gateway!CreateResource, Gateway!Does
<1>2. GateLocal(s) /\ IsMake(s) /\ s.todo = GatePut /\ s.route \in Routes /\ "todo" \in DOMAIN s
  BY <1>1, GateAt DEF GateLocal
<1>3. Rest(s).todo = <<>>
  BY <1>2, RestFields, GateTodos
<1>4. Threads' /\ Only(t, Idle) /\ begun' = begun
  BY <1>1, <1>3, GoesOnly DEF RowsInv, Goes
<1>. PICK at : at = s.at
  OBVIOUS
<1>. PICK new : new = [api |-> s.api, route |-> s.route, set |-> s.at]
  OBVIOUS
<1>. PICK row : row = s.row
  OBVIOUS
<1>5. resources' = [resources EXCEPT ![row] = IF row = at THEN new
                                              ELSE IF @ = NoRow THEN @ ELSE [@ EXCEPT !.set = at]]
  BY DEF Gateway!CreateResource
<1>6. DOMAIN resources = Gateway!Ids
  BY DEF RowsInv
<1>7. \A u \in Workers : \A i : Making(local'[u], i) => u # t /\ Making(local[u], i)
  BY <1>4, GateIdle DEF Only, Making
<1>8. Making(s, at)
  BY <1>2 DEF Making
<1>9. CASE row = at
  <2>1. \A i \in Gateway!Ids : resources'[i] = IF i = at THEN new ELSE resources[i]
    BY <1>5, <1>6, <1>9
  <2>2. resources' = [i \in Gateway!Ids |-> resources'[i]]
    BY <1>5, <1>6
  <2>3. DOMAIN new = {"api", "route", "set"} /\ new.route \in Routes
    BY <1>2
  <2>4. at \in Gateway!Ids => resources[at] = NoRow
    BY <1>8 DEF RowsInv
  <2>5. RouteKept
    BY <2>1, <2>4 DEF RouteKept
  <2>6. at <= begun /\ at \in Nat /\ begun \in Nat
    BY <1>8 DEF RowsInv
  <2>7. \A u \in Workers : ~Making(local'[u], at)
    <3>1. \A u, v \in Workers : \A i : Making(local[u], i) /\ Making(local[v], i) => u = v
      BY DEF RowsInv
    <3>. QED BY <1>7, <1>8, <3>1
  <2>8. \A i \in Gateway!Ids : i > begun' \/ (\E u \in Workers : Making(local'[u], i)) => resources'[i] = NoRow
    <3>1. ~(at > begun')
      BY <1>4, <2>6
    <3>2. \A i \in Gateway!Ids : i > begun \/ (\E u \in Workers : Making(local[u], i)) => resources[i] = NoRow
      BY DEF RowsInv
    <3>. QED BY <1>4, <1>7, <2>1, <2>7, <3>1, <3>2
  <2>9. \A i \in Gateway!Ids : resources'[i] # NoRow =>
            DOMAIN resources'[i] = {"api", "route", "set"} /\ resources'[i].route \in Routes
    BY <2>1, <2>3 DEF RowsInv
  <2>10. \A u \in Workers : GateLocal(local'[u])
    BY <1>4, GateIdle DEF Only, RowsInv
  <2>11. \A u \in Workers : \A i : Making(local'[u], i) => i \in Nat /\ i <= begun'
    BY <1>4, <1>7 DEF RowsInv
  <2>12. \A u, v \in Workers : \A i : Making(local'[u], i) /\ Making(local'[v], i) => u = v
    BY <1>7 DEF RowsInv
  <2>13. RowsInv'
    BY <1>4, <2>2, <2>6, <2>8, <2>9, <2>10, <2>11, <2>12 DEF RowsInv
  <2>. QED BY <1>4, <2>5, <2>13, GateIdle
<1>10. CASE row # at
  <2>1. \A i \in Gateway!Ids : resources'[i] = IF i = row /\ resources[i] # NoRow
                                               THEN [resources[i] EXCEPT !.set = at] ELSE resources[i]
    BY <1>5, <1>6, <1>10
  <2>2. resources' = [i \in Gateway!Ids |-> resources'[i]]
    BY <1>5, <1>6
  <2>3. \A i \in Gateway!Ids : resources[i] # NoRow => DOMAIN resources[i] = {"api", "route", "set"}
    BY DEF RowsInv
  <2>4. \A x : DOMAIN x = {"api", "route", "set"} =>
            /\ DOMAIN [x EXCEPT !.set = at] = {"api", "route", "set"}
            /\ [x EXCEPT !.set = at].route = x.route
    OBVIOUS
  <2>5. \A i \in Gateway!Ids :
            \/ resources'[i] \in {resources[i], NoRow}
            \/ /\ resources[i] # NoRow /\ DOMAIN resources'[i] = {"api", "route", "set"}
               /\ resources'[i].route = resources[i].route
    BY <2>1, <2>3, <2>4
  <2>6. \A u \in Workers : \/ local'[u] = local[u]
                           \/ GateLocal(local'[u]) /\ \A i : Making(local'[u], i) => Making(local[u], i)
    BY <1>4, <1>7, GateIdle DEF Only
  <2>7. begun' \in Nat /\ begun <= begun'
    BY <1>4 DEF RowsInv
  <2>. QED BY <1>4, <2>2, <2>5, <2>6, <2>7, RowsAside, GateIdle
<1>. QED BY <1>9, <1>10

LEMMA GatePlainTodos ==
  /\ <<"create api">> \in Seq(GatePlain) /\ <<"drop resources", "drop api">> \in Seq(GatePlain)
  /\ <<"drop resource">> \in Seq(GatePlain)
  BY DEF GatePlain

(* Everything but invocations. *)
LEMMA RowsAdminister ==
  ASSUME RowsInv, NEW t \in Workers, Gateway!Administer(t)
  PROVE  RowsInv' /\ RouteKept /\ \E s : Only(t, s) /\ ~IsInvoke(s)
<1>1. DOMAIN resources = Gateway!Ids
  BY DEF RowsInv
<1>2. CASE \E n \in ApiNames : Gateway!CreateApiCheck(t, n)
  BY <1>2, RowsAskPlain, GatePlainTodos, GateFields DEF Gateway!CreateApiCheck
<1>3. CASE \E a \in Gateway!Ids : Gateway!DeleteApiRequire(t, a)
  BY <1>3, RowsAskPlain, GatePlainTodos, GateFields DEF Gateway!DeleteApiRequire
<1>4. CASE \E a \in Gateway!Ids, r \in Routes : Gateway!CreateResourceRequire(t, a, r)
  BY <1>4, RowsMake
<1>5. CASE \E i \in Gateway!Ids : Gateway!DeleteResourceSelect(t, i)
  BY <1>5, RowsAskPlain, GatePlainTodos, GateFields DEF Gateway!DeleteResourceSelect
<1>6. CASE Gateway!CreateApi(t) \/ Gateway!DropApi(t)
  <2>1. \E step \in GatePlain : Gateway!Does(t, step)
    BY <1>6 DEF Gateway!CreateApi, Gateway!DropApi, GatePlain
  <2>2. resources' = resources
    BY <1>6 DEF Gateway!CreateApi, Gateway!DropApi
  <2>3. resources' = [i \in Gateway!Ids |-> resources'[i]]
    BY <2>2 DEF RowsInv
  <2>. QED BY <2>1, <2>2, <2>3, RowsDoes
<1>7. CASE Gateway!DropResources(t)
  <2>1. Gateway!Does(t, "drop resources") /\ "drop resources" \in GatePlain
    BY <1>7 DEF Gateway!DropResources, GatePlain
  <2>2. resources' = [i \in Gateway!Ids |-> IF i \in Gateway!Rows(resources) /\ resources[i].api = local[t].api
                                            THEN NoRow ELSE resources[i]]
    BY <1>7 DEF Gateway!DropResources
  <2>3. \A i \in Gateway!Ids : resources'[i] \in {resources[i], NoRow}
    BY <2>2
  <2>4. resources' = [i \in Gateway!Ids |-> resources'[i]]
    BY <2>2
  <2>. QED BY <2>1, <2>3, <2>4, RowsDoes
<1>8. CASE Gateway!DeleteResource(t)
  <2>1. Gateway!Does(t, "drop resource") /\ "drop resource" \in GatePlain
    BY <1>8 DEF Gateway!DeleteResource, GatePlain
  <2>2. \E i : resources' = [resources EXCEPT ![i] = NoRow]
    BY <1>8 DEF Gateway!DeleteResource
  <2>3. \A i \in Gateway!Ids : resources'[i] \in {resources[i], NoRow}
    BY <1>1, <2>2
  <2>4. resources' = [i \in Gateway!Ids |-> resources'[i]]
    BY <1>1, <2>2
  <2>. QED BY <2>1, <2>3, <2>4, RowsDoes
<1>. QED BY <1>2, <1>3, <1>4, <1>5, <1>6, <1>7, <1>8, RowsFind, RowsPut DEF Gateway!Administer

LEMMA MatchWatch ==
  ASSUME Gateway!Watch
  PROVE  \A u \in Workers : IsInvoke(local'[u]) =>
            matching'[u] = (IF IsInvoke(local[u]) THEN matching[u] ELSE Gateway!Ids)
                           \cap MatchesIn(local'[u].invoked, resources')
  BY DEF Gateway!Watch, Gateway!Invoking, Gateway!RoutesTo, Gateway!Rows, IsInvoke, MatchesIn

(* Fewer resources matched all along; those have the route they had. *)
LEMMA FindsKept ==
  ASSUME NEW s, NEW B, NEW C, C \subseteq B, NEW R, NEW Q, Finds(s, B, R),
         \A i \in C : Q[i].route = R[i].route
  PROVE  Finds(s, C, Q)
  BY DEF Finds

(* A step of thread t, to r; the requests of others stay as they are. *)
LEMMA MatchStep ==
  ASSUME MatchInv, RowsInv', RouteKept, Gateway!Watch, NEW t \in Workers, NEW r, Only(t, r),
         \/ ~IsInvoke(r)
         \/ r.todo = GateExact
         \/ /\ IsInvoke(local[t]) /\ r.invoked = local[t].invoked
            /\ \A B \in SUBSET matching[t] : B \subseteq MatchesIn(r.invoked, resources') => Finds(r, B, resources')
  PROVE  MatchInv'
<1>1. ASSUME NEW u \in Workers, IsInvoke(local'[u])
      PROVE  /\ matching'[u] \subseteq MatchesIn(local'[u].invoked, resources')
             /\ Finds(local'[u], matching'[u], resources')
  <2>1. matching'[u] = (IF IsInvoke(local[u]) THEN matching[u] ELSE Gateway!Ids)
                       \cap MatchesIn(local'[u].invoked, resources')
    BY <1>1, MatchWatch
  <2>2. CASE u # t
    <3>1. local'[u] = local[u]
      BY <2>2 DEF Only
    <3>2. matching[u] \subseteq MatchesIn(local[u].invoked, resources) /\ Finds(local[u], matching[u], resources)
      BY <1>1, <3>1 DEF MatchInv, Matched
    <3>3. matching'[u] \subseteq matching[u]
      BY <1>1, <2>1, <3>1
    <3>4. \A i \in matching'[u] : resources'[i].route = resources[i].route
      BY <2>1, <3>2, <3>3 DEF MatchesIn, RouteKept
    <3>. QED BY <2>1, <3>1, <3>2, <3>3, <3>4, FindsKept
  <2>3. CASE u = t
    <3>1. local'[u] = r
      BY <2>3 DEF Only
    <3>2. CASE r.todo = GateExact
      BY <2>1, <3>1, <3>2, GateApart DEF Finds
    <3>3. CASE /\ IsInvoke(local[t]) /\ r.invoked = local[t].invoked
               /\ \A B \in SUBSET matching[t] : B \subseteq MatchesIn(r.invoked, resources') => Finds(r, B, resources')
      BY <2>1, <2>3, <3>1, <3>3
    <3>. QED BY <1>1, <3>1, <3>2, <3>3
  <2>. QED BY <2>2, <2>3
<1>2. \A u \in Workers : Matched(local'[u], matching'[u], resources')
  BY <1>1 DEF Matched
<1>. QED BY <1>2 DEF MatchInv

LEMMA MatchBreaks ==
  ASSUME MatchInv, Breaks, Gateway!Watch, resources' = resources
  PROVE  MatchInv'
<1>1. RowsInv'
  BY RowsBreaks DEF MatchInv
<1>2. ASSUME NEW u \in Workers, IsInvoke(local'[u])
      PROVE  /\ matching'[u] \subseteq MatchesIn(local'[u].invoked, resources')
             /\ Finds(local'[u], matching'[u], resources')
  <2>1. local'[u] = local[u] /\ IsInvoke(local[u])
    BY <1>2, GateIdle DEF Breaks
  <2>2. matching'[u] = matching[u] \cap MatchesIn(local'[u].invoked, resources')
    BY <1>2, <2>1, MatchWatch
  <2>3. Finds(local[u], matching[u], resources)
    BY <2>1 DEF MatchInv, Matched
  <2>4. matching'[u] \subseteq matching[u]
    BY <2>2
  <2>5. Finds(local[u], matching'[u], resources)
    BY <2>3, <2>4, FindsKept
  <2>. QED BY <2>1, <2>2, <2>5
<1>3. \A u \in Workers : Matched(local'[u], matching'[u], resources')
  BY <1>2 DEF Matched
<1>. QED BY <1>1, <1>3 DEF MatchInv

LEMMA MatchAsked ==
  ASSUME MatchInv, Gateway!Watch, NEW t \in Workers, NEW a, NEW route, Gateway!Invoke(t, a, route)
  PROVE  MatchInv'
<1>. PICK q : q = [invoked |-> <<a, route>>, found |-> <<>>]
  OBVIOUS
<1> DEFINE s == Gateway!On({}, GateExact, q)
<1>1. Gateway!Ask(t, s)
  BY DEF Gateway!Invoke, GateExact
<1>2. DOMAIN q = {"invoked", "found"}
  OBVIOUS
<1>3. DOMAIN s = {"todo", "touches", "at", "invoked", "found"} /\ s.todo = GateExact
  BY <1>2 DEF Gateway!On, Gateway!Also
<1> HIDE DEF s
<1>4. IsInvoke(s) /\ ~IsMake(s) /\ GateLocal(s)
  BY <1>3 DEF IsMake, IsInvoke, GateLocal
<1>5. RowsInv' /\ RouteKept /\ Only(t, s)
  BY <1>1, <1>4, RowsAsk DEF MatchInv
<1>. QED BY <1>3, <1>5, MatchStep

(* A statement of invoke, which changes no table. *)
LEMMA MatchGoes ==
  ASSUME MatchInv, Gateway!Watch, NEW t \in Workers, NEW r, Goes(t, r), IsInvoke(local[t]),
         GateLocal(r), IsInvoke(r), r.invoked = local[t].invoked, resources' = resources,
         \A B \in SUBSET matching[t] : B \subseteq MatchesIn(r.invoked, resources) => Finds(r, B, resources)
  PROVE  MatchInv'
<1>1. r.todo # <<>> /\ ~IsMake(r)
  BY GateTodos DEF GateLocal, IsMake
<1>2. resources' = [i \in Gateway!Ids |-> resources'[i]]
  BY DEF MatchInv, RowsInv
<1>3. RowsInv' /\ RouteKept /\ Only(t, r)
  BY <1>1, <1>2, RowsGoes DEF MatchInv, Making
<1>. QED BY <1>3, MatchStep

(* The route of a row is what the invocation has found. *)
LEMMA MatchChosen ==
  ASSUME MatchInv, Gateway!Watch, NEW t \in Workers, NEW rows, Gateway!Chosen(t, rows), IsInvoke(local[t]),
         GateLocal(local[t]), resources' = resources, rows \subseteq Gateway!Rows(resources),
         \A i \in rows : resources[i].route # local[t].invoked[2] =>
            \A j \in matching[t] : resources[j].route # local[t].invoked[2]
  PROVE  MatchInv'
<1> DEFINE s == local[t]
<1>1. PICK i \in rows : Gateway!Continue(t, [s EXCEPT !.todo = GateAnswer, !.found = resources[i].route])
  BY DEF Gateway!Chosen, GateAnswer
<1> DEFINE r == [s EXCEPT !.todo = GateAnswer, !.found = resources[i].route]
<1>2. Goes(t, r)
  BY <1>1, GatewayThreads
<1>3. DOMAIN s = {"todo", "touches", "at", "invoked", "found"}
  BY DEF GateLocal
<1>4. DOMAIN r = DOMAIN s /\ r.todo = GateAnswer /\ r.invoked = s.invoked /\ r.found = resources[i].route
  BY <1>3
<1> HIDE DEF r
<1>5. GateLocal(r) /\ IsInvoke(r)
  BY <1>3, <1>4 DEF GateLocal, IsInvoke, IsMake
<1>6. r.found # <<>>
  BY <1>1, <1>4, RouteAssumption DEF MatchInv, RowsInv, Gateway!Rows
<1>7. \A B \in SUBSET matching[t] : Finds(r, B, resources)
  <2>1. SUFFICES ASSUME NEW j \in matching[t], resources[j].route = r.invoked[2] PROVE r.found = r.invoked[2]
    BY <1>4, <1>6, GateApart DEF Finds
  <2>. QED BY <1>1, <1>4, <2>1
<1>. QED BY <1>2, <1>4, <1>5, <1>7, MatchGoes

LEMMA MatchExact ==
  ASSUME MatchInv, Gateway!Watch, NEW t \in Workers, Gateway!InvokeExact(t)
  PROVE  MatchInv'
<1> DEFINE s == local[t]
<1>. PICK exact : exact = Gateway!OnRoute(s.invoked[1], s.invoked[2])
  OBVIOUS
<1>1. /\ Gateway!At(t, "exact") /\ resources' = resources
      /\ \/ Gateway!Chosen(t, exact)
         \/ exact = {} /\ Gateway!Continue(t, [s EXCEPT !.todo = GateTemplate])
  BY DEF Gateway!InvokeExact, GateTemplate
<1>2. GateLocal(s) /\ IsInvoke(s) /\ s.todo = GateExact
  BY <1>1, GateAt DEF MatchInv
<1>3. DOMAIN s = {"todo", "touches", "at", "invoked", "found"}
  BY <1>2 DEF GateLocal
<1>4. CASE Gateway!Chosen(t, exact)
  <2>1. exact \subseteq Gateway!Rows(resources) /\ \A i \in exact : resources[i].route = s.invoked[2]
    BY DEF Gateway!OnRoute
  <2>. QED BY <1>1, <1>2, <1>4, <2>1, MatchChosen
<1>5. CASE exact = {} /\ Gateway!Continue(t, [s EXCEPT !.todo = GateTemplate])
  <2> DEFINE r == [s EXCEPT !.todo = GateTemplate]
  <2>1. Goes(t, r)
    BY <1>5, GatewayThreads
  <2>2. DOMAIN r = DOMAIN s /\ r.todo = GateTemplate /\ r.invoked = s.invoked
    BY <1>3
  <2> HIDE DEF r
  <2>3. GateLocal(r) /\ IsInvoke(r)
    BY <1>2, <1>3, <2>2 DEF GateLocal, IsInvoke, IsMake
  <2>4. \A i \in MatchesIn(s.invoked, resources) : resources[i].route # s.invoked[2]
    BY <1>5 DEF MatchesIn, Gateway!OnRoute, Gateway!Rows
  <2>5. \A B \in SUBSET matching[t] : B \subseteq MatchesIn(r.invoked, resources) => Finds(r, B, resources)
    BY <2>2, <2>4, GateApart DEF Finds
  <2>. QED BY <1>1, <1>2, <2>1, <2>2, <2>3, <2>5, MatchGoes
<1>. QED BY <1>1, <1>4, <1>5

LEMMA MatchTemplate ==
  ASSUME MatchInv, Gateway!Watch, NEW t \in Workers, Gateway!InvokeTemplate(t)
  PROVE  MatchInv'
<1> DEFINE s == local[t]
<1>. PICK match : match = {i \in Gateway!Rows(resources) :
                              /\ resources[i].api = s.invoked[1]
                              /\ Gateway!MatchesTemplate(resources[i].route, s.invoked[2])}
  OBVIOUS
<1>1. /\ Gateway!At(t, "template") /\ resources' = resources
      /\ Gateway!Chosen(t, match) \/ (match = {} /\ Gateway!Advance(t))
  BY DEF Gateway!InvokeTemplate
<1>2. GateLocal(s) /\ IsInvoke(s) /\ s.todo = GateTemplate
  BY <1>1, GateAt DEF MatchInv
<1>3. DOMAIN s = {"todo", "touches", "at", "invoked", "found"}
  BY <1>2 DEF GateLocal
<1>4. /\ matching[t] \subseteq MatchesIn(s.invoked, resources)
      /\ \A i \in matching[t] : resources[i].route # s.invoked[2]
  BY <1>2 DEF MatchInv, Matched, Finds
<1>5. CASE Gateway!Chosen(t, match)
  <2>1. match \subseteq Gateway!Rows(resources)
    OBVIOUS
  <2>. QED BY <1>1, <1>2, <1>4, <1>5, <2>1, MatchChosen
<1>6. CASE match = {} /\ Gateway!Advance(t)
  <2> DEFINE r == Rest(s)
  <2>1. Goes(t, r)
    BY <1>6, GatewayThreads
  <2>2. DOMAIN r = DOMAIN s /\ r.todo = GateAnswer /\ r.invoked = s.invoked
    BY <1>2, <1>3, GateTodos, RestFields
  <2> HIDE DEF r
  <2>3. GateLocal(r) /\ IsInvoke(r)
    BY <1>2, <1>3, <2>2 DEF GateLocal, IsInvoke, IsMake
  <2>4. matching[t] = {}
    BY <1>4, <1>6 DEF MatchesIn, Gateway!Rows
  <2>5. \A B \in SUBSET matching[t] : Finds(r, B, resources)
    BY <2>2, <2>4, GateApart DEF Finds
  <2>. QED BY <1>1, <1>2, <2>1, <2>2, <2>3, <2>5, MatchGoes
<1>. QED BY <1>1, <1>5, <1>6

LEMMA MatchAnswers ==
  ASSUME MatchInv, Gateway!Watch, NEW t \in Workers, Gateway!InvokeAnswer(t)
  PROVE  MatchInv'
<1>1. Goes(t, Rest(local[t])) /\ Gateway!At(t, "answer") /\ resources' = resources
  BY GatewayThreads DEF Gateway!InvokeAnswer, Gateway!Does
<1>2. local[t].todo = GateAnswer /\ "todo" \in DOMAIN local[t]
  BY <1>1, GateAt DEF MatchInv, GateLocal
<1>3. Rest(local[t]).todo = <<>>
  BY <1>2, RestFields, GateTodos
<1>4. Goes(t, Idle)
  BY <1>1, <1>3 DEF Goes, Idle
<1>5. resources' = [i \in Gateway!Ids |-> resources'[i]]
  BY <1>1 DEF MatchInv, RowsInv
<1>6. RowsInv' /\ RouteKept /\ Only(t, Idle)
  BY <1>1, <1>4, <1>5, RowsGoes, GateIdle DEF MatchInv, Making
<1>. QED BY <1>6, MatchStep, GateIdle

LEMMA MatchNext ==
  ASSUME MatchInv, [Gateway!Next]_(Gateway!vars)
  PROVE  MatchInv'
<1>1. CASE UNCHANGED Gateway!vars
  <2>1. UNCHANGED <<local, begun, matching, resources>>
    BY <1>1 DEF Gateway!vars, Gateway!requests, Gateway!agvars
  <2>. QED BY <2>1 DEF MatchInv, RowsInv, Threads
<1>2. CASE Gateway!Next
  <2>1. Gateway!Watch
    BY <1>2 DEF Gateway!Next
  <2>2. CASE \E t \in Workers : Gateway!Administer(t)
    <3>1. RowsInv' /\ RouteKept /\ \E t \in Workers : \E s : Only(t, s) /\ ~IsInvoke(s)
      BY <2>2, RowsAdminister DEF MatchInv
    <3>. QED BY <2>1, <3>1, MatchStep
  <2>3. CASE \E t \in Workers : Gateway!Serve(t)
    BY <2>1, <2>3, MatchAsked, MatchExact, MatchTemplate, MatchAnswers DEF Gateway!Serve
  <2>4. CASE (Gateway!Crash \/ \E t \in Workers : Gateway!Fails(t)) /\ UNCHANGED <<apis, resources>>
    <3>1. Breaks
      BY <2>4, GatewayThreads DEF MatchInv, RowsInv
    <3>. QED BY <2>1, <2>4, <3>1, MatchBreaks
  <2>. QED BY <1>2, <2>2, <2>3, <2>4 DEF Gateway!Next
<1>. QED BY <1>1, <1>2

LEMMA MatchInit == InitRequests /\ Gateway!InitTables => MatchInv
<1> SUFFICES ASSUME InitRequests, Gateway!InitTables PROVE MatchInv
  OBVIOUS
<1>1. (\A t \in Workers : local[t] = Idle) /\ begun = 0
  BY DEF InitRequests
<1>2. Threads
  BY <1>1 DEF InitRequests, Threads
<1>3. \A t \in Workers : GateLocal(local[t]) /\ ~IsInvoke(local[t]) /\ \A i : ~Making(local[t], i)
  BY <1>1, GateIdle DEF Making
<1>4. \/ resources = [i \in Gateway!Ids |-> NoRow]
      \/ \E r \in Routes : resources = [i \in Gateway!Ids |-> IF i = 0 THEN [api |-> 0, route |-> r, set |-> 0]
                                                              ELSE NoRow]
  BY DEF Gateway!InitTables
<1>5. resources = [i \in Gateway!Ids |-> resources[i]]
  BY <1>4
<1>6. \A i \in Gateway!Ids : i > 0 => resources[i] = NoRow
  BY <1>4, GateIds
<1>7. \A i \in Gateway!Ids : resources[i] # NoRow =>
          DOMAIN resources[i] = {"api", "route", "set"} /\ resources[i].route \in Routes
  BY <1>4
<1>8. RowsInv
  BY <1>1, <1>2, <1>3, <1>5, <1>6, <1>7 DEF RowsInv
<1>. QED BY <1>3, <1>8 DEF MatchInv, Matched

LEMMA MatchFound == MatchInv => Gateway!StandingRouteFound
<1> SUFFICES ASSUME MatchInv, NEW t \in Workers, Gateway!At(t, "answer")
             PROVE  /\ matching[t] # {} => local[t].found # <<>>
                    /\ (\E i \in matching[t] : resources[i].route = local[t].invoked[2]) =>
                          local[t].found = local[t].invoked[2]
  BY DEF Gateway!StandingRouteFound
<1>1. IsInvoke(local[t]) /\ local[t].todo = GateAnswer
  BY GateAt DEF MatchInv
<1>. QED BY <1>1 DEF MatchInv, Matched, Finds

-----------------------------------------------------------------------------
(* apigateway.py:141-156: an invocation looks for the exact route first    *)
(* and for a template then.  Whatever other requests insert or delete      *)
(* between the two, a resource that matched all along has it routed, and   *)
(* one of that very path has it routed there: rows keep their route, and   *)
(* ids are not taken twice.                                                *)
THEOREM RouteIsFound == Spec => []StandingRouteFound
<1> DEFINE Inv == service = "apigateway" => MatchInv
<1>1. Init => Inv
  BY MatchInit DEF Init
<1>2. Inv /\ [Next]_vars => Inv'
  <2> SUFFICES ASSUME Inv, [Next]_vars, service' = "apigateway" PROVE MatchInv'
    OBVIOUS
  <2>. QED BY ServiceStep, MatchNext
<1>3. Inv => StandingRouteFound
  BY MatchFound DEF StandingRouteFound
<1>. QED BY <1>1, <1>2, <1>3, PTL DEF Spec

(* API Gateway: creating an API has its name for itself, creating a        *)
(* resource its route, deleting an API all that is done to its resources.  *)
NameTodo == <<"create api">>
ApiAll == <<"drop resources", "drop api">>
ApiLast == <<"drop api">>

ApiOther == {"drop resource", "exact", "template", "answer"}

IsName(s) == "name" \in DOMAIN s
IsDropApi(s) == "api" \in DOMAIN s /\ "route" \notin DOMAIN s

ApiLocal(t, s) ==
    /\ {"todo", "touches"} \subseteq DOMAIN s
    /\ IsName(s) =>
          /\ DOMAIN s = {"todo", "touches", "at", "name"} /\ s.todo = NameTodo
          /\ s.name # NoRow /\ s.name \in s.touches
    /\ IsDropApi(s) =>
          /\ DOMAIN s = {"todo", "touches", "at", "api"} /\ s.todo \in {ApiAll, ApiLast}
          /\ s.api \in Gateway!Ids /\ {s.api} \X Workers \subseteq s.touches
    /\ IsMake(s) =>
          /\ DOMAIN s = {"todo", "touches", "at", "api", "route", "row"} /\ s.todo \in {GateFind, GatePut}
          /\ s.api \in Gateway!Ids /\ {<<s.api, t>>, <<s.api, s.route>>} \subseteq s.touches
    /\ ~IsName(s) /\ ~IsDropApi(s) /\ ~IsMake(s) => s.todo \in Seq(ApiOther)

NamesApi(s, n) == IsName(s) /\ s.name = n
MakesOn(s, a) == IsMake(s) /\ s.api = a
MakesRoute(s, a, r) == IsMake(s) /\ s.api = a /\ s.route = r
DropsApi(s, a) == IsDropApi(s) /\ s.api = a

IsRoute(x, a, r) == x # NoRow /\ x.api = a /\ x.route = r

(* At most one API of the name; none when one is about to be inserted.     *)
OneOfName(n, A, L) ==
    /\ \A a, b \in Gateway!Ids : A[a] = n /\ A[b] = n => a = b
    /\ \A t \in Workers : NamesApi(L[t], n) => \A a \in Gateway!Ids : A[a] # n

(* The resources of API a. *)
ApiOwned(a, A, R, L) ==
    /\ \A i \in Gateway!Ids : R[i] # NoRow /\ R[i].api = a => A[a] # NoRow
    /\ \A t \in Workers :
          /\ MakesOn(L[t], a) => A[a] # NoRow
          /\ DropsApi(L[t], a) /\ L[t].todo = ApiLast => \A i \in Gateway!Ids : R[i] # NoRow => R[i].api # a

(* At most one of a route; none when one is about to be inserted.          *)
OneOfRoute(a, r, R, L) ==
    /\ \A i, j \in Gateway!Ids : IsRoute(R[i], a, r) /\ IsRoute(R[j], a, r) => i = j
    /\ \A t \in Workers : MakesRoute(L[t], a, r) /\ L[t].todo = GatePut /\ L[t].row = L[t].at =>
          \A i \in Gateway!Ids : ~IsRoute(R[i], a, r)

ApiShape ==
    /\ Threads /\ Apart
    /\ apis = [a \in Gateway!Ids |-> apis[a]] /\ resources = [i \in Gateway!Ids |-> resources[i]]
    /\ \A i \in Gateway!Ids : resources[i] # NoRow => resources[i].api \in Gateway!Ids
    /\ \A t \in Workers : ApiLocal(t, local[t])

NamesInv == \A n : n # NoRow /\ n \notin disturbed => OneOfName(n, apis, local)
ApisInv == \A a \in Gateway!Ids : Calm(a, disturbed) => ApiOwned(a, apis, resources, local)
RoutesInv == \A a \in Gateway!Ids, r \in Routes : <<a, r>> \notin disturbed => OneOfRoute(a, r, resources, local)

ApiInv == ApiShape /\ NamesInv /\ ApisInv /\ RoutesInv

LEMMA ApiTodos ==
  /\ NameTodo # <<>> /\ Head(NameTodo) = "create api" /\ Tail(NameTodo) = <<>>
  /\ ApiAll # <<>> /\ Head(ApiAll) = "drop resources" /\ Tail(ApiAll) = ApiLast
  /\ ApiLast # <<>> /\ Head(ApiLast) = "drop api" /\ Tail(ApiLast) = <<>>
  BY Tails DEF NameTodo, ApiAll, ApiLast

LEMMA ApiTodosApart ==
  /\ ApiAll # ApiLast
  /\ \A step \in {"create api", "drop resources", "drop api", "find", "resource"} : step \notin ApiOther
<1>1. "drop resources" # "drop api"
  OBVIOUS
<1>2. \A step \in {"create api", "drop resources", "drop api", "find", "resource"} : step \notin ApiOther
  BY DEF ApiOther
<1>. QED BY <1>1, <1>2, ApiTodos

LEMMA ApiIdle == \A t : ApiLocal(t, Idle) /\ ~IsName(Idle) /\ ~IsDropApi(Idle) /\ ~IsMake(Idle)
<1>1. Idle.todo = <<>> /\ DOMAIN Idle = {"todo", "touches"}
  BY DEF Idle
<1>2. <<>> \in Seq(ApiOther)
  OBVIOUS
<1>3. ~IsName(Idle) /\ ~IsDropApi(Idle) /\ ~IsMake(Idle)
  BY <1>1 DEF IsName, IsDropApi, IsMake
<1>. QED BY <1>1, <1>2, <1>3 DEF ApiLocal

(* Which request has the statement next. *)
LEMMA ApiAt ==
  ASSUME ApiShape, NEW t \in Workers, NEW step, Gateway!At(t, step)
  PROVE  /\ ApiLocal(t, local[t])
         /\ step = "create api" => IsName(local[t]) /\ local[t].todo = NameTodo
         /\ step = "drop resources" => IsDropApi(local[t]) /\ local[t].todo = ApiAll
         /\ step = "drop api" => IsDropApi(local[t]) /\ local[t].todo = ApiLast
         /\ step = "find" => IsMake(local[t]) /\ local[t].todo = GateFind
         /\ step = "resource" => IsMake(local[t]) /\ local[t].todo = GatePut
         /\ step \in ApiOther =>
               ~IsName(local[t]) /\ ~IsDropApi(local[t]) /\ ~IsMake(local[t]) /\ local[t].todo \in Seq(ApiOther)
<1> DEFINE s == local[t]
<1>1. ApiLocal(t, s) /\ s.todo # <<>> /\ Head(s.todo) = step
  BY DEF ApiShape, Gateway!At
<1>2. s.todo \in Seq(ApiOther) => step \in ApiOther
  BY <1>1
<1>3. CASE IsName(s)
  <2>1. s.todo = NameTodo
    BY <1>1, <1>3 DEF ApiLocal
  <2>. QED BY <1>1, <1>3, <2>1, ApiTodos, ApiTodosApart
<1>4. CASE IsDropApi(s)
  <2>1. s.todo \in {ApiAll, ApiLast}
    BY <1>1, <1>4 DEF ApiLocal
  <2>. QED BY <1>1, <1>4, <2>1, ApiTodos, ApiTodosApart
<1>5. CASE IsMake(s)
  <2>1. s.todo \in {GateFind, GatePut}
    BY <1>1, <1>5 DEF ApiLocal
  <2>. QED BY <1>1, <1>5, <2>1, GateTodos, ApiTodosApart
<1>6. CASE ~IsName(s) /\ ~IsDropApi(s) /\ ~IsMake(s)
  <2>1. s.todo \in Seq(ApiOther)
    BY <1>1, <1>6 DEF ApiLocal
  <2>. QED BY <1>1, <1>2, <1>6, <2>1, ApiTodosApart
<1>. QED BY <1>3, <1>4, <1>5, <1>6

(* Nobody meets who inserts a name or a route, or drops an API. *)
LEMMA NameAlone ==
  ASSUME ApiShape, NEW n, n \notin disturbed, NEW t \in Workers, NamesApi(local[t], n)
  PROVE  \A u \in Workers : u # t => ~NamesApi(local[u], n)
<1>1. \A u \in Workers : NamesApi(local[u], n) => n \in local[u].touches
  BY DEF ApiShape, ApiLocal, NamesApi
<1>. QED BY <1>1 DEF ApiShape, Apart

LEMMA MakeAlone ==
  ASSUME ApiShape, NEW a, NEW r, <<a, r>> \notin disturbed, NEW t \in Workers, MakesRoute(local[t], a, r)
  PROVE  \A u \in Workers : u # t => ~MakesRoute(local[u], a, r)
<1>1. \A u \in Workers : MakesRoute(local[u], a, r) => <<a, r>> \in local[u].touches
  BY DEF ApiShape, ApiLocal, MakesRoute
<1>. QED BY <1>1 DEF ApiShape, Apart

LEMMA ApiAlone ==
  ASSUME ApiShape, NEW a, Calm(a, disturbed), NEW t \in Workers, DropsApi(local[t], a)
  PROVE  \A u \in Workers : u # t => ~MakesOn(local[u], a) /\ ~DropsApi(local[u], a)
<1>1. ASSUME NEW u \in Workers, u # t, MakesOn(local[u], a) \/ DropsApi(local[u], a) PROVE FALSE
  <2>1. {a} \X Workers \subseteq local[t].touches
    BY DEF ApiShape, ApiLocal, DropsApi
  <2>2. <<a, u>> \in local[u].touches
    BY <1>1 DEF ApiShape, ApiLocal, MakesOn, DropsApi
  <2>3. <<a, u>> \in local[t].touches
    BY <2>1
  <2>4. <<a, u>> \notin disturbed
    BY DEF Calm
  <2>. QED BY <1>1, <2>2, <2>3, <2>4 DEF ApiShape, Apart
<1>. QED BY <1>1

(* Steps that leave the names, the owners or the routes as they are.       *)
LEMMA NamesAside ==
  ASSUME NamesInv, disturbed \subseteq disturbed', \A a \in Gateway!Ids : apis'[a] \in {apis[a], NoRow},
         \A u \in Workers : local'[u] = local[u] \/ ~IsName(local'[u])
  PROVE  NamesInv'
<1>1. ASSUME NEW n, n # NoRow, n \notin disturbed' PROVE OneOfName(n, apis', local')
  <2>1. OneOfName(n, apis, local)
    BY <1>1 DEF NamesInv
  <2>2. \A u \in Workers : NamesApi(local'[u], n) => NamesApi(local[u], n)
    BY DEF NamesApi
  <2>. QED BY <1>1, <2>1, <2>2 DEF OneOfName
<1>. QED BY <1>1 DEF NamesInv

LEMMA ApisAside ==
  ASSUME ApisInv, disturbed \subseteq disturbed',
         \A a \in Gateway!Ids : apis[a] # NoRow => apis'[a] # NoRow,
         \A i \in Gateway!Ids : resources'[i] # NoRow => resources[i] # NoRow /\ resources'[i].api = resources[i].api,
         \A u \in Workers : \/ local'[u] = local[u]
                            \/ /\ IsDropApi(local'[u]) => local'[u].todo # ApiLast
                               /\ \A a : MakesOn(local'[u], a) => MakesOn(local[u], a)
  PROVE  ApisInv'
<1>1. ASSUME NEW a \in Gateway!Ids, Calm(a, disturbed') PROVE ApiOwned(a, apis', resources', local')
  <2>1. ApiOwned(a, apis, resources, local)
    BY <1>1 DEF Calm, ApisInv
  <2>2. \A i \in Gateway!Ids : resources'[i] # NoRow /\ resources'[i].api = a => apis'[a] # NoRow
    BY <2>1 DEF ApiOwned
  <2>3. ASSUME NEW u \in Workers
        PROVE  /\ MakesOn(local'[u], a) => apis'[a] # NoRow
               /\ DropsApi(local'[u], a) /\ local'[u].todo = ApiLast =>
                     \A i \in Gateway!Ids : resources'[i] # NoRow => resources'[i].api # a
    <3>1. CASE local'[u] = local[u]
      BY <2>1, <3>1 DEF ApiOwned
    <3>2. CASE local'[u] # local[u]
      BY <2>1, <3>2 DEF ApiOwned, DropsApi
    <3>. QED BY <3>1, <3>2
  <2>. QED BY <2>2, <2>3 DEF ApiOwned
<1>. QED BY <1>1 DEF ApisInv

LEMMA RoutesAside ==
  ASSUME RoutesInv, disturbed \subseteq disturbed',
         \A i \in Gateway!Ids : resources'[i] # NoRow =>
             resources[i] # NoRow /\ resources'[i].api = resources[i].api /\ resources'[i].route = resources[i].route,
         \A u \in Workers : local'[u] = local[u] \/ (IsMake(local'[u]) => local'[u].todo # GatePut)
  PROVE  RoutesInv'
<1>1. ASSUME NEW a \in Gateway!Ids, NEW r \in Routes, <<a, r>> \notin disturbed' PROVE OneOfRoute(a, r, resources', local')
  <2>1. OneOfRoute(a, r, resources, local)
    BY <1>1 DEF RoutesInv
  <2>2. \A i \in Gateway!Ids : IsRoute(resources'[i], a, r) => IsRoute(resources[i], a, r)
    BY DEF IsRoute
  <2>3. \A u \in Workers : MakesRoute(local'[u], a, r) /\ local'[u].todo = GatePut => local'[u] = local[u]
    BY DEF MakesRoute
  <2>. QED BY <2>1, <2>2, <2>3 DEF OneOfRoute
<1>. QED BY <1>1 DEF RoutesInv

(* A thread goes on, ends or begins. *)
LEMMA ApiGoesOn ==
  ASSUME ApiShape, NEW t \in Workers, NEW r, Goes(t, r), ApiLocal(t, r), r.touches \subseteq local[t].touches,
         apis' = [a \in Gateway!Ids |-> apis'[a]], resources' = [i \in Gateway!Ids |-> resources'[i]],
         \A i \in Gateway!Ids : resources'[i] # NoRow => resources'[i].api \in Gateway!Ids
  PROVE  /\ ApiShape' /\ disturbed' = disturbed
         /\ \A u \in Workers : local'[u] = IF u = t THEN IF r.todo = <<>> THEN Idle ELSE r ELSE local[u]
<1>1. Threads' /\ Apart' /\ Only(t, IF r.todo = <<>> THEN Idle ELSE r) /\ disturbed' = disturbed
  BY GoesOnly, GoesApart DEF ApiShape, Goes
<1>2. \A u \in Workers : local'[u] = IF u = t THEN IF r.todo = <<>> THEN Idle ELSE r ELSE local[u]
  BY <1>1 DEF Only
<1>3. \A u \in Workers : ApiLocal(u, local'[u])
  BY <1>2, ApiIdle DEF ApiShape
<1>. QED BY <1>1, <1>2, <1>3 DEF ApiShape

LEMMA ApiEnds ==
  ASSUME ApiShape, NEW t \in Workers, NEW step, Gateway!Does(t, step), Tail(local[t].todo) = <<>>,
         apis' = [a \in Gateway!Ids |-> apis'[a]], resources' = [i \in Gateway!Ids |-> resources'[i]],
         \A i \in Gateway!Ids : resources'[i] # NoRow => resources'[i].api \in Gateway!Ids
  PROVE  /\ ApiShape' /\ disturbed' = disturbed
         /\ \A u \in Workers : local'[u] = IF u = t THEN Idle ELSE local[u]
<1>1. Goes(t, Rest(local[t])) /\ "todo" \in DOMAIN local[t] /\ "touches" \in DOMAIN local[t]
  BY GatewayThreads DEF Gateway!Does, ApiShape, ApiLocal
<1>2. Rest(local[t]).todo = <<>>
  BY <1>1, RestFields
<1>3. Rest(local[t]).touches = local[t].touches
  BY <1>1 DEF Rest
<1>4. Threads' /\ Only(t, Idle) /\ disturbed' = disturbed
  BY <1>1, <1>2, GoesOnly DEF ApiShape, Goes
<1>5. Apart'
  BY <1>1, <1>3, GoesApart DEF ApiShape
<1>6. \A u \in Workers : local'[u] = IF u = t THEN Idle ELSE local[u]
  BY <1>4 DEF Only
<1>7. \A u \in Workers : ApiLocal(u, local'[u])
  BY <1>6, ApiIdle DEF ApiShape
<1>. QED BY <1>4, <1>5, <1>6, <1>7 DEF ApiShape

LEMMA ApiAsk ==
  ASSUME ApiShape, NEW t \in Workers, NEW s, Gateway!Ask(t, s), ApiLocal(t, s)
  PROVE  /\ ApiShape' /\ disturbed \subseteq disturbed' /\ UNCHANGED <<apis, resources>>
         /\ \A u \in Workers : local'[u] = IF u = t THEN s ELSE local[u]
<1>1. Begins(t, s) /\ UNCHANGED <<apis, resources>>
  BY GatewayThreads DEF Gateway!Ask
<1>2. Threads' /\ Apart' /\ Only(t, s) /\ disturbed \subseteq disturbed'
  BY <1>1, BeginsOnly, BeginsApart DEF ApiShape, Begins
<1>3. \A u \in Workers : local'[u] = IF u = t THEN s ELSE local[u]
  BY <1>2 DEF Only
<1>4. \A u \in Workers : ApiLocal(u, local'[u])
  BY <1>3 DEF ApiShape
<1>. QED BY <1>1, <1>2, <1>3, <1>4 DEF ApiShape

(* Resources go, or change but for their API and route, and no request     *)
(* relies on a row or has dropped some.                                    *)
LEMMA ApiAside ==
  ASSUME ApiInv, ApiShape', disturbed \subseteq disturbed', apis' = apis,
         \A i \in Gateway!Ids : resources'[i] # NoRow =>
             resources[i] # NoRow /\ resources'[i].api = resources[i].api /\ resources'[i].route = resources[i].route,
         \A u \in Workers : \/ local'[u] = local[u]
                            \/ /\ ~IsName(local'[u]) /\ ~IsMake(local'[u])
                               /\ IsDropApi(local'[u]) => local'[u].todo # ApiLast
  PROVE  ApiInv'
<1>1. NamesInv'
  BY NamesAside DEF ApiInv
<1>2. ApisInv'
  <2>1. \A u \in Workers : \/ local'[u] = local[u]
                           \/ /\ IsDropApi(local'[u]) => local'[u].todo # ApiLast
                              /\ \A a : MakesOn(local'[u], a) => MakesOn(local[u], a)
    BY DEF MakesOn
  <2>. QED BY <2>1, ApisAside DEF ApiInv
<1>3. RoutesInv'
  <2>1. \A u \in Workers : local'[u] = local[u] \/ (IsMake(local'[u]) => local'[u].todo # GatePut)
    OBVIOUS
  <2>. QED BY <2>1, RoutesAside DEF ApiInv
<1>. QED BY <1>1, <1>2, <1>3 DEF ApiInv

LEMMA ApiBreaks ==
  ASSUME ApiInv, Breaks, UNCHANGED <<apis, resources>>
  PROVE  ApiInv'
<1>1. Threads' /\ Apart' /\ disturbed \subseteq disturbed' /\ \A u \in Workers : local'[u] = local[u] \/ local'[u] = Idle
  BY BreaksThreads, BreaksApart DEF ApiInv, ApiShape, Breaks
<1>2. \A u \in Workers : ApiLocal(u, local'[u])
  BY <1>1, ApiIdle DEF ApiInv, ApiShape
<1>3. ApiShape'
  BY <1>1, <1>2 DEF ApiInv, ApiShape
<1>. QED BY <1>1, <1>3, ApiIdle, ApiAside

(* create_rest_api inserts the name it did not find. *)
LEMMA ApiCreates ==
  ASSUME ApiInv, NEW t \in Workers, Gateway!CreateApi(t)
  PROVE  ApiInv'
<1> DEFINE s == local[t]
<1>. PICK at, n : at = s.at /\ n = s.name
  OBVIOUS
<1>1. Gateway!Does(t, "create api") /\ apis' = [apis EXCEPT ![at] = n] /\ resources' = resources
  BY DEF Gateway!CreateApi
<1>2. IsName(s) /\ s.todo = NameTodo /\ ApiLocal(t, s)
  BY <1>1, ApiAt DEF Gateway!Does, ApiInv
<1>3. n # NoRow
  BY <1>2 DEF ApiLocal
<1>4. /\ apis' = [a \in Gateway!Ids |-> apis'[a]]
      /\ \A a \in Gateway!Ids : apis'[a] = IF a = at THEN n ELSE apis[a]
  <2>1. DOMAIN apis = Gateway!Ids
    BY DEF ApiInv, ApiShape
  <2>. QED BY <1>1, <2>1
<1>5. ApiShape' /\ disturbed' = disturbed /\ \A u \in Workers : local'[u] = IF u = t THEN Idle ELSE local[u]
  BY <1>1, <1>2, <1>4, ApiTodos, ApiEnds DEF ApiInv, ApiShape
<1>6. NamesInv'
  <2>1. ASSUME NEW m, m # NoRow, m \notin disturbed PROVE OneOfName(m, apis', local')
    <3>1. OneOfName(m, apis, local)
      BY <2>1 DEF ApiInv, NamesInv
    <3>2. m = n => NamesApi(s, m)
      BY <1>2 DEF NamesApi
    <3>3. m = n => \A a \in Gateway!Ids : apis[a] # m
      BY <3>1, <3>2 DEF OneOfName
    <3>4. \A a, b \in Gateway!Ids : apis'[a] = m /\ apis'[b] = m => a = b
      BY <1>4, <3>1, <3>3 DEF OneOfName
    <3>5. ASSUME NEW u \in Workers, NamesApi(local'[u], m) PROVE \A a \in Gateway!Ids : apis'[a] # m
      <4>1. u # t /\ NamesApi(local[u], m)
        BY <1>5, <3>5, ApiIdle DEF NamesApi
      <4>2. m # n
        BY <2>1, <3>2, <4>1, NameAlone DEF ApiInv
      <4>. QED BY <1>4, <3>1, <4>1, <4>2 DEF OneOfName
    <3>. QED BY <3>4, <3>5 DEF OneOfName
  <2>. QED BY <1>5, <2>1 DEF NamesInv
<1>7. ApisInv'
  <2>1. \A a \in Gateway!Ids : apis[a] # NoRow => apis'[a] # NoRow
    BY <1>3, <1>4
  <2>2. \A u \in Workers : \/ local'[u] = local[u]
                           \/ /\ IsDropApi(local'[u]) => local'[u].todo # ApiLast
                              /\ \A a : MakesOn(local'[u], a) => MakesOn(local[u], a)
    BY <1>5, ApiIdle DEF MakesOn
  <2>. QED BY <1>1, <1>5, <2>1, <2>2, ApisAside DEF ApiInv
<1>8. RoutesInv'
  BY <1>1, <1>5, ApiIdle, RoutesAside DEF ApiInv
<1>. QED BY <1>5, <1>6, <1>7, <1>8 DEF ApiInv

(* delete_rest_api: the resources first. *)
LEMMA ApiDropsResources ==
  ASSUME ApiInv, NEW t \in Workers, Gateway!DropResources(t)
  PROVE  ApiInv'
<1> DEFINE s == local[t]  q == Rest(s)
<1>. PICK b : b = s.api
  OBVIOUS
<1>1. /\ Gateway!Does(t, "drop resources") /\ apis' = apis
      /\ resources' = [i \in Gateway!Ids |-> IF i \in Gateway!Rows(resources) /\ resources[i].api = b
                                             THEN NoRow ELSE resources[i]]
  BY DEF Gateway!DropResources
<1>2. ApiLocal(t, s) /\ IsDropApi(s) /\ s.todo = ApiAll /\ Goes(t, q)
  BY <1>1, ApiAt, GatewayThreads DEF Gateway!Does, ApiInv
<1>3. DOMAIN s = {"todo", "touches", "at", "api"} /\ b \in Gateway!Ids /\ {b} \X Workers \subseteq s.touches
  BY <1>2 DEF ApiLocal
<1>4. DOMAIN q = DOMAIN s /\ q.todo = ApiLast /\ q.api = b /\ q.touches = s.touches
  <2>1. q.api = b /\ q.touches = s.touches
    BY <1>3 DEF Rest
  <2>. QED BY <1>2, <1>3, <2>1, RestFields, ApiTodos
<1> HIDE DEF q
<1>5. q.todo # <<>> /\ IsDropApi(q) /\ ~IsName(q) /\ ~IsMake(q) /\ ApiLocal(t, q)
  <2>1. IsDropApi(q) /\ ~IsName(q) /\ ~IsMake(q)
    BY <1>3, <1>4 DEF IsDropApi, IsName, IsMake
  <2>. QED BY <1>3, <1>4, <2>1, ApiTodos DEF ApiLocal
<1>6. /\ \A i \in Gateway!Ids : resources'[i] # NoRow => resources'[i] = resources[i] /\ resources'[i].api # b
      /\ resources' = [i \in Gateway!Ids |-> resources'[i]]
  BY <1>1 DEF Gateway!Rows
<1>7. ApiShape' /\ disturbed' = disturbed /\ \A u \in Workers : local'[u] = IF u = t THEN q ELSE local[u]
  <2>1. /\ apis' = [a \in Gateway!Ids |-> apis'[a]]
        /\ \A i \in Gateway!Ids : resources'[i] # NoRow => resources'[i].api \in Gateway!Ids
    BY <1>1, <1>6 DEF ApiInv, ApiShape
  <2>2. ApiShape /\ Goes(t, q) /\ q.touches \subseteq local[t].touches
    BY <1>2, <1>4 DEF ApiInv
  <2>. QED BY <1>5, <1>6, <2>1, <2>2, ApiGoesOn
<1>8. ApisInv'
  <2>1. ASSUME NEW a \in Gateway!Ids, Calm(a, disturbed) PROVE ApiOwned(a, apis, resources', local')
    <3>1. ApiOwned(a, apis, resources, local)
      BY <2>1 DEF ApiInv, ApisInv
    <3>2. \A i \in Gateway!Ids : resources'[i] # NoRow /\ resources'[i].api = a => apis[a] # NoRow
      BY <1>6, <3>1 DEF ApiOwned
    <3>3. ASSUME NEW u \in Workers
          PROVE  /\ MakesOn(local'[u], a) => apis[a] # NoRow
                 /\ DropsApi(local'[u], a) /\ local'[u].todo = ApiLast =>
                       \A i \in Gateway!Ids : resources'[i] # NoRow => resources'[i].api # a
      <4>1. CASE u = t
        BY <1>4, <1>5, <1>6, <1>7, <4>1 DEF MakesOn, DropsApi
      <4>2. CASE u # t
        BY <1>6, <1>7, <3>1, <4>2 DEF ApiOwned
      <4>. QED BY <4>1, <4>2
    <3>. QED BY <3>2, <3>3 DEF ApiOwned
  <2>. QED BY <1>1, <1>7, <2>1 DEF ApisInv
<1>9. NamesInv'
  BY <1>1, <1>5, <1>7, NamesAside DEF ApiInv
<1>10. RoutesInv'
  BY <1>5, <1>6, <1>7, RoutesAside DEF ApiInv
<1>. QED BY <1>7, <1>8, <1>9, <1>10 DEF ApiInv

(* Then the API, which nobody makes a resource of meanwhile. *)
LEMMA ApiDrops ==
  ASSUME ApiInv, NEW t \in Workers, Gateway!DropApi(t)
  PROVE  ApiInv'
<1> DEFINE s == local[t]
<1>. PICK b : b = s.api
  OBVIOUS
<1>1. Gateway!Does(t, "drop api") /\ apis' = [apis EXCEPT ![b] = NoRow] /\ resources' = resources
  BY DEF Gateway!DropApi
<1>2. IsDropApi(s) /\ s.todo = ApiLast
  BY <1>1, ApiAt DEF Gateway!Does, ApiInv
<1>3. /\ apis' = [a \in Gateway!Ids |-> apis'[a]]
      /\ \A a \in Gateway!Ids : apis'[a] = IF a = b THEN NoRow ELSE apis[a]
  <2>1. DOMAIN apis = Gateway!Ids
    BY DEF ApiInv, ApiShape
  <2>. QED BY <1>1, <2>1
<1>4. ApiShape' /\ disturbed' = disturbed /\ \A u \in Workers : local'[u] = IF u = t THEN Idle ELSE local[u]
  <2>1. /\ resources' = [i \in Gateway!Ids |-> resources'[i]]
        /\ \A i \in Gateway!Ids : resources'[i] # NoRow => resources'[i].api \in Gateway!Ids
    BY <1>1 DEF ApiInv, ApiShape
  <2>2. ApiShape /\ Tail(local[t].todo) = <<>>
    BY <1>2, ApiTodos DEF ApiInv
  <2>. QED BY <1>1, <1>3, <2>1, <2>2, ApiEnds
<1>5. ApisInv'
  <2>1. ASSUME NEW a \in Gateway!Ids, Calm(a, disturbed) PROVE ApiOwned(a, apis', resources, local')
    <3>1. ApiOwned(a, apis, resources, local)
      BY <2>1 DEF ApiInv, ApisInv
    <3>2. a = b => /\ \A i \in Gateway!Ids : resources[i] # NoRow => resources[i].api # a
                   /\ \A u \in Workers : u # t => ~MakesOn(local[u], a)
      <4>1. a = b => DropsApi(s, a)
        BY <1>2 DEF DropsApi
      <4>. QED BY <1>2, <2>1, <3>1, <4>1, ApiAlone DEF ApiInv, ApiOwned
    <3>3. \A i \in Gateway!Ids : resources[i] # NoRow /\ resources[i].api = a => apis'[a] # NoRow
      BY <1>3, <3>1, <3>2 DEF ApiOwned
    <3>4. ASSUME NEW u \in Workers
          PROVE  /\ MakesOn(local'[u], a) => apis'[a] # NoRow
                 /\ DropsApi(local'[u], a) /\ local'[u].todo = ApiLast =>
                       \A i \in Gateway!Ids : resources[i] # NoRow => resources[i].api # a
      <4>1. CASE u = t
        BY <1>4, <4>1, ApiIdle DEF MakesOn, DropsApi
      <4>2. CASE u # t
        BY <1>3, <1>4, <3>1, <3>2, <4>2 DEF ApiOwned
      <4>. QED BY <4>1, <4>2
    <3>. QED BY <3>3, <3>4 DEF ApiOwned
  <2>. QED BY <1>1, <1>4, <2>1 DEF ApisInv
<1>6. NamesInv'
  BY <1>3, <1>4, ApiIdle, NamesAside DEF ApiInv
<1>7. RoutesInv'
  BY <1>1, <1>4, ApiIdle, RoutesAside DEF ApiInv
<1>. QED BY <1>4, <1>5, <1>6, <1>7 DEF ApiInv

(* create_resource relies on there being none of the route if it found     *)
(* none.                                                                   *)
LEMMA ApiFinds ==
  ASSUME ApiInv, RowsInv, NEW t \in Workers, Gateway!CreateResourceSelect(t)
  PROVE  ApiInv'
<1> DEFINE s == local[t]
<1>. PICK a, r, at : a = s.api /\ r = s.route /\ at = s.at
  OBVIOUS
<1>. PICK found : found = Gateway!OnRoute(a, r)
  OBVIOUS
<1>1. Gateway!At(t, "find") /\ UNCHANGED <<apis, resources>>
  BY DEF Gateway!CreateResourceSelect
<1>2. IsMake(s) /\ s.todo = GateFind /\ ApiLocal(t, s)
  BY <1>1, ApiAt DEF ApiInv
<1>3. PICK i \in IF found = {} THEN {at} ELSE found : Gateway!Continue(t, [s EXCEPT !.todo = Tail(@), !.row = i])
  BY DEF Gateway!CreateResourceSelect
<1> DEFINE q == [s EXCEPT !.todo = Tail(@), !.row = i]
<1>4. Goes(t, q)
  BY <1>3, GatewayThreads
<1>5. /\ DOMAIN s = {"todo", "touches", "at", "api", "route", "row"}
      /\ a \in Gateway!Ids /\ {<<a, t>>, <<a, r>>} \subseteq s.touches
  BY <1>2 DEF ApiLocal
<1>6. /\ DOMAIN q = DOMAIN s /\ q.todo = GatePut /\ q.touches = s.touches
      /\ q.at = at /\ q.api = a /\ q.route = r /\ q.row = i
  BY <1>2, <1>5, GateTodos
<1> HIDE DEF q
<1>7. q.todo # <<>> /\ ~IsDropApi(q) /\ ~IsName(q) /\ IsMake(q) /\ ApiLocal(t, q)
  <2>1. ~IsDropApi(q) /\ ~IsName(q) /\ IsMake(q)
    BY <1>5, <1>6 DEF IsDropApi, IsName, IsMake
  <2>. QED BY <1>5, <1>6, <2>1, GateTodos DEF ApiLocal
<1>8. ApiShape' /\ disturbed' = disturbed /\ \A u \in Workers : local'[u] = IF u = t THEN q ELSE local[u]
  <2>1. /\ apis' = [x \in Gateway!Ids |-> apis'[x]] /\ resources' = [x \in Gateway!Ids |-> resources'[x]]
        /\ \A x \in Gateway!Ids : resources'[x] # NoRow => resources'[x].api \in Gateway!Ids
    BY <1>1 DEF ApiInv, ApiShape
  <2>2. ApiShape /\ q.touches \subseteq local[t].touches
    BY <1>6 DEF ApiInv
  <2>. QED BY <1>4, <1>7, <2>1, <2>2, ApiGoesOn
<1>9. i = at => \A x \in Gateway!Ids : ~IsRoute(resources[x], a, r)
  <2>1. Making(s, at)
    BY <1>2 DEF Making
  <2>2. at \in Gateway!Ids => resources[at] = NoRow
    BY <2>1 DEF RowsInv
  <2>3. at \notin found
    BY <2>2 DEF Gateway!OnRoute, Gateway!Rows
  <2>4. i = at => found = {}
    BY <1>3, <2>3
  <2>. QED BY <2>4 DEF Gateway!OnRoute, Gateway!Rows, IsRoute
<1>10. RoutesInv'
  <2>1. ASSUME NEW b \in Gateway!Ids, NEW p \in Routes, <<b, p>> \notin disturbed PROVE OneOfRoute(b, p, resources, local')
    <3>1. OneOfRoute(b, p, resources, local)
      BY <2>1 DEF ApiInv, RoutesInv
    <3>2. ASSUME NEW u \in Workers, MakesRoute(local'[u], b, p), local'[u].todo = GatePut, local'[u].row = local'[u].at
          PROVE  \A x \in Gateway!Ids : ~IsRoute(resources[x], b, p)
      <4>1. CASE u = t
        BY <1>6, <1>8, <1>9, <3>2, <4>1 DEF MakesRoute
      <4>2. CASE u # t
        BY <1>8, <3>1, <3>2, <4>2 DEF OneOfRoute
      <4>. QED BY <4>1, <4>2
    <3>. QED BY <3>1, <3>2 DEF OneOfRoute
  <2>. QED BY <1>1, <1>8, <2>1 DEF RoutesInv
<1>11. NamesInv'
  BY <1>1, <1>7, <1>8, NamesAside DEF ApiInv
<1>12. ApisInv'
  <2>1. \A b : MakesOn(q, b) => MakesOn(s, b)
    BY <1>2, <1>6 DEF MakesOn
  <2>2. \A u \in Workers : \/ local'[u] = local[u]
                           \/ /\ IsDropApi(local'[u]) => local'[u].todo # ApiLast
                              /\ \A b : MakesOn(local'[u], b) => MakesOn(local[u], b)
    BY <1>7, <1>8, <2>1
  <2>. QED BY <1>1, <1>8, <2>2, ApisAside DEF ApiInv
<1>. QED BY <1>8, <1>10, <1>11, <1>12 DEF ApiInv

(* An INSERT of a route there was none of, or an UPDATE of a row that      *)
(* keeps its API and route.                                                *)
LEMMA ApiPuts ==
  ASSUME ApiInv, RowsInv, NEW t \in Workers, Gateway!CreateResource(t)
  PROVE  ApiInv'
<1> DEFINE s == local[t]
<1>. PICK a, r, at, row : a = s.api /\ r = s.route /\ at = s.at /\ row = s.row
  OBVIOUS
<1>. PICK new : new = [api |-> a, route |-> r, set |-> at]
  OBVIOUS
<1>1. Gateway!Does(t, "resource") /\ apis' = apis
  BY DEF Gateway!CreateResource
<1>2. resources' = [resources EXCEPT ![row] = IF row = at THEN new
                                              ELSE IF @ = NoRow THEN @ ELSE [@ EXCEPT !.set = at]]
  BY DEF Gateway!CreateResource
<1>3. IsMake(s) /\ s.todo = GatePut /\ ApiLocal(t, s)
  BY <1>1, ApiAt DEF Gateway!Does, ApiInv
<1>4. DOMAIN resources = Gateway!Ids /\ a \in Gateway!Ids /\ Tail(s.todo) = <<>>
  BY <1>3, GateTodos DEF ApiInv, ApiShape, ApiLocal
<1>5. new.api = a /\ new.route = r
  OBVIOUS
<1>6. \A i \in Gateway!Ids : resources[i] # NoRow => DOMAIN resources[i] = {"api", "route", "set"}
  BY DEF RowsInv
<1>7. \A x : DOMAIN x = {"api", "route", "set"} =>
         [x EXCEPT !.set = at].api = x.api /\ [x EXCEPT !.set = at].route = x.route
  OBVIOUS
<1>8. /\ resources' = [i \in Gateway!Ids |-> resources'[i]]
      /\ \A i \in Gateway!Ids : resources'[i] # NoRow =>
            \/ resources[i] # NoRow /\ resources'[i].api = resources[i].api /\ resources'[i].route = resources[i].route
            \/ i = at /\ row = at /\ resources'[i].api = a /\ resources'[i].route = r
  <2>1. resources' = [i \in Gateway!Ids |-> resources'[i]]
    BY <1>2, <1>4
  <2>2. CASE row = at
    <3>1. \A i \in Gateway!Ids : resources'[i] = IF i = at THEN new ELSE resources[i]
      BY <1>2, <1>4, <2>2
    <3>. QED BY <1>5, <2>1, <2>2, <3>1
  <2>3. CASE row # at
    <3>1. \A i \in Gateway!Ids : resources'[i] = IF i = row /\ resources[i] # NoRow
                                                 THEN [resources[i] EXCEPT !.set = at] ELSE resources[i]
      BY <1>2, <1>4, <2>3
    <3>. QED BY <1>6, <1>7, <2>1, <3>1
  <2>. QED BY <2>2, <2>3
<1>9. \A i \in Gateway!Ids : resources'[i] # NoRow => resources'[i].api \in Gateway!Ids
  BY <1>4, <1>8 DEF ApiInv, ApiShape
<1>10. ApiShape' /\ disturbed' = disturbed /\ \A u \in Workers : local'[u] = IF u = t THEN Idle ELSE local[u]
  <2>1. ApiShape /\ apis' = [x \in Gateway!Ids |-> apis'[x]]
    BY <1>1 DEF ApiInv, ApiShape
  <2>2. Tail(local[t].todo) = <<>>
    BY <1>4
  <2>. QED BY <1>1, <1>8, <1>9, <2>1, <2>2, ApiEnds
<1>11. ApisInv'
  <2>1. ASSUME NEW b \in Gateway!Ids, Calm(b, disturbed) PROVE ApiOwned(b, apis, resources', local')
    <3>1. ApiOwned(b, apis, resources, local)
      BY <2>1 DEF ApiInv, ApisInv
    <3>2. a = b => MakesOn(s, b)
      BY <1>3 DEF MakesOn
    <3>3. \A i \in Gateway!Ids : resources'[i] # NoRow /\ resources'[i].api = b => apis[b] # NoRow
      BY <1>8, <3>1, <3>2 DEF ApiOwned
    <3>4. ASSUME NEW u \in Workers
          PROVE  /\ MakesOn(local'[u], b) => apis[b] # NoRow
                 /\ DropsApi(local'[u], b) /\ local'[u].todo = ApiLast =>
                       \A i \in Gateway!Ids : resources'[i] # NoRow => resources'[i].api # b
      <4>1. CASE u = t
        BY <1>10, <4>1, ApiIdle DEF MakesOn, DropsApi
      <4>2. CASE u # t
        <5>1. local'[u] = local[u]
          BY <1>10, <4>2
        <5>2. DropsApi(local[u], b) => a # b
          BY <2>1, <3>2, <4>2, ApiAlone DEF ApiInv
        <5>3. /\ MakesOn(local[u], b) => apis[b] # NoRow
              /\ DropsApi(local[u], b) /\ local[u].todo = ApiLast =>
                    \A i \in Gateway!Ids : resources[i] # NoRow => resources[i].api # b
          BY <3>1 DEF ApiOwned
        <5>. QED BY <1>8, <5>1, <5>2, <5>3
      <4>. QED BY <4>1, <4>2
    <3>. QED BY <3>3, <3>4 DEF ApiOwned
  <2>. QED BY <1>1, <1>10, <2>1 DEF ApisInv
<1>12. RoutesInv'
  <2>1. ASSUME NEW b \in Gateway!Ids, NEW p \in Routes, <<b, p>> \notin disturbed PROVE OneOfRoute(b, p, resources', local')
    <3>1. OneOfRoute(b, p, resources, local)
      BY <2>1 DEF ApiInv, RoutesInv
    <3>2. a = b /\ r = p => MakesRoute(s, b, p)
      BY <1>3 DEF MakesRoute
    <3>3. a = b /\ r = p /\ row = at => \A i \in Gateway!Ids : ~IsRoute(resources[i], b, p)
      BY <1>3, <3>1, <3>2 DEF OneOfRoute
    <3>4. \A i \in Gateway!Ids : IsRoute(resources'[i], b, p) =>
             IsRoute(resources[i], b, p) \/ (i = at /\ row = at /\ a = b /\ r = p)
      BY <1>8 DEF IsRoute
    <3>5. \A i, j \in Gateway!Ids : IsRoute(resources'[i], b, p) /\ IsRoute(resources'[j], b, p) => i = j
      BY <3>1, <3>3, <3>4 DEF OneOfRoute
    <3>6. ASSUME NEW u \in Workers, MakesRoute(local'[u], b, p), local'[u].todo = GatePut, local'[u].row = local'[u].at
          PROVE  \A i \in Gateway!Ids : ~IsRoute(resources'[i], b, p)
      <4>1. u # t /\ local'[u] = local[u]
        BY <1>10, <3>6, ApiIdle DEF MakesRoute
      <4>2. ~(a = b /\ r = p)
        BY <2>1, <3>2, <3>6, <4>1, MakeAlone DEF ApiInv
      <4>3. \A i \in Gateway!Ids : ~IsRoute(resources[i], b, p)
        BY <3>1, <3>6, <4>1 DEF OneOfRoute
      <4>. QED BY <3>4, <4>2, <4>3
    <3>. QED BY <3>5, <3>6 DEF OneOfRoute
  <2>. QED BY <1>10, <2>1 DEF RoutesInv
<1>13. NamesInv'
  BY <1>1, <1>10, ApiIdle, NamesAside DEF ApiInv
<1>. QED BY <1>10, <1>11, <1>12, <1>13 DEF ApiInv

(* Requests begin that rely on nothing yet. *)
LEMMA ApiAsks ==
  ASSUME ApiInv, NEW t \in Workers, NEW s, Gateway!Ask(t, s), ApiLocal(t, s), ~IsName(s), ~IsMake(s),
         IsDropApi(s) => s.todo # ApiLast
  PROVE  ApiInv'
<1>1. /\ ApiShape' /\ disturbed \subseteq disturbed' /\ UNCHANGED <<apis, resources>>
      /\ \A u \in Workers : local'[u] = IF u = t THEN s ELSE local[u]
  BY ApiAsk DEF ApiInv
<1>. QED BY <1>1, ApiAside

LEMMA ApiDeleteAsked ==
  ASSUME ApiInv, NEW t \in Workers, NEW a \in Gateway!Ids, Gateway!DeleteApiRequire(t, a)
  PROVE  ApiInv'
<1>. PICK q : q = [api |-> a]
  OBVIOUS
<1>. PICK s : s = Gateway!On({a} \X Workers, ApiAll, q)
  OBVIOUS
<1>1. Gateway!Ask(t, s)
  BY DEF Gateway!DeleteApiRequire, ApiAll
<1>2. DOMAIN q = {"api"} /\ q.api = a
  OBVIOUS
<1>3. DOMAIN s = {"todo", "touches", "at", "api"} /\ s.todo = ApiAll /\ s.touches = {a} \X Workers /\ s.api = a
  BY <1>2 DEF Gateway!On, Gateway!Also
<1>4. IsDropApi(s) /\ ~IsName(s) /\ ~IsMake(s)
  BY <1>3 DEF IsDropApi, IsName, IsMake
<1>5. ApiLocal(t, s) /\ s.todo # ApiLast
  BY <1>3, <1>4, ApiTodosApart DEF ApiLocal
<1>. QED BY <1>1, <1>4, <1>5, ApiAsks

LEMMA ApiOtherAsked ==
  ASSUME ApiInv, NEW t \in Workers, NEW rows, NEW todo \in Seq(ApiOther), NEW r,
         "name" \notin DOMAIN r, "api" \notin DOMAIN r, "route" \notin DOMAIN r,
         Gateway!Ask(t, Gateway!On(rows, todo, r))
  PROVE  ApiInv'
<1> DEFINE s == Gateway!On(rows, todo, r)
<1>1. DOMAIN s = {"todo", "touches", "at"} \cup DOMAIN r /\ s.todo = todo
  BY DEF Gateway!On, Gateway!Also
<1>2. Gateway!Ask(t, s)
  OBVIOUS
<1> HIDE DEF s
<1>3. ~IsDropApi(s) /\ ~IsName(s) /\ ~IsMake(s)
  BY <1>1 DEF IsDropApi, IsName, IsMake
<1>4. ApiLocal(t, s)
  BY <1>1, <1>3 DEF ApiLocal
<1>. QED BY <1>2, <1>3, <1>4, ApiAsks

(* create_rest_api begins with no API of the name. *)
LEMMA ApiNameAsked ==
  ASSUME ApiInv, NEW t \in Workers, NEW n \in ApiNames, Gateway!CreateApiCheck(t, n)
  PROVE  ApiInv'
<1>. PICK q : q = [name |-> n]
  OBVIOUS
<1>. PICK s : s = Gateway!On({n}, NameTodo, q)
  OBVIOUS
<1>1. (\A a \in Gateway!Ids : apis[a] # n) /\ Gateway!Ask(t, s)
  BY DEF Gateway!CreateApiCheck, NameTodo
<1>2. DOMAIN q = {"name"} /\ q.name = n
  OBVIOUS
<1>3. DOMAIN s = {"todo", "touches", "at", "name"} /\ s.todo = NameTodo /\ s.touches = {n} /\ s.name = n
  BY <1>2 DEF Gateway!On, Gateway!Also
<1>4. ~IsDropApi(s) /\ IsName(s) /\ ~IsMake(s)
  BY <1>3 DEF IsDropApi, IsName, IsMake
<1>5. ApiLocal(t, s)
  BY <1>3, <1>4, RowAssumption DEF ApiLocal
<1>6. /\ ApiShape' /\ disturbed \subseteq disturbed' /\ UNCHANGED <<apis, resources>>
      /\ \A u \in Workers : local'[u] = IF u = t THEN s ELSE local[u]
  BY <1>1, <1>5, ApiAsk DEF ApiInv
<1>7. NamesInv'
  <2>1. ASSUME NEW m, m # NoRow, m \notin disturbed' PROVE OneOfName(m, apis, local')
    <3>1. OneOfName(m, apis, local)
      BY <1>6, <2>1 DEF ApiInv, NamesInv
    <3>2. NamesApi(s, m) => \A a \in Gateway!Ids : apis[a] # m
      BY <1>1, <1>3 DEF NamesApi
    <3>. QED BY <1>6, <3>1, <3>2 DEF OneOfName
  <2>. QED BY <1>6, <2>1 DEF NamesInv
<1>8. ApisInv'
  <2>1. \A u \in Workers : \/ local'[u] = local[u]
                           \/ /\ IsDropApi(local'[u]) => local'[u].todo # ApiLast
                              /\ \A a : MakesOn(local'[u], a) => MakesOn(local[u], a)
    BY <1>4, <1>6 DEF MakesOn
  <2>. QED BY <1>6, <2>1, ApisAside DEF ApiInv
<1>9. RoutesInv'
  <2>1. \A u \in Workers : local'[u] = local[u] \/ (IsMake(local'[u]) => local'[u].todo # GatePut)
    BY <1>4, <1>6
  <2>. QED BY <1>6, <2>1, RoutesAside DEF ApiInv
<1>. QED BY <1>6, <1>7, <1>8, <1>9 DEF ApiInv

(* create_resource begins with the API there. *)
LEMMA ApiMakeAsked ==
  ASSUME ApiInv, NEW t \in Workers, NEW a \in Gateway!Ids, NEW r \in Routes, Gateway!CreateResourceRequire(t, a, r)
  PROVE  ApiInv'
<1>. PICK q : q = [api |-> a, route |-> r, row |-> begun + 1]
  OBVIOUS
<1>. PICK rows : rows = {<<a, t>>, <<a, r>>}
  OBVIOUS
<1>. PICK s : s = Gateway!On(rows, GateFind, q)
  OBVIOUS
<1>1. apis[a] # NoRow /\ Gateway!Ask(t, s)
  BY DEF Gateway!CreateResourceRequire, GateFind
<1>2. DOMAIN q = {"api", "route", "row"} /\ q.api = a /\ q.route = r
  OBVIOUS
<1>3. /\ DOMAIN s = {"todo", "touches", "at", "api", "route", "row"} /\ s.todo = GateFind
      /\ s.touches = rows /\ s.api = a /\ s.route = r
  BY <1>2 DEF Gateway!On, Gateway!Also
<1>4. ~IsDropApi(s) /\ ~IsName(s) /\ IsMake(s)
  BY <1>3 DEF IsDropApi, IsName, IsMake
<1>5. ApiLocal(t, s) /\ s.todo # GatePut
  BY <1>3, <1>4, GateApart DEF ApiLocal
<1>6. /\ ApiShape' /\ disturbed \subseteq disturbed' /\ UNCHANGED <<apis, resources>>
      /\ \A u \in Workers : local'[u] = IF u = t THEN s ELSE local[u]
  BY <1>1, <1>5, ApiAsk DEF ApiInv
<1>7. ApisInv'
  <2>1. ASSUME NEW b \in Gateway!Ids, Calm(b, disturbed') PROVE ApiOwned(b, apis, resources, local')
    <3>1. ApiOwned(b, apis, resources, local)
      BY <1>6, <2>1 DEF ApiInv, ApisInv, Calm
    <3>2. (MakesOn(s, b) => apis[b] # NoRow) /\ ~DropsApi(s, b)
      BY <1>1, <1>3, <1>4 DEF MakesOn, DropsApi
    <3>. QED BY <1>6, <3>1, <3>2 DEF ApiOwned
  <2>. QED BY <1>6, <2>1 DEF ApisInv
<1>8. NamesInv'
  BY <1>4, <1>6, NamesAside DEF ApiInv
<1>9. RoutesInv'
  <2>1. \A u \in Workers : local'[u] = local[u] \/ (IsMake(local'[u]) => local'[u].todo # GatePut)
    BY <1>5, <1>6
  <2>. QED BY <1>6, <2>1, RoutesAside DEF ApiInv
<1>. QED BY <1>6, <1>7, <1>8, <1>9 DEF ApiInv

(* Any other statement: a resource goes, or an invocation looks for one.   *)
LEMMA ApiOtherDoes ==
  ASSUME ApiInv, NEW t \in Workers, NEW step \in ApiOther, Gateway!At(t, step), apis' = apis,
         resources' = [i \in Gateway!Ids |-> resources'[i]],
         \A i \in Gateway!Ids : resources'[i] \in {resources[i], NoRow},
         NEW r, Goes(t, r), DOMAIN r = DOMAIN local[t], r.touches = local[t].touches, r.todo \in Seq(ApiOther)
  PROVE  ApiInv'
<1> DEFINE s == local[t]
<1>1. ~IsName(s) /\ ~IsDropApi(s) /\ ~IsMake(s) /\ ApiLocal(t, s)
  BY ApiAt DEF ApiInv
<1>2. ~IsName(r) /\ ~IsDropApi(r) /\ ~IsMake(r)
  BY <1>1 DEF IsName, IsDropApi, IsMake
<1>3. ApiLocal(t, r)
  BY <1>1, <1>2 DEF ApiLocal
<1>4. /\ ApiShape' /\ disturbed' = disturbed
      /\ \A u \in Workers : local'[u] = IF u = t THEN IF r.todo = <<>> THEN Idle ELSE r ELSE local[u]
  <2>1. /\ ApiShape /\ apis' = [a \in Gateway!Ids |-> apis'[a]]
        /\ \A i \in Gateway!Ids : resources'[i] # NoRow => resources'[i].api \in Gateway!Ids
    BY DEF ApiInv, ApiShape
  <2>. QED BY <1>3, <2>1, ApiGoesOn
<1>. QED BY <1>2, <1>4, ApiIdle, ApiAside

LEMMA ApiOtherRest ==
  ASSUME ApiInv, NEW t \in Workers, NEW step \in ApiOther, Gateway!At(t, step)
  PROVE  /\ {"todo", "touches"} \subseteq DOMAIN local[t]
         /\ DOMAIN Rest(local[t]) = DOMAIN local[t] /\ Rest(local[t]).touches = local[t].touches
         /\ Rest(local[t]).todo \in Seq(ApiOther)
<1> DEFINE s == local[t]
<1>1. {"todo", "touches"} \subseteq DOMAIN s /\ s.todo \in Seq(ApiOther) /\ s.todo # <<>>
  BY ApiAt DEF ApiInv, ApiLocal, Gateway!At
<1>2. Tail(s.todo) \in Seq(ApiOther)
  BY <1>1
<1>3. Rest(s).touches = s.touches
  BY <1>1 DEF Rest
<1>. QED BY <1>1, <1>2, <1>3, RestFields

LEMMA ApiOtherTodos ==
  /\ <<"drop resource">> \in Seq(ApiOther) /\ GateExact \in Seq(ApiOther)
  /\ GateTemplate \in Seq(ApiOther) /\ GateAnswer \in Seq(ApiOther)
  BY DEF ApiOther, GateExact, GateTemplate, GateAnswer

LEMMA ApiOtherSteps ==
  ASSUME ApiInv, NEW t \in Workers,
         \/ Gateway!DeleteResource(t) \/ Gateway!InvokeExact(t) \/ Gateway!InvokeTemplate(t) \/ Gateway!InvokeAnswer(t)
  PROVE  ApiInv'
<1> DEFINE s == local[t]
<1>1. PICK step \in ApiOther : Gateway!At(t, step)
  BY DEF Gateway!DeleteResource, Gateway!InvokeExact, Gateway!InvokeTemplate, Gateway!InvokeAnswer, Gateway!Does,
         ApiOther
<1>2. apis' = apis
  BY DEF Gateway!DeleteResource, Gateway!InvokeExact, Gateway!InvokeTemplate, Gateway!InvokeAnswer
<1>3. /\ resources' = [i \in Gateway!Ids |-> resources'[i]]
      /\ \A i \in Gateway!Ids : resources'[i] \in {resources[i], NoRow}
  <2>1. resources' = resources \/ \E i : resources' = [resources EXCEPT ![i] = NoRow]
    BY DEF Gateway!DeleteResource, Gateway!InvokeExact, Gateway!InvokeTemplate, Gateway!InvokeAnswer
  <2>2. resources = [i \in Gateway!Ids |-> resources[i]]
    BY DEF ApiInv, ApiShape
  <2>3. CASE resources' = resources
    BY <2>2, <2>3
  <2>4. CASE \E i : resources' = [resources EXCEPT ![i] = NoRow]
    <3>1. DOMAIN resources = Gateway!Ids
      BY <2>2
    <3>. QED BY <2>4, <3>1
  <2>. QED BY <2>1, <2>3, <2>4
<1>4. /\ {"todo", "touches"} \subseteq DOMAIN s /\ DOMAIN Rest(s) = DOMAIN s /\ Rest(s).touches = s.touches
      /\ Rest(s).todo \in Seq(ApiOther)
  BY <1>1, ApiOtherRest
<1>5. CASE Gateway!Advance(t)
  <2>1. Goes(t, Rest(s))
    BY <1>5, GatewayThreads
  <2>. QED BY <1>1, <1>2, <1>3, <1>4, <2>1, ApiOtherDoes
<1>6. ASSUME NEW rows, Gateway!Chosen(t, rows) PROVE ApiInv'
  <2>1. PICK i \in rows : Gateway!Continue(t, [s EXCEPT !.todo = GateAnswer, !.found = resources[i].route])
    BY <1>6 DEF Gateway!Chosen, GateAnswer
  <2> DEFINE r == [s EXCEPT !.todo = GateAnswer, !.found = resources[i].route]
  <2>2. Goes(t, r)
    BY <2>1, GatewayThreads
  <2>3. DOMAIN r = DOMAIN s /\ r.touches = s.touches /\ r.todo = GateAnswer
    BY <1>4
  <2> HIDE DEF r
  <2>4. GateAnswer \in Seq(ApiOther)
    BY ApiOtherTodos
  <2>. QED BY <1>1, <1>2, <1>3, <2>2, <2>3, <2>4, ApiOtherDoes
<1>7. CASE Gateway!Continue(t, [s EXCEPT !.todo = GateTemplate])
  <2> DEFINE r == [s EXCEPT !.todo = GateTemplate]
  <2>2. Goes(t, r)
    BY <1>7, GatewayThreads
  <2>3. DOMAIN r = DOMAIN s /\ r.touches = s.touches /\ r.todo = GateTemplate
    BY <1>4
  <2> HIDE DEF r
  <2>4. GateTemplate \in Seq(ApiOther)
    BY ApiOtherTodos
  <2>. QED BY <1>1, <1>2, <1>3, <2>2, <2>3, <2>4, ApiOtherDoes
<1>8. Gateway!DeleteResource(t) \/ Gateway!InvokeAnswer(t) => Gateway!Advance(t)
  BY DEF Gateway!DeleteResource, Gateway!InvokeAnswer, Gateway!Does
<1>9. Gateway!InvokeExact(t) =>
         (\E rows : Gateway!Chosen(t, rows)) \/ Gateway!Continue(t, [s EXCEPT !.todo = GateTemplate])
  BY DEF Gateway!InvokeExact, GateTemplate
<1>10. Gateway!InvokeTemplate(t) => (\E rows : Gateway!Chosen(t, rows)) \/ Gateway!Advance(t)
  BY DEF Gateway!InvokeTemplate
<1>. QED BY <1>5, <1>6, <1>7, <1>8, <1>9, <1>10

LEMMA ApiOtherFields ==
  /\ \A a : "name" \notin DOMAIN [row |-> a] /\ "api" \notin DOMAIN [row |-> a] /\ "route" \notin DOMAIN [row |-> a]
  /\ \A a, b : /\ "name" \notin DOMAIN [invoked |-> a, found |-> b] /\ "api" \notin DOMAIN [invoked |-> a, found |-> b]
               /\ "route" \notin DOMAIN [invoked |-> a, found |-> b]
  OBVIOUS

LEMMA ApiNext ==
  ASSUME ApiInv, RowsInv, [Gateway!Next]_(Gateway!vars)
  PROVE  ApiInv'
<1>1. CASE UNCHANGED Gateway!vars
  <2>1. UNCHANGED <<local, disturbed, apis, resources>>
    BY <1>1 DEF Gateway!vars, Gateway!requests, Gateway!agvars
  <2>. QED BY <2>1 DEF ApiInv, ApiShape, NamesInv, ApisInv, RoutesInv, Threads, Apart
<1>2. ASSUME NEW t \in Workers, Gateway!Administer(t) PROVE ApiInv'
  <2>1. CASE \E i \in Gateway!Ids : Gateway!DeleteResourceSelect(t, i)
    BY <2>1, ApiOtherAsked, ApiOtherTodos, ApiOtherFields DEF Gateway!DeleteResourceSelect
  <2>2. CASE \E n \in ApiNames : Gateway!CreateApiCheck(t, n)
    BY <2>2, ApiNameAsked
  <2>3. CASE \E a \in Gateway!Ids : Gateway!DeleteApiRequire(t, a) \/ \E r \in Routes : Gateway!CreateResourceRequire(t, a, r)
    BY <2>3, ApiDeleteAsked, ApiMakeAsked
  <2>. QED BY <1>2, <2>1, <2>2, <2>3, ApiCreates, ApiDropsResources, ApiDrops, ApiFinds, ApiPuts, ApiOtherSteps
           DEF Gateway!Administer
<1>3. ASSUME NEW t \in Workers, Gateway!Serve(t) PROVE ApiInv'
  <2>1. CASE \E a \in Gateway!Ids, r \in Requested : Gateway!Invoke(t, a, r)
    <3>1. PICK a \in Gateway!Ids, r \in Requested : Gateway!Ask(t, Gateway!On({}, GateExact, [invoked |-> <<a, r>>, found |-> <<>>]))
      BY <2>1 DEF Gateway!Invoke, GateExact
    <3>. PICK q : q = [invoked |-> <<a, r>>, found |-> <<>>]
      OBVIOUS
    <3>2. "name" \notin DOMAIN q /\ "api" \notin DOMAIN q /\ "route" \notin DOMAIN q
      BY ApiOtherFields
    <3>. QED BY <3>1, <3>2, ApiOtherAsked, ApiOtherTodos
  <2>. QED BY <1>3, <2>1, ApiOtherSteps DEF Gateway!Serve
<1>4. CASE (Gateway!Crash \/ \E t \in Workers : Gateway!Fails(t)) /\ UNCHANGED <<apis, resources>>
  <2>1. Breaks
    BY <1>4, GatewayThreads DEF ApiInv, ApiShape
  <2>. QED BY <1>4, <2>1, ApiBreaks
<1>. QED BY <1>1, <1>2, <1>3, <1>4 DEF Gateway!Next

LEMMA ApiInit ==
  ASSUME InitRequests, Gateway!InitTables
  PROVE  ApiInv
<1>1. \A t \in Workers : local[t] = Idle /\ Idle.touches = {}
  BY DEF InitRequests, Idle
<1>2. Threads /\ Apart
  BY <1>1 DEF InitRequests, Threads, Apart
<1>3. \/ apis = [a \in Gateway!Ids |-> NoRow]
      \/ \E n \in ApiNames : apis = [a \in Gateway!Ids |-> IF a = 0 THEN n ELSE NoRow]
  <2>1. \/ apis \in [Gateway!Ids -> {NoRow}]
        \/ \E n \in ApiNames : apis = [a \in Gateway!Ids |-> IF a = 0 THEN n ELSE NoRow]
    BY DEF Gateway!InitTables
  <2>. QED BY <2>1
<1>4. \/ resources = [i \in Gateway!Ids |-> NoRow]
      \/ \E r \in Routes : resources = [i \in Gateway!Ids |-> IF i = 0 THEN [api |-> 0, route |-> r, set |-> 0] ELSE NoRow]
  <2>1. \/ resources \in [Gateway!Ids -> {NoRow}]
        \/ \E r \in Routes : resources = [i \in Gateway!Ids |-> IF i = 0 THEN [api |-> 0, route |-> r, set |-> 0] ELSE NoRow]
    BY DEF Gateway!InitTables
  <2>. QED BY <2>1
<1>5. 0 \in Gateway!Ids /\ (apis[0] = NoRow => resources[0] = NoRow)
  BY BoundsAssumption DEF Gateway!InitTables, Gateway!Ids
<1>6. \A i \in Gateway!Ids : resources[i] # NoRow => i = 0 /\ resources[i].api = 0
  BY <1>4
<1>7. ApiShape
  <2>1. apis = [a \in Gateway!Ids |-> apis[a]]
    BY <1>3
  <2>2. resources = [i \in Gateway!Ids |-> resources[i]]
    BY <1>4
  <2>. QED BY <1>1, <1>2, <1>5, <1>6, <2>1, <2>2, ApiIdle DEF ApiShape
<1>8. NamesInv
  <2>1. \A a \in Gateway!Ids : apis[a] # NoRow => a = 0
    BY <1>3
  <2>. QED BY <1>1, <2>1, ApiIdle DEF NamesInv, OneOfName, NamesApi
<1>9. ApisInv
  BY <1>1, <1>5, <1>6, ApiIdle DEF ApisInv, ApiOwned, MakesOn, DropsApi
<1>10. RoutesInv
  BY <1>1, <1>6, ApiIdle DEF RoutesInv, OneOfRoute, MakesRoute, IsRoute
<1>. QED BY <1>7, <1>8, <1>9, <1>10 DEF ApiInv

LEMMA ApiOwnedAll ==
  ASSUME ApiInv, RowsInv
  PROVE  Gateway!RoutesHaveApis
<1>1. ASSUME NEW a \in Gateway!Rows(apis), NEW b \in Gateway!Rows(apis), a # b, apis[a] = apis[b]
      PROVE  ~Gateway!Quiet(apis[a])
  <2>1. apis[a] # NoRow /\ a \in Gateway!Ids /\ b \in Gateway!Ids
    BY DEF Gateway!Rows
  <2>2. apis[a] \notin disturbed => OneOfName(apis[a], apis, local)
    BY <2>1 DEF ApiInv, NamesInv
  <2>. QED BY <1>1, <2>1, <2>2 DEF OneOfName, Gateway!Quiet
<1>2. ASSUME NEW i \in Gateway!Rows(resources)
      PROVE  /\ (\A t \in Workers : Gateway!Quiet(<<resources[i].api, t>>)) => apis[resources[i].api] # NoRow
             /\ Gateway!Quiet(<<resources[i].api, resources[i].route>>) =>
                   Gateway!OnRoute(resources[i].api, resources[i].route) = {i}
  <2>. PICK a, r : a = resources[i].api /\ r = resources[i].route
    OBVIOUS
  <2>1. resources[i] # NoRow /\ i \in Gateway!Ids /\ a \in Gateway!Ids /\ r \in Routes
    BY DEF Gateway!Rows, ApiInv, ApiShape, RowsInv
  <2>2. (\A t \in Workers : Gateway!Quiet(<<a, t>>)) => apis[a] # NoRow
    <3>1. (\A t \in Workers : Gateway!Quiet(<<a, t>>)) => ApiOwned(a, apis, resources, local)
      BY <2>1 DEF ApiInv, ApisInv, Calm, Gateway!Quiet
    <3>. QED BY <2>1, <3>1 DEF ApiOwned
  <2>3. Gateway!Quiet(<<a, r>>) => Gateway!OnRoute(a, r) = {i}
    <3>1. Gateway!Quiet(<<a, r>>) => OneOfRoute(a, r, resources, local)
      BY <2>1 DEF ApiInv, RoutesInv, Gateway!Quiet
    <3>2. IsRoute(resources[i], a, r)
      BY <2>1 DEF IsRoute
    <3>3. \A j : j \in Gateway!OnRoute(a, r) <=> j \in Gateway!Ids /\ IsRoute(resources[j], a, r)
      BY DEF Gateway!OnRoute, Gateway!Rows, IsRoute
    <3>. QED BY <2>1, <3>1, <3>2, <3>3 DEF OneOfRoute
  <2>. QED BY <2>2, <2>3
<1>. QED BY <1>1, <1>2 DEF Gateway!RoutesHaveApis

LEMMA FunctionThreads ==
  /\ \A t, s : Function!Begin(t, s) => Begins(t, s)
  /\ \A t, s : Function!Continue(t, s) => Goes(t, s)
  /\ \A t : Function!Advance(t) => Goes(t, Rest(local[t]))
  /\ \A t : Function!Ends(t) => Goes(t, Idle)
  /\ Threads /\ (Function!Crash \/ \E t \in Workers : Function!Fails(t)) => Breaks
<1>1. /\ \A t, s : Function!Begin(t, s) => Begins(t, s)
      /\ \A t, s : Function!Continue(t, s) => Goes(t, s)
  BY DEF Function!Begin, Begins, Function!Continue, Goes, Idle, Function!Idle
<1>2. /\ \A t : Function!Advance(t) => Goes(t, Rest(local[t]))
      /\ \A t : Function!Ends(t) => Goes(t, Idle)
  BY <1>1 DEF Function!Advance, Rest, Function!Ends, Idle, Function!Idle
<1>3. ASSUME Threads, NEW S, Function!BreakOff(S) PROVE Breaks
  <2>1. /\ local' = [u \in Workers |-> IF u \in S THEN Idle ELSE local[u]]
        /\ disturbed' = disturbed \cup UNION {local[u].touches : u \in S} /\ begun' = begun
    BY <1>3 DEF Function!BreakOff, Idle, Function!Idle
  <2>2. \A u \in S : local[u].touches \subseteq disturbed'
    BY <2>1
  <2>. QED BY <2>1, <2>2 DEF Breaks
<1>. QED BY <1>1, <1>2, <1>3 DEF Function!Crash, Function!Fails

(* Lambda: the statements of process_async_queue, of invoke_async, and of  *)
(* all other requests.                                                     *)
LambdaPlain == {"register", "configure", "drop", "drop versions", "drop aliases", "count", "publish",
                "create alias", "change alias", "layer"}

IsProcess(s) == "ids" \in DOMAIN s

QueueLocal(s) ==
    /\ {"todo", "touches"} \subseteq DOMAIN s
    /\ ~IsProcess(s) =>
          \/ s.todo \in Seq(LambdaPlain)
          \/ s.todo = <<"queue">> /\ DOMAIN s = {"todo", "touches", "function", "at"}
    /\ IsProcess(s) =>
          /\ s.todo \in {<<"run">>, <<"mark">>} /\ DOMAIN s = {"todo", "touches", "ids", "status"}
          /\ s.ids # {} /\ s.ids \subseteq Function!Numbers /\ {"queue"} \X s.ids \subseteq s.touches
          /\ s.todo = <<"mark">> => s.status \in {"SUCCEEDED", "FAILED"}

(* It is going to insert the invocation i, or has run it without its       *)
(* status telling so yet.                                                  *)
Inserting(s, i) == ~IsProcess(s) /\ s.todo = <<"queue">> /\ s.at = i

Marking(s, i) == IsProcess(s) /\ s.todo = <<"mark">> /\ i = Function!First(s.ids)

Unused(i) == i > begun \/ \E t \in Workers : Inserting(local[t], i)

Undisturbed(i) == <<"queue", i>> \notin disturbed

(* What the code relies on for an invocation that no requests overlap on.  *)
RunCount(i) ==
    invocations[i] # NoFunction /\ Undisturbed(i) =>
        /\ "status" \in DOMAIN invocations[i]
        /\ runs[i] = IF invocations[i].status = "QUEUED" /\ ~\E t \in Workers : Marking(local[t], i)
                     THEN 0 ELSE 1

QueueInv ==
    /\ Threads /\ Apart /\ begun \in Nat
    /\ invocations = [i \in Function!Numbers |-> invocations[i]]
    /\ runs = [i \in Function!Numbers |-> runs[i]]
    /\ \A t \in Workers : QueueLocal(local[t])
    /\ \A t \in Workers : \A i : Inserting(local[t], i) => i \in Nat /\ i <= begun
    /\ \A t, u \in Workers : \A i : Inserting(local[t], i) /\ Inserting(local[u], i) => t = u
    /\ \A i \in Function!Numbers : Unused(i) => invocations[i] = NoFunction /\ runs[i] = 0
    /\ \A t \in Workers : IsProcess(local[t]) => \A i \in local[t].ids :
          /\ ~Unused(i)
          /\ Undisturbed(i) => invocations[i] # NoFunction /\ invocations[i].status = "QUEUED"
    /\ \A i \in Function!Numbers : RunCount(i)

(* It neither inserts nor runs an invocation. *)
Aside(s) == QueueLocal(s) /\ ~IsProcess(s) /\ s.todo # <<"queue">>

LEMMA FirstIn ==
  ASSUME NEW ids, ids # {}, ids \subseteq Function!Numbers
  PROVE  Function!First(ids) \in ids
<1>1. ids \subseteq Nat
  BY RequestsAssumption DEF Function!Numbers
<1>2. \E i \in ids : \A j \in ids : i <= j
  BY <1>1, Least
<1>. QED BY <1>2 DEF Function!First

LEMMA QueueTodos ==
  /\ <<"queue">> # <<>> /\ Head(<<"queue">>) = "queue" /\ Tail(<<"queue">>) = <<>>
  /\ <<"run">> # <<>> /\ Head(<<"run">>) = "run" /\ <<"mark">> # <<>> /\ Head(<<"mark">>) = "mark"
  /\ <<"run">> # <<"mark">> /\ <<"run">> # <<"queue">> /\ <<"mark">> # <<"queue">> /\ <<"queue">> # <<>>
  OBVIOUS

LEMMA QueueNotPlain == "queue" \notin LambdaPlain /\ "run" \notin LambdaPlain /\ "mark" \notin LambdaPlain
  BY DEF LambdaPlain

LEMMA QueueMarks ==
  ASSUME QueueInv, NEW t \in Workers, NEW i, Marking(local[t], i)
  PROVE  IsProcess(local[t]) /\ i \in local[t].ids /\ <<"queue", i>> \in local[t].touches /\ i \in Function!Numbers
  BY FirstIn DEF QueueInv, QueueLocal, Marking

(* Requests begin, go on or break off that neither insert nor run.  One    *)
(* that runs invocations may only break off, and they are disturbed then.  *)
LEMMA QueueAside ==
  ASSUME QueueInv, Threads', Apart', begun' \in Nat, begun <= begun', disturbed \subseteq disturbed',
         UNCHANGED <<invocations, runs>>,
         \A u \in Workers : \/ local'[u] = local[u]
                            \/ /\ Aside(local'[u])
                               /\ IsProcess(local[u]) => local[u].touches \subseteq disturbed'
  PROVE  QueueInv'
<1>1. \A t \in Workers : QueueLocal(local'[t])
  BY DEF QueueInv, Aside
<1>2. \A t \in Workers : \A i : Inserting(local'[t], i) => Inserting(local[t], i)
  BY DEF Inserting, Aside
<1>3. \A i \in Function!Numbers : Unused(i)' => Unused(i)
  <2>1. begun \in Nat /\ \A i \in Function!Numbers : i \in Nat
    BY RequestsAssumption DEF Function!Numbers, QueueInv
  <2>2. \A i \in Function!Numbers : i > begun' => i > begun
    BY <2>1
  <2>. QED BY <1>2, <2>2 DEF Unused
<1>4. \A t \in Workers : \A i : Inserting(local'[t], i) => i \in Nat /\ i <= begun'
  <2>1. begun \in Nat /\ \A t \in Workers : \A i : Inserting(local'[t], i) => i \in Nat /\ i <= begun
    BY <1>2 DEF QueueInv
  <2>2. \A i \in Nat : i <= begun => i <= begun'
    BY <2>1
  <2>. QED BY <2>1, <2>2
<1>5. \A t, u \in Workers : \A i : Inserting(local'[t], i) /\ Inserting(local'[u], i) => t = u
  BY <1>2 DEF QueueInv
<1>6. \A i \in Function!Numbers : Unused(i)' => invocations'[i] = NoFunction /\ runs'[i] = 0
  BY <1>3 DEF QueueInv
<1>7. \A i : Undisturbed(i)' => Undisturbed(i)
  BY DEF Undisturbed
<1>8. \A t \in Workers : IsProcess(local'[t]) => local'[t] = local[t]
  BY DEF Aside
<1>9. ASSUME NEW t \in Workers, IsProcess(local'[t]), NEW i \in local'[t].ids
      PROVE  /\ ~Unused(i)'
             /\ Undisturbed(i)' => invocations'[i] # NoFunction /\ invocations'[i].status = "QUEUED"
  <2>1. IsProcess(local[t]) /\ i \in local[t].ids /\ i \in Function!Numbers
    BY <1>8, <1>9 DEF QueueInv, QueueLocal
  <2>. QED BY <2>1, <1>3, <1>7 DEF QueueInv
<1>10. \A t \in Workers : \A i : Marking(local[t], i) /\ Undisturbed(i)' => local'[t] = local[t]
  BY QueueMarks DEF Marking, Undisturbed
<1>11. \A t \in Workers : \A i : Marking(local'[t], i) => local'[t] = local[t]
  BY DEF Marking, Aside
<1>12. ASSUME NEW i \in Function!Numbers, invocations'[i] # NoFunction, Undisturbed(i)'
       PROVE  /\ "status" \in DOMAIN invocations'[i]
              /\ runs'[i] = IF invocations'[i].status = "QUEUED" /\ ~\E t \in Workers : Marking(local'[t], i)
                            THEN 0 ELSE 1
  <2>1. (\E t \in Workers : Marking(local'[t], i)) <=> (\E t \in Workers : Marking(local[t], i))
    BY <1>10, <1>11, <1>12
  <2>2. invocations[i] # NoFunction /\ Undisturbed(i) /\ RunCount(i)
    BY <1>7, <1>12 DEF QueueInv
  <2>. QED BY <2>1, <2>2 DEF RunCount
<1>13. \A i \in Function!Numbers : RunCount(i)'
  BY <1>12 DEF RunCount
<1>14. /\ invocations' = [i \in Function!Numbers |-> invocations'[i]]
       /\ runs' = [i \in Function!Numbers |-> runs'[i]]
  BY DEF QueueInv
<1>. QED BY <1>1, <1>4, <1>5, <1>6, <1>9, <1>13, <1>14 DEF QueueInv

LEMMA QueueIdle == Aside(Idle) /\ ~IsProcess(Idle) /\ Idle.touches = {}
<1>1. Idle.todo = <<>> /\ DOMAIN Idle = {"todo", "touches"} /\ Idle.touches = {}
  BY DEF Idle
<1>2. <<>> \in Seq(LambdaPlain)
  OBVIOUS
<1>3. ~IsProcess(Idle)
  BY <1>1 DEF IsProcess
<1>. QED BY <1>1, <1>2, <1>3, QueueTodos DEF QueueLocal, Aside

LEMMA QueueBreaks ==
  ASSUME QueueInv, Breaks, UNCHANGED <<invocations, runs>>
  PROVE  QueueInv'
<1>1. Threads' /\ Apart'
  BY BreaksThreads, BreaksApart DEF QueueInv
<1>. QED BY <1>1, QueueIdle, QueueAside DEF Breaks, QueueInv

(* The local record of a request that has begun or gone on to r.           *)
LEMMA QueueBegins ==
  ASSUME QueueInv, NEW t \in Workers, NEW s, Begins(t, s)
  PROVE  /\ Threads' /\ Apart' /\ Only(t, s) /\ begun' = begun + 1 /\ begun' \in Nat
         /\ disturbed \subseteq disturbed' /\ local[t] = Idle /\ ~IsProcess(local[t])
<1>1. Threads /\ Apart /\ begun \in Nat
  BY DEF QueueInv
<1>2. /\ begun' = begun + 1 /\ local[t] = Idle
      /\ disturbed' = disturbed \cup {row \in s.touches : \E u \in Workers : row \in local[u].touches}
  BY DEF Begins
<1>3. Threads' /\ Apart' /\ Only(t, s)
  BY <1>1, BeginsOnly, BeginsApart
<1>. QED BY <1>1, <1>2, <1>3, QueueIdle

LEMMA QueueAskAside ==
  ASSUME QueueInv, NEW t \in Workers, NEW s, Begins(t, s), Aside(s), UNCHANGED <<invocations, runs>>
  PROVE  QueueInv'
<1>1. /\ Threads' /\ Apart' /\ Only(t, s) /\ begun' = begun + 1 /\ begun' \in Nat
      /\ disturbed \subseteq disturbed' /\ ~IsProcess(local[t])
  BY QueueBegins
<1>2. begun <= begun'
  BY <1>1 DEF QueueInv
<1>3. \A u \in Workers : \/ local'[u] = local[u]
                         \/ Aside(local'[u]) /\ (IsProcess(local[u]) => local[u].touches \subseteq disturbed')
  BY <1>1 DEF Only
<1>. QED BY <1>1, <1>2, <1>3, QueueAside

LEMMA QueueDoesAside ==
  ASSUME QueueInv, NEW t \in Workers, NEW r, Goes(t, r), Aside(r), r.touches \subseteq local[t].touches,
         ~IsProcess(local[t]), UNCHANGED <<invocations, runs>>
  PROVE  QueueInv'
<1>1. /\ Threads' /\ Apart' /\ Only(t, IF r.todo = <<>> THEN Idle ELSE r)
      /\ begun' = begun /\ disturbed' = disturbed
  BY GoesOnly, GoesApart DEF QueueInv, Goes
<1>2. Aside(IF r.todo = <<>> THEN Idle ELSE r)
  BY QueueIdle
<1>3. \A u \in Workers : \/ local'[u] = local[u]
                         \/ Aside(local'[u]) /\ (IsProcess(local[u]) => local[u].touches \subseteq disturbed')
  BY <1>1, <1>2 DEF Only
<1>4. begun' \in Nat /\ begun <= begun' /\ disturbed \subseteq disturbed'
  BY <1>1 DEF QueueInv
<1>. QED BY <1>1, <1>3, <1>4, QueueAside

LEMMA PlainIsNotQueue == \A todo \in Seq(LambdaPlain) : todo # <<"queue">> /\ todo # <<"run">> /\ todo # <<"mark">>
<1> SUFFICES ASSUME NEW todo \in Seq(LambdaPlain), todo \in {<<"queue">>, <<"run">>, <<"mark">>} PROVE FALSE
  OBVIOUS
<1>1. todo # <<>> /\ Head(todo) \in {"queue", "run", "mark"}
  BY QueueTodos
<1>2. Head(todo) \in LambdaPlain
  BY <1>1
<1>. QED BY <1>1, <1>2, QueueNotPlain

LEMMA AsideOf ==
  ASSUME NEW s, {"todo", "touches"} \subseteq DOMAIN s, "ids" \notin DOMAIN s, s.todo \in Seq(LambdaPlain)
  PROVE  Aside(s)
  BY PlainIsNotQueue DEF Aside, QueueLocal, IsProcess

LEMMA LambdaPlainTodos ==
  /\ <<"register">> \in Seq(LambdaPlain) /\ <<"configure">> \in Seq(LambdaPlain)
  /\ <<"drop", "drop versions", "drop aliases">> \in Seq(LambdaPlain)
  /\ <<"count", "publish">> \in Seq(LambdaPlain) /\ <<"create alias">> \in Seq(LambdaPlain)
  /\ <<"change alias">> \in Seq(LambdaPlain) /\ <<"layer">> \in Seq(LambdaPlain)
  BY DEF LambdaPlain

LEMMA OnAside ==
  ASSUME NEW n, NEW rows, NEW todo \in Seq(LambdaPlain)
  PROVE  Aside(Function!On(n, rows, todo))
<1> DEFINE s == Function!On(n, rows, todo)
<1>1. DOMAIN s = {"todo", "touches", "function", "at"} /\ s.todo = todo
  BY DEF Function!On
<1> HIDE DEF s
<1>2. Aside(s)
  BY <1>1, AsideOf
<1>. QED BY <1>2 DEF s

LEMMA AlsoAside ==
  ASSUME NEW n, NEW rows, NEW todo \in Seq(LambdaPlain), NEW r, "ids" \notin DOMAIN r
  PROVE  Aside(Function!Also(Function!On(n, rows, todo), r))
<1> DEFINE s == Function!Also(Function!On(n, rows, todo), r)
<1>1. DOMAIN s = {"todo", "touches", "function", "at"} \cup DOMAIN r /\ s.todo = todo
  BY DEF Function!On, Function!Also
<1> HIDE DEF s
<1>2. Aside(s)
  BY <1>1, AsideOf
<1>. QED BY <1>2 DEF s

LEMMA LambdaFields ==
  /\ \A a, b : "ids" \notin DOMAIN [code |-> a, version |-> b]
  /\ \A a, b : "ids" \notin DOMAIN [alias |-> a, version |-> b]
  OBVIOUS

LEMMA QueueAsk ==
  ASSUME QueueInv, NEW t \in Workers, NEW s, Function!Ask(t, s), Aside(s)
  PROVE  QueueInv'
<1>1. Begins(t, s) /\ UNCHANGED <<invocations, runs>>
  BY FunctionThreads DEF Function!Ask, Function!lambdavars
<1>. QED BY <1>1, QueueAskAside

(* A statement of another request. *)
LEMMA QueueDoes ==
  ASSUME QueueInv, NEW t \in Workers, NEW step \in LambdaPlain, Function!Does(t, step),
         UNCHANGED <<invocations, runs>>
  PROVE  QueueInv'
<1> DEFINE s == local[t]  r == Rest(s)
<1>1. s.todo # <<>> /\ Head(s.todo) = step /\ Goes(t, r)
  BY FunctionThreads DEF Function!Does, Function!At
<1>2. QueueLocal(s)
  BY DEF QueueInv
<1>3. ~IsProcess(s) /\ s.todo \in Seq(LambdaPlain)
  BY <1>1, <1>2, QueueTodos, QueueNotPlain DEF QueueLocal
<1>4. DOMAIN r = DOMAIN s /\ r.todo = Tail(s.todo) /\ r.touches = s.touches
  <2>1. "todo" \in DOMAIN s /\ "touches" \in DOMAIN s
    BY <1>2 DEF QueueLocal
  <2>. QED BY <2>1 DEF Rest
<1> HIDE DEF r
<1>5. Tail(s.todo) \in Seq(LambdaPlain)
  BY <1>1, <1>3
<1>6. Aside(r)
  BY <1>2, <1>3, <1>4, <1>5, AsideOf DEF QueueLocal, IsProcess
<1>. QED BY <1>1, <1>3, <1>4, <1>6, QueueDoesAside

LEMMA QueueCounts ==
  ASSUME QueueInv, NEW t \in Workers, Function!PublishCount(t)
  PROVE  QueueInv'
<1> DEFINE s == local[t]
           r == [s EXCEPT !.todo = Tail(@), !.version = Cardinality(Function!Versions(s.function)) + 1]
<1>1. Function!At(t, "count") /\ UNCHANGED <<invocations, runs>>
  BY DEF Function!PublishCount, Function!lambdavars
<1>2. \E v : Goes(t, [s EXCEPT !.todo = Tail(@), !.version = v])
  BY FunctionThreads DEF Function!PublishCount
<1>3. PICK v : Goes(t, [s EXCEPT !.todo = Tail(@), !.version = v])
  BY <1>2
<1> DEFINE q == [s EXCEPT !.todo = Tail(@), !.version = v]
<1>4. QueueLocal(s) /\ s.todo # <<>> /\ Head(s.todo) = "count"
  BY <1>1 DEF QueueInv, Function!At
<1>5. ~IsProcess(s) /\ s.todo \in Seq(LambdaPlain)
  BY <1>4, QueueTodos DEF QueueLocal
<1>6. DOMAIN q = DOMAIN s /\ q.todo = Tail(s.todo) /\ q.touches = s.touches
  BY <1>4 DEF QueueLocal
<1>7. Goes(t, q)
  BY <1>3
<1> HIDE DEF q
<1>8. Tail(s.todo) \in Seq(LambdaPlain)
  BY <1>4, <1>5
<1>9. Aside(q)
  BY <1>4, <1>5, <1>6, <1>8, AsideOf DEF QueueLocal, IsProcess
<1>. QED BY <1>1, <1>5, <1>6, <1>7, <1>9, QueueDoesAside

(* Callables are in memory only. *)
LEMMA QueueCallable ==
  ASSUME QueueInv, NEW t \in Workers, Function!Begin(t, Idle), UNCHANGED <<invocations, runs>>
  PROVE  QueueInv'
<1>1. Begins(t, Idle)
  BY FunctionThreads
<1>. QED BY <1>1, QueueIdle, QueueAskAside

(* invoke_async: the id is that of the request, which nobody has yet. *)
LEMMA QueueAsked ==
  ASSUME QueueInv, NEW t \in Workers, NEW n, Function!InvokeAsyncRequire(t, n)
  PROVE  QueueInv'
<1> DEFINE s == Function!On(n, {}, <<"queue">>)
<1>1. Begins(t, s) /\ UNCHANGED <<invocations, runs>>
  BY FunctionThreads DEF Function!InvokeAsyncRequire, Function!Ask, Function!lambdavars
<1>2. DOMAIN s = {"todo", "touches", "function", "at"} /\ s.todo = <<"queue">> /\ s.at = begun + 1 /\ s.touches = {}
  BY DEF Function!On
<1> HIDE DEF s
<1>3. /\ Threads' /\ Apart' /\ Only(t, s) /\ begun' = begun + 1 /\ begun' \in Nat /\ begun \in Nat
      /\ local[t] = Idle /\ ~IsProcess(local[t])
  BY <1>1, QueueBegins DEF QueueInv
<1>4. disturbed' = disturbed
  BY <1>1, <1>2 DEF Begins
<1>5. QueueLocal(s) /\ ~IsProcess(s)
  BY <1>2 DEF QueueLocal, IsProcess
<1>6. \A u \in Workers : u # t => local'[u] = local[u]
  BY <1>3 DEF Only
<1>7. local'[t] = s
  BY <1>3 DEF Only
<1>8. \A i : Inserting(s, i) <=> i = begun + 1
  BY <1>2, <1>5 DEF Inserting
<1>9. \A u \in Workers : \A i : Inserting(local'[u], i) => (u = t /\ i = begun + 1) \/ (u # t /\ Inserting(local[u], i))
  BY <1>6, <1>7, <1>8
<1>10. \A u \in Workers : \A i : Inserting(local[u], i) => i \in Nat /\ i <= begun
  BY DEF QueueInv
<1>11. \A u \in Workers : \A i : Inserting(local'[u], i) => i \in Nat /\ i <= begun'
  BY <1>3, <1>9, <1>10
<1>12. \A u, v \in Workers : \A i : Inserting(local'[u], i) /\ Inserting(local'[v], i) => u = v
  <2>1. \A i \in Nat : i <= begun => i # begun + 1
    BY <1>3
  <2>2. \A u, v \in Workers : \A i : Inserting(local[u], i) /\ Inserting(local[v], i) => u = v
    BY DEF QueueInv
  <2>3. ASSUME NEW u \in Workers, NEW v \in Workers, NEW i, Inserting(local'[u], i), Inserting(local'[v], i)
        PROVE  u = v
    <3>1. CASE i = begun + 1
      BY <1>9, <1>10, <2>1, <2>3, <3>1
    <3>2. CASE i # begun + 1
      BY <1>9, <2>2, <2>3, <3>2
    <3>. QED BY <3>1, <3>2
  <2>. QED BY <2>3
<1>13. \A i \in Function!Numbers : Unused(i)' => Unused(i)
  <2>1. \A i \in Function!Numbers : i > begun' => i > begun
    BY <1>3, RequestsAssumption DEF Function!Numbers
  <2>2. begun + 1 > begun
    BY <1>3
  <2>. QED BY <1>9, <2>1, <2>2 DEF Unused
<1>14. \A u \in Workers : IsProcess(local'[u]) => local'[u] = local[u] /\ u # t
  BY <1>5, <1>6, <1>7
<1>15. \A u \in Workers : \A i : Marking(local'[u], i) <=> Marking(local[u], i)
  BY <1>3, <1>5, <1>6, <1>7 DEF Marking
<1>16. \A u \in Workers : QueueLocal(local'[u])
  BY <1>5, <1>6, <1>7 DEF QueueInv
<1>17. \A u \in Workers : IsProcess(local'[u]) => \A i \in local'[u].ids :
          ~Unused(i)' /\ (Undisturbed(i)' => invocations'[i] # NoFunction /\ invocations'[i].status = "QUEUED")
  <2>1. SUFFICES ASSUME NEW u \in Workers, IsProcess(local'[u]), NEW i \in local'[u].ids
        PROVE  ~Unused(i)' /\ (Undisturbed(i)' => invocations'[i] # NoFunction /\ invocations'[i].status = "QUEUED")
    OBVIOUS
  <2>2. local'[u] = local[u] /\ i \in Function!Numbers /\ IsProcess(local[u]) /\ i \in local[u].ids
    BY <1>14, <2>1 DEF QueueInv, QueueLocal
  <2>. QED BY <1>1, <1>4, <1>13, <2>2 DEF QueueInv, Undisturbed
<1>18. \A i \in Function!Numbers : RunCount(i)'
  <2>1. SUFFICES ASSUME NEW i \in Function!Numbers PROVE RunCount(i)'
    OBVIOUS
  <2>2. RunCount(i)
    BY DEF QueueInv
  <2>. QED BY <1>1, <1>4, <1>14, <1>15, <2>2 DEF RunCount, Undisturbed
<1>19. \A i \in Function!Numbers : Unused(i)' => invocations'[i] = NoFunction /\ runs'[i] = 0
  BY <1>1, <1>13 DEF QueueInv
<1>20. invocations' = [i \in Function!Numbers |-> invocations'[i]] /\ runs' = [i \in Function!Numbers |-> runs'[i]]
  BY <1>1 DEF QueueInv
<1>. QED BY <1>3, <1>11, <1>12, <1>16, <1>17, <1>18, <1>19, <1>20 DEF QueueInv

(* The INSERT of the invocation. *)
LEMMA QueueInserts ==
  ASSUME QueueInv, NEW t \in Workers, Function!InvokeAsync(t)
  PROVE  QueueInv'
<1> DEFINE s == local[t]
<1>. PICK i : i = s.at
  OBVIOUS
<1>. PICK row : row = [function |-> s.function, status |-> "QUEUED"]
  OBVIOUS
<1>1. /\ s.todo # <<>> /\ Head(s.todo) = "queue" /\ Goes(t, Rest(s)) /\ runs' = runs
      /\ invocations' = [invocations EXCEPT ![i] = row]
  BY FunctionThreads DEF Function!InvokeAsync, Function!Does, Function!At
<1>2. QueueLocal(s)
  BY DEF QueueInv
<1>3. ~IsProcess(s) /\ s.todo = <<"queue">> /\ "todo" \in DOMAIN s
  <2>1. s.todo \notin {<<"run">>, <<"mark">>}
    BY <1>1, QueueTodos
  <2>2. s.todo \notin Seq(LambdaPlain)
    BY <1>1, QueueNotPlain
  <2>. QED BY <1>2, <2>1, <2>2 DEF QueueLocal
<1>4. Rest(s).todo = <<>>
  BY <1>3, RestFields, QueueTodos
<1>5. Threads' /\ Only(t, Idle) /\ begun' = begun /\ disturbed' = disturbed
  BY <1>1, <1>4, GoesOnly DEF QueueInv, Goes
<1>6. Apart'
  BY <1>5, QueueIdle DEF QueueInv, Apart, Only
<1>7. Inserting(s, i)
  BY <1>3 DEF Inserting
<1>8. \A u \in Workers : u # t => local'[u] = local[u]
  BY <1>5 DEF Only
<1>9. local'[t] = Idle /\ ~IsProcess(Idle) /\ Idle.todo # <<"queue">> /\ QueueLocal(Idle)
  BY <1>5, QueueIdle DEF Only, Aside
<1>10. \A u \in Workers : \A j : Inserting(local'[u], j) => u # t /\ Inserting(local[u], j)
  BY <1>8, <1>9 DEF Inserting
<1>11. \A u \in Workers : \A j : Inserting(local'[u], j) => j # i
  <2>1. \A u, v \in Workers : \A j : Inserting(local[u], j) /\ Inserting(local[v], j) => u = v
    BY DEF QueueInv
  <2>. QED BY <1>7, <1>10, <2>1
<1>12. \A j : Unused(j)' => Unused(j)
  BY <1>5, <1>10 DEF Unused
<1>13. ~Unused(i)'
  <2>1. i \in Nat /\ i <= begun /\ begun \in Nat
    BY <1>7 DEF QueueInv
  <2>2. ~(i > begun)
    BY <2>1
  <2>. QED BY <1>5, <1>11, <2>2 DEF Unused
<1>14. Unused(i)
  BY <1>7 DEF Unused
<1>15. \A u \in Workers : IsProcess(local'[u]) => u # t /\ local'[u] = local[u]
  BY <1>8, <1>9
<1>16. \A u \in Workers : IsProcess(local[u]) => i \notin local[u].ids
  BY <1>14 DEF QueueInv
<1>17. \A u \in Workers : \A j : Marking(local'[u], j) <=> Marking(local[u], j)
  BY <1>3, <1>8, <1>9 DEF Marking
<1>18. \A j : j # i => invocations'[j] = invocations[j]
  <2>1. DOMAIN invocations = Function!Numbers
    BY DEF QueueInv
  <2>. QED BY <1>1
<1>19. i \in Function!Numbers => invocations'[i] = row /\ runs'[i] = 0
  BY <1>1, <1>14 DEF QueueInv
<1>20. \A j \in Function!Numbers : Unused(j)' => invocations'[j] = NoFunction /\ runs'[j] = 0
  BY <1>1, <1>12, <1>13, <1>18 DEF QueueInv
<1>21. ASSUME NEW u \in Workers, IsProcess(local'[u]), NEW j \in local'[u].ids
       PROVE  /\ ~Unused(j)'
              /\ Undisturbed(j)' => invocations'[j] # NoFunction /\ invocations'[j].status = "QUEUED"
  <2>1. IsProcess(local[u]) /\ j \in local[u].ids /\ j # i
    BY <1>15, <1>16, <1>21
  <2>. QED BY <1>5, <1>12, <1>18, <2>1 DEF QueueInv, Undisturbed
<1>22. \A j \in Function!Numbers : RunCount(j)'
  <2>1. ASSUME NEW j \in Function!Numbers, j # i PROVE RunCount(j)'
    <3>1. RunCount(j)
      BY DEF QueueInv
    <3>. QED BY <1>1, <1>5, <1>17, <1>18, <2>1, <3>1 DEF RunCount, Undisturbed
  <2>2. ASSUME i \in Function!Numbers PROVE RunCount(i)'
    <3>1. \A u \in Workers : ~Marking(local'[u], i)
      BY <1>16, <1>17, QueueMarks
    <3>2. "status" \in DOMAIN row /\ row.status = "QUEUED"
      OBVIOUS
    <3>. QED BY <1>19, <2>2, <3>1, <3>2 DEF RunCount
  <2>. QED BY <2>1, <2>2
<1>23. /\ invocations' = [j \in Function!Numbers |-> invocations'[j]]
       /\ runs' = [j \in Function!Numbers |-> runs'[j]]
  BY <1>1 DEF QueueInv
<1>24. begun' \in Nat
  BY <1>5 DEF QueueInv
<1>25. \A u \in Workers : QueueLocal(local'[u])
  BY <1>8, <1>9 DEF QueueInv
<1>26. \A u \in Workers : \A j : Inserting(local'[u], j) => j \in Nat /\ j <= begun'
  BY <1>5, <1>10 DEF QueueInv
<1>27. \A u, v \in Workers : \A j : Inserting(local'[u], j) /\ Inserting(local'[v], j) => u = v
  BY <1>10 DEF QueueInv
<1>. QED BY <1>5, <1>6, <1>20, <1>21, <1>22, <1>23, <1>24, <1>25, <1>26, <1>27 DEF QueueInv

(* process_async_queue begins: what it selects is queued. *)
LEMMA QueueSelected ==
  ASSUME QueueInv, NEW t \in Workers, NEW N, Function!ProcessSelect(t, N)
  PROVE  QueueInv'
<1> DEFINE ids == UNION {Function!Queued(n) : n \in N}
           s == [todo |-> <<"run">>, touches |-> {"queue"} \X ids, ids |-> ids, status |-> "QUEUED"]
<1>1. ids # {} /\ Begins(t, s) /\ UNCHANGED <<invocations, runs>>
  BY FunctionThreads DEF Function!ProcessSelect, Function!Ask, Function!lambdavars
<1>2. \A j \in ids : j \in Function!Numbers /\ invocations[j] # NoFunction /\ invocations[j].status = "QUEUED"
  BY DEF Function!Queued
<1> HIDE DEF ids
<1>3. /\ DOMAIN s = {"todo", "touches", "ids", "status"} /\ s.todo = <<"run">> /\ s.ids = ids
      /\ s.touches = {"queue"} \X ids
  OBVIOUS
<1> HIDE DEF s
<1>4. /\ Threads' /\ Apart' /\ Only(t, s) /\ begun' = begun + 1 /\ begun' \in Nat /\ begun \in Nat
      /\ disturbed \subseteq disturbed' /\ local[t] = Idle /\ ~IsProcess(local[t])
  BY <1>1, QueueBegins DEF QueueInv
<1>5. QueueLocal(s) /\ IsProcess(s) /\ s.todo # <<"queue">> /\ s.todo # <<"mark">>
  BY <1>1, <1>2, <1>3, QueueTodos DEF QueueLocal, IsProcess
<1>6. \A u \in Workers : u # t => local'[u] = local[u]
  BY <1>4 DEF Only
<1>7. local'[t] = s
  BY <1>4 DEF Only
<1>8. \A u \in Workers : \A j : Inserting(local'[u], j) => Inserting(local[u], j)
  BY <1>5, <1>6, <1>7 DEF Inserting
<1>9. \A j \in Function!Numbers : Unused(j)' => Unused(j)
  <2>1. \A j \in Function!Numbers : j > begun' => j > begun
    BY <1>4, RequestsAssumption DEF Function!Numbers
  <2>. QED BY <1>8, <2>1 DEF Unused
<1>10. \A u \in Workers : \A j : Marking(local'[u], j) <=> Marking(local[u], j)
  BY <1>4, <1>5, <1>6, <1>7 DEF Marking
<1>11. \A j \in ids : ~Unused(j)
  BY <1>2 DEF QueueInv
<1>12. ASSUME NEW u \in Workers, IsProcess(local'[u]), NEW j \in local'[u].ids
       PROVE  /\ ~Unused(j)'
              /\ Undisturbed(j)' => invocations'[j] # NoFunction /\ invocations'[j].status = "QUEUED"
  <2>1. CASE u = t
    BY <1>1, <1>2, <1>3, <1>7, <1>9, <1>11, <1>12, <2>1
  <2>2. CASE u # t
    <3>1. IsProcess(local[u]) /\ j \in local[u].ids /\ j \in Function!Numbers
      BY <1>6, <1>12, <2>2 DEF QueueInv, QueueLocal
    <3>2. Undisturbed(j)' => Undisturbed(j)
      BY <1>4 DEF Undisturbed
    <3>. QED BY <1>1, <1>9, <3>1, <3>2 DEF QueueInv
  <2>. QED BY <2>1, <2>2
<1>13. \A j \in Function!Numbers : RunCount(j)'
  <2>1. SUFFICES ASSUME NEW j \in Function!Numbers PROVE RunCount(j)'
    OBVIOUS
  <2>2. RunCount(j)
    BY DEF QueueInv
  <2>3. Undisturbed(j)' => Undisturbed(j)
    BY <1>4 DEF Undisturbed
  <2>. QED BY <1>1, <1>10, <2>2, <2>3 DEF RunCount
<1>14. \A j \in Function!Numbers : Unused(j)' => invocations'[j] = NoFunction /\ runs'[j] = 0
  BY <1>1, <1>9 DEF QueueInv
<1>15. invocations' = [j \in Function!Numbers |-> invocations'[j]] /\ runs' = [j \in Function!Numbers |-> runs'[j]]
  BY <1>1 DEF QueueInv
<1>16. \A u \in Workers : QueueLocal(local'[u])
  BY <1>5, <1>6, <1>7 DEF QueueInv
<1>17. \A u \in Workers : \A j : Inserting(local'[u], j) => j \in Nat /\ j <= begun'
  <2>1. \A u \in Workers : \A j : Inserting(local'[u], j) => j \in Nat /\ j <= begun
    BY <1>8 DEF QueueInv
  <2>2. \A j \in Nat : j <= begun => j <= begun'
    BY <1>4
  <2>. QED BY <2>1, <2>2
<1>18. \A u, v \in Workers : \A j : Inserting(local'[u], j) /\ Inserting(local'[v], j) => u = v
  BY <1>8 DEF QueueInv
<1>. QED BY <1>4, <1>12, <1>13, <1>14, <1>15, <1>16, <1>17, <1>18 DEF QueueInv

LEMMA QueueAt ==
  ASSUME QueueInv, NEW t \in Workers, NEW step \in {"run", "mark"}, Function!At(t, step)
  PROVE  /\ QueueLocal(local[t]) /\ IsProcess(local[t]) /\ local[t].todo = <<step>>
         /\ DOMAIN local[t] = {"todo", "touches", "ids", "status"}
<1>1. QueueLocal(local[t]) /\ local[t].todo # <<>> /\ Head(local[t].todo) = step
  BY DEF QueueInv, Function!At
<1>2. local[t].todo \notin Seq(LambdaPlain)
  BY <1>1, QueueNotPlain
<1>3. step # "queue"
  OBVIOUS
<1>4. IsProcess(local[t])
  BY <1>1, <1>2, <1>3, QueueTodos DEF QueueLocal
<1>5. "run" # "mark"
  OBVIOUS
<1>6. local[t].todo = <<step>>
  BY <1>1, <1>4, <1>5, QueueTodos DEF QueueLocal
<1>. QED BY <1>1, <1>4, <1>6 DEF QueueLocal

(* t goes on with its invocations: it ran the next, or told its status.    *)
LEMMA QueueProceeds ==
  ASSUME QueueInv, NEW t \in Workers, NEW r, Goes(t, r), IsProcess(local[t]),
         NEW i \in Function!Numbers, i \in local[t].ids,
         QueueLocal(r), r.todo # <<"queue">>, r.touches \subseteq local[t].touches,
         IsProcess(r) => r.ids \subseteq local[t].ids /\ (r.todo = <<"mark">> => i = Function!First(r.ids)),
         r.todo = <<>> => ~IsProcess(r),
         \A j : Marking(local[t], j) => j = i,
         invocations' = [j \in Function!Numbers |-> invocations'[j]],
         runs' = [j \in Function!Numbers |-> runs'[j]],
         \A j \in Function!Numbers : j # i => invocations'[j] = invocations[j] /\ runs'[j] = runs[j],
         Undisturbed(i) =>
            /\ "status" \in DOMAIN invocations'[i]
            /\ runs'[i] = IF invocations'[i].status = "QUEUED" /\ ~Marking(r, i) THEN 0 ELSE 1
            /\ IsProcess(r) /\ i \in r.ids => invocations'[i] # NoFunction /\ invocations'[i].status = "QUEUED"
  PROVE  QueueInv'
<1> DEFINE s == local[t]
<1>. PICK q : q = IF r.todo = <<>> THEN Idle ELSE r
  OBVIOUS
<1>1. Threads' /\ Only(t, q) /\ begun' = begun /\ disturbed' = disturbed
  BY GoesOnly DEF QueueInv, Goes
<1>2. Apart'
  BY GoesApart DEF QueueInv
<1>3. QueueLocal(q) /\ q.todo # <<"queue">>
  BY QueueIdle DEF Aside
<1>4. IsProcess(q) => q = r
  BY QueueIdle
<1>5. Marking(r, i) <=> Marking(q, i)
  BY <1>4 DEF Marking
<1>6. \A u \in Workers : u # t => local'[u] = local[u]
  BY <1>1 DEF Only
<1>7. local'[t] = q
  BY <1>1 DEF Only
<1>8. \A u \in Workers : \A j : Inserting(local'[u], j) => Inserting(local[u], j)
  BY <1>3, <1>6, <1>7 DEF Inserting
<1>9. \A j : Unused(j)' => Unused(j)
  BY <1>1, <1>8 DEF Unused
<1>10. ~Unused(i)
  BY DEF QueueInv
<1>11. \A u \in Workers : u # t /\ IsProcess(local[u]) /\ i \in local[u].ids => ~Undisturbed(i)
  <2>1. <<"queue", i>> \in s.touches
    BY DEF QueueInv, QueueLocal
  <2>2. \A u \in Workers : IsProcess(local[u]) /\ i \in local[u].ids => <<"queue", i>> \in local[u].touches
    BY DEF QueueInv, QueueLocal
  <2>. QED BY <2>1, <2>2 DEF QueueInv, Apart, Undisturbed
<1>12. \A j : Marking(q, j) => j = i
  BY <1>4 DEF Marking
<1>13. ASSUME NEW j, j # i
       PROVE  (\E u \in Workers : Marking(local'[u], j)) <=> (\E u \in Workers : Marking(local[u], j))
  BY <1>6, <1>7, <1>12, <1>13
<1>14. Undisturbed(i) => \A u \in Workers : Marking(local'[u], i) => u = t
  BY <1>6, <1>11, QueueMarks
<1>15. ASSUME NEW u \in Workers, IsProcess(local'[u]), NEW j \in local'[u].ids
       PROVE  /\ ~Unused(j)'
              /\ Undisturbed(j)' => invocations'[j] # NoFunction /\ invocations'[j].status = "QUEUED"
  <2>1. CASE u # t
    <3>1. IsProcess(local[u]) /\ j \in local[u].ids /\ j \in Function!Numbers
      BY <1>6, <1>15, <2>1 DEF QueueInv, QueueLocal
    <3>2. /\ ~Unused(j)
          /\ Undisturbed(j) => invocations[j] # NoFunction /\ invocations[j].status = "QUEUED"
      BY <3>1 DEF QueueInv
    <3>. QED BY <1>1, <1>9, <1>11, <2>1, <3>1, <3>2 DEF Undisturbed
  <2>2. CASE u = t
    <3>1. IsProcess(q) /\ j \in q.ids /\ j \in s.ids /\ j \in Function!Numbers /\ q = r
      BY <1>4, <1>7, <1>15, <2>2 DEF QueueInv, QueueLocal
    <3>2. /\ ~Unused(j)
          /\ Undisturbed(j) => invocations[j] # NoFunction /\ invocations[j].status = "QUEUED"
      BY <3>1 DEF QueueInv
    <3>. QED BY <1>1, <1>9, <3>1, <3>2 DEF Undisturbed
  <2>. QED BY <2>1, <2>2
<1>16. \A j \in Function!Numbers : RunCount(j)'
  <2>1. ASSUME NEW j \in Function!Numbers, j # i PROVE RunCount(j)'
    <3>1. RunCount(j)
      BY DEF QueueInv
    <3>. QED BY <1>1, <1>13, <2>1, <3>1 DEF RunCount, Undisturbed
  <2>2. RunCount(i)'
    <3>1. SUFFICES ASSUME Undisturbed(i)
          PROVE  /\ "status" \in DOMAIN invocations'[i]
                 /\ runs'[i] = IF invocations'[i].status = "QUEUED" /\ ~\E u \in Workers : Marking(local'[u], i)
                               THEN 0 ELSE 1
      BY <1>1 DEF RunCount, Undisturbed
    <3>2. (\E u \in Workers : Marking(local'[u], i)) <=> Marking(r, i)
      BY <1>5, <1>7, <1>14, <3>1
    <3>. QED BY <3>1, <3>2
  <2>. QED BY <2>1, <2>2
<1>17. \A j \in Function!Numbers : Unused(j)' => invocations'[j] = NoFunction /\ runs'[j] = 0
  BY <1>9, <1>10 DEF QueueInv
<1>18. begun' \in Nat /\ \A u \in Workers : QueueLocal(local'[u])
  BY <1>1, <1>3, <1>6, <1>7 DEF QueueInv
<1>19. \A u \in Workers : \A j : Inserting(local'[u], j) => j \in Nat /\ j <= begun'
  BY <1>1, <1>8 DEF QueueInv
<1>20. \A u, v \in Workers : \A j : Inserting(local'[u], j) /\ Inserting(local'[v], j) => u = v
  BY <1>8 DEF QueueInv
<1>. QED BY <1>1, <1>2, <1>15, <1>16, <1>17, <1>18, <1>19, <1>20 DEF QueueInv

LEMMA QueueRuns ==
  ASSUME QueueInv, NEW t \in Workers, Function!ProcessRun(t)
  PROVE  QueueInv'
<1> DEFINE s == local[t]
<1>. PICK i : i = Function!First(s.ids)
  OBVIOUS
<1>1. /\ Function!At(t, "run") /\ invocations' = invocations /\ runs' = [runs EXCEPT ![i] = @ + 1]
      /\ \E status \in {"SUCCEEDED", "FAILED"} : Function!Continue(t, [s EXCEPT !.todo = <<"mark">>, !.status = status])
  BY DEF Function!ProcessRun
<1>2. QueueLocal(s) /\ IsProcess(s) /\ s.todo = <<"run">> /\ DOMAIN s = {"todo", "touches", "ids", "status"}
  BY <1>1, QueueAt
<1>3. PICK status \in {"SUCCEEDED", "FAILED"} : Goes(t, [s EXCEPT !.todo = <<"mark">>, !.status = status])
  BY <1>1, FunctionThreads
<1> DEFINE r == [s EXCEPT !.todo = <<"mark">>, !.status = status]
<1>4. /\ DOMAIN r = DOMAIN s /\ r.todo = <<"mark">> /\ r.ids = s.ids /\ r.status = status
      /\ r.touches = s.touches
  BY <1>2
<1>5. Goes(t, r)
  BY <1>3
<1> HIDE DEF r
<1>6. QueueLocal(r) /\ IsProcess(r)
  BY <1>2, <1>3, <1>4 DEF QueueLocal, IsProcess
<1>7. i \in s.ids /\ i \in Function!Numbers
  BY <1>2, FirstIn DEF QueueLocal
<1>8. \A j : ~Marking(s, j)
  BY <1>2, QueueTodos DEF Marking
<1>9. Marking(r, i)
  BY <1>4, <1>6 DEF Marking
<1>10. DOMAIN runs = Function!Numbers
  BY DEF QueueInv
<1>11. /\ invocations' = [j \in Function!Numbers |-> invocations'[j]]
       /\ runs' = [j \in Function!Numbers |-> runs'[j]]
       /\ \A j \in Function!Numbers : j # i => invocations'[j] = invocations[j] /\ runs'[j] = runs[j]
       /\ runs'[i] = runs[i] + 1
  BY <1>1, <1>7, <1>10 DEF QueueInv
<1>12. Undisturbed(i) => /\ "status" \in DOMAIN invocations'[i] /\ runs'[i] = 1
                         /\ invocations'[i] # NoFunction /\ invocations'[i].status = "QUEUED"
  <2>1. SUFFICES ASSUME Undisturbed(i)
        PROVE  /\ "status" \in DOMAIN invocations[i] /\ runs[i] = 0
               /\ invocations[i] # NoFunction /\ invocations[i].status = "QUEUED"
    BY <1>1, <1>11
  <2>2. invocations[i] # NoFunction /\ invocations[i].status = "QUEUED"
    BY <1>2, <1>7, <2>1 DEF QueueInv
  <2>3. \A u \in Workers : ~Marking(local[u], i)
    <3>1. ASSUME NEW u \in Workers, Marking(local[u], i) PROVE FALSE
      <4>1. u # t
        BY <1>8, <3>1
      <4>2. <<"queue", i>> \in local[u].touches /\ <<"queue", i>> \in s.touches
        BY <1>2, <1>7, <3>1, QueueMarks DEF QueueLocal
      <4>. QED BY <2>1, <4>1, <4>2 DEF QueueInv, Apart, Undisturbed
    <3>. QED BY <3>1
  <2>4. RunCount(i)
    BY <1>7 DEF QueueInv
  <2>. QED BY <2>1, <2>2, <2>3, <2>4 DEF RunCount
<1>13. r.todo # <<>> /\ r.todo # <<"queue">>
  BY <1>4, QueueTodos
<1>14. IsProcess(r) => r.ids \subseteq s.ids /\ (r.todo = <<"mark">> => i = Function!First(r.ids))
  BY <1>4
<1>15. Undisturbed(i) =>
            /\ "status" \in DOMAIN invocations'[i]
            /\ runs'[i] = IF invocations'[i].status = "QUEUED" /\ ~Marking(r, i) THEN 0 ELSE 1
            /\ IsProcess(r) /\ i \in r.ids => invocations'[i] # NoFunction /\ invocations'[i].status = "QUEUED"
  BY <1>9, <1>12
<1>. QED BY <1>2, <1>4, <1>5, <1>6, <1>7, <1>8, <1>11, <1>13, <1>14, <1>15, QueueProceeds

LEMMA QueueMarked ==
  ASSUME QueueInv, NEW t \in Workers, Function!ProcessMark(t)
  PROVE  QueueInv'
<1> DEFINE s == local[t]
<1>. PICK i : i = Function!First(s.ids)
  OBVIOUS
<1>1. /\ Function!At(t, "mark") /\ invocations' = [invocations EXCEPT ![i].status = s.status] /\ runs' = runs
      /\ IF s.ids = {i} THEN Function!Ends(t)
         ELSE Function!Continue(t, [s EXCEPT !.todo = <<"run">>, !.ids = @ \ {i}])
  BY DEF Function!ProcessMark
<1>2. QueueLocal(s) /\ IsProcess(s) /\ s.todo = <<"mark">> /\ DOMAIN s = {"todo", "touches", "ids", "status"}
  BY <1>1, QueueAt
<1>3. i \in s.ids /\ i \in Function!Numbers /\ Marking(s, i) /\ \A j : Marking(s, j) => j = i
  BY <1>2, FirstIn DEF QueueLocal, Marking
<1> DEFINE q == [s EXCEPT !.todo = <<"run">>, !.ids = @ \ {i}]
<1>. PICK r : r = IF s.ids = {i} THEN Idle ELSE q
  OBVIOUS
<1>4. Goes(t, r)
  BY <1>1, FunctionThreads
<1>5. DOMAIN q = DOMAIN s /\ q.todo = <<"run">> /\ q.ids = s.ids \ {i} /\ q.touches = s.touches
  BY <1>2
<1> HIDE DEF q
<1>6. s.ids # {i} => QueueLocal(q) /\ IsProcess(q)
  BY <1>2, <1>3, <1>5, QueueTodos DEF QueueLocal, IsProcess
<1>7. QueueLocal(r) /\ r.todo # <<"queue">> /\ r.touches \subseteq s.touches
  BY <1>5, <1>6, QueueIdle, QueueTodos DEF Aside
<1>8. IsProcess(r) => r.todo = <<"run">> /\ r.ids = s.ids \ {i}
  BY <1>5, QueueIdle
<1>9. ~Marking(r, i)
  BY <1>8, QueueTodos DEF Marking
<1>10. DOMAIN invocations = Function!Numbers
  BY DEF QueueInv
<1>11. /\ invocations' = [j \in Function!Numbers |-> invocations'[j]]
       /\ runs' = [j \in Function!Numbers |-> runs'[j]]
       /\ \A j \in Function!Numbers : j # i => invocations'[j] = invocations[j] /\ runs'[j] = runs[j]
  BY <1>1, <1>3, <1>10 DEF QueueInv
<1>12. Undisturbed(i) => "status" \in DOMAIN invocations'[i] /\ runs'[i] = 1 /\ invocations'[i].status # "QUEUED"
  <2>1. SUFFICES ASSUME Undisturbed(i)
        PROVE  "status" \in DOMAIN invocations'[i] /\ runs[i] = 1 /\ invocations'[i].status # "QUEUED"
    BY <1>1
  <2>2. invocations[i] # NoFunction
    BY <1>2, <1>3, <2>1 DEF QueueInv
  <2>3. RunCount(i)
    BY <1>3 DEF QueueInv
  <2>4. "status" \in DOMAIN invocations[i] /\ runs[i] = 1
    BY <1>3, <2>1, <2>2, <2>3 DEF RunCount
  <2>5. s.status # "QUEUED"
    BY <1>2 DEF QueueLocal
  <2>6. invocations'[i] = [invocations[i] EXCEPT !.status = s.status]
    BY <1>1, <1>3, <1>10
  <2>. QED BY <2>4, <2>5, <2>6
<1>13. r.todo = <<>> => ~IsProcess(r)
  BY <1>8, QueueTodos
<1>14. IsProcess(r) => r.ids \subseteq s.ids /\ i \notin r.ids /\ r.todo # <<"mark">>
  BY <1>8, QueueTodos
<1>. QED BY <1>2, <1>3, <1>4, <1>7, <1>9, <1>11, <1>12, <1>13, <1>14, QueueProceeds

LEMMA QueueServe ==
  ASSUME QueueInv, NEW t \in Workers, Function!Serve(t)
  PROVE  QueueInv'
<1>1. ASSUME NEW n \in Functions,
             \/ Function!RegisterCallable(t, n) \/ Function!RegisterSourceCheck(t, n) \/ Function!UpdateRequire(t, n)
             \/ Function!DeleteCallable(t, n) \/ Function!DeleteRequire(t, n)
             \/ Function!PublishRequire(t, n) \/ Function!InvokeAsyncRequire(t, n)
      PROVE  QueueInv'
  <2>1. CASE Function!RegisterCallable(t, n) \/ Function!DeleteCallable(t, n)
    <3>1. Function!Begin(t, Idle) /\ UNCHANGED <<invocations, runs>>
      BY <2>1 DEF Function!RegisterCallable, Function!DeleteCallable, Idle, Function!Idle
    <3>. QED BY <3>1, QueueCallable
  <2>2. CASE Function!RegisterSourceCheck(t, n)
    BY <2>2, QueueAsk, OnAside, LambdaPlainTodos DEF Function!RegisterSourceCheck
  <2>3. CASE Function!UpdateRequire(t, n)
    BY <2>3, QueueAsk, OnAside, LambdaPlainTodos DEF Function!UpdateRequire
  <2>4. CASE Function!DeleteRequire(t, n)
    BY <2>4, QueueAsk, OnAside, LambdaPlainTodos DEF Function!DeleteRequire
  <2>5. CASE Function!PublishRequire(t, n)
    <3> DEFINE q == [code |-> functions[n], version |-> 0]
    <3>1. Function!Ask(t, Function!Also(Function!On(n, Function!Shared(n, t), <<"count", "publish">>), q))
      BY <2>5 DEF Function!PublishRequire
    <3>2. "ids" \notin DOMAIN q
      BY LambdaFields
    <3> HIDE DEF q
    <3>3. Aside(Function!Also(Function!On(n, Function!Shared(n, t), <<"count", "publish">>), q))
      BY <3>2, AlsoAside, LambdaPlainTodos
    <3>. QED BY <3>1, <3>3, QueueAsk
  <2>. QED BY <1>1, <2>1, <2>2, <2>3, <2>4, <2>5, QueueAsked
<1>2. ASSUME NEW n \in Functions, NEW a \in AliasNames, NEW v,
             Function!CreateAliasCheck(t, n, a, v) \/ Function!ChangeAliasCheck(t, n, a, v)
      PROVE  QueueInv'
  <2> DEFINE q == [alias |-> <<n, a>>, version |-> v]
  <2>1. \E todo \in Seq(LambdaPlain) : Function!Ask(t, Function!Also(Function!On(n, {}, todo), q))
    BY <1>2, LambdaPlainTodos DEF Function!CreateAliasCheck, Function!ChangeAliasCheck, Function!OnAlias
  <2>2. "ids" \notin DOMAIN q
    BY LambdaFields
  <2> HIDE DEF q
  <2>. QED BY <2>1, <2>2, AlsoAside, QueueAsk
<1>3. CASE \E y \in Layers : Function!AddLayerSelect(t, y)
  <2>1. PICK y, v : Function!Ask(t, [todo |-> <<"layer">>, touches |-> {}, layer |-> y, version |-> v])
    BY <1>3 DEF Function!AddLayerSelect
  <2> DEFINE s == [todo |-> <<"layer">>, touches |-> {}, layer |-> y, version |-> v]
  <2>2. DOMAIN s = {"todo", "touches", "layer", "version"} /\ s.todo = <<"layer">>
    OBVIOUS
  <2>3. Function!Ask(t, s)
    BY <2>1
  <2> HIDE DEF s
  <2>4. Aside(s)
    BY <2>2, AsideOf, LambdaPlainTodos
  <2>. QED BY <2>3, <2>4, QueueAsk
<1>4. CASE \E N \in {{n} : n \in Functions} \cup {Functions} : Function!ProcessSelect(t, N)
  BY <1>4, QueueSelected
<1>5. CASE \/ Function!RegisterSource(t) \/ Function!UpdateConfiguration(t) \/ Function!Drop(t)
           \/ Function!DropVersions(t) \/ Function!DropAliases(t) \/ Function!Publish(t)
           \/ Function!CreateAlias(t) \/ Function!ChangeAlias(t) \/ Function!AddLayer(t)
  <2>1. UNCHANGED <<invocations, runs>>
    BY <1>5 DEF Function!RegisterSource, Function!UpdateConfiguration, Function!Drop, Function!DropVersions,
         Function!DropAliases, Function!Publish, Function!CreateAlias, Function!ChangeAlias, Function!AddLayer
  <2>2. \E step \in LambdaPlain : Function!Does(t, step)
    BY <1>5 DEF Function!RegisterSource, Function!UpdateConfiguration, Function!Drop, Function!DropVersions,
         Function!DropAliases, Function!Publish, Function!CreateAlias, Function!ChangeAlias, Function!AddLayer,
         LambdaPlain
  <2>. QED BY <2>1, <2>2, QueueDoes
<1>6. CASE \E n \in Functions :
          \/ Function!RegisterCallable(t, n) \/ Function!RegisterSourceCheck(t, n) \/ Function!UpdateRequire(t, n)
          \/ Function!DeleteCallable(t, n) \/ Function!DeleteRequire(t, n)
          \/ Function!PublishRequire(t, n) \/ Function!InvokeAsyncRequire(t, n)
          \/ \E a \in AliasNames : \/ Function!CreateAliasCheck(t, n, a, 1)
                                   \/ \E v \in {0, 2} : Function!ChangeAliasCheck(t, n, a, v)
  BY <1>1, <1>2, <1>6
<1>7. CASE \/ Function!PublishCount(t) \/ Function!InvokeAsync(t) \/ Function!ProcessRun(t)
           \/ Function!ProcessMark(t)
  BY <1>7, QueueCounts, QueueInserts, QueueRuns, QueueMarked
<1>. QED BY <1>3, <1>4, <1>5, <1>6, <1>7 DEF Function!Serve

LEMMA QueueNext ==
  ASSUME QueueInv, [Function!Next]_(Function!vars)
  PROVE  QueueInv'
<1>1. CASE UNCHANGED Function!vars
  <2>1. UNCHANGED <<local, begun, disturbed, invocations, runs>>
    BY <1>1 DEF Function!vars, Function!requests, Function!lambdavars
  <2>. QED BY <2>1 DEF QueueInv, Threads, Apart, Unused, Undisturbed, RunCount
<1>2. CASE \E t \in Workers : Function!Serve(t)
  BY <1>2, QueueServe
<1>3. CASE Function!Restart \/ \E t \in Workers : Function!Fails(t) /\ UNCHANGED Function!lambdavars
  <2>1. UNCHANGED <<invocations, runs>>
    BY <1>3 DEF Function!Restart, Function!lambdavars
  <2>2. Breaks
    BY <1>3, FunctionThreads DEF QueueInv, Function!Restart
  <2>. QED BY <2>1, <2>2, QueueBreaks
<1>. QED BY <1>1, <1>2, <1>3 DEF Function!Next

LEMMA QueueInit == InitRequests /\ Function!InitTables => QueueInv
<1> SUFFICES ASSUME InitRequests, Function!InitTables PROVE QueueInv
  OBVIOUS
<1>1. (\A t \in Workers : local[t] = Idle) /\ begun = 0
  BY DEF InitRequests
<1>2. Threads /\ Apart
  BY <1>1, QueueIdle DEF InitRequests, Threads, Apart
<1>3. \A t \in Workers : QueueLocal(local[t]) /\ ~IsProcess(local[t]) /\ \A i : ~Inserting(local[t], i)
  BY <1>1, QueueIdle DEF Aside, Inserting
<1>4. invocations = [i \in Function!Numbers |-> NoFunction] /\ runs = [i \in Function!Numbers |-> 0]
  BY DEF Function!InitTables
<1>. QED BY <1>1, <1>2, <1>3, <1>4 DEF QueueInv, RunCount

LEMMA QueueRunsOnce == QueueInv => Function!RunsOnce
<1> SUFFICES ASSUME QueueInv, NEW i \in Function!Numbers, invocations[i] # NoFunction,
                    Function!Quiet(<<"queue", i>>)
             PROVE  runs[i] = IF invocations[i].status = "QUEUED" THEN 0 ELSE 1
  BY DEF Function!RunsOnce
<1>1. Undisturbed(i) /\ \A t \in Workers : <<"queue", i>> \notin local[t].touches
  BY DEF Function!Quiet, Undisturbed
<1>2. \A t \in Workers : ~Marking(local[t], i)
  BY <1>1, QueueMarks
<1>3. RunCount(i)
  BY DEF QueueInv
<1>. QED BY <1>1, <1>2, <1>3 DEF RunCount

-----------------------------------------------------------------------------
(* lambdas.py:320-351: an invocation that no two requests of               *)
(* process_async_queue overlapped on, and none broke off at, ran as often  *)
(* as its status says.  The call is made before the UPDATE, so this needs  *)
(* that nobody else runs an invocation between the two.                    *)
THEOREM InvocationsRunOnce == Spec => []RunsOnce
<1> DEFINE Inv == service = "lambda" => QueueInv
<1>1. Init => Inv
  BY QueueInit DEF Init
<1>2. Inv /\ [Next]_vars => Inv'
  <2> SUFFICES ASSUME Inv, [Next]_vars, service' = "lambda" PROVE QueueInv'
    OBVIOUS
  <2>. QED BY ServiceStep, QueueNext
<1>3. Inv => RunsOnce
  BY QueueRunsOnce DEF RunsOnce
<1>. QED BY <1>1, <1>2, <1>3, PTL DEF Spec

-----------------------------------------------------------------------------
(* The table of the versions, and what a step makes of it. *)
Numbered == published = [n \in Functions |-> [v \in Function!Numbers |-> published[n][v]]]

LEMMA NumberedKeeps ==
  ASSUME Numbered, NEW f, NEW w, NEW new,
         published' = [published EXCEPT ![f][w] = IF @ = NoFunction THEN new ELSE @]
  PROVE  /\ Numbered'
         /\ \A n \in Functions : \A v \in Function!Versions(n) : published'[n][v] = published[n][v]
<1>1. DOMAIN published = Functions /\ \A n \in Functions : DOMAIN published[n] = Function!Numbers
  BY DEF Numbered
<1>2. CASE f \notin Functions
  BY <1>1, <1>2 DEF Numbered
<1>3. CASE f \in Functions
  <2> DEFINE row == [published[f] EXCEPT ![w] = IF @ = NoFunction THEN new ELSE @]
  <2>1. published' = [published EXCEPT ![f] = row]
    BY <1>1, <1>3
  <2>2. DOMAIN row = Function!Numbers
    BY <1>1, <1>3
  <2>3. row = [v \in Function!Numbers |-> row[v]]
    BY <2>2
  <2>4. \A v \in Function!Versions(f) : row[v] = published[f][v]
    BY <1>1, <1>3 DEF Function!Versions
  <2> HIDE DEF row
  <2>5. \A n \in Functions : published'[n] = IF n = f THEN row ELSE published[n]
    BY <1>1, <2>1
  <2>6. \A n \in Functions : published'[n] = [v \in Function!Numbers |-> published'[n][v]]
    BY <2>3, <2>5 DEF Numbered
  <2>7. DOMAIN published' = Functions /\ published' = [n \in Functions |-> published'[n]]
    BY <1>1, <2>1
  <2>8. Numbered'
    BY <2>6, <2>7 DEF Numbered
  <2>. QED BY <2>4, <2>5, <2>8
<1>. QED BY <1>2, <1>3

LEMMA NumberedNext ==
  ASSUME Numbered, [Function!Next]_(Function!vars)
  PROVE  /\ Numbered'
         /\ \A n \in Functions : \A v \in Function!Versions(n) : published'[n][v] \in {published[n][v], NoFunction}
<1>1. CASE published' = published
  BY <1>1 DEF Numbered
<1>2. CASE \E t \in Workers : Function!Publish(t)
  <2>1. PICK f, w, new : published' = [published EXCEPT ![f][w] = IF @ = NoFunction THEN new ELSE @]
    BY <1>2, ZenonT(30) DEF Function!Publish
  <2>. QED BY <2>1, NumberedKeeps
<1>3. CASE \E t \in Workers : Function!DropVersions(t)
  <2>1. PICK f : published' = [published EXCEPT ![f] = [v \in Function!Numbers |-> NoFunction]]
    BY <1>3 DEF Function!DropVersions
  <2>2. \A n \in Functions : published'[n] = IF n = f THEN [v \in Function!Numbers |-> NoFunction] ELSE published[n]
    BY <2>1 DEF Numbered
  <2>3. \A n \in Functions : published'[n] = [v \in Function!Numbers |-> published'[n][v]]
    BY <2>2 DEF Numbered
  <2>4. published' = [n \in Functions |-> published'[n]]
    BY <2>1 DEF Numbered
  <2>5. Numbered'
    BY <2>3, <2>4 DEF Numbered
  <2>. QED BY <2>2, <2>5 DEF Function!Versions
<1>4. CASE UNCHANGED Function!vars
  BY <1>1, <1>4 DEF Function!vars, Function!lambdavars, Function!functionTables
<1>5. ASSUME Function!Next, ~\E t \in Workers : Function!Publish(t) \/ Function!DropVersions(t)
      PROVE  published' = published
  <2>1. CASE Function!Restart \/ \E t \in Workers : Function!Fails(t) /\ UNCHANGED Function!lambdavars
    BY <2>1 DEF Function!Restart, Function!lambdavars, Function!functionTables
  <2>2. ASSUME NEW t \in Workers, Function!Serve(t) PROVE published' = published
    <3>1. \A s : Function!Ask(t, s) => published' = published
      BY DEF Function!Ask, Function!lambdavars, Function!functionTables
    <3>. QED BY <1>5, <2>2, <3>1 DEF Function!Serve, Function!RegisterCallable, Function!RegisterSourceCheck,
           Function!UpdateRequire, Function!DeleteCallable, Function!DeleteRequire, Function!PublishRequire,
           Function!InvokeAsyncRequire, Function!CreateAliasCheck, Function!ChangeAliasCheck,
           Function!AddLayerSelect, Function!ProcessSelect, Function!RegisterSource, Function!UpdateConfiguration,
           Function!Drop, Function!DropAliases, Function!PublishCount, Function!CreateAlias, Function!ChangeAlias,
           Function!AddLayer, Function!InvokeAsync, Function!ProcessRun, Function!ProcessMark,
           Function!lambdavars, Function!functionTables
  <2>. QED BY <1>5, <2>1, <2>2 DEF Function!Next
<1>. QED BY <1>1, <1>2, <1>3, <1>4, <1>5

(* lambdas.py:139-151, 199-215: the code a number names is the code it was *)
(* published with until the function is deleted, also when two requests    *)
(* counted the same versions.                                              *)
THEOREM NumbersKeepTheirCode == Spec => VersionsImmutable
<1> DEFINE Inv == Numbered
           Keeps == \A n \in Functions : \A v \in Function!Versions(n) :
                       published'[n][v] \in {published[n][v], NoFunction}
<1>1. Init => Inv
  BY DEF Init, Function!InitTables, Numbered
<1>2. ASSUME Inv, [Next]_vars PROVE Inv' /\ Keeps
  <2>1. CASE published' = published
    BY <1>2, <2>1 DEF Numbered
  <2>2. CASE [Function!Next]_(Function!vars)
    BY <1>2, <2>2, NumberedNext
  <2>3. CASE published' # published
    <3>1. Next /\ service = "lambda"
      BY <1>2, <2>3 DEF Next, vars, lambdavars
    <3>. QED BY <1>2, <3>1, ServiceStep, NumberedNext
  <2>. QED BY <2>1, <2>3, <2>2
<1>3. Inv /\ [Next]_vars => Inv' /\ [Keeps]_(Function!vars)
  BY <1>2
<1>. QED BY <1>1, <1>3, PTL DEF Spec, VersionsImmutable, Function!VersionsImmutable

LEMMA WatchingThreads ==
  /\ \A t, s : Watching!Begin(t, s) => Begins(t, s)
  /\ \A t, s : Watching!Continue(t, s) => Goes(t, s)
  /\ \A t : Watching!Advance(t) => Goes(t, Rest(local[t]))
  /\ \A t : Watching!Ends(t) => Goes(t, Idle)
  /\ Threads /\ (Watching!Crash \/ \E t \in Workers : Watching!Fails(t)) => Breaks
<1>1. /\ \A t, s : Watching!Begin(t, s) => Begins(t, s)
      /\ \A t, s : Watching!Continue(t, s) => Goes(t, s)
  BY DEF Watching!Begin, Begins, Watching!Continue, Goes, Idle, Watching!Idle
<1>2. /\ \A t : Watching!Advance(t) => Goes(t, Rest(local[t]))
      /\ \A t : Watching!Ends(t) => Goes(t, Idle)
  BY <1>1 DEF Watching!Advance, Rest, Watching!Ends, Idle, Watching!Idle
<1>3. ASSUME Threads, NEW S, Watching!BreakOff(S) PROVE Breaks
  <2>1. /\ local' = [u \in Workers |-> IF u \in S THEN Idle ELSE local[u]]
        /\ disturbed' = disturbed \cup UNION {local[u].touches : u \in S} /\ begun' = begun
    BY <1>3 DEF Watching!BreakOff, Idle, Watching!Idle
  <2>2. \A u \in S : local[u].touches \subseteq disturbed'
    BY <2>1
  <2>. QED BY <2>1, <2>2 DEF Breaks
<1>. QED BY <1>1, <1>2, <1>3 DEF Watching!Crash, Watching!Fails

(* CloudWatch: what makes or deletes a log group, or deletes a stream, has *)
(* all rows of the group for itself, what adds to it shares them.          *)
GroupMake == <<"create group">>
GroupAll == <<"drop streams", "drop events", "drop group">>
GroupMid == <<"drop events", "drop group">>
GroupLast == <<"drop group">>
StreamAll == <<"drop events", "drop streams">>
StreamLast == <<"drop streams">>
StreamTodo == <<"create stream">>
EventTodo == <<"event">>

WatchOther == {"datum", "alarm", "delete", "state", "history"}

IsGroup(s) == "group" \in DOMAIN s
IsStream(s) == "stream" \in DOMAIN s
IsEvent(s) == "event" \in DOMAIN s /\ "stream" \notin DOMAIN s

LogLocal(t, s) ==
    /\ {"todo", "touches"} \subseteq DOMAIN s
    /\ IsGroup(s) =>
          /\ {s.group} \X Workers \subseteq s.touches
          /\ \/ DOMAIN s = {"todo", "touches", "at", "group"} /\ s.todo = GroupMake
             \/ /\ DOMAIN s = {"todo", "touches", "at", "group", "streams"}
                /\ \/ s.todo \in {GroupAll, GroupMid, GroupLast} /\ s.streams = LogStreams
                   \/ s.todo \in {StreamAll, StreamLast}
    /\ IsStream(s) =>
          /\ DOMAIN s = {"todo", "touches", "at", "stream"} /\ s.todo = StreamTodo
          /\ s.stream \in LogGroups \X LogStreams /\ <<s.stream[1], t>> \in s.touches
    /\ IsEvent(s) =>
          /\ DOMAIN s = {"todo", "touches", "at", "event"} /\ s.todo = EventTodo
          /\ s.event[2] \in LogStreams /\ <<s.event[1], t>> \in s.touches
    /\ ~IsGroup(s) /\ ~IsStream(s) /\ ~IsEvent(s) => s.todo \in Seq(WatchOther)

DropsOf(s, g) == IsGroup(s) /\ s.group = g
MakesStream(s, g) == IsStream(s) /\ s.stream[1] = g
PutsEvent(s, g) == IsEvent(s) /\ s.event[1] = g

(* A deletion of group g has deleted its streams and not yet its events.   *)
Between(s, g) == DropsOf(s, g) /\ s.todo = GroupMid

(* What a deletion relies on having done. *)
DroppedSoFar(s, g, S, E) ==
    /\ s.todo \in {GroupMid, GroupLast} => \A x \in LogStreams : <<g, x>> \notin S
    /\ s.todo = GroupLast => \A e \in E : e[1] # g
    /\ s.todo = StreamLast => \A e \in E : e[1] = g => e[2] \notin s.streams

(* Group g among the groups G, with the streams S and the events E.        *)
LogOwned(g, G, S, E, L) ==
    /\ \A x \in LogStreams : <<g, x>> \in S => g \in G
    /\ (\A t \in Workers : ~Between(L[t], g)) => \A e \in E : e[1] = g => <<g, e[2]>> \in S
    /\ \A t \in Workers :
          /\ MakesStream(L[t], g) => g \in G
          /\ PutsEvent(L[t], g) => <<g, L[t].event[2]>> \in S
          /\ DropsOf(L[t], g) => DroppedSoFar(L[t], g, S, E)

LogShape ==
    /\ Threads /\ Apart
    /\ logStreams \subseteq LogGroups \X LogStreams /\ \A e \in logEvents : e[2] \in LogStreams
    /\ \A t \in Workers : LogLocal(t, local[t])

LogsInv == \A g \in LogGroups : Calm(g, disturbed) => LogOwned(g, logGroups, logStreams, logEvents, local)

LogInv == LogShape /\ LogsInv

LEMMA LogTodos ==
  /\ GroupMake # <<>> /\ Head(GroupMake) = "create group" /\ Tail(GroupMake) = <<>>
  /\ GroupAll # <<>> /\ Head(GroupAll) = "drop streams" /\ Tail(GroupAll) = GroupMid
  /\ GroupMid # <<>> /\ Head(GroupMid) = "drop events" /\ Tail(GroupMid) = GroupLast
  /\ GroupLast # <<>> /\ Head(GroupLast) = "drop group" /\ Tail(GroupLast) = <<>>
  /\ StreamAll # <<>> /\ Head(StreamAll) = "drop events" /\ Tail(StreamAll) = StreamLast
  /\ StreamLast # <<>> /\ Head(StreamLast) = "drop streams" /\ Tail(StreamLast) = <<>>
  /\ StreamTodo # <<>> /\ Head(StreamTodo) = "create stream" /\ Tail(StreamTodo) = <<>>
  /\ EventTodo # <<>> /\ Head(EventTodo) = "event" /\ Tail(EventTodo) = <<>>
<1>1. GroupMake # <<>> /\ Head(GroupMake) = "create group" /\ Tail(GroupMake) = <<>>
  BY Tails DEF GroupMake
<1>3. GroupAll # <<>> /\ Head(GroupAll) = "drop streams" /\ Tail(GroupAll) = GroupMid
  <2>1. \A a, b, c : <<a, b, c>> # <<>> /\ Head(<<a, b, c>>) = a /\ Tail(<<a, b, c>>) = <<b, c>>
    OBVIOUS
  <2>. PICK a, b, c : a = "drop streams" /\ b = "drop events" /\ c = "drop group"
    OBVIOUS
  <2>2. GroupAll = <<a, b, c>> /\ GroupMid = <<b, c>>
    BY DEF GroupAll, GroupMid
  <2>. QED BY <2>1, <2>2
<1>4. GroupMid # <<>> /\ Head(GroupMid) = "drop events" /\ Tail(GroupMid) = GroupLast
  BY Tails DEF GroupMid, GroupLast
<1>5. GroupLast # <<>> /\ Head(GroupLast) = "drop group" /\ Tail(GroupLast) = <<>>
  BY Tails DEF GroupLast
<1>2. /\ StreamAll # <<>> /\ Head(StreamAll) = "drop events" /\ Tail(StreamAll) = StreamLast
      /\ StreamLast # <<>> /\ Head(StreamLast) = "drop streams" /\ Tail(StreamLast) = <<>>
      /\ StreamTodo # <<>> /\ Head(StreamTodo) = "create stream" /\ Tail(StreamTodo) = <<>>
      /\ EventTodo # <<>> /\ Head(EventTodo) = "event" /\ Tail(EventTodo) = <<>>
  BY Tails DEF StreamAll, StreamLast, StreamTodo, EventTodo
<1>. QED BY <1>1, <1>2, <1>3, <1>4, <1>5

LogSteps == {"create group", "drop streams", "drop events", "drop group", "create stream", "event"}

LEMMA LogStepsApart ==
  /\ \A step \in LogSteps : step \notin WatchOther
  /\ "create group" # "drop streams" /\ "create group" # "drop events" /\ "create group" # "drop group"
  /\ "create group" # "create stream" /\ "create group" # "event"
  /\ "drop streams" # "drop events" /\ "drop streams" # "drop group" /\ "drop streams" # "create stream"
  /\ "drop streams" # "event" /\ "drop events" # "drop group" /\ "drop events" # "create stream"
  /\ "drop events" # "event" /\ "drop group" # "create stream" /\ "drop group" # "event" /\ "create stream" # "event"
<1>1. \A step \in LogSteps : step \notin WatchOther
  BY DEF LogSteps, WatchOther
<1>2. /\ "create group" # "drop streams" /\ "create group" # "drop events" /\ "create group" # "drop group"
      /\ "create group" # "create stream" /\ "create group" # "event"
      /\ "drop streams" # "drop events" /\ "drop streams" # "drop group" /\ "drop streams" # "create stream"
      /\ "drop streams" # "event" /\ "drop events" # "drop group" /\ "drop events" # "create stream"
      /\ "drop events" # "event" /\ "drop group" # "create stream" /\ "drop group" # "event" /\ "create stream" # "event"
  OBVIOUS
<1>. QED BY <1>1, <1>2

LEMMA LogTodosApart ==
  /\ GroupAll \notin {GroupMid, GroupLast, StreamLast} /\ GroupMake \notin {GroupMid, GroupLast, StreamLast}
  /\ StreamAll \notin {GroupMid, GroupLast, StreamLast}
  /\ GroupMid \notin {GroupLast, StreamLast} /\ GroupLast \notin {GroupMid, StreamLast}
  /\ StreamLast \notin {GroupMid, GroupLast, GroupAll, GroupMake, StreamAll}
<1>1. StreamLast # GroupAll
  <2>1. GroupMid # <<>>
    BY LogTodos
  <2>. QED BY <2>1, LogTodos
<1>2. StreamAll # GroupMid
  <2>1. GroupLast # StreamLast
    BY LogTodos, LogStepsApart
  <2>. QED BY <2>1, LogTodos
<1>. QED BY <1>1, <1>2, LogTodos, LogStepsApart

LEMMA LogIdle == \A t : LogLocal(t, Idle) /\ ~IsGroup(Idle) /\ ~IsStream(Idle) /\ ~IsEvent(Idle)
<1>1. Idle.todo = <<>> /\ DOMAIN Idle = {"todo", "touches"}
  BY DEF Idle
<1>2. <<>> \in Seq(WatchOther)
  OBVIOUS
<1>3. ~IsGroup(Idle) /\ ~IsStream(Idle) /\ ~IsEvent(Idle)
  BY <1>1 DEF IsGroup, IsStream, IsEvent
<1>. QED BY <1>1, <1>2, <1>3 DEF LogLocal

(* Which request has the statement next. *)
LEMMA LogAt ==
  ASSUME LogShape, NEW t \in Workers, NEW step, Watching!At(t, step)
  PROVE  /\ LogLocal(t, local[t])
         /\ step = "create group" => IsGroup(local[t]) /\ local[t].todo = GroupMake
         /\ step = "drop streams" => IsGroup(local[t]) /\ local[t].todo \in {GroupAll, StreamLast}
         /\ step = "drop events" => IsGroup(local[t]) /\ local[t].todo \in {GroupMid, StreamAll}
         /\ step = "drop group" => IsGroup(local[t]) /\ local[t].todo = GroupLast
         /\ step = "create stream" => IsStream(local[t]) /\ local[t].todo = StreamTodo
         /\ step = "event" => IsEvent(local[t]) /\ local[t].todo = EventTodo
         /\ step \in WatchOther =>
               ~IsGroup(local[t]) /\ ~IsStream(local[t]) /\ ~IsEvent(local[t]) /\ local[t].todo \in Seq(WatchOther)
<1> DEFINE s == local[t]
<1>1. LogLocal(t, s) /\ s.todo # <<>> /\ Head(s.todo) = step
  BY DEF LogShape, Watching!At
<1>2. s.todo \in Seq(WatchOther) => step \in WatchOther
  BY <1>1
<1>3. \A x \in {"create group", "drop streams", "drop events", "drop group", "create stream", "event"} : x \notin WatchOther
  BY LogStepsApart DEF LogSteps
<1>4. CASE IsGroup(s)
  <2>1. s.todo \in {GroupMake, GroupAll, GroupMid, GroupLast, StreamAll, StreamLast}
    BY <1>1, <1>4 DEF LogLocal
  <2>. QED BY <1>1, <1>3, <1>4, <2>1, LogTodos, LogStepsApart
<1>5. CASE IsStream(s)
  <2>1. s.todo = StreamTodo
    BY <1>1, <1>5 DEF LogLocal
  <2>. QED BY <1>1, <1>3, <1>5, <2>1, LogTodos, LogStepsApart
<1>6. CASE IsEvent(s)
  <2>1. s.todo = EventTodo
    BY <1>1, <1>6 DEF LogLocal
  <2>. QED BY <1>1, <1>3, <1>6, <2>1, LogTodos, LogStepsApart
<1>7. CASE ~IsGroup(s) /\ ~IsStream(s) /\ ~IsEvent(s)
  <2>1. s.todo \in Seq(WatchOther)
    BY <1>1, <1>7 DEF LogLocal
  <2>. QED BY <1>1, <1>2, <1>3, <1>7, <2>1
<1>. QED BY <1>4, <1>5, <1>6, <1>7

(* Who makes or deletes meets nobody, or it is disturbed. *)
LEMMA LogAlone ==
  ASSUME LogShape, NEW g, Calm(g, disturbed), NEW t \in Workers, DropsOf(local[t], g)
  PROVE  \A u \in Workers : u # t => ~MakesStream(local[u], g) /\ ~PutsEvent(local[u], g) /\ ~DropsOf(local[u], g)
<1>1. ASSUME NEW u \in Workers, u # t, MakesStream(local[u], g) \/ PutsEvent(local[u], g) \/ DropsOf(local[u], g)
      PROVE  FALSE
  <2>1. {g} \X Workers \subseteq local[t].touches
    BY DEF LogShape, LogLocal, DropsOf
  <2>2. <<g, u>> \in local[u].touches
    BY <1>1 DEF LogShape, LogLocal, DropsOf, MakesStream, PutsEvent
  <2>3. <<g, u>> \in local[t].touches
    BY <2>1
  <2>4. <<g, u>> \notin disturbed
    BY DEF Calm
  <2>. QED BY <1>1, <2>2, <2>3, <2>4 DEF LogShape, Apart
<1>. QED BY <1>1

(* A thread goes on, ends or begins. *)
LEMMA LogGoesOn ==
  ASSUME LogShape, NEW t \in Workers, NEW r, Goes(t, r), LogLocal(t, r), r.touches \subseteq local[t].touches,
         logStreams' \subseteq LogGroups \X LogStreams, \A e \in logEvents' : e[2] \in LogStreams
  PROVE  /\ LogShape' /\ disturbed' = disturbed
         /\ \A u \in Workers : local'[u] = IF u = t THEN IF r.todo = <<>> THEN Idle ELSE r ELSE local[u]
<1>1. Threads' /\ Apart' /\ Only(t, IF r.todo = <<>> THEN Idle ELSE r) /\ disturbed' = disturbed
  BY GoesOnly, GoesApart DEF LogShape, Goes
<1>2. \A u \in Workers : local'[u] = IF u = t THEN IF r.todo = <<>> THEN Idle ELSE r ELSE local[u]
  BY <1>1 DEF Only
<1>3. \A u \in Workers : LogLocal(u, local'[u])
  BY <1>2, LogIdle DEF LogShape
<1>. QED BY <1>1, <1>2, <1>3 DEF LogShape

LEMMA LogEnds ==
  ASSUME LogShape, NEW t \in Workers, NEW step, Watching!Does(t, step), Tail(local[t].todo) = <<>>,
         logStreams' \subseteq LogGroups \X LogStreams, \A e \in logEvents' : e[2] \in LogStreams
  PROVE  /\ LogShape' /\ disturbed' = disturbed
         /\ \A u \in Workers : local'[u] = IF u = t THEN Idle ELSE local[u]
<1>1. Goes(t, Rest(local[t])) /\ "todo" \in DOMAIN local[t] /\ "touches" \in DOMAIN local[t]
  BY WatchingThreads DEF Watching!Does, LogShape, LogLocal
<1>2. Rest(local[t]).todo = <<>>
  BY <1>1, RestFields
<1>3. Rest(local[t]).touches = local[t].touches
  BY <1>1 DEF Rest
<1>4. Threads' /\ Only(t, Idle) /\ disturbed' = disturbed
  BY <1>1, <1>2, GoesOnly DEF LogShape, Goes
<1>5. Apart'
  BY <1>1, <1>3, GoesApart DEF LogShape
<1>6. \A u \in Workers : local'[u] = IF u = t THEN Idle ELSE local[u]
  BY <1>4 DEF Only
<1>7. \A u \in Workers : LogLocal(u, local'[u])
  BY <1>6, LogIdle DEF LogShape
<1>. QED BY <1>4, <1>5, <1>6, <1>7 DEF LogShape

LEMMA LogAsk ==
  ASSUME LogShape, NEW t \in Workers, NEW s, Watching!Ask(t, s), LogLocal(t, s)
  PROVE  /\ LogShape' /\ disturbed \subseteq disturbed' /\ UNCHANGED <<logGroups, logStreams, logEvents>>
         /\ local[t] = Idle /\ \A u \in Workers : local'[u] = IF u = t THEN s ELSE local[u]
<1>1. Begins(t, s) /\ UNCHANGED <<logGroups, logStreams, logEvents>>
  BY WatchingThreads DEF Watching!Ask, Watching!cwvars, Watching!logtables
<1>2. Threads' /\ Apart' /\ Only(t, s) /\ disturbed \subseteq disturbed' /\ local[t] = Idle
  BY <1>1, BeginsOnly, BeginsApart DEF LogShape, Begins
<1>3. \A u \in Workers : local'[u] = IF u = t THEN s ELSE local[u]
  BY <1>2 DEF Only
<1>4. \A u \in Workers : LogLocal(u, local'[u])
  BY <1>3 DEF LogShape
<1>. QED BY <1>1, <1>2, <1>3, <1>4 DEF LogShape

(* A request gives way to one that relies on nothing yet; a deletion that  *)
(* is half way does so only disturbed.                                     *)
GivesWay(s, r, D) ==
    /\ ~IsStream(r) /\ ~IsEvent(r)
    /\ IsGroup(r) => r.todo \notin {GroupMid, GroupLast, StreamLast}
    /\ IsGroup(s) /\ s.todo = GroupMid => s.touches \subseteq D

LEMMA LogAside ==
  ASSUME LogInv, LogShape', disturbed \subseteq disturbed', logGroups \subseteq logGroups',
         UNCHANGED <<logStreams, logEvents>>,
         \A u \in Workers : local'[u] = local[u] \/ GivesWay(local[u], local'[u], disturbed')
  PROVE  LogInv'
<1>1. ASSUME NEW g \in LogGroups, Calm(g, disturbed')
      PROVE  LogOwned(g, logGroups', logStreams, logEvents, local')
  <2>1. LogOwned(g, logGroups, logStreams, logEvents, local)
    BY <1>1 DEF LogInv, LogsInv, Calm
  <2>2. \A x \in LogStreams : <<g, x>> \in logStreams => g \in logGroups'
    BY <2>1 DEF LogOwned
  <2>3. ASSUME NEW u \in Workers, Between(local[u], g) PROVE Between(local'[u], g)
    <3>1. {g} \X Workers \subseteq local[u].touches /\ IsGroup(local[u]) /\ local[u].todo = GroupMid
      BY <2>3 DEF Between, DropsOf, LogInv, LogShape, LogLocal
    <3>2. <<g, u>> \in local[u].touches /\ <<g, u>> \notin disturbed'
      BY <1>1, <3>1 DEF Calm
    <3>3. ~(local[u].touches \subseteq disturbed')
      BY <3>2
    <3>. QED BY <2>3, <3>1, <3>3 DEF GivesWay
  <2>4. (\A t \in Workers : ~Between(local'[t], g)) => \A e \in logEvents : e[1] = g => <<g, e[2]>> \in logStreams
    BY <2>1, <2>3 DEF LogOwned
  <2>5. ASSUME NEW u \in Workers
        PROVE  /\ MakesStream(local'[u], g) => g \in logGroups'
               /\ PutsEvent(local'[u], g) => <<g, local'[u].event[2]>> \in logStreams
               /\ DropsOf(local'[u], g) => DroppedSoFar(local'[u], g, logStreams, logEvents)
    <3>1. CASE local'[u] = local[u]
      BY <2>1, <3>1 DEF LogOwned
    <3>2. CASE GivesWay(local[u], local'[u], disturbed')
      BY <3>2 DEF GivesWay, MakesStream, PutsEvent, DropsOf, DroppedSoFar
    <3>. QED BY <3>1, <3>2
  <2>. QED BY <2>2, <2>4, <2>5 DEF LogOwned
<1>. QED BY <1>1 DEF LogInv, LogsInv

LEMMA LogBreaks ==
  ASSUME LogInv, Breaks, UNCHANGED <<logGroups, logStreams, logEvents>>
  PROVE  LogInv'
<1>1. /\ Threads' /\ Apart' /\ disturbed \subseteq disturbed'
      /\ \A u \in Workers : local'[u] = local[u] \/ (local'[u] = Idle /\ local[u].touches \subseteq disturbed')
  BY BreaksThreads, BreaksApart DEF LogInv, LogShape, Breaks
<1>2. \A u \in Workers : LogLocal(u, local'[u])
  BY <1>1, LogIdle DEF LogInv, LogShape
<1>3. LogShape'
  BY <1>1, <1>2 DEF LogInv, LogShape
<1>4. \A u \in Workers : local'[u] = local[u] \/ GivesWay(local[u], local'[u], disturbed')
  BY <1>1, LogIdle DEF GivesWay
<1>. QED BY <1>1, <1>3, <1>4, LogAside

(* What happens for other groups is of no account. *)
About(s, g) == MakesStream(s, g) \/ PutsEvent(s, g) \/ DropsOf(s, g)

LEMMA LogElsewhere ==
  ASSUME NEW g, NEW G, NEW S, NEW E, NEW L, NEW G1, NEW S1, NEW E1, NEW L1,
         LogOwned(g, G, S, E, L), g \in G <=> g \in G1,
         \A x : <<g, x>> \in S <=> <<g, x>> \in S1,
         \A e : e[1] = g => (e \in E <=> e \in E1),
         \A u \in Workers : L1[u] = L[u] \/ (~About(L[u], g) /\ ~About(L1[u], g))
  PROVE  LogOwned(g, G1, S1, E1, L1)
<1>1. \A x \in LogStreams : <<g, x>> \in S1 => g \in G1
  BY DEF LogOwned
<1>2. \A u \in Workers : Between(L[u], g) => Between(L1[u], g)
  BY DEF About, Between
<1>3. (\A t \in Workers : ~Between(L1[t], g)) => \A e \in E1 : e[1] = g => <<g, e[2]>> \in S1
  BY <1>2 DEF LogOwned
<1>4. ASSUME NEW u \in Workers
      PROVE  /\ MakesStream(L1[u], g) => g \in G1
             /\ PutsEvent(L1[u], g) => <<g, L1[u].event[2]>> \in S1
             /\ DropsOf(L1[u], g) => DroppedSoFar(L1[u], g, S1, E1)
  <2>1. CASE ~About(L1[u], g)
    BY <2>1 DEF About
  <2>2. CASE L1[u] = L[u]
    <3>1. /\ MakesStream(L[u], g) => g \in G
          /\ PutsEvent(L[u], g) => <<g, L[u].event[2]>> \in S
          /\ DropsOf(L[u], g) => DroppedSoFar(L[u], g, S, E)
      BY DEF LogOwned
    <3>2. DroppedSoFar(L[u], g, S, E) => DroppedSoFar(L[u], g, S1, E1)
      BY DEF DroppedSoFar
    <3>. QED BY <2>2, <3>1, <3>2
  <2>. QED BY <2>1, <2>2
<1>. QED BY <1>1, <1>3, <1>4 DEF LogOwned

(* Of a group that one request has for itself. *)
LEMMA LogSole ==
  ASSUME NEW g, NEW G, NEW S, NEW E, NEW L, NEW t \in Workers,
         \A u \in Workers : u # t => ~About(L[u], g),
         ~MakesStream(L[t], g), ~PutsEvent(L[t], g), DropsOf(L[t], g) => DroppedSoFar(L[t], g, S, E),
         \A x \in LogStreams : <<g, x>> \in S => g \in G,
         ~Between(L[t], g) => \A e \in E : e[1] = g => <<g, e[2]>> \in S
  PROVE  LogOwned(g, G, S, E, L)
  BY DEF LogOwned, About

(* A request that drops rows goes on to the next table. *)
LEMMA LogRest ==
  ASSUME LogShape, NEW t \in Workers, NEW step, Watching!Does(t, step), IsGroup(local[t]),
         local[t].todo \in {GroupAll, GroupMid, StreamAll},
         logStreams' \subseteq LogGroups \X LogStreams, \A e \in logEvents' : e[2] \in LogStreams
  PROVE  \E r : /\ IsGroup(r) /\ ~IsStream(r) /\ ~IsEvent(r) /\ r.todo = Tail(local[t].todo)
                /\ r.group = local[t].group /\ r.streams = local[t].streams
                /\ LogShape' /\ disturbed' = disturbed
                /\ \A u \in Workers : local'[u] = IF u = t THEN r ELSE local[u]
<1> DEFINE s == local[t]  q == Rest(s)
<1>1. LogLocal(t, s) /\ Goes(t, q)
  BY WatchingThreads DEF Watching!Does, LogShape
<1>2. s.todo # GroupMake
  BY LogTodosApart, LogTodos, LogStepsApart
<1>3. /\ DOMAIN s = {"todo", "touches", "at", "group", "streams"} /\ {s.group} \X Workers \subseteq s.touches
      /\ s.todo \in {GroupAll, GroupMid} => s.streams = LogStreams
  <2>1. s.todo \notin {GroupAll, GroupMid} \/ s.todo \notin {StreamAll, StreamLast}
    BY LogTodosApart, LogTodos, LogStepsApart
  <2>. QED BY <1>1, <1>2, <2>1 DEF LogLocal
<1>4. /\ DOMAIN q = DOMAIN s /\ q.todo = Tail(s.todo) /\ q.group = s.group /\ q.streams = s.streams
      /\ q.touches = s.touches
  <2>1. q.group = s.group /\ q.streams = s.streams /\ q.touches = s.touches
    BY <1>3 DEF Rest
  <2>. QED BY <1>3, <2>1, RestFields
<1>5. /\ s.todo \in {GroupAll, GroupMid} => q.todo \in {GroupMid, GroupLast}
      /\ s.todo = StreamAll => q.todo = StreamLast
      /\ q.todo # <<>>
  BY <1>4, LogTodos
<1> HIDE DEF q
<1>6. IsGroup(q) /\ ~IsStream(q) /\ ~IsEvent(q)
  BY <1>3, <1>4 DEF IsGroup, IsStream, IsEvent
<1>7. LogLocal(t, q)
  BY <1>3, <1>4, <1>5, <1>6 DEF LogLocal
<1>8. LogShape' /\ disturbed' = disturbed /\ \A u \in Workers : local'[u] = IF u = t THEN q ELSE local[u]
  <2>1. q.touches \subseteq local[t].touches
    BY <1>4
  <2>2. /\ LogShape' /\ disturbed' = disturbed
        /\ \A u \in Workers : local'[u] = IF u = t THEN IF q.todo = <<>> THEN Idle ELSE q ELSE local[u]
    BY <1>1, <1>7, <2>1, LogGoesOn
  <2>. QED BY <1>5, <2>2
<1>. QED BY <1>4, <1>6, <1>8

(* delete_log_group: the streams, then the events, then the group. *)
LEMMA LogGroupDropsStreams ==
  ASSUME LogInv, NEW t \in Workers, Watching!DropStreams(t), local[t].todo = GroupAll
  PROVE  LogInv'
<1>. PICK s : s = local[t]
  OBVIOUS
<1>1. /\ Watching!Does(t, "drop streams") /\ UNCHANGED <<logGroups, logEvents>>
      /\ logStreams' = logStreams \ ({s.group} \X s.streams)
  BY DEF Watching!DropStreams
<1>2. IsGroup(s) /\ LogLocal(t, s)
  BY <1>1, LogAt DEF Watching!Does, LogInv
<1>3. s.streams = LogStreams
  BY <1>2, LogTodosApart, LogTodos, LogStepsApart DEF LogLocal
<1>4. PICK r : /\ IsGroup(r) /\ ~IsStream(r) /\ ~IsEvent(r) /\ r.todo = GroupMid /\ r.group = s.group
               /\ LogShape' /\ disturbed' = disturbed
               /\ \A u \in Workers : local'[u] = IF u = t THEN r ELSE local[u]
  <2>1. logStreams' \subseteq LogGroups \X LogStreams /\ \A e \in logEvents' : e[2] \in LogStreams
    BY <1>1 DEF LogInv, LogShape
  <2>2. Tail(s.todo) = GroupMid
    BY LogTodos
  <2>. QED BY <1>1, <1>2, <2>1, <2>2, LogRest DEF LogInv
<1>5. ASSUME NEW g \in LogGroups, Calm(g, disturbed)
      PROVE  LogOwned(g, logGroups, logStreams', logEvents, local')
  <2>1. LogOwned(g, logGroups, logStreams, logEvents, local)
    BY <1>5 DEF LogInv, LogsInv
  <2>2. CASE g # s.group
    <3>1. \A u \in Workers : local'[u] = local[u] \/ (~About(local[u], g) /\ ~About(local'[u], g))
      <4>1. ~About(s, g) /\ ~About(r, g)
        BY <1>2, <1>4, <2>2 DEF About, MakesStream, PutsEvent, DropsOf, LogLocal, IsGroup, IsStream, IsEvent
      <4>. QED BY <1>4, <4>1
    <3>2. \A x : <<g, x>> \in logStreams <=> <<g, x>> \in logStreams'
      BY <1>1, <2>2
    <3>. QED BY <2>1, <3>1, <3>2, LogElsewhere
  <2>3. CASE g = s.group
    <3>1. \A u \in Workers : u # t => ~About(local'[u], g)
      BY <1>2, <1>4, <1>5, <2>3, LogAlone DEF LogInv, About, DropsOf
    <3>2. \A x \in LogStreams : <<g, x>> \notin logStreams'
      BY <1>1, <1>3, <2>3
    <3>3. /\ ~MakesStream(local'[t], g) /\ ~PutsEvent(local'[t], g) /\ Between(local'[t], g)
          /\ DroppedSoFar(local'[t], g, logStreams', logEvents)
      BY <1>4, <2>3, <3>2, LogTodosApart DEF MakesStream, PutsEvent, Between, DropsOf, DroppedSoFar
    <3>. QED BY <3>1, <3>2, <3>3, LogSole
  <2>. QED BY <2>2, <2>3
<1>. QED BY <1>1, <1>4, <1>5 DEF LogInv, LogsInv

LEMMA LogGroupDropsEvents ==
  ASSUME LogInv, NEW t \in Workers, Watching!DropEvents(t)
  PROVE  LogInv'
<1>. PICK s : s = local[t]
  OBVIOUS
<1>1. /\ Watching!Does(t, "drop events") /\ UNCHANGED <<logGroups, logStreams>>
      /\ logEvents' = {e \in logEvents : ~(e[1] = s.group /\ e[2] \in s.streams)}
  BY DEF Watching!DropEvents
<1>2. IsGroup(s) /\ LogLocal(t, s) /\ s.todo \in {GroupMid, StreamAll}
  BY <1>1, LogAt DEF Watching!Does, LogInv
<1>3. s.todo = GroupMid => s.streams = LogStreams
  BY <1>2, LogTodosApart, LogTodos, LogStepsApart DEF LogLocal
<1>4. PICK r : /\ IsGroup(r) /\ ~IsStream(r) /\ ~IsEvent(r) /\ r.todo = Tail(s.todo) /\ r.group = s.group
               /\ r.streams = s.streams /\ LogShape' /\ disturbed' = disturbed
               /\ \A u \in Workers : local'[u] = IF u = t THEN r ELSE local[u]
  <2>1. logStreams' \subseteq LogGroups \X LogStreams /\ \A e \in logEvents' : e[2] \in LogStreams
    BY <1>1 DEF LogInv, LogShape
  <2>. QED BY <1>1, <1>2, <2>1, LogRest, ZenonT(30) DEF LogInv
<1>5. (s.todo = GroupMid => r.todo = GroupLast) /\ (s.todo = StreamAll => r.todo = StreamLast)
  BY <1>4, LogTodos
<1>6. ASSUME NEW g \in LogGroups, Calm(g, disturbed)
      PROVE  LogOwned(g, logGroups, logStreams, logEvents', local')
  <2>1. LogOwned(g, logGroups, logStreams, logEvents, local)
    BY <1>6 DEF LogInv, LogsInv
  <2>2. CASE g # s.group
    <3>1. \A u \in Workers : local'[u] = local[u] \/ (~About(local[u], g) /\ ~About(local'[u], g))
      <4>1. ~About(s, g) /\ ~About(r, g)
        BY <1>2, <1>4, <2>2 DEF About, MakesStream, PutsEvent, DropsOf, LogLocal, IsGroup, IsStream, IsEvent
      <4>. QED BY <1>4, <4>1
    <3>2. \A e : e[1] = g => (e \in logEvents <=> e \in logEvents')
      BY <1>1, <2>2
    <3>. QED BY <2>1, <3>1, <3>2, LogElsewhere
  <2>3. CASE g = s.group
    <3>1. \A u \in Workers : u # t => ~About(local[u], g) /\ ~About(local'[u], g)
      BY <1>2, <1>4, <1>6, <2>3, LogAlone DEF LogInv, About, DropsOf
    <3>2. DroppedSoFar(s, g, logStreams, logEvents)
      BY <1>2, <2>1, <2>3 DEF LogOwned, DropsOf
    <3>3. s.todo = GroupMid => \A e \in logEvents' : e[1] # g
      BY <1>1, <1>3, <2>3 DEF LogInv, LogShape
    <3>4. \A e \in logEvents' : e[1] = g => <<g, e[2]>> \in logStreams
      <4>1. CASE s.todo = GroupMid
        BY <3>3, <4>1
      <4>2. CASE s.todo # GroupMid
        <5>1. \A u \in Workers : ~Between(local[u], g)
          BY <3>1, <4>2 DEF Between, About
        <5>. QED BY <1>1, <2>1, <5>1 DEF LogOwned
      <4>. QED BY <4>1, <4>2
    <3>5. DroppedSoFar(r, g, logStreams, logEvents')
      <4>1. CASE s.todo = GroupMid
        BY <1>5, <3>2, <3>3, <4>1, LogTodosApart DEF DroppedSoFar
      <4>2. CASE s.todo = StreamAll
        BY <1>1, <1>4, <1>5, <2>3, <4>2, LogTodosApart DEF DroppedSoFar
      <4>. QED BY <1>2, <4>1, <4>2
    <3>6. ~MakesStream(local'[t], g) /\ ~PutsEvent(local'[t], g) /\ DroppedSoFar(local'[t], g, logStreams, logEvents')
      BY <1>4, <3>5 DEF MakesStream, PutsEvent
    <3>7. \A x \in LogStreams : <<g, x>> \in logStreams => g \in logGroups
      BY <2>1 DEF LogOwned
    <3>. QED BY <3>1, <3>4, <3>6, <3>7, LogSole
  <2>. QED BY <2>2, <2>3
<1>. QED BY <1>1, <1>4, <1>6 DEF LogInv, LogsInv

(* The last of a deletion. *)
LEMMA LogLastDrop ==
  ASSUME LogInv, NEW t \in Workers, NEW step, Watching!Does(t, step), IsGroup(local[t]),
         local[t].todo \in {GroupLast, StreamLast}, logEvents' = logEvents,
         logStreams' \subseteq logStreams, logGroups' \subseteq logGroups,
         \A g, x : g # local[t].group \/ (local[t].todo = StreamLast /\ x \notin local[t].streams) =>
                      (<<g, x>> \in logStreams <=> <<g, x>> \in logStreams'),
         \A g : g # local[t].group \/ local[t].todo = StreamLast => (g \in logGroups <=> g \in logGroups')
  PROVE  LogInv'
<1>. PICK s : s = local[t]
  OBVIOUS
<1>1. LogShape' /\ disturbed' = disturbed /\ \A u \in Workers : local'[u] = IF u = t THEN Idle ELSE local[u]
  <2>1. logStreams' \subseteq LogGroups \X LogStreams /\ \A e \in logEvents' : e[2] \in LogStreams
    BY DEF LogInv, LogShape
  <2>2. LogShape /\ Tail(local[t].todo) = <<>>
    BY LogTodos DEF LogInv
  <2>. QED BY <2>1, <2>2, LogEnds
<1>2. LogLocal(t, s)
  BY DEF LogInv, LogShape
<1>3. ASSUME NEW g \in LogGroups, Calm(g, disturbed)
      PROVE  LogOwned(g, logGroups', logStreams', logEvents, local')
  <2>1. LogOwned(g, logGroups, logStreams, logEvents, local)
    BY <1>3 DEF LogInv, LogsInv
  <2>2. CASE g # s.group
    <3>1. \A u \in Workers : local'[u] = local[u] \/ (~About(local[u], g) /\ ~About(local'[u], g))
      <4>1. ~About(s, g) /\ ~About(Idle, g)
        BY <1>2, <2>2, LogIdle DEF About, MakesStream, PutsEvent, DropsOf, LogLocal, IsGroup, IsStream, IsEvent
      <4>. QED BY <1>1, <4>1
    <3>2. (\A x : <<g, x>> \in logStreams <=> <<g, x>> \in logStreams') /\ (g \in logGroups <=> g \in logGroups')
      BY <2>2
    <3>. QED BY <2>1, <3>1, <3>2, LogElsewhere
  <2>3. CASE g = s.group
    <3>1. \A u \in Workers : u # t => ~About(local[u], g) /\ ~About(local'[u], g)
      BY <1>1, <1>3, <2>3, LogAlone DEF LogInv, About, DropsOf
    <3>2. DroppedSoFar(s, g, logStreams, logEvents)
      BY <2>1, <2>3 DEF LogOwned, DropsOf
    <3>3. \A e \in logEvents : e[1] = g => <<g, e[2]>> \in logStreams
      <4>1. \A u \in Workers : ~Between(local[u], g)
        BY <3>1, LogTodosApart DEF Between, About
      <4>. QED BY <2>1, <4>1 DEF LogOwned
    <3>4. \A e \in logEvents : e[1] = g => <<g, e[2]>> \in logStreams'
      <4>1. CASE s.todo = GroupLast
        BY <3>2, <4>1 DEF DroppedSoFar
      <4>2. CASE s.todo = StreamLast
        BY <3>2, <3>3, <4>2 DEF DroppedSoFar
      <4>. QED BY <4>1, <4>2
    <3>5. \A x \in LogStreams : <<g, x>> \in logStreams' => g \in logGroups'
      <4>1. CASE s.todo = GroupLast
        BY <3>2, <4>1 DEF DroppedSoFar
      <4>2. CASE s.todo = StreamLast
        BY <2>1, <4>2 DEF LogOwned
      <4>. QED BY <4>1, <4>2
    <3>6. ~MakesStream(local'[t], g) /\ ~PutsEvent(local'[t], g) /\ ~DropsOf(local'[t], g)
      BY <1>1, LogIdle DEF MakesStream, PutsEvent, DropsOf
    <3>. QED BY <3>1, <3>4, <3>5, <3>6, LogSole
  <2>. QED BY <2>2, <2>3
<1>. QED BY <1>1, <1>3 DEF LogInv, LogsInv

LEMMA LogDrops ==
  ASSUME LogInv, NEW t \in Workers, Watching!DropStreams(t) \/ Watching!DropGroup(t)
  PROVE  LogInv'
<1>1. CASE Watching!DropStreams(t)
  <2>1. IsGroup(local[t]) /\ local[t].todo \in {GroupAll, StreamLast} /\ Watching!Does(t, "drop streams")
    BY <1>1, LogAt DEF Watching!DropStreams, Watching!Does, LogInv
  <2>2. CASE local[t].todo = StreamLast
    <3>1. /\ UNCHANGED <<logGroups, logEvents>> /\ logStreams' \subseteq logStreams
          /\ \A g, x : g # local[t].group \/ x \notin local[t].streams =>
                          (<<g, x>> \in logStreams <=> <<g, x>> \in logStreams')
      BY <1>1 DEF Watching!DropStreams
    <3>. QED BY <2>1, <2>2, <3>1, LogLastDrop
  <2>. QED BY <1>1, <2>1, <2>2, LogGroupDropsStreams
<1>2. CASE Watching!DropGroup(t)
  <2>1. IsGroup(local[t]) /\ local[t].todo = GroupLast /\ Watching!Does(t, "drop group")
    BY <1>2, LogAt DEF Watching!DropGroup, Watching!Does, LogInv
  <2>2. /\ UNCHANGED <<logStreams, logEvents>> /\ logGroups' \subseteq logGroups
        /\ \A g : g # local[t].group => (g \in logGroups <=> g \in logGroups')
    BY <1>2 DEF Watching!DropGroup
  <2>3. GroupLast # StreamLast
    BY LogTodosApart
  <2>. QED BY <2>1, <2>2, <2>3, LogLastDrop
<1>. QED BY <1>1, <1>2

LEMMA LogCreatesGroup ==
  ASSUME LogInv, NEW t \in Workers, Watching!CreateGroup(t)
  PROVE  LogInv'
<1>1. Watching!Does(t, "create group") /\ UNCHANGED <<logStreams, logEvents>> /\ logGroups \subseteq logGroups'
  BY DEF Watching!CreateGroup
<1>2. IsGroup(local[t]) /\ local[t].todo = GroupMake
  BY <1>1, LogAt DEF Watching!Does, LogInv
<1>3. LogShape' /\ disturbed' = disturbed /\ \A u \in Workers : local'[u] = IF u = t THEN Idle ELSE local[u]
  <2>1. logStreams' \subseteq LogGroups \X LogStreams /\ \A e \in logEvents' : e[2] \in LogStreams
    BY <1>1 DEF LogInv, LogShape
  <2>2. LogShape /\ Tail(local[t].todo) = <<>>
    BY <1>2, LogTodos DEF LogInv
  <2>. QED BY <1>1, <2>1, <2>2, LogEnds
<1>4. GivesWay(local[t], Idle, disturbed')
  BY <1>2, LogIdle, LogTodosApart DEF GivesWay
<1>. QED BY <1>1, <1>3, <1>4, LogAside

(* Who adds to a group meets nobody who makes or deletes it. *)
LEMMA LogShared ==
  ASSUME LogShape, NEW g, Calm(g, disturbed), NEW t \in Workers,
         MakesStream(local[t], g) \/ PutsEvent(local[t], g)
  PROVE  \A u \in Workers : ~DropsOf(local[u], g)
<1>1. ~DropsOf(local[t], g)
  <2>1. LogLocal(t, local[t])
    BY DEF LogShape
  <2>2. CASE IsStream(local[t])
    BY <2>1, <2>2 DEF LogLocal, DropsOf, IsGroup
  <2>3. CASE IsEvent(local[t])
    BY <2>1, <2>3 DEF LogLocal, DropsOf, IsGroup
  <2>. QED BY <2>2, <2>3 DEF MakesStream, PutsEvent
<1>2. ASSUME NEW u \in Workers, u # t, DropsOf(local[u], g) PROVE FALSE
  BY <1>2, LogAlone
<1>. QED BY <1>1, <1>2

LEMMA LogCreatesStream ==
  ASSUME LogInv, NEW t \in Workers, Watching!CreateStream(t)
  PROVE  LogInv'
<1>. PICK s : s = local[t]
  OBVIOUS
<1>1. Watching!Does(t, "create stream") /\ UNCHANGED <<logGroups, logEvents>> /\ logStreams' = logStreams \cup {s.stream}
  BY DEF Watching!CreateStream
<1>2. IsStream(s) /\ s.todo = StreamTodo /\ LogLocal(t, s)
  BY <1>1, LogAt DEF Watching!Does, LogInv
<1>3. s.stream \in LogGroups \X LogStreams /\ ~IsGroup(s) /\ ~IsEvent(s)
  BY <1>2 DEF LogLocal, IsGroup, IsEvent, IsStream
<1>4. LogShape' /\ disturbed' = disturbed /\ \A u \in Workers : local'[u] = IF u = t THEN Idle ELSE local[u]
  <2>1. logStreams' \subseteq LogGroups \X LogStreams /\ \A e \in logEvents' : e[2] \in LogStreams
    BY <1>1, <1>3 DEF LogInv, LogShape
  <2>2. LogShape /\ Tail(local[t].todo) = <<>>
    BY <1>2, LogTodos DEF LogInv
  <2>. QED BY <1>1, <2>1, <2>2, LogEnds
<1>5. ASSUME NEW g \in LogGroups, Calm(g, disturbed)
      PROVE  LogOwned(g, logGroups, logStreams', logEvents, local')
  <2>1. LogOwned(g, logGroups, logStreams, logEvents, local)
    BY <1>5 DEF LogInv, LogsInv
  <2>2. CASE g # s.stream[1]
    <3>1. \A u \in Workers : local'[u] = local[u] \/ (~About(local[u], g) /\ ~About(local'[u], g))
      <4>1. ~About(s, g) /\ ~About(Idle, g)
        BY <1>3, <2>2, LogIdle DEF About, MakesStream, PutsEvent, DropsOf
      <4>. QED BY <1>4, <4>1
    <3>2. \A x : <<g, x>> \in logStreams <=> <<g, x>> \in logStreams'
      <4>1. \A x : <<g, x>> # s.stream
        BY <2>2
      <4>. QED BY <1>1, <4>1
    <3>. QED BY <2>1, <3>1, <3>2, LogElsewhere
  <2>3. CASE g = s.stream[1]
    <3>1. MakesStream(s, g)
      BY <1>2, <2>3 DEF MakesStream
    <3>2. \A u \in Workers : ~DropsOf(local[u], g) /\ ~DropsOf(local'[u], g)
      BY <1>4, <1>5, <3>1, LogIdle, LogShared DEF LogInv, DropsOf
    <3>3. g \in logGroups
      BY <2>1, <3>1 DEF LogOwned
    <3>4. \A e \in logEvents : e[1] = g => <<g, e[2]>> \in logStreams'
      BY <1>1, <2>1, <3>2 DEF LogOwned, Between
    <3>5. \A u \in Workers : PutsEvent(local'[u], g) => <<g, local'[u].event[2]>> \in logStreams'
      <4>1. \A u \in Workers : PutsEvent(local'[u], g) => u # t /\ local'[u] = local[u]
        BY <1>4, LogIdle DEF PutsEvent
      <4>. QED BY <1>1, <2>1, <4>1 DEF LogOwned
    <3>. QED BY <3>2, <3>3, <3>4, <3>5 DEF LogOwned
  <2>. QED BY <2>2, <2>3
<1>. QED BY <1>1, <1>4, <1>5 DEF LogInv, LogsInv

LEMMA LogPutsEvent ==
  ASSUME LogInv, NEW t \in Workers, Watching!PutEvent(t)
  PROVE  LogInv'
<1>. PICK s : s = local[t]
  OBVIOUS
<1>1. Watching!Does(t, "event") /\ UNCHANGED <<logGroups, logStreams>> /\ logEvents' = logEvents \cup {s.event}
  BY DEF Watching!PutEvent
<1>2. IsEvent(s) /\ s.todo = EventTodo /\ LogLocal(t, s)
  BY <1>1, LogAt DEF Watching!Does, LogInv
<1>3. s.event[2] \in LogStreams /\ ~IsGroup(s) /\ ~IsStream(s)
  BY <1>2 DEF LogLocal, IsGroup, IsEvent, IsStream
<1>4. LogShape' /\ disturbed' = disturbed /\ \A u \in Workers : local'[u] = IF u = t THEN Idle ELSE local[u]
  <2>1. logStreams' \subseteq LogGroups \X LogStreams /\ \A e \in logEvents' : e[2] \in LogStreams
    BY <1>1, <1>3 DEF LogInv, LogShape
  <2>2. LogShape /\ Tail(local[t].todo) = <<>>
    BY <1>2, LogTodos DEF LogInv
  <2>. QED BY <1>1, <2>1, <2>2, LogEnds
<1>5. ASSUME NEW g \in LogGroups, Calm(g, disturbed)
      PROVE  LogOwned(g, logGroups, logStreams, logEvents', local')
  <2>1. LogOwned(g, logGroups, logStreams, logEvents, local)
    BY <1>5 DEF LogInv, LogsInv
  <2>2. CASE g # s.event[1]
    <3>1. \A u \in Workers : local'[u] = local[u] \/ (~About(local[u], g) /\ ~About(local'[u], g))
      <4>1. ~About(s, g) /\ ~About(Idle, g)
        BY <1>3, <2>2, LogIdle DEF About, MakesStream, PutsEvent, DropsOf
      <4>. QED BY <1>4, <4>1
    <3>2. \A e : e[1] = g => (e \in logEvents <=> e \in logEvents')
      BY <1>1, <2>2
    <3>. QED BY <2>1, <3>1, <3>2, LogElsewhere
  <2>3. CASE g = s.event[1]
    <3>1. PutsEvent(s, g) /\ <<g, s.event[2]>> \in logStreams
      BY <1>2, <2>1, <2>3 DEF PutsEvent, LogOwned
    <3>2. \A u \in Workers : ~DropsOf(local[u], g) /\ ~DropsOf(local'[u], g)
      BY <1>4, <1>5, <3>1, LogIdle, LogShared DEF LogInv, DropsOf
    <3>3. \A e \in logEvents' : e[1] = g => <<g, e[2]>> \in logStreams
      BY <1>1, <2>1, <3>1, <3>2 DEF LogOwned, Between
    <3>4. \A u \in Workers : /\ MakesStream(local'[u], g) => g \in logGroups
                             /\ PutsEvent(local'[u], g) => <<g, local'[u].event[2]>> \in logStreams
      <4>1. \A u \in Workers : MakesStream(local'[u], g) \/ PutsEvent(local'[u], g) => u # t /\ local'[u] = local[u]
        BY <1>4, LogIdle DEF PutsEvent, MakesStream
      <4>. QED BY <2>1, <4>1 DEF LogOwned
    <3>5. \A x \in LogStreams : <<g, x>> \in logStreams => g \in logGroups
      BY <2>1 DEF LogOwned
    <3>. QED BY <3>2, <3>3, <3>4, <3>5 DEF LogOwned
  <2>. QED BY <2>2, <2>3
<1>. QED BY <1>1, <1>4, <1>5 DEF LogInv, LogsInv

(* Requests begin. *)
LEMMA LogGroupAsked ==
  ASSUME LogInv, NEW t \in Workers, NEW g, NEW todo, NEW q, "group" \in DOMAIN q, q.group = g,
         \/ DOMAIN q = {"group"} /\ todo = GroupMake
         \/ /\ DOMAIN q = {"group", "streams"}
            /\ (todo = GroupAll /\ q.streams = LogStreams) \/ todo = StreamAll,
         Watching!Ask(t, Watching!On({g} \X Workers, todo, q))
  PROVE  LogInv'
<1>. PICK s : s = Watching!On({g} \X Workers, todo, q)
  OBVIOUS
<1>1. /\ DOMAIN s = {"todo", "touches", "at"} \cup DOMAIN q /\ s.todo = todo
      /\ s.touches = {g} \X Workers /\ s.group = g
      /\ "streams" \in DOMAIN q => s.streams = q.streams
  BY DEF Watching!On, Watching!Also
<1>2. IsGroup(s) /\ ~IsStream(s) /\ ~IsEvent(s)
  BY <1>1 DEF IsGroup, IsStream, IsEvent
<1>3. \/ DOMAIN s = {"todo", "touches", "at", "group"} /\ s.todo = GroupMake
      \/ /\ DOMAIN s = {"todo", "touches", "at", "group", "streams"}
         /\ \/ s.todo \in {GroupAll, GroupMid, GroupLast} /\ s.streams = LogStreams
            \/ s.todo \in {StreamAll, StreamLast}
  BY <1>1
<1>4. LogLocal(t, s) /\ s.todo \notin {GroupMid, GroupLast, StreamLast}
  <2>1. s.todo \notin {GroupMid, GroupLast, StreamLast}
    BY <1>1, LogTodosApart
  <2>2. LogLocal(t, s)
    BY <1>1, <1>2, <1>3 DEF LogLocal
  <2>. QED BY <2>1, <2>2
<1>5. /\ LogShape' /\ disturbed \subseteq disturbed' /\ UNCHANGED <<logGroups, logStreams, logEvents>>
      /\ local[t] = Idle /\ \A u \in Workers : local'[u] = IF u = t THEN s ELSE local[u]
  BY <1>4, LogAsk DEF LogInv
<1>6. GivesWay(local[t], s, disturbed')
  BY <1>2, <1>4, <1>5, LogIdle DEF GivesWay
<1>. QED BY <1>5, <1>6, LogAside

LEMMA LogAdds ==
  ASSUME LogInv, NEW t \in Workers, NEW s, Watching!Ask(t, s), LogLocal(t, s), ~IsGroup(s),
         \A g \in LogGroups : /\ MakesStream(s, g) => g \in logGroups
                              /\ PutsEvent(s, g) => <<g, s.event[2]>> \in logStreams
  PROVE  LogInv'
<1>1. /\ LogShape' /\ disturbed \subseteq disturbed' /\ UNCHANGED <<logGroups, logStreams, logEvents>>
      /\ local[t] = Idle /\ \A u \in Workers : local'[u] = IF u = t THEN s ELSE local[u]
  BY LogAsk DEF LogInv
<1>2. ASSUME NEW g \in LogGroups, Calm(g, disturbed')
      PROVE  LogOwned(g, logGroups, logStreams, logEvents, local')
  <2>1. LogOwned(g, logGroups, logStreams, logEvents, local)
    BY <1>1, <1>2 DEF LogInv, LogsInv, Calm
  <2>2. ~Between(local[t], g)
    BY <1>1, LogIdle DEF Between, DropsOf
  <2>3. ~DropsOf(s, g)
    BY DEF DropsOf
  <2>4. (\A u \in Workers : ~Between(local'[u], g)) => \A e \in logEvents : e[1] = g => <<g, e[2]>> \in logStreams
    BY <1>1, <2>1, <2>2 DEF LogOwned
  <2>5. ASSUME NEW u \in Workers
        PROVE  /\ MakesStream(local'[u], g) => g \in logGroups
               /\ PutsEvent(local'[u], g) => <<g, local'[u].event[2]>> \in logStreams
               /\ DropsOf(local'[u], g) => DroppedSoFar(local'[u], g, logStreams, logEvents)
    <3>1. CASE u = t
      BY <1>1, <2>3, <3>1
    <3>2. CASE u # t
      BY <1>1, <2>1, <3>2 DEF LogOwned
    <3>. QED BY <3>1, <3>2
  <2>6. \A x \in LogStreams : <<g, x>> \in logStreams => g \in logGroups
    BY <2>1 DEF LogOwned
  <2>. QED BY <2>4, <2>5, <2>6 DEF LogOwned
<1>. QED BY <1>1, <1>2 DEF LogInv, LogsInv

LEMMA LogStreamAsked ==
  ASSUME LogInv, NEW t \in Workers, NEW g \in LogGroups, NEW x \in LogStreams, Watching!CreateStreamCheck(t, g, x)
  PROVE  LogInv'
<1>. PICK q : q = [stream |-> <<g, x>>]
  OBVIOUS
<1>. PICK s : s = Watching!On({<<g, t>>}, StreamTodo, q)
  OBVIOUS
<1>0. g \in logGroups /\ Watching!Ask(t, s)
  BY DEF Watching!CreateStreamCheck, Watching!Shared, StreamTodo
<1>1. DOMAIN q = {"stream"} /\ q.stream = <<g, x>>
  OBVIOUS
<1>2. /\ DOMAIN s = {"todo", "touches", "at", "stream"} /\ s.todo = StreamTodo /\ s.touches = {<<g, t>>}
      /\ s.stream = <<g, x>>
  BY <1>1 DEF Watching!On, Watching!Also
<1>3. ~IsGroup(s) /\ IsStream(s) /\ ~IsEvent(s)
  BY <1>2 DEF IsGroup, IsStream, IsEvent
<1>4. LogLocal(t, s)
  <2>. PICK y : y = <<g, x>>
    OBVIOUS
  <2>0. y \in LogGroups \X LogStreams /\ y[1] = g
    OBVIOUS
  <2>1. s.stream \in LogGroups \X LogStreams /\ <<s.stream[1], t>> \in s.touches
    BY <1>2, <2>0
  <2>. QED BY <1>2, <1>3, <2>1 DEF LogLocal
<1>5. \A n : (MakesStream(s, n) => n \in logGroups) /\ ~PutsEvent(s, n)
  BY <1>0, <1>2, <1>3 DEF MakesStream, PutsEvent
<1>. QED BY <1>0, <1>3, <1>4, <1>5, LogAdds

LEMMA LogEventAsked ==
  ASSUME LogInv, NEW t \in Workers, NEW g \in LogGroups, NEW x \in LogStreams, Watching!PutEventsRequire(t, g, x)
  PROVE  LogInv'
<1>. PICK e : e = <<g, x, begun + 1>>
  OBVIOUS
<1>. PICK q : q = [event |-> e]
  OBVIOUS
<1>. PICK s : s = Watching!On({<<g, t>>}, EventTodo, q)
  OBVIOUS
<1>0. <<g, x>> \in logStreams /\ Watching!Ask(t, s)
  BY DEF Watching!PutEventsRequire, Watching!Shared, EventTodo
<1>1. DOMAIN q = {"event"} /\ q.event = e /\ e[1] = g /\ e[2] = x
  OBVIOUS
<1>2. /\ DOMAIN s = {"todo", "touches", "at", "event"} /\ s.todo = EventTodo /\ s.touches = {<<g, t>>}
      /\ s.event = e
  BY <1>1 DEF Watching!On, Watching!Also
<1>3. ~IsGroup(s) /\ ~IsStream(s) /\ IsEvent(s)
  BY <1>2 DEF IsGroup, IsStream, IsEvent
<1>4. LogLocal(t, s)
  BY <1>1, <1>2, <1>3 DEF LogLocal
<1>5. \A n : ~MakesStream(s, n) /\ (PutsEvent(s, n) => <<n, s.event[2]>> \in logStreams)
  BY <1>0, <1>1, <1>2, <1>3 DEF MakesStream, PutsEvent
<1>. QED BY <1>0, <1>3, <1>4, <1>5, LogAdds

(* Metrics and alarms change no table of these. *)
WatchFields == {"data", "alarm", "found", "state"}

LEMMA WatchOtherAsked ==
  ASSUME LogInv, NEW t \in Workers, NEW rows, NEW todo \in Seq(WatchOther), NEW q, DOMAIN q \subseteq WatchFields,
         Watching!Ask(t, Watching!On(rows, todo, q))
  PROVE  LogInv'
<1>. PICK s : s = Watching!On(rows, todo, q)
  OBVIOUS
<1>1. DOMAIN s = {"todo", "touches", "at"} \cup DOMAIN q /\ s.todo = todo
  BY DEF Watching!On, Watching!Also
<1>2. ~IsGroup(s) /\ ~IsStream(s) /\ ~IsEvent(s)
  BY <1>1 DEF IsGroup, IsStream, IsEvent, WatchFields
<1>3. LogLocal(t, s)
  BY <1>1, <1>2 DEF LogLocal
<1>. QED BY <1>2, <1>3, LogAdds DEF MakesStream, PutsEvent

LEMMA WatchTodos ==
  /\ <<"datum">> \in Seq(WatchOther) /\ <<"alarm">> \in Seq(WatchOther) /\ <<"delete">> \in Seq(WatchOther)
  /\ <<"state", "history">> \in Seq(WatchOther)
<1>1. "datum" \in WatchOther /\ "alarm" \in WatchOther /\ "delete" \in WatchOther /\ "state" \in WatchOther
      /\ "history" \in WatchOther
  BY DEF WatchOther
<1> HIDE DEF WatchOther
<1>. QED BY <1>1

LEMMA WatchRecords ==
  /\ \A batch : DOMAIN [data |-> batch] \subseteq WatchFields
  /\ \A a : DOMAIN [alarm |-> a] \subseteq WatchFields
  /\ \A a, found : DOMAIN [alarm |-> a, found |-> found] \subseteq WatchFields
  /\ \A a, state : DOMAIN [alarm |-> a, state |-> state] \subseteq WatchFields
<1>1. \A batch : DOMAIN [data |-> batch] \subseteq WatchFields
  BY DEF WatchFields
<1>2. \A a : DOMAIN [alarm |-> a] \subseteq WatchFields
  BY DEF WatchFields
<1>3. \A a, found : DOMAIN [alarm |-> a, found |-> found] \subseteq WatchFields
  BY DEF WatchFields
<1>4. \A a, state : DOMAIN [alarm |-> a, state |-> state] \subseteq WatchFields
  BY DEF WatchFields
<1>. QED BY <1>1, <1>2, <1>3, <1>4

LEMMA WatchOtherSteps ==
  ASSUME LogInv, NEW t \in Workers,
         \/ Watching!PutDatum(t) \/ Watching!PutAlarm(t) \/ Watching!DeleteAlarm(t)
         \/ Watching!SetState(t) \/ Watching!AddHistory(t)
  PROVE  LogInv'
<1>. PICK s : s = local[t]
  OBVIOUS
<1>1. UNCHANGED <<logGroups, logStreams, logEvents>>
  BY DEF Watching!PutDatum, Watching!PutAlarm, Watching!DeleteAlarm, Watching!SetState, Watching!AddHistory,
         Watching!logtables
<1>2. \E step \in WatchOther : Watching!At(t, step)
  BY DEF Watching!PutDatum, Watching!PutAlarm, Watching!DeleteAlarm, Watching!SetState, Watching!AddHistory,
         Watching!Does, WatchOther
<1>3. /\ s.todo \in Seq(WatchOther) /\ s.todo # <<>> /\ ~IsGroup(s) /\ ~IsStream(s) /\ ~IsEvent(s)
      /\ "todo" \in DOMAIN s /\ "touches" \in DOMAIN s
  BY <1>2, LogAt DEF Watching!At, LogLocal, LogInv
<1>4. PICK r : /\ Goes(t, r) /\ r.touches \subseteq s.touches /\ r.todo \in Seq(WatchOther)
               /\ DOMAIN r = DOMAIN s \/ r = Idle
  <2>1. CASE Watching!Advance(t)
    <3>1. Goes(t, Rest(s))
      BY <2>1, WatchingThreads
    <3>2. Rest(s).touches = s.touches
      BY <1>3 DEF Rest
    <3>3. Tail(s.todo) \in Seq(WatchOther)
      BY <1>3
    <3>. QED BY <1>3, <3>1, <3>2, <3>3, RestFields
  <2>2. CASE Watching!Ends(t)
    <3>1. Goes(t, Idle)
      BY <2>2, WatchingThreads
    <3>2. Idle.touches = {} /\ Idle.todo = <<>>
      BY DEF Idle
    <3>3. <<>> \in Seq(WatchOther)
      OBVIOUS
    <3>. QED BY <3>1, <3>2, <3>3
  <2>3. CASE Watching!Continue(t, [s EXCEPT !.data = Tail(@)])
    <3> DEFINE q == [s EXCEPT !.data = Tail(@)]
    <3>1. DOMAIN q = DOMAIN s /\ q.touches = s.touches /\ q.todo = s.todo
      BY <1>3
    <3>2. Goes(t, q)
      BY <2>3, WatchingThreads
    <3> HIDE DEF q
    <3>. QED BY <1>3, <3>1, <3>2
  <2>. QED BY <2>1, <2>2, <2>3 DEF Watching!PutDatum, Watching!PutAlarm, Watching!DeleteAlarm, Watching!SetState,
              Watching!AddHistory, Watching!Does
<1>5. ~IsGroup(r) /\ ~IsStream(r) /\ ~IsEvent(r)
  BY <1>3, <1>4, LogIdle DEF IsGroup, IsStream, IsEvent
<1>6. LogLocal(t, r)
  BY <1>3, <1>4, <1>5, LogIdle DEF LogLocal
<1>7. /\ LogShape' /\ disturbed' = disturbed
      /\ \A u \in Workers : local'[u] = IF u = t THEN IF r.todo = <<>> THEN Idle ELSE r ELSE local[u]
  <2>1. logStreams' \subseteq LogGroups \X LogStreams /\ \A e \in logEvents' : e[2] \in LogStreams
    BY <1>1 DEF LogInv, LogShape
  <2>. QED BY <1>4, <1>6, <2>1, LogGoesOn DEF LogInv
<1>8. GivesWay(s, r, disturbed') /\ GivesWay(s, Idle, disturbed')
  BY <1>3, <1>5, LogIdle DEF GivesWay
<1>. QED BY <1>1, <1>7, <1>8, LogAside

LEMMA LogNext ==
  ASSUME LogInv, [Watching!Next]_(Watching!vars)
  PROVE  LogInv'
<1>1. CASE UNCHANGED Watching!vars
  <2>1. UNCHANGED <<local, disturbed, logGroups, logStreams, logEvents>>
    BY <1>1 DEF Watching!vars, Watching!requests, Watching!cwvars, Watching!logtables
  <2>. QED BY <2>1 DEF LogInv, LogShape, LogsInv, Threads, Apart
<1>2. CASE (Watching!Crash \/ \E t \in Workers : Watching!Fails(t)) /\ UNCHANGED Watching!cwvars
  <2>1. UNCHANGED <<logGroups, logStreams, logEvents>>
    BY <1>2 DEF Watching!cwvars, Watching!logtables
  <2>2. Breaks
    BY <1>2, WatchingThreads DEF LogInv, LogShape
  <2>. QED BY <2>1, <2>2, LogBreaks
<1>3. ASSUME NEW t \in Workers, Watching!Serve(t) PROVE LogInv'
  <2>1. CASE \E batch \in Batches : Watching!PutMetrics(t, batch)
    BY <2>1, WatchOtherAsked, WatchTodos, WatchRecords DEF Watching!PutMetrics
  <2>2. CASE \E g \in LogGroups : Watching!CreateGroupCheck(t, g)
    <3>1. PICK g \in LogGroups : Watching!CreateGroupCheck(t, g)
      BY <2>2
    <3>. PICK q : q = [group |-> g]
      OBVIOUS
    <3>2. DOMAIN q = {"group"} /\ q.group = g
      OBVIOUS
    <3>. QED BY <3>1, <3>2, LogGroupAsked DEF Watching!CreateGroupCheck, Watching!Exclusive, GroupMake
  <2>3. CASE \E g \in LogGroups : Watching!DeleteGroupRequire(t, g)
    <3>1. PICK g \in LogGroups : Watching!DeleteGroupRequire(t, g)
      BY <2>3
    <3>. PICK q : q = [group |-> g, streams |-> LogStreams]
      OBVIOUS
    <3>2. DOMAIN q = {"group", "streams"} /\ q.group = g /\ q.streams = LogStreams
      OBVIOUS
    <3>. QED BY <3>1, <3>2, LogGroupAsked DEF Watching!DeleteGroupRequire, Watching!Exclusive, GroupAll
  <2>4. CASE \E g \in LogGroups, x \in LogStreams : Watching!DeleteStreamRequire(t, g, x)
    <3>1. PICK g \in LogGroups, x \in LogStreams : Watching!DeleteStreamRequire(t, g, x)
      BY <2>4
    <3>. PICK q : q = [group |-> g, streams |-> {x}]
      OBVIOUS
    <3>2. DOMAIN q = {"group", "streams"} /\ q.group = g
      OBVIOUS
    <3>. QED BY <3>1, <3>2, LogGroupAsked DEF Watching!DeleteStreamRequire, Watching!Exclusive, StreamAll
  <2>5. CASE \E a \in Alarms : Watching!PutAlarmSelect(t, a)
    BY <2>5, WatchOtherAsked, WatchTodos, WatchRecords DEF Watching!PutAlarmSelect
  <2>6. CASE \E a \in Alarms : Watching!DeleteAlarmRequire(t, a)
    BY <2>6, WatchOtherAsked, WatchTodos, WatchRecords DEF Watching!DeleteAlarmRequire
  <2>7. CASE \E a \in Alarms, state \in Watching!States : Watching!SetStateRequire(t, a, state)
    BY <2>7, WatchOtherAsked, WatchTodos, WatchRecords DEF Watching!SetStateRequire
  <2>. QED BY <1>3, <2>1, <2>2, <2>3, <2>4, <2>5, <2>6, <2>7, LogStreamAsked, LogEventAsked, LogCreatesGroup,
              LogDrops, LogGroupDropsEvents, LogCreatesStream, LogPutsEvent, WatchOtherSteps DEF Watching!Serve
<1>. QED BY <1>1, <1>2, <1>3 DEF Watching!Next

LEMMA LogInit ==
  ASSUME InitRequests, Watching!InitTables
  PROVE  LogInv
<1>1. \A t \in Workers : local[t] = Idle /\ Idle.touches = {}
  BY DEF InitRequests, Idle
<1>2. Threads /\ Apart
  BY <1>1 DEF InitRequests, Threads, Apart
<1>3. logEvents = {} /\ logStreams \in {{}, logGroups \X LogStreams} /\ logGroups \subseteq LogGroups
  BY DEF Watching!InitTables
<1>4. LogShape
  BY <1>1, <1>2, <1>3, LogIdle DEF LogShape
<1>5. LogsInv
  BY <1>1, <1>3, LogIdle DEF LogsInv, LogOwned, MakesStream, PutsEvent, DropsOf
<1>. QED BY <1>4, <1>5 DEF LogInv

LEMMA LogOwnedAll == LogInv => Watching!LogsHaveOwners
<1> SUFFICES ASSUME LogInv, NEW g \in LogGroups, \A t \in Workers : Watching!Quiet(<<g, t>>)
             PROVE  /\ \A s \in LogStreams : <<g, s>> \in logStreams => g \in logGroups
                    /\ \A e \in logEvents : e[1] = g => <<g, e[2]>> \in logStreams
  BY DEF Watching!LogsHaveOwners
<1>1. Calm(g, disturbed)
  BY DEF Watching!Quiet, Calm
<1>2. \A t \in Workers : ~DropsOf(local[t], g)
  <2>1. \A t \in Workers : DropsOf(local[t], g) => <<g, t>> \in local[t].touches
    BY DEF DropsOf, LogInv, LogShape, LogLocal
  <2>. QED BY <2>1 DEF Watching!Quiet
<1>3. LogOwned(g, logGroups, logStreams, logEvents, local)
  BY <1>1 DEF LogInv, LogsInv
<1>. QED BY <1>2, <1>3 DEF LogOwned, Between

(* CloudWatch: a request for an alarm has its row for itself. *)
AlarmOther == LogSteps \cup {"datum"}

DefineTodo == <<"alarm">>
DeleteTodo == <<"delete">>
StateTodo == <<"state", "history">>
HistoryTodo == <<"history">>

IsAlarm(s) == "alarm" \in DOMAIN s

AlarmLocal(s, b) ==
    /\ {"todo", "touches"} \subseteq DOMAIN s
    /\ IsAlarm(s) =>
          /\ s.touches = {s.alarm} /\ s.at \in Nat /\ s.at <= b
          /\ \/ DOMAIN s = {"todo", "touches", "at", "alarm", "found"} /\ s.todo = DefineTodo
             \/ DOMAIN s = {"todo", "touches", "at", "alarm"} /\ s.todo = DeleteTodo
             \/ DOMAIN s = {"todo", "touches", "at", "alarm", "state"} /\ s.todo \in {StateTodo, HistoryTodo}
    /\ ~IsAlarm(s) => s.todo \in Seq(AlarmOther)

ForAlarm(s, a) == IsAlarm(s) /\ s.alarm = a

(* The state is set and its history not yet. *)
Recording(s, a) == ForAlarm(s, a) /\ s.todo = HistoryTodo

(* What the history H has of alarm a since its row was made. *)
Since(a, A, H) == {h \in H : h.alarm = a /\ h.at > A[a].at}

Tells(a, A, H) ==
    A[a].state \in IF Since(a, A, H) = {} THEN {"INSUFFICIENT_DATA"}
                   ELSE {h.state : h \in {x \in Since(a, A, H) : \A y \in Since(a, A, H) : y.at <= x.at}}

Newest(n, a, A, H) ==
    /\ \A h \in H : h.alarm = a => h.at < n
    /\ A[a] # NoAlarm => A[a].at < n

AlarmOwned(a, A, H, L) ==
    /\ (\A t \in Workers : ~Recording(L[t], a)) /\ A[a] # NoAlarm => Tells(a, A, H)
    /\ \A t \in Workers :
          /\ ForAlarm(L[t], a) => Newest(L[t].at, a, A, H)
          /\ Recording(L[t], a) /\ A[a] # NoAlarm => A[a].state = L[t].state

Dated(A, H, b) ==
    /\ b \in Nat /\ A = [a \in Alarms |-> A[a]]
    /\ \A h \in H : h.at \in Nat /\ h.at <= b
    /\ \A a \in Alarms : A[a] # NoAlarm => DOMAIN A[a] = {"state", "at"} /\ A[a].at \in Nat /\ A[a].at <= b

AlarmShape ==
    /\ Threads /\ Apart /\ Dated(alarms, alarmHistory, begun)
    /\ \A t \in Workers : AlarmLocal(local[t], begun)

AlarmInv == AlarmShape /\ \A a \in Alarms : a \notin disturbed => AlarmOwned(a, alarms, alarmHistory, local)

LEMMA AlarmTodos ==
  /\ DefineTodo # <<>> /\ Head(DefineTodo) = "alarm" /\ Tail(DefineTodo) = <<>>
  /\ DeleteTodo # <<>> /\ Head(DeleteTodo) = "delete" /\ Tail(DeleteTodo) = <<>>
  /\ StateTodo # <<>> /\ Head(StateTodo) = "state" /\ Tail(StateTodo) = HistoryTodo
  /\ HistoryTodo # <<>> /\ Head(HistoryTodo) = "history" /\ Tail(HistoryTodo) = <<>>
  BY Tails DEF DefineTodo, DeleteTodo, StateTodo, HistoryTodo

LEMMA AlarmStepsApart ==
  /\ \A step \in {"alarm", "delete", "state", "history"} : step \notin AlarmOther
  /\ "alarm" # "delete" /\ "alarm" # "state" /\ "alarm" # "history" /\ "delete" # "state" /\ "delete" # "history"
  /\ "state" # "history"
<1>1. \A step \in {"alarm", "delete", "state", "history"} : step \notin AlarmOther
  BY DEF AlarmOther, LogSteps
<1>2. /\ "alarm" # "delete" /\ "alarm" # "state" /\ "alarm" # "history" /\ "delete" # "state" /\ "delete" # "history"
      /\ "state" # "history"
  OBVIOUS
<1>. QED BY <1>1, <1>2

LEMMA AlarmIdle == \A b : AlarmLocal(Idle, b) /\ ~IsAlarm(Idle)
<1>1. Idle.todo = <<>> /\ DOMAIN Idle = {"todo", "touches"}
  BY DEF Idle
<1>2. <<>> \in Seq(AlarmOther)
  OBVIOUS
<1>3. ~IsAlarm(Idle)
  BY <1>1 DEF IsAlarm
<1>. QED BY <1>1, <1>2, <1>3 DEF AlarmLocal

LEMMA AlarmAt ==
  ASSUME AlarmShape, NEW t \in Workers, NEW step, Watching!At(t, step)
  PROVE  /\ AlarmLocal(local[t], begun)
         /\ step = "alarm" => IsAlarm(local[t]) /\ local[t].todo = DefineTodo
         /\ step = "delete" => IsAlarm(local[t]) /\ local[t].todo = DeleteTodo
         /\ step = "state" => IsAlarm(local[t]) /\ local[t].todo = StateTodo
         /\ step = "history" => IsAlarm(local[t]) /\ local[t].todo = HistoryTodo
         /\ step \in AlarmOther => ~IsAlarm(local[t]) /\ local[t].todo \in Seq(AlarmOther)
<1> DEFINE s == local[t]
<1>1. AlarmLocal(s, begun) /\ s.todo # <<>> /\ Head(s.todo) = step
  BY DEF AlarmShape, Watching!At
<1>2. s.todo \in Seq(AlarmOther) => step \in AlarmOther
  BY <1>1
<1>3. CASE IsAlarm(s)
  <2>1. s.todo \in {DefineTodo, DeleteTodo, StateTodo, HistoryTodo}
    BY <1>1, <1>3 DEF AlarmLocal
  <2>. QED BY <1>1, <1>3, <2>1, AlarmTodos, AlarmStepsApart
<1>4. CASE ~IsAlarm(s)
  <2>1. s.todo \in Seq(AlarmOther)
    BY <1>1, <1>4 DEF AlarmLocal
  <2>. QED BY <1>1, <1>2, <1>4, <2>1, AlarmStepsApart
<1>. QED BY <1>3, <1>4

(* Two requests for an alarm are not at work, or it is disturbed. *)
LEMMA AlarmAlone ==
  ASSUME AlarmShape, NEW a, a \notin disturbed, NEW t \in Workers, ForAlarm(local[t], a)
  PROVE  \A u \in Workers : u # t => ~ForAlarm(local[u], a)
<1>1. ASSUME NEW u \in Workers, u # t, ForAlarm(local[u], a) PROVE FALSE
  <2>1. a \in local[t].touches /\ a \in local[u].touches
    BY <1>1 DEF AlarmShape, AlarmLocal, ForAlarm
  <2>. QED BY <1>1, <2>1 DEF AlarmShape, Apart
<1>. QED BY <1>1

LEMMA AlarmLocalLater ==
  ASSUME NEW s, NEW b \in Nat, NEW c \in Nat, b <= c, AlarmLocal(s, b)
  PROVE  AlarmLocal(s, c)
<1>1. IsAlarm(s) => s.at \in Nat /\ s.at <= b
  BY DEF AlarmLocal
<1>2. IsAlarm(s) => s.at <= c
  BY <1>1
<1>. QED BY <1>2 DEF AlarmLocal

(* A thread goes on or begins. *)
LEMMA AlarmGoesOn ==
  ASSUME AlarmShape, NEW t \in Workers, NEW r, Goes(t, r), AlarmLocal(r, begun), r.touches \subseteq local[t].touches,
         Dated(alarms', alarmHistory', begun)
  PROVE  /\ AlarmShape' /\ disturbed' = disturbed
         /\ \A u \in Workers : local'[u] = IF u = t THEN IF r.todo = <<>> THEN Idle ELSE r ELSE local[u]
<1>1. /\ Threads' /\ Apart' /\ Only(t, IF r.todo = <<>> THEN Idle ELSE r) /\ disturbed' = disturbed
      /\ begun' = begun
  BY GoesOnly, GoesApart DEF AlarmShape, Goes
<1>2. \A u \in Workers : local'[u] = IF u = t THEN IF r.todo = <<>> THEN Idle ELSE r ELSE local[u]
  BY <1>1 DEF Only
<1>3. \A u \in Workers : AlarmLocal(local'[u], begun)
  BY <1>2, AlarmIdle DEF AlarmShape
<1>. QED BY <1>1, <1>2, <1>3 DEF AlarmShape

LEMMA AlarmEnds ==
  ASSUME AlarmShape, NEW t \in Workers, NEW step, Watching!Does(t, step), Tail(local[t].todo) = <<>>,
         Dated(alarms', alarmHistory', begun)
  PROVE  /\ AlarmShape' /\ disturbed' = disturbed
         /\ \A u \in Workers : local'[u] = IF u = t THEN Idle ELSE local[u]
<1>1. Goes(t, Rest(local[t])) /\ "todo" \in DOMAIN local[t] /\ "touches" \in DOMAIN local[t]
  BY WatchingThreads DEF Watching!Does, AlarmShape, AlarmLocal
<1>2. Rest(local[t]).todo = <<>>
  BY <1>1, RestFields
<1>3. Rest(local[t]).touches = local[t].touches
  BY <1>1 DEF Rest
<1>4. Threads' /\ Only(t, Idle) /\ disturbed' = disturbed /\ begun' = begun
  BY <1>1, <1>2, GoesOnly DEF AlarmShape, Goes
<1>5. Apart'
  BY <1>1, <1>3, GoesApart DEF AlarmShape
<1>6. \A u \in Workers : local'[u] = IF u = t THEN Idle ELSE local[u]
  BY <1>4 DEF Only
<1>7. \A u \in Workers : AlarmLocal(local'[u], begun)
  BY <1>6, AlarmIdle DEF AlarmShape
<1>. QED BY <1>4, <1>5, <1>6, <1>7 DEF AlarmShape

LEMMA AlarmAsk ==
  ASSUME AlarmShape, NEW t \in Workers, NEW s, Watching!Ask(t, s), AlarmLocal(s, begun + 1)
  PROVE  /\ AlarmShape' /\ disturbed \subseteq disturbed' /\ UNCHANGED <<alarms, alarmHistory>> /\ begun' = begun + 1
         /\ local[t] = Idle /\ \A u \in Workers : local'[u] = IF u = t THEN s ELSE local[u]
<1>1. Begins(t, s) /\ UNCHANGED <<alarms, alarmHistory>> /\ begun' = begun + 1
  BY WatchingThreads DEF Watching!Ask, Watching!cwvars, Begins
<1>2. Threads' /\ Apart' /\ Only(t, s) /\ disturbed \subseteq disturbed' /\ local[t] = Idle
  BY <1>1, BeginsOnly, BeginsApart DEF AlarmShape, Begins
<1>3. \A u \in Workers : local'[u] = IF u = t THEN s ELSE local[u]
  BY <1>2 DEF Only
<1>4. begun \in Nat /\ begun + 1 \in Nat /\ begun <= begun + 1
  BY DEF AlarmShape, Dated
<1>5. \A u \in Workers : AlarmLocal(local'[u], begun + 1)
  BY <1>3, <1>4, AlarmLocalLater DEF AlarmShape
<1>6. Dated(alarms, alarmHistory, begun + 1)
  <2>1. (\A h \in alarmHistory : h.at \in Nat /\ h.at <= begun + 1) /\ alarms = [a \in Alarms |-> alarms[a]]
    BY <1>4 DEF AlarmShape, Dated
  <2>2. \A a \in Alarms : alarms[a] # NoAlarm =>
            DOMAIN alarms[a] = {"state", "at"} /\ alarms[a].at \in Nat /\ alarms[a].at <= begun + 1
    BY <1>4 DEF AlarmShape, Dated
  <2>. QED BY <1>4, <2>1, <2>2 DEF Dated
<1>. QED BY <1>1, <1>2, <1>3, <1>5, <1>6 DEF AlarmShape

LEMMA AlarmAside ==
  ASSUME AlarmInv, AlarmShape', disturbed \subseteq disturbed', UNCHANGED <<alarms, alarmHistory>>,
         \A u \in Workers : \/ local'[u] = local[u]
                            \/ /\ ~IsAlarm(local'[u])
                               /\ IsAlarm(local[u]) /\ local[u].todo = HistoryTodo => local[u].touches \subseteq disturbed'
  PROVE  AlarmInv'
<1>1. ASSUME NEW a \in Alarms, a \notin disturbed'
      PROVE  AlarmOwned(a, alarms, alarmHistory, local')
  <2>1. AlarmOwned(a, alarms, alarmHistory, local)
    BY <1>1 DEF AlarmInv
  <2>2. ASSUME NEW u \in Workers, Recording(local[u], a) PROVE Recording(local'[u], a)
    <3>1. a \in local[u].touches /\ IsAlarm(local[u]) /\ local[u].todo = HistoryTodo
      BY <2>2 DEF Recording, ForAlarm, AlarmInv, AlarmShape, AlarmLocal
    <3>. QED BY <1>1, <2>2, <3>1
  <2>3. (\A t \in Workers : ~Recording(local'[t], a)) /\ alarms[a] # NoAlarm => Tells(a, alarms, alarmHistory)
    BY <2>1, <2>2 DEF AlarmOwned
  <2>4. ASSUME NEW u \in Workers
        PROVE  /\ ForAlarm(local'[u], a) => Newest(local'[u].at, a, alarms, alarmHistory)
               /\ Recording(local'[u], a) /\ alarms[a] # NoAlarm => alarms[a].state = local'[u].state
    <3>1. CASE local'[u] = local[u]
      BY <2>1, <3>1 DEF AlarmOwned
    <3>2. CASE ~IsAlarm(local'[u])
      BY <3>2 DEF ForAlarm, Recording
    <3>. QED BY <3>1, <3>2
  <2>. QED BY <2>3, <2>4 DEF AlarmOwned
<1>. QED BY <1>1 DEF AlarmInv

LEMMA AlarmBreaks ==
  ASSUME AlarmInv, Breaks, UNCHANGED <<alarms, alarmHistory>>
  PROVE  AlarmInv'
<1>1. /\ Threads' /\ Apart' /\ disturbed \subseteq disturbed' /\ begun' = begun
      /\ \A u \in Workers : local'[u] = local[u] \/ (local'[u] = Idle /\ local[u].touches \subseteq disturbed')
  BY BreaksThreads, BreaksApart DEF AlarmInv, AlarmShape, Breaks
<1>2. \A u \in Workers : AlarmLocal(local'[u], begun)
  BY <1>1, AlarmIdle DEF AlarmInv, AlarmShape
<1>3. AlarmShape'
  BY <1>1, <1>2 DEF AlarmInv, AlarmShape
<1>4. \A u \in Workers : \/ local'[u] = local[u]
                         \/ ~IsAlarm(local'[u]) /\ local[u].touches \subseteq disturbed'
  BY <1>1, AlarmIdle
<1>. QED BY <1>1, <1>3, <1>4, AlarmAside

(* What happens to other alarms is of no account. *)
LEMMA AlarmElsewhere ==
  ASSUME NEW a, NEW A, NEW H, NEW L, NEW A1, NEW H1, NEW L1, AlarmOwned(a, A, H, L), A1[a] = A[a],
         \A h : h.alarm = a => (h \in H <=> h \in H1),
         \A u \in Workers : L1[u] = L[u] \/ (~ForAlarm(L[u], a) /\ ~ForAlarm(L1[u], a))
  PROVE  AlarmOwned(a, A1, H1, L1)
<1>1. Since(a, A1, H1) = Since(a, A, H)
  BY DEF Since
<1>2. Tells(a, A, H) => Tells(a, A1, H1)
  BY <1>1 DEF Tells
<1>3. \A n : Newest(n, a, A, H) => Newest(n, a, A1, H1)
  BY DEF Newest
<1>4. \A u \in Workers : Recording(L[u], a) => Recording(L1[u], a)
  BY DEF Recording
<1>5. (\A t \in Workers : ~Recording(L1[t], a)) /\ A1[a] # NoAlarm => Tells(a, A1, H1)
  BY <1>2, <1>4 DEF AlarmOwned
<1>6. ASSUME NEW u \in Workers
      PROVE  /\ ForAlarm(L1[u], a) => Newest(L1[u].at, a, A1, H1)
             /\ Recording(L1[u], a) /\ A1[a] # NoAlarm => A1[a].state = L1[u].state
  <2>1. CASE L1[u] = L[u]
    BY <1>3, <2>1 DEF AlarmOwned
  <2>2. CASE ~ForAlarm(L1[u], a)
    BY <2>2 DEF Recording
  <2>. QED BY <2>1, <2>2
<1>. QED BY <1>5, <1>6 DEF AlarmOwned

(* The last statement of a request for an alarm, which may change it. *)
LEMMA AlarmDone ==
  ASSUME AlarmInv, NEW t \in Workers, NEW step, Watching!Does(t, step), IsAlarm(local[t]), Tail(local[t].todo) = <<>>,
         NEW b, b = local[t].alarm, Dated(alarms', alarmHistory', begun),
         \A a \in Alarms : a # b => /\ alarms'[a] = alarms[a]
                                   /\ \A h : h.alarm = a => (h \in alarmHistory <=> h \in alarmHistory'),
         /\ b \in Alarms /\ b \notin disturbed /\ AlarmOwned(b, alarms, alarmHistory, local)
         /\ \A u \in Workers : u # t => ~Recording(local[u], b)
         /\ Newest(local[t].at, b, alarms, alarmHistory) /\ alarms'[b] # NoAlarm
         => Tells(b, alarms', alarmHistory')
  PROVE  AlarmInv'
<1>. PICK s : s = local[t]
  OBVIOUS
<1>1. AlarmShape' /\ disturbed' = disturbed /\ \A u \in Workers : local'[u] = IF u = t THEN Idle ELSE local[u]
  BY AlarmEnds DEF AlarmInv
<1>2. ASSUME NEW a \in Alarms, a \notin disturbed
      PROVE  AlarmOwned(a, alarms', alarmHistory', local')
  <2>1. AlarmOwned(a, alarms, alarmHistory, local)
    BY <1>2 DEF AlarmInv
  <2>2. CASE a # b
    <3>1. ~ForAlarm(s, a) /\ ~ForAlarm(Idle, a)
      BY <2>2, AlarmIdle DEF ForAlarm
    <3>2. \A u \in Workers : local'[u] = local[u] \/ (~ForAlarm(local[u], a) /\ ~ForAlarm(local'[u], a))
      BY <1>1, <3>1
    <3>3. alarms'[a] = alarms[a] /\ \A h : h.alarm = a => (h \in alarmHistory <=> h \in alarmHistory')
      BY <2>2
    <3>. QED BY <2>1, <3>2, <3>3, AlarmElsewhere
  <2>3. CASE a = b
    <3>1. ForAlarm(s, b)
      BY DEF ForAlarm
    <3>2. \A u \in Workers : u # t => ~ForAlarm(local[u], b)
      BY <1>2, <2>3, <3>1, AlarmAlone DEF AlarmInv
    <3>3. Newest(s.at, b, alarms, alarmHistory)
      BY <2>1, <2>3, <3>1 DEF AlarmOwned
    <3>4. alarms'[b] # NoAlarm => Tells(b, alarms', alarmHistory')
      BY <1>2, <2>1, <2>3, <3>2, <3>3 DEF Recording
    <3>5. \A u \in Workers : ~ForAlarm(local'[u], b)
      BY <1>1, <3>2, AlarmIdle DEF ForAlarm
    <3>. QED BY <2>3, <3>4, <3>5 DEF AlarmOwned, Recording
  <2>. QED BY <2>2, <2>3
<1>. QED BY <1>1, <1>2 DEF AlarmInv

(* put_metric_alarm: a new row is newer than all of the history. *)
LEMMA AlarmPuts ==
  ASSUME AlarmInv, NEW t \in Workers, Watching!PutAlarm(t)
  PROVE  AlarmInv'
<1>. PICK s : s = local[t]
  OBVIOUS
<1>. PICK b : b = s.alarm
  OBVIOUS
<1>. PICK new : new = [state |-> "INSUFFICIENT_DATA", at |-> s.at]
  OBVIOUS
<1>1. /\ Watching!Does(t, "alarm") /\ alarmHistory' = alarmHistory
      /\ alarms' = [alarms EXCEPT ![b] = IF ~s.found /\ @ = NoAlarm THEN new ELSE @]
  BY DEF Watching!PutAlarm
<1>2. IsAlarm(s) /\ s.todo = DefineTodo /\ AlarmLocal(s, begun) /\ s.at \in Nat /\ s.at <= begun
  BY <1>1, AlarmAt DEF Watching!Does, AlarmInv, AlarmLocal
<1>3. DOMAIN new = {"state", "at"} /\ new.at = s.at /\ new.state = "INSUFFICIENT_DATA"
  OBVIOUS
<1>4. /\ alarms' = [a \in Alarms |-> alarms'[a]]
      /\ \A a \in Alarms : alarms'[a] = alarms[a] \/ (a = b /\ alarms[a] = NoAlarm /\ alarms'[a] = new)
  <2>1. DOMAIN alarms = Alarms
    BY DEF AlarmInv, AlarmShape, Dated
  <2>. QED BY <1>1, <2>1
<1>5. Dated(alarms', alarmHistory', begun)
  BY <1>1, <1>2, <1>3, <1>4 DEF Dated, AlarmInv, AlarmShape
<1>6. ASSUME b \in Alarms, Newest(s.at, b, alarms, alarmHistory), AlarmOwned(b, alarms, alarmHistory, local),
             \A u \in Workers : u # t => ~Recording(local[u], b), alarms'[b] # NoAlarm
      PROVE  Tells(b, alarms', alarmHistory')
  <2>1. ~Recording(s, b)
    BY <1>2, AlarmTodos, AlarmStepsApart DEF Recording
  <2>2. CASE alarms'[b] = alarms[b]
    <3>1. Tells(b, alarms, alarmHistory)
      BY <1>6, <2>1, <2>2 DEF AlarmOwned
    <3>. QED BY <1>1, <2>2, <3>1 DEF Tells, Since
  <2>3. CASE alarms'[b] = new
    <3>1. \A h \in alarmHistory : h.alarm = b => ~(h.at > s.at)
      BY <1>2, <1>6 DEF Newest, AlarmInv, AlarmShape, Dated
    <3>2. Since(b, alarms', alarmHistory') = {}
      BY <1>1, <1>3, <2>3, <3>1 DEF Since
    <3>. QED BY <1>3, <2>3, <3>2 DEF Tells
  <2>. QED BY <1>4, <1>6, <2>2, <2>3
<1>7. Tail(s.todo) = <<>>
  BY <1>2, AlarmTodos
<1>8. \A a \in Alarms : a # b => alarms'[a] = alarms[a]
  BY <1>4
<1>. QED BY <1>1, <1>2, <1>5, <1>6, <1>7, <1>8, AlarmDone

LEMMA AlarmDeletes ==
  ASSUME AlarmInv, NEW t \in Workers, Watching!DeleteAlarm(t)
  PROVE  AlarmInv'
<1>. PICK s : s = local[t]
  OBVIOUS
<1>. PICK b : b = s.alarm
  OBVIOUS
<1>1. Watching!Does(t, "delete") /\ alarmHistory' = alarmHistory /\ alarms' = [alarms EXCEPT ![b] = NoAlarm]
  BY DEF Watching!DeleteAlarm
<1>2. IsAlarm(s) /\ s.todo = DeleteTodo
  BY <1>1, AlarmAt DEF Watching!Does, AlarmInv
<1>3. /\ alarms' = [a \in Alarms |-> alarms'[a]]
      /\ \A a \in Alarms : alarms'[a] = IF a = b THEN NoAlarm ELSE alarms[a]
  <2>1. DOMAIN alarms = Alarms
    BY DEF AlarmInv, AlarmShape, Dated
  <2>. QED BY <1>1, <2>1
<1>4. Dated(alarms', alarmHistory', begun)
  BY <1>1, <1>3 DEF Dated, AlarmInv, AlarmShape
<1>5. Tail(s.todo) = <<>>
  BY <1>2, AlarmTodos
<1>6. b \in Alarms => alarms'[b] = NoAlarm
  BY <1>3
<1>7. \A a \in Alarms : a # b => alarms'[a] = alarms[a]
  BY <1>3
<1>. QED BY <1>1, <1>2, <1>4, <1>5, <1>6, <1>7, AlarmDone

(* set_alarm_state: between the two statements the request knows better    *)
(* than the history, and then the row it adds is the newest.               *)
LEMMA AlarmSets ==
  ASSUME AlarmInv, NEW t \in Workers, Watching!SetState(t)
  PROVE  AlarmInv'
<1> DEFINE s == local[t]  q == Rest(s)
<1>. PICK b : b = s.alarm
  OBVIOUS
<1>1. /\ Watching!Does(t, "state") /\ alarmHistory' = alarmHistory
      /\ alarms' = [alarms EXCEPT ![b] = IF @ = NoAlarm THEN @ ELSE [@ EXCEPT !.state = s.state]]
  BY DEF Watching!SetState
<1>2. IsAlarm(s) /\ s.todo = StateTodo /\ AlarmLocal(s, begun) /\ Goes(t, q)
  BY <1>1, AlarmAt, WatchingThreads DEF Watching!Does, AlarmInv
<1>3. DOMAIN s = {"todo", "touches", "at", "alarm", "state"} /\ s.touches = {b} /\ s.at \in Nat /\ s.at <= begun
  BY <1>2, AlarmTodos, AlarmStepsApart DEF AlarmLocal
<1>4. /\ DOMAIN q = DOMAIN s /\ q.todo = HistoryTodo /\ q.touches = s.touches
      /\ q.alarm = b /\ q.at = s.at /\ q.state = s.state
  <2>1. q.alarm = b /\ q.at = s.at /\ q.state = s.state /\ q.touches = s.touches
    BY <1>3 DEF Rest
  <2>. QED BY <1>2, <1>3, <2>1, RestFields, AlarmTodos
<1> HIDE DEF q
<1>5. q.todo # <<>> /\ AlarmLocal(q, begun) /\ IsAlarm(q)
  BY <1>3, <1>4, AlarmTodos DEF AlarmLocal, IsAlarm
<1>6. /\ alarms' = [a \in Alarms |-> alarms'[a]]
      /\ \A a \in Alarms : /\ a # b \/ alarms[a] = NoAlarm => alarms'[a] = alarms[a]
                           /\ a = b /\ alarms[a] # NoAlarm => alarms'[a] = [alarms[a] EXCEPT !.state = s.state]
  <2>1. DOMAIN alarms = Alarms
    BY DEF AlarmInv, AlarmShape, Dated
  <2>. QED BY <1>1, <2>1
<1>7. b \in Alarms /\ alarms[b] # NoAlarm =>
         /\ DOMAIN alarms'[b] = {"state", "at"} /\ alarms'[b].at = alarms[b].at /\ alarms'[b].state = s.state
  <2>1. b \in Alarms /\ alarms[b] # NoAlarm => DOMAIN alarms[b] = {"state", "at"}
    BY DEF AlarmInv, AlarmShape, Dated
  <2>. QED BY <1>6, <2>1
<1>8. Dated(alarms', alarmHistory', begun)
  BY <1>1, <1>6, <1>7 DEF Dated, AlarmInv, AlarmShape
<1>9. AlarmShape' /\ disturbed' = disturbed /\ \A u \in Workers : local'[u] = IF u = t THEN q ELSE local[u]
  <2>1. q.touches \subseteq local[t].touches /\ AlarmShape
    BY <1>4 DEF AlarmInv
  <2>. QED BY <1>2, <1>5, <1>8, <2>1, AlarmGoesOn
<1>10. ASSUME NEW a \in Alarms, a \notin disturbed
       PROVE  AlarmOwned(a, alarms', alarmHistory', local')
  <2>1. AlarmOwned(a, alarms, alarmHistory, local)
    BY <1>10 DEF AlarmInv
  <2>2. CASE a # b
    <3>1. ~ForAlarm(s, a) /\ ~ForAlarm(q, a)
      BY <1>4, <2>2 DEF ForAlarm
    <3>2. \A u \in Workers : local'[u] = local[u] \/ (~ForAlarm(local[u], a) /\ ~ForAlarm(local'[u], a))
      BY <1>9, <3>1
    <3>. QED BY <1>1, <1>6, <2>1, <2>2, <3>2, AlarmElsewhere
  <2>3. CASE a = b
    <3>1. ForAlarm(s, b)
      BY <1>2 DEF ForAlarm
    <3>2. \A u \in Workers : u # t => ~ForAlarm(local'[u], b)
      BY <1>9, <1>10, <2>3, <3>1, AlarmAlone DEF AlarmInv
    <3>3. Newest(q.at, b, alarms', alarmHistory')
      <4>1. Newest(s.at, b, alarms, alarmHistory)
        BY <2>1, <2>3, <3>1 DEF AlarmOwned
      <4>. QED BY <1>1, <1>4, <1>6, <1>7, <2>3, <4>1 DEF Newest
    <3>4. Recording(local'[t], b) /\ (alarms'[b] # NoAlarm => alarms'[b].state = q.state)
      BY <1>4, <1>5, <1>6, <1>7, <1>9, <2>3 DEF Recording, ForAlarm
    <3>. QED BY <1>9, <2>3, <3>2, <3>3, <3>4 DEF AlarmOwned, Recording
  <2>. QED BY <2>2, <2>3
<1>. QED BY <1>9, <1>10 DEF AlarmInv

LEMMA AlarmRecords ==
  ASSUME AlarmInv, NEW t \in Workers, Watching!AddHistory(t)
  PROVE  AlarmInv'
<1>. PICK s : s = local[t]
  OBVIOUS
<1>. PICK b : b = s.alarm
  OBVIOUS
<1>. PICK h : h = [alarm |-> b, state |-> s.state, at |-> s.at]
  OBVIOUS
<1>1. Watching!Does(t, "history") /\ alarms' = alarms /\ alarmHistory' = alarmHistory \cup {h}
  BY DEF Watching!AddHistory
<1>2. IsAlarm(s) /\ s.todo = HistoryTodo /\ AlarmLocal(s, begun) /\ s.at \in Nat /\ s.at <= begun
  BY <1>1, AlarmAt DEF Watching!Does, AlarmInv, AlarmLocal
<1>3. h.alarm = b /\ h.state = s.state /\ h.at = s.at
  OBVIOUS
<1>4. Dated(alarms', alarmHistory', begun)
  BY <1>1, <1>2, <1>3 DEF Dated, AlarmInv, AlarmShape
<1>5. ASSUME b \in Alarms, Newest(s.at, b, alarms, alarmHistory), AlarmOwned(b, alarms, alarmHistory, local),
             alarms[b] # NoAlarm
      PROVE  Tells(b, alarms, alarmHistory')
  <2>1. Recording(s, b)
    BY <1>2 DEF Recording, ForAlarm
  <2>2. alarms[b].state = s.state /\ alarms[b].at < s.at
    BY <1>5, <2>1 DEF AlarmOwned, Newest
  <2>3. alarms[b].at \in Nat
    BY <1>5 DEF AlarmInv, AlarmShape, Dated
  <2>4. h \in Since(b, alarms, alarmHistory')
    BY <1>1, <1>2, <1>3, <2>2, <2>3 DEF Since
  <2>5. \A y \in Since(b, alarms, alarmHistory') : y.at <= h.at
    <3>1. ASSUME NEW y \in alarmHistory', y.alarm = b PROVE y.at <= h.at
      <4>1. CASE y = h
        BY <1>2, <1>3, <4>1
      <4>2. CASE y \in alarmHistory
        <5>1. y.at < s.at /\ y.at \in Nat
          BY <1>5, <3>1, <4>2 DEF Newest, AlarmInv, AlarmShape, Dated
        <5>. QED BY <1>2, <1>3, <5>1
      <4>. QED BY <1>1, <3>1, <4>1, <4>2
    <3>. QED BY <3>1 DEF Since
  <2>. QED BY <1>3, <2>2, <2>4, <2>5 DEF Tells
<1>6. Tail(s.todo) = <<>>
  BY <1>2, AlarmTodos
<1>7. \A a \in Alarms : a # b => \A x : x.alarm = a => (x \in alarmHistory <=> x \in alarmHistory')
  BY <1>1, <1>3
<1>. QED BY <1>1, <1>2, <1>4, <1>5, <1>6, <1>7, AlarmDone

(* Requests begin: what comes after is newer. *)
LEMMA AlarmAsked ==
  ASSUME AlarmInv, NEW t \in Workers, NEW a, NEW q, NEW todo,
         \/ DOMAIN q = {"alarm", "found"} /\ todo = DefineTodo
         \/ DOMAIN q = {"alarm"} /\ todo = DeleteTodo
         \/ DOMAIN q = {"alarm", "state"} /\ todo = StateTodo,
         q.alarm = a, Watching!Ask(t, Watching!On({a}, todo, q))
  PROVE  AlarmInv'
<1>. PICK s : s = Watching!On({a}, todo, q)
  OBVIOUS
<1>1. /\ DOMAIN s = {"todo", "touches", "at"} \cup DOMAIN q /\ s.todo = todo /\ s.touches = {a}
      /\ s.at = begun + 1 /\ s.alarm = a
  BY DEF Watching!On, Watching!Also
<1>2. begun \in Nat
  BY DEF AlarmInv, AlarmShape, Dated
<1>3. IsAlarm(s) /\ s.todo # HistoryTodo
  BY <1>1, AlarmTodos, AlarmStepsApart DEF IsAlarm
<1>4. AlarmLocal(s, begun + 1)
  <2>1. s.at \in Nat /\ s.at <= begun + 1
    BY <1>1, <1>2
  <2>2. \/ DOMAIN s = {"todo", "touches", "at", "alarm", "found"} /\ s.todo = DefineTodo
        \/ DOMAIN s = {"todo", "touches", "at", "alarm"} /\ s.todo = DeleteTodo
        \/ DOMAIN s = {"todo", "touches", "at", "alarm", "state"} /\ s.todo \in {StateTodo, HistoryTodo}
    BY <1>1
  <2>3. {"todo", "touches"} \subseteq DOMAIN s /\ s.touches = {s.alarm}
    BY <1>1
  <2>. QED BY <1>3, <2>1, <2>2, <2>3 DEF AlarmLocal
<1>5. /\ AlarmShape' /\ disturbed \subseteq disturbed' /\ UNCHANGED <<alarms, alarmHistory>>
      /\ local[t] = Idle /\ \A u \in Workers : local'[u] = IF u = t THEN s ELSE local[u]
  BY <1>4, AlarmAsk DEF AlarmInv
<1>6. ASSUME NEW b \in Alarms, b \notin disturbed'
      PROVE  AlarmOwned(b, alarms, alarmHistory, local')
  <2>1. AlarmOwned(b, alarms, alarmHistory, local)
    BY <1>5, <1>6 DEF AlarmInv
  <2>2. Newest(s.at, b, alarms, alarmHistory)
    <3>1. \A h \in alarmHistory : h.at < s.at
      BY <1>1, <1>2 DEF AlarmInv, AlarmShape, Dated
    <3>2. alarms[b] # NoAlarm => alarms[b].at < s.at
      BY <1>1, <1>2 DEF AlarmInv, AlarmShape, Dated
    <3>. QED BY <3>1, <3>2 DEF Newest
  <2>3. ~Recording(local[t], b) /\ ~Recording(s, b)
    BY <1>3, <1>5, AlarmIdle DEF Recording, ForAlarm
  <2>4. (\A u \in Workers : ~Recording(local'[u], b)) /\ alarms[b] # NoAlarm => Tells(b, alarms, alarmHistory)
    BY <1>5, <2>1, <2>3 DEF AlarmOwned
  <2>5. ASSUME NEW u \in Workers
        PROVE  /\ ForAlarm(local'[u], b) => Newest(local'[u].at, b, alarms, alarmHistory)
               /\ Recording(local'[u], b) /\ alarms[b] # NoAlarm => alarms[b].state = local'[u].state
    <3>1. CASE u = t
      BY <1>5, <2>2, <2>3, <3>1
    <3>2. CASE u # t
      BY <1>5, <2>1, <3>2 DEF AlarmOwned
    <3>. QED BY <3>1, <3>2
  <2>. QED BY <2>4, <2>5 DEF AlarmOwned
<1>. QED BY <1>5, <1>6 DEF AlarmInv

AlarmFields == {"data", "group", "streams", "stream", "event"}

LEMMA AlarmOtherAsked ==
  ASSUME AlarmInv, NEW t \in Workers, NEW rows, NEW todo \in Seq(AlarmOther), NEW q, DOMAIN q \subseteq AlarmFields,
         Watching!Ask(t, Watching!On(rows, todo, q))
  PROVE  AlarmInv'
<1>. PICK s : s = Watching!On(rows, todo, q)
  OBVIOUS
<1>1. DOMAIN s = {"todo", "touches", "at"} \cup DOMAIN q /\ s.todo = todo
  BY DEF Watching!On, Watching!Also
<1>2. ~IsAlarm(s)
  BY <1>1 DEF IsAlarm, AlarmFields
<1>3. AlarmLocal(s, begun + 1)
  BY <1>1, <1>2 DEF AlarmLocal
<1>4. /\ AlarmShape' /\ disturbed \subseteq disturbed' /\ UNCHANGED <<alarms, alarmHistory>>
      /\ local[t] = Idle /\ \A u \in Workers : local'[u] = IF u = t THEN s ELSE local[u]
  BY <1>3, AlarmAsk DEF AlarmInv
<1>. QED BY <1>2, <1>4, AlarmIdle, AlarmAside

LEMMA AlarmOtherTodos ==
  /\ <<"datum">> \in Seq(AlarmOther) /\ <<"create group">> \in Seq(AlarmOther)
  /\ <<"create stream">> \in Seq(AlarmOther) /\ <<"event">> \in Seq(AlarmOther)
  /\ <<"drop streams", "drop events", "drop group">> \in Seq(AlarmOther)
  /\ <<"drop events", "drop streams">> \in Seq(AlarmOther)
<1>1. /\ "datum" \in AlarmOther /\ "create group" \in AlarmOther /\ "create stream" \in AlarmOther
      /\ "event" \in AlarmOther /\ "drop streams" \in AlarmOther /\ "drop events" \in AlarmOther
      /\ "drop group" \in AlarmOther
  BY DEF AlarmOther, LogSteps
<1> HIDE DEF AlarmOther
<1>2. \A a, b, c \in AlarmOther : <<a, b, c>> \in Seq(AlarmOther)
  OBVIOUS
<1>3. \A a, b \in AlarmOther : <<a, b>> \in Seq(AlarmOther)
  OBVIOUS
<1>4. \A a \in AlarmOther : <<a>> \in Seq(AlarmOther)
  OBVIOUS
<1>. QED BY <1>1, <1>2, <1>3, <1>4

LEMMA AlarmOtherRecords ==
  /\ \A batch : DOMAIN [data |-> batch] \subseteq AlarmFields
  /\ \A g : DOMAIN [group |-> g] \subseteq AlarmFields
  /\ \A g, x : DOMAIN [group |-> g, streams |-> x] \subseteq AlarmFields
  /\ \A x : DOMAIN [stream |-> x] \subseteq AlarmFields
  /\ \A e : DOMAIN [event |-> e] \subseteq AlarmFields
<1>1. \A batch : DOMAIN [data |-> batch] \subseteq AlarmFields
  BY DEF AlarmFields
<1>2. \A g : DOMAIN [group |-> g] \subseteq AlarmFields
  BY DEF AlarmFields
<1>3. \A g, x : DOMAIN [group |-> g, streams |-> x] \subseteq AlarmFields
  BY DEF AlarmFields
<1>4. \A x : DOMAIN [stream |-> x] \subseteq AlarmFields
  BY DEF AlarmFields
<1>5. \A e : DOMAIN [event |-> e] \subseteq AlarmFields
  BY DEF AlarmFields
<1>. QED BY <1>1, <1>2, <1>3, <1>4, <1>5

(* Metrics and logs leave alarms alone. *)
LEMMA AlarmOtherSteps ==
  ASSUME AlarmInv, NEW t \in Workers,
         \/ Watching!PutDatum(t) \/ Watching!CreateGroup(t) \/ Watching!DropStreams(t) \/ Watching!DropEvents(t)
         \/ Watching!DropGroup(t) \/ Watching!CreateStream(t) \/ Watching!PutEvent(t)
  PROVE  AlarmInv'
<1>. PICK s : s = local[t]
  OBVIOUS
<1>1. UNCHANGED <<alarms, alarmHistory>>
  BY DEF Watching!PutDatum, Watching!CreateGroup, Watching!DropStreams, Watching!DropEvents, Watching!DropGroup,
         Watching!CreateStream, Watching!PutEvent
<1>2. \E step \in AlarmOther : Watching!At(t, step)
  BY DEF Watching!PutDatum, Watching!CreateGroup, Watching!DropStreams, Watching!DropEvents, Watching!DropGroup,
         Watching!CreateStream, Watching!PutEvent, Watching!Does, AlarmOther, LogSteps
<1>3. /\ s.todo \in Seq(AlarmOther) /\ s.todo # <<>> /\ ~IsAlarm(s)
      /\ "todo" \in DOMAIN s /\ "touches" \in DOMAIN s
  BY <1>2, AlarmAt DEF Watching!At, AlarmLocal, AlarmInv
<1>4. PICK r : /\ Goes(t, r) /\ r.touches \subseteq s.touches /\ r.todo \in Seq(AlarmOther)
               /\ DOMAIN r = DOMAIN s \/ r = Idle
  <2>1. CASE Watching!Advance(t)
    <3>1. Goes(t, Rest(s))
      BY <2>1, WatchingThreads
    <3>2. Rest(s).touches = s.touches
      BY <1>3 DEF Rest
    <3>3. Tail(s.todo) \in Seq(AlarmOther)
      BY <1>3
    <3>. QED BY <1>3, <3>1, <3>2, <3>3, RestFields
  <2>2. CASE Watching!Ends(t)
    <3>1. Goes(t, Idle)
      BY <2>2, WatchingThreads
    <3>2. Idle.touches = {} /\ Idle.todo = <<>>
      BY DEF Idle
    <3>3. <<>> \in Seq(AlarmOther)
      OBVIOUS
    <3>. QED BY <3>1, <3>2, <3>3
  <2>3. CASE Watching!Continue(t, [s EXCEPT !.data = Tail(@)])
    <3> DEFINE q == [s EXCEPT !.data = Tail(@)]
    <3>1. DOMAIN q = DOMAIN s /\ q.touches = s.touches /\ q.todo = s.todo
      BY <1>3
    <3>2. Goes(t, q)
      BY <2>3, WatchingThreads
    <3> HIDE DEF q
    <3>. QED BY <1>3, <3>1, <3>2
  <2>. QED BY <2>1, <2>2, <2>3 DEF Watching!PutDatum, Watching!CreateGroup, Watching!DropStreams,
              Watching!DropEvents, Watching!DropGroup, Watching!CreateStream, Watching!PutEvent, Watching!Does
<1>5. ~IsAlarm(r)
  BY <1>3, <1>4, AlarmIdle DEF IsAlarm
<1>6. AlarmLocal(r, begun)
  BY <1>3, <1>4, <1>5, AlarmIdle DEF AlarmLocal
<1>7. /\ AlarmShape' /\ disturbed' = disturbed
      /\ \A u \in Workers : local'[u] = IF u = t THEN IF r.todo = <<>> THEN Idle ELSE r ELSE local[u]
  <2>1. Dated(alarms', alarmHistory', begun)
    BY <1>1 DEF AlarmInv, AlarmShape
  <2>. QED BY <1>4, <1>6, <2>1, AlarmGoesOn DEF AlarmInv
<1>. QED BY <1>1, <1>3, <1>5, <1>7, AlarmIdle, AlarmAside

LEMMA AlarmNext ==
  ASSUME AlarmInv, [Watching!Next]_(Watching!vars)
  PROVE  AlarmInv'
<1>1. CASE UNCHANGED Watching!vars
  <2>1. UNCHANGED <<local, begun, disturbed, alarms, alarmHistory>>
    BY <1>1 DEF Watching!vars, Watching!requests, Watching!cwvars
  <2>. QED BY <2>1 DEF AlarmInv, AlarmShape, Threads, Apart
<1>2. CASE (Watching!Crash \/ \E t \in Workers : Watching!Fails(t)) /\ UNCHANGED Watching!cwvars
  <2>1. UNCHANGED <<alarms, alarmHistory>>
    BY <1>2 DEF Watching!cwvars
  <2>2. Breaks
    BY <1>2, WatchingThreads DEF AlarmInv, AlarmShape
  <2>. QED BY <2>1, <2>2, AlarmBreaks
<1>3. ASSUME NEW t \in Workers, Watching!Serve(t) PROVE AlarmInv'
  <2>1. CASE \E batch \in Batches : Watching!PutMetrics(t, batch)
    BY <2>1, AlarmOtherAsked, AlarmOtherTodos, AlarmOtherRecords DEF Watching!PutMetrics
  <2>2. CASE \E g \in LogGroups : Watching!CreateGroupCheck(t, g)
    BY <2>2, AlarmOtherAsked, AlarmOtherTodos, AlarmOtherRecords DEF Watching!CreateGroupCheck
  <2>3. CASE \E g \in LogGroups : Watching!DeleteGroupRequire(t, g)
    BY <2>3, AlarmOtherAsked, AlarmOtherTodos, AlarmOtherRecords DEF Watching!DeleteGroupRequire
  <2>4. CASE \E g \in LogGroups, x \in LogStreams : Watching!DeleteStreamRequire(t, g, x)
    BY <2>4, AlarmOtherAsked, AlarmOtherTodos, AlarmOtherRecords DEF Watching!DeleteStreamRequire
  <2>5. CASE \E g \in LogGroups, x \in LogStreams : Watching!CreateStreamCheck(t, g, x)
    BY <2>5, AlarmOtherAsked, AlarmOtherTodos, AlarmOtherRecords DEF Watching!CreateStreamCheck
  <2>6. CASE \E g \in LogGroups, x \in LogStreams : Watching!PutEventsRequire(t, g, x)
    BY <2>6, AlarmOtherAsked, AlarmOtherTodos, AlarmOtherRecords DEF Watching!PutEventsRequire
  <2>7. CASE \E a \in Alarms : Watching!PutAlarmSelect(t, a)
    <3>1. PICK a \in Alarms : Watching!PutAlarmSelect(t, a)
      BY <2>7
    <3>. PICK q : q = [alarm |-> a, found |-> alarms[a] # NoAlarm]
      OBVIOUS
    <3>2. DOMAIN q = {"alarm", "found"} /\ q.alarm = a
      OBVIOUS
    <3>. QED BY <3>1, <3>2, AlarmAsked DEF Watching!PutAlarmSelect, DefineTodo
  <2>8. CASE \E a \in Alarms : Watching!DeleteAlarmRequire(t, a)
    <3>1. PICK a \in Alarms : Watching!DeleteAlarmRequire(t, a)
      BY <2>8
    <3>. PICK q : q = [alarm |-> a]
      OBVIOUS
    <3>2. DOMAIN q = {"alarm"} /\ q.alarm = a
      OBVIOUS
    <3>. QED BY <3>1, <3>2, AlarmAsked DEF Watching!DeleteAlarmRequire, DeleteTodo
  <2>9. CASE \E a \in Alarms, state \in Watching!States : Watching!SetStateRequire(t, a, state)
    <3>1. PICK a \in Alarms, state \in Watching!States : Watching!SetStateRequire(t, a, state)
      BY <2>9
    <3>. PICK q : q = [alarm |-> a, state |-> state]
      OBVIOUS
    <3>2. DOMAIN q = {"alarm", "state"} /\ q.alarm = a
      OBVIOUS
    <3>. QED BY <3>1, <3>2, AlarmAsked DEF Watching!SetStateRequire, StateTodo
  <2>. QED BY <1>3, <2>1, <2>2, <2>3, <2>4, <2>5, <2>6, <2>7, <2>8, <2>9, AlarmOtherSteps, AlarmPuts, AlarmDeletes,
              AlarmSets, AlarmRecords DEF Watching!Serve
<1>. QED BY <1>1, <1>2, <1>3 DEF Watching!Next

LEMMA AlarmInit ==
  ASSUME InitRequests, Watching!InitTables
  PROVE  AlarmInv
<1>1. \A t \in Workers : local[t] = Idle /\ Idle.touches = {}
  BY DEF InitRequests, Idle
<1>2. Threads /\ Apart
  BY <1>1 DEF InitRequests, Threads, Apart
<1>3. alarmHistory = {} /\ alarms = [a \in Alarms |-> NoAlarm] /\ begun = 0
  BY DEF Watching!InitTables, InitRequests
<1>4. AlarmShape
  BY <1>1, <1>2, <1>3, AlarmIdle DEF AlarmShape, Dated
<1>. QED BY <1>1, <1>3, <1>4, AlarmIdle DEF AlarmInv, AlarmOwned, ForAlarm, Recording

LEMMA AlarmTells == AlarmInv => Watching!HistoryTellsState
<1> SUFFICES ASSUME AlarmInv, NEW a \in Alarms, alarms[a] # NoAlarm, Watching!Quiet(a)
             PROVE  Tells(a, alarms, alarmHistory)
  BY DEF Watching!HistoryTellsState, Tells, Since
<1>1. \A t \in Workers : ~Recording(local[t], a)
  BY DEF Watching!Quiet, AlarmInv, AlarmShape, AlarmLocal, Recording, ForAlarm
<1>2. AlarmOwned(a, alarms, alarmHistory, local)
  BY DEF Watching!Quiet, AlarmInv
<1>. QED BY <1>1, <1>2 DEF AlarmOwned

-----------------------------------------------------------------------------
(* cloudwatch.py:305-368, 401-417: set_alarm_state changes the alarm and   *)
(* writes the history in two statements.  Unless requests for the alarm    *)
(* overlapped or one broke off, the newest the history has since the alarm *)
(* was made is its state, and a changed definition leaves it that.         *)
THEOREM HistoryTells == Spec => []HistoryTellsState
<1> DEFINE Inv == service = "cloudwatch" => AlarmInv
<1>1. Init => Inv
  BY AlarmInit DEF Init
<1>2. Inv /\ [Next]_vars => Inv'
  <2> SUFFICES ASSUME Inv, [Next]_vars, service' = "cloudwatch" PROVE AlarmInv'
    OBVIOUS
  <2>. QED BY ServiceStep, AlarmNext
<1>3. Inv => HistoryTellsState
  BY AlarmTells DEF HistoryTellsState
<1>. QED BY <1>1, <1>2, <1>3, PTL DEF Spec

LEMMA BucketOrder ==
  ASSUME NEW p \in Nat \ {0}, NEW n \in Nat, NEW c \in Nat
  PROVE  (n \div p) * p < c * p <=> n < c * p
<1>. PICK d, r : d = n \div p /\ r = n % p
  OBVIOUS
<1>1. n = d * p + r /\ d \in Nat /\ r \in 0 .. p - 1
  OBVIOUS
<1>2. d < c => d * p + p <= c * p
  <2>1. ASSUME d < c PROVE d * p + p <= c * p
    <3>0. c - d - 1 \in Nat /\ c = d + 1 + (c - d - 1)
      BY <1>1, <2>1
    <3>1. PICK e \in Nat : c = d + 1 + e
      BY <3>0
    <3>2. c * p = d * p + p + e * p /\ e * p \in Nat
      BY <1>1, <3>1
    <3>. QED BY <1>1, <3>2
  <2>. QED BY <2>1
<1>3. d >= c => d * p >= c * p
  <2>1. ASSUME d >= c PROVE d * p >= c * p
    <3>1. PICK e \in Nat : d = c + e
      BY <1>1, <2>1
    <3>2. d * p = c * p + e * p /\ e * p \in Nat
      BY <1>1, <3>1
    <3>. QED BY <1>1, <3>2
  <2>. QED BY <2>1
<1>4. d * p \in Nat /\ c * p \in Nat
  BY <1>1
<1>. HIDE <1>1
<1>5. p \in Nat /\ p > 0 /\ r < p /\ r >= 0 /\ r \in Nat /\ d \in Nat /\ n = d * p + r
  BY <1>1
<1>6. CASE d < c
  <2>. PICK x, y : x = d * p /\ y = c * p
    OBVIOUS
  <2>. QED BY <1>2, <1>4, <1>5, <1>6
<1>7. CASE d >= c
  BY <1>3, <1>4, <1>5, <1>7
<1>. QED BY <1>5, <1>6, <1>7

LEMMA MiddleWhole ==
  ASSUME NEW p \in Nat \ {0}, NEW from \in Nat, from % p = 0, NEW k \in Nat
  PROVE  \E c \in Nat : from + k * p = c * p
<1>. PICK d : d = from \div p
  OBVIOUS
<1>1. from = d * p /\ d \in Nat
  OBVIOUS
<1>2. from + k * p = (d + k) * p
  BY <1>1
<1>3. d + k \in Nat
  BY <1>1
<1>. QED BY <1>2, <1>3

(* cloudwatch.py:78-88: no period of the first window is one of the second.*)
LEMMA WindowsSplit ==
  ASSUME \A m \in metrics : m[3] \in Timestamps, NEW p \in Periods, NEW from \in Timestamps, NEW k \in 1 .. 2,
         NEW to \in Timestamps, from % p = 0, NEW middle, middle = from + k * p, middle <= to
  PROVE  /\ \A m \in Watching!InWindow(from, to) :
                IF m[3] < middle THEN /\ m \in Watching!InWindow(from, middle)
                                      /\ m \notin Watching!InWindow(middle, to)
                                      /\ Watching!Bucket(m, p) < middle
                                 ELSE /\ m \in Watching!InWindow(middle, to)
                                      /\ m \notin Watching!InWindow(from, middle)
                                      /\ ~(Watching!Bucket(m, p) < middle)
         /\ Watching!InWindow(from, middle) \subseteq Watching!InWindow(from, to)
         /\ Watching!InWindow(middle, to) \subseteq Watching!InWindow(from, to)
<1>1. p \in Nat \ {0} /\ from \in Nat /\ to \in Nat /\ k \in Nat /\ \A m \in metrics : m[3] \in Nat
  <2>1. Timestamps \subseteq Nat /\ Periods \subseteq Nat \ {0}
    BY MetricsAssumption
  <2>2. p \in Nat \ {0} /\ from \in Nat /\ to \in Nat
    BY <2>1
  <2>3. k \in Nat
    OBVIOUS
  <2>4. \A m \in metrics : m[3] \in Nat
    BY <2>1
  <2>. QED BY <2>2, <2>3, <2>4
<1>2. PICK c \in Nat : middle = c * p
  BY <1>1, MiddleWhole, ZenonT(30)
<1>3. k * p \in Nat /\ middle \in Nat /\ from <= middle
  <2>1. k * p \in Nat
    BY <1>1
  <2>. QED BY <1>1, <2>1
<1>4. \A m \in metrics : Watching!Bucket(m, p) < middle <=> m[3] < middle
  <2>1. ASSUME NEW m \in metrics PROVE (m[3] \div p) * p < c * p <=> m[3] < c * p
    BY <1>1, BucketOrder
  <2>. QED BY <1>2, <2>1 DEF Watching!Bucket
<1>5. \A m \in metrics : /\ m \in Watching!InWindow(from, to) <=> from <= m[3] /\ m[3] < to
                         /\ m \in Watching!InWindow(from, middle) <=> from <= m[3] /\ m[3] < middle
                         /\ m \in Watching!InWindow(middle, to) <=> middle <= m[3] /\ m[3] < to
  BY DEF Watching!InWindow
<1>6. \A a, b : Watching!InWindow(a, b) \subseteq metrics
  BY DEF Watching!InWindow
<1>7. ASSUME NEW m \in metrics, from <= m[3], m[3] < to
      PROVE  IF m[3] < middle THEN ~(middle <= m[3]) ELSE middle <= m[3]
  BY <1>1, <1>3
<1>8. \A m \in metrics : (from <= m[3] /\ m[3] < middle) \/ (middle <= m[3] /\ m[3] < to) => from <= m[3] /\ m[3] < to
  BY <1>1, <1>3
<1>9. \A m \in Watching!InWindow(from, to) : m \in metrics /\ from <= m[3] /\ m[3] < to
  BY <1>5, <1>6
<1>10. \A m \in Watching!InWindow(from, to) :
                IF m[3] < middle THEN /\ m \in Watching!InWindow(from, middle)
                                      /\ m \notin Watching!InWindow(middle, to)
                                      /\ Watching!Bucket(m, p) < middle
                                 ELSE /\ m \in Watching!InWindow(middle, to)
                                      /\ m \notin Watching!InWindow(from, middle)
                                      /\ ~(Watching!Bucket(m, p) < middle)
  BY <1>4, <1>5, <1>7, <1>9
<1>11. /\ Watching!InWindow(from, middle) \subseteq Watching!InWindow(from, to)
       /\ Watching!InWindow(middle, to) \subseteq Watching!InWindow(from, to)
  BY <1>5, <1>6, <1>8
<1>. QED BY <1>10, <1>11

LEMMA StatisticsOf ==
  \A from, to, p :
      Watching!Statistics(from, to, p) =
          [b \in {Watching!Bucket(m, p) : m \in Watching!InWindow(from, to)} |->
              Watching!Cardinality({m \in Watching!InWindow(from, to) : Watching!Bucket(m, p) = b})]
  BY DEF Watching!Statistics

LEMMA MetricsAddUp ==
  ASSUME \A m \in metrics : m[3] \in Timestamps
  PROVE  Watching!WindowsAddUp
<1> SUFFICES ASSUME NEW p \in Periods, NEW from \in Timestamps, NEW k \in 1 .. 2, NEW to \in Timestamps,
                    NEW middle, middle = from + k * p, from % p = 0, middle <= to,
                    NEW whole, whole = Watching!Statistics(from, to, p),
                    NEW first, first = Watching!Statistics(from, middle, p),
                    NEW second, second = Watching!Statistics(middle, to, p)
             PROVE  DOMAIN first \cap DOMAIN second = {} /\ whole = Watching!Also(first, second)
  BY DEF Watching!WindowsAddUp
<1>. PICK W, W1, W2 : W = Watching!InWindow(from, to) /\ W1 = Watching!InWindow(from, middle) /\ W2 = Watching!InWindow(middle, to)
  OBVIOUS
<1> DEFINE B(m) == Watching!Bucket(m, p)
<1>1. /\ \A m \in W : IF m[3] < middle THEN m \in W1 /\ m \notin W2 /\ B(m) < middle
                                       ELSE m \in W2 /\ m \notin W1 /\ ~(B(m) < middle)
      /\ W1 \subseteq W /\ W2 \subseteq W
  BY WindowsSplit
<1>2. /\ whole = [b \in {B(m) : m \in W} |-> Watching!Cardinality({m \in W : B(m) = b})]
      /\ first = [b \in {B(m) : m \in W1} |-> Watching!Cardinality({m \in W1 : B(m) = b})]
      /\ second = [b \in {B(m) : m \in W2} |-> Watching!Cardinality({m \in W2 : B(m) = b})]
  BY StatisticsOf
<1>3. \A m \in W : m \in W1 <=> B(m) < middle
  BY <1>1
<1>4. \A m \in W : m \in W2 <=> ~(B(m) < middle)
  BY <1>1
<1> HIDE DEF B
<1>5. DOMAIN first = {B(m) : m \in W1} /\ DOMAIN second = {B(m) : m \in W2} /\ DOMAIN whole = {B(m) : m \in W}
  BY <1>2
<1>6. DOMAIN first \cap DOMAIN second = {}
  BY <1>1, <1>3, <1>4, <1>5
<1>7. DOMAIN whole = DOMAIN first \cup DOMAIN second
  BY <1>1, <1>3, <1>4, <1>5
<1>8. ASSUME NEW b \in DOMAIN first PROVE whole[b] = first[b]
  <2>1. b < middle
    BY <1>1, <1>3, <1>5
  <2>2. {m \in W : B(m) = b} = {m \in W1 : B(m) = b}
    BY <1>1, <1>3, <2>1
  <2>. QED BY <1>2, <1>5, <1>7, <2>2
<1>9. ASSUME NEW b \in DOMAIN second PROVE whole[b] = second[b]
  <2>1. ~(b < middle)
    BY <1>1, <1>4, <1>5
  <2>2. {m \in W : B(m) = b} = {m \in W2 : B(m) = b}
    BY <1>1, <1>4, <2>1
  <2>. QED BY <1>2, <1>5, <1>7, <2>2
<1>10. whole = [b \in DOMAIN whole |-> whole[b]]
  BY <1>2
<1>. QED BY <1>6, <1>7, <1>8, <1>9, <1>10 DEF Watching!Also

(* Data points are those of the batches. *)
MetricOther == LogSteps \cup {"alarm", "delete", "state", "history"}

DatumTodo == <<"datum">>

IsData(s) == "data" \in DOMAIN s

MetricLocal(s) ==
    /\ {"todo", "touches"} \subseteq DOMAIN s
    /\ IsData(s) =>
          /\ DOMAIN s = {"todo", "touches", "at", "data"} /\ s.todo = DatumTodo
          /\ s.data \in Seq(Timestamps \cup {Nameless}) /\ s.data # <<>>
    /\ ~IsData(s) => s.todo \in Seq(MetricOther)

MetricInv ==
    /\ Threads /\ \A t \in Workers : MetricLocal(local[t])
    /\ \A m \in metrics : m[3] \in Timestamps

LEMMA MetricIdle == MetricLocal(Idle)
<1>1. Idle.todo = <<>> /\ DOMAIN Idle = {"todo", "touches"}
  BY DEF Idle
<1>2. <<>> \in Seq(MetricOther)
  OBVIOUS
<1>3. ~IsData(Idle)
  BY <1>1 DEF IsData
<1>. QED BY <1>1, <1>2, <1>3 DEF MetricLocal

LEMMA MetricAt ==
  ASSUME MetricInv, NEW t \in Workers, NEW step, Watching!At(t, step)
  PROVE  /\ MetricLocal(local[t])
         /\ step = "datum" => IsData(local[t])
         /\ step \in MetricOther => ~IsData(local[t]) /\ local[t].todo \in Seq(MetricOther)
<1> DEFINE s == local[t]
<1>1. MetricLocal(s) /\ s.todo # <<>> /\ Head(s.todo) = step
  BY DEF MetricInv, Watching!At
<1>2. s.todo \in Seq(MetricOther) => step \in MetricOther
  BY <1>1
<1>3. "datum" \notin MetricOther
  BY DEF MetricOther, LogSteps
<1>4. DatumTodo # <<>> /\ Head(DatumTodo) = "datum"
  BY Tails DEF DatumTodo
<1>5. CASE IsData(s)
  <2>1. s.todo = DatumTodo
    BY <1>1, <1>5 DEF MetricLocal
  <2>. QED BY <1>1, <1>3, <1>4, <1>5, <2>1
<1>6. CASE ~IsData(s)
  <2>1. s.todo \in Seq(MetricOther)
    BY <1>1, <1>6 DEF MetricLocal
  <2>. QED BY <1>1, <1>2, <1>3, <1>6, <2>1
<1>. QED BY <1>5, <1>6

LEMMA MetricGoes ==
  ASSUME MetricInv, NEW t \in Workers, NEW r, Goes(t, r), MetricLocal(r), \A m \in metrics' : m[3] \in Timestamps
  PROVE  MetricInv'
<1>1. Threads' /\ Only(t, IF r.todo = <<>> THEN Idle ELSE r)
  BY GoesOnly DEF MetricInv
<1>2. \A u \in Workers : MetricLocal(local'[u])
  BY <1>1, MetricIdle DEF Only, MetricInv
<1>. QED BY <1>1, <1>2 DEF MetricInv

LEMMA MetricPuts ==
  ASSUME MetricInv, NEW t \in Workers, Watching!PutDatum(t)
  PROVE  MetricInv'
<1>. PICK s : s = local[t]
  OBVIOUS
<1>. PICK head, tail : head = Head(s.data) /\ tail = Tail(s.data)
  OBVIOUS
<1>1. Watching!At(t, "datum")
  BY DEF Watching!PutDatum
<1>2. IsData(s) /\ MetricLocal(s)
  BY <1>1, MetricAt
<1>3. /\ DOMAIN s = {"todo", "touches", "at", "data"} /\ s.todo = DatumTodo
      /\ s.data \in Seq(Timestamps \cup {Nameless}) /\ s.data # <<>>
  BY <1>2 DEF MetricLocal
<1>4. head \in Timestamps \cup {Nameless} /\ tail \in Seq(Timestamps \cup {Nameless})
  BY <1>3
<1>5. CASE Watching!Ends(t) /\ metrics' = metrics
  <2>1. Goes(t, Idle)
    BY <1>5, WatchingThreads
  <2>2. \A m \in metrics' : m[3] \in Timestamps
    BY <1>5 DEF MetricInv
  <2>. QED BY <2>1, <2>2, MetricIdle, MetricGoes
<1>6. CASE head # Nameless /\ metrics' = metrics \cup {<<s.at, Len(s.data) - 1, head>>}
  <2>. PICK x : x = <<s.at, Len(s.data) - 1, head>>
    OBVIOUS
  <2>1. x[3] = head
    OBVIOUS
  <2>2. \A m \in metrics' : m[3] \in Timestamps
    BY <1>4, <1>6, <2>1 DEF MetricInv
  <2>3. CASE Len(s.data) - 1 = 0
    <3>1. Watching!Ends(t)
      BY <1>6, <2>3 DEF Watching!PutDatum
    <3>2. Goes(t, Idle)
      BY <3>1, WatchingThreads
    <3>. QED BY <2>2, <3>2, MetricIdle, MetricGoes
  <2>4. CASE Len(s.data) - 1 # 0
    <3> DEFINE q == [s EXCEPT !.data = Tail(@)]
    <3>1. Watching!Continue(t, q)
      BY <1>6, <2>4 DEF Watching!PutDatum
    <3>2. Goes(t, q)
      BY <3>1, WatchingThreads
    <3>3. DOMAIN q = DOMAIN s /\ q.todo = s.todo /\ q.data = tail
      BY <1>3
    <3> HIDE DEF q
    <3>4. tail # <<>>
      <4>1. \A d \in Seq(Timestamps \cup {Nameless}) : d # <<>> => Len(Tail(d)) = Len(d) - 1
        OBVIOUS
      <4>2. Len(tail) # 0
        BY <1>3, <2>4, <4>1
      <4>. QED BY <4>2
    <3>5. IsData(q)
      BY <1>3, <3>3 DEF IsData
    <3>6. MetricLocal(q)
      BY <1>3, <1>4, <3>3, <3>4, <3>5 DEF MetricLocal
    <3>. QED BY <2>2, <3>2, <3>6, MetricGoes
  <2>. QED BY <2>3, <2>4
<1>. QED BY <1>5, <1>6 DEF Watching!PutDatum

LEMMA MetricAsked ==
  ASSUME MetricInv, NEW t \in Workers, NEW s, Watching!Ask(t, s), MetricLocal(s)
  PROVE  MetricInv'
<1>1. Begins(t, s) /\ metrics' = metrics
  BY WatchingThreads DEF Watching!Ask, Watching!cwvars
<1>2. Threads' /\ Only(t, s)
  BY <1>1, BeginsOnly DEF MetricInv
<1>3. \A u \in Workers : MetricLocal(local'[u])
  BY <1>2 DEF Only, MetricInv
<1>. QED BY <1>1, <1>2, <1>3 DEF MetricInv

LEMMA MetricBatchAsked ==
  ASSUME MetricInv, NEW t \in Workers, NEW batch \in Batches, Watching!PutMetrics(t, batch)
  PROVE  MetricInv'
<1>. PICK q : q = [data |-> batch]
  OBVIOUS
<1>. PICK s : s = Watching!On({}, DatumTodo, q)
  OBVIOUS
<1>0. Watching!Ask(t, s)
  BY DEF Watching!PutMetrics, DatumTodo
<1>1. DOMAIN q = {"data"} /\ q.data = batch
  OBVIOUS
<1>2. DOMAIN s = {"todo", "touches", "at", "data"} /\ s.todo = DatumTodo /\ s.data = batch
  BY <1>1 DEF Watching!On, Watching!Also
<1>3. batch \in Seq(Timestamps \cup {Nameless}) /\ batch # <<>>
  <2>1. Batches \subseteq Seq(Timestamps \cup {Nameless}) \ {<<>>}
    BY MetricsAssumption
  <2>. QED BY <2>1
<1>4. IsData(s)
  BY <1>2 DEF IsData
<1>5. MetricLocal(s)
  BY <1>2, <1>3, <1>4 DEF MetricLocal
<1>. QED BY <1>0, <1>5, MetricAsked

MetricFields == {"group", "streams", "stream", "event", "alarm", "found", "state"}

LEMMA MetricOtherAsked ==
  ASSUME MetricInv, NEW t \in Workers, NEW rows, NEW todo \in Seq(MetricOther), NEW q, DOMAIN q \subseteq MetricFields,
         Watching!Ask(t, Watching!On(rows, todo, q))
  PROVE  MetricInv'
<1>. PICK s : s = Watching!On(rows, todo, q)
  OBVIOUS
<1>1. DOMAIN s = {"todo", "touches", "at"} \cup DOMAIN q /\ s.todo = todo
  BY DEF Watching!On, Watching!Also
<1>2. ~IsData(s)
  BY <1>1 DEF IsData, MetricFields
<1>3. MetricLocal(s)
  BY <1>1, <1>2 DEF MetricLocal
<1>. QED BY <1>3, MetricAsked

LEMMA MetricOtherTodos ==
  /\ <<"create group">> \in Seq(MetricOther) /\ <<"create stream">> \in Seq(MetricOther)
  /\ <<"event">> \in Seq(MetricOther) /\ <<"drop streams", "drop events", "drop group">> \in Seq(MetricOther)
  /\ <<"drop events", "drop streams">> \in Seq(MetricOther) /\ <<"alarm">> \in Seq(MetricOther)
  /\ <<"delete">> \in Seq(MetricOther) /\ <<"state", "history">> \in Seq(MetricOther)
<1>1. /\ "create group" \in MetricOther /\ "create stream" \in MetricOther /\ "event" \in MetricOther
      /\ "drop streams" \in MetricOther /\ "drop events" \in MetricOther /\ "drop group" \in MetricOther
      /\ "alarm" \in MetricOther /\ "delete" \in MetricOther /\ "state" \in MetricOther /\ "history" \in MetricOther
  BY DEF MetricOther, LogSteps
<1> HIDE DEF MetricOther
<1>2. \A a, b, c \in MetricOther : <<a, b, c>> \in Seq(MetricOther)
  OBVIOUS
<1>3. \A a, b \in MetricOther : <<a, b>> \in Seq(MetricOther)
  OBVIOUS
<1>4. \A a \in MetricOther : <<a>> \in Seq(MetricOther)
  OBVIOUS
<1>. QED BY <1>1, <1>2, <1>3, <1>4

LEMMA MetricOtherRecords ==
  /\ \A g : DOMAIN [group |-> g] \subseteq MetricFields
  /\ \A g, x : DOMAIN [group |-> g, streams |-> x] \subseteq MetricFields
  /\ \A x : DOMAIN [stream |-> x] \subseteq MetricFields
  /\ \A e : DOMAIN [event |-> e] \subseteq MetricFields
  /\ \A a : DOMAIN [alarm |-> a] \subseteq MetricFields
  /\ \A a, found : DOMAIN [alarm |-> a, found |-> found] \subseteq MetricFields
  /\ \A a, state : DOMAIN [alarm |-> a, state |-> state] \subseteq MetricFields
<1>2. \A g : DOMAIN [group |-> g] \subseteq MetricFields
  BY DEF MetricFields
<1>3. \A g, x : DOMAIN [group |-> g, streams |-> x] \subseteq MetricFields
  BY DEF MetricFields
<1>4. \A x : DOMAIN [stream |-> x] \subseteq MetricFields
  BY DEF MetricFields
<1>5. \A e : DOMAIN [event |-> e] \subseteq MetricFields
  BY DEF MetricFields
<1>6. \A a : DOMAIN [alarm |-> a] \subseteq MetricFields
  BY DEF MetricFields
<1>7. \A a, found : DOMAIN [alarm |-> a, found |-> found] \subseteq MetricFields
  BY DEF MetricFields
<1>8. \A a, state : DOMAIN [alarm |-> a, state |-> state] \subseteq MetricFields
  BY DEF MetricFields
<1>. QED BY <1>2, <1>3, <1>4, <1>5, <1>6, <1>7, <1>8

LEMMA MetricOtherSteps ==
  ASSUME MetricInv, NEW t \in Workers,
         \/ Watching!CreateGroup(t) \/ Watching!DropStreams(t) \/ Watching!DropEvents(t) \/ Watching!DropGroup(t)
         \/ Watching!CreateStream(t) \/ Watching!PutEvent(t)
         \/ Watching!PutAlarm(t) \/ Watching!DeleteAlarm(t) \/ Watching!SetState(t) \/ Watching!AddHistory(t)
  PROVE  MetricInv'
<1>. PICK s : s = local[t]
  OBVIOUS
<1>1. /\ metrics' = metrics /\ Watching!Advance(t)
      /\ \E step \in MetricOther : Watching!At(t, step)
  BY DEF Watching!CreateGroup, Watching!DropStreams, Watching!DropEvents, Watching!DropGroup,
         Watching!CreateStream, Watching!PutEvent, Watching!PutAlarm, Watching!DeleteAlarm, Watching!SetState,
         Watching!AddHistory, Watching!Does, MetricOther, LogSteps
<1>2. s.todo \in Seq(MetricOther) /\ s.todo # <<>> /\ ~IsData(s) /\ {"todo", "touches"} \subseteq DOMAIN s
  BY <1>1, MetricAt DEF Watching!At, MetricLocal
<1>3. Tail(s.todo) \in Seq(MetricOther)
  BY <1>2
<1>4. DOMAIN Rest(s) = DOMAIN s /\ Rest(s).todo = Tail(s.todo)
  BY <1>2, RestFields
<1>5. ~IsData(Rest(s))
  BY <1>2, <1>4 DEF IsData
<1>6. MetricLocal(Rest(s))
  BY <1>2, <1>3, <1>4, <1>5 DEF MetricLocal
<1>7. Goes(t, Rest(s)) /\ \A m \in metrics' : m[3] \in Timestamps
  BY <1>1, WatchingThreads DEF MetricInv
<1>. QED BY <1>6, <1>7, MetricGoes

LEMMA MetricNext ==
  ASSUME MetricInv, [Watching!Next]_(Watching!vars)
  PROVE  MetricInv'
<1>1. CASE UNCHANGED Watching!vars
  <2>1. UNCHANGED <<local, metrics>>
    BY <1>1 DEF Watching!vars, Watching!requests, Watching!cwvars
  <2>. QED BY <2>1 DEF MetricInv, Threads
<1>2. CASE (Watching!Crash \/ \E t \in Workers : Watching!Fails(t)) /\ UNCHANGED Watching!cwvars
  <2>1. metrics' = metrics
    BY <1>2 DEF Watching!cwvars
  <2>2. Breaks
    BY <1>2, WatchingThreads DEF MetricInv
  <2>3. Threads' /\ \A u \in Workers : local'[u] = local[u] \/ local'[u] = Idle
    BY <2>2, BreaksThreads DEF Breaks
  <2>. QED BY <2>1, <2>3, MetricIdle DEF MetricInv
<1>3. ASSUME NEW t \in Workers, Watching!Serve(t) PROVE MetricInv'
  <2>1. CASE \E g \in LogGroups : Watching!CreateGroupCheck(t, g)
    BY <2>1, MetricOtherAsked, MetricOtherTodos, MetricOtherRecords DEF Watching!CreateGroupCheck
  <2>2. CASE \E g \in LogGroups : Watching!DeleteGroupRequire(t, g)
    BY <2>2, MetricOtherAsked, MetricOtherTodos, MetricOtherRecords DEF Watching!DeleteGroupRequire
  <2>3. CASE \E g \in LogGroups, x \in LogStreams : Watching!DeleteStreamRequire(t, g, x)
    BY <2>3, MetricOtherAsked, MetricOtherTodos, MetricOtherRecords DEF Watching!DeleteStreamRequire
  <2>4. CASE \E g \in LogGroups, x \in LogStreams : Watching!CreateStreamCheck(t, g, x)
    BY <2>4, MetricOtherAsked, MetricOtherTodos, MetricOtherRecords DEF Watching!CreateStreamCheck
  <2>5. CASE \E g \in LogGroups, x \in LogStreams : Watching!PutEventsRequire(t, g, x)
    BY <2>5, MetricOtherAsked, MetricOtherTodos, MetricOtherRecords DEF Watching!PutEventsRequire
  <2>6. CASE \E a \in Alarms : Watching!PutAlarmSelect(t, a)
    BY <2>6, MetricOtherAsked, MetricOtherTodos, MetricOtherRecords DEF Watching!PutAlarmSelect
  <2>7. CASE \E a \in Alarms : Watching!DeleteAlarmRequire(t, a)
    BY <2>7, MetricOtherAsked, MetricOtherTodos, MetricOtherRecords DEF Watching!DeleteAlarmRequire
  <2>8. CASE \E a \in Alarms, state \in Watching!States : Watching!SetStateRequire(t, a, state)
    BY <2>8, MetricOtherAsked, MetricOtherTodos, MetricOtherRecords DEF Watching!SetStateRequire
  <2>. QED BY <1>3, <2>1, <2>2, <2>3, <2>4, <2>5, <2>6, <2>7, <2>8, MetricBatchAsked, MetricPuts, MetricOtherSteps
              DEF Watching!Serve
<1>. QED BY <1>1, <1>2, <1>3 DEF Watching!Next

LEMMA MetricInit ==
  ASSUME InitRequests, Watching!InitTables
  PROVE  MetricInv
<1>1. \A t \in Workers : local[t] = Idle
  BY DEF InitRequests
<1>2. Threads /\ metrics = {}
  BY <1>1 DEF InitRequests, Threads, Watching!InitTables
<1>. QED BY <1>1, <1>2, MetricIdle DEF MetricInv

-----------------------------------------------------------------------------
(* cloudwatch.py:66-102: get_metric_statistics of two adjoining windows,   *)
(* of which the first is whole periods, has every data point of the two    *)
(* together in its period, and once.                                       *)
THEOREM WindowsSum == Spec => []WindowsAddUp
<1> DEFINE Inv == service = "cloudwatch" => MetricInv
<1>1. Init => Inv
  BY MetricInit DEF Init
<1>2. Inv /\ [Next]_vars => Inv'
  <2> SUFFICES ASSUME Inv, [Next]_vars, service' = "cloudwatch" PROVE MetricInv'
    OBVIOUS
  <2>. QED BY ServiceStep, MetricNext
<1>3. Inv => WindowsAddUp
  BY MetricsAddUp DEF WindowsAddUp, MetricInv
<1>. QED BY <1>1, <1>2, <1>3, PTL DEF Spec

-----------------------------------------------------------------------------
(* A row that names another has it: a subscription its topic, a target its *)
(* rule and a rule its bus, an event its stream and a stream its group, a  *)
(* resource its API, which is the only one of its name, unless requests    *)
(* for them overlapped or broke off.  A deletion goes through the tables   *)
(* one after another, and whoever adds a row has looked for the owner a    *)
(* statement earlier.                                                      *)
OwnersInv ==
    /\ service = "sns" => TopicInv
    /\ service = "eventbridge" => BusInv
    /\ service = "cloudwatch" => LogInv
    /\ service = "apigateway" => MatchInv /\ ApiInv

LEMMA OwnersNext ==
  ASSUME OwnersInv, [Next]_vars
  PROVE  OwnersInv'
<1>1. service' = "sns" => TopicInv'
  BY ServiceStep, TopicNext DEF OwnersInv
<1>2. service' = "eventbridge" => BusInv'
  BY ServiceStep, BusNext DEF OwnersInv
<1>3. service' = "cloudwatch" => LogInv'
  BY ServiceStep, LogNext DEF OwnersInv
<1>4. service' = "apigateway" => MatchInv' /\ ApiInv'
  <2>1. MatchInv => RowsInv
    BY DEF MatchInv
  <2>. QED BY <2>1, ServiceStep, MatchNext, ApiNext DEF OwnersInv
<1>. QED BY <1>1, <1>2, <1>3, <1>4 DEF OwnersInv

(* sns.py:50-53, eventbridge.py:82-180, cloudwatch.py:126-203 and          *)
(* apigateway.py:60-124: no row without its owner, as OwnersInv says.      *)
THEOREM RowsAreOwned == Spec => []RowsHaveOwners
<1>1. Init => OwnersInv
  BY TopicInit, BusInit, LogInit, MatchInit, ApiInit DEF Init, OwnersInv
<1>2. OwnersInv /\ [Next]_vars => OwnersInv'
  BY OwnersNext
<1>3. OwnersInv => RowsHaveOwners
  <2>1. MatchInv => RowsInv
    BY DEF MatchInv
  <2>. QED BY <2>1, TopicOwnedAll, BusOwned, LogOwnedAll, ApiOwnedAll DEF OwnersInv, RowsHaveOwners
<1>. QED BY <1>1, <1>2, <1>3, PTL DEF Spec
=============================================================================
