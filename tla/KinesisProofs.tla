--------------------------- MODULE KinesisProofs ---------------------------
(* Theorems about Kinesis for every value of its constants. *)
EXTENDS Kinesis, SequenceTheorems, FiniteSetTheorems, TLAPS

(***************************************************************************)
(* The order of rows.  In a finite set of rows with ids of their own every *)
(* rank is taken by one row, so there is a row with the highest sequence   *)
(* number, and an answer lists every row once.                             *)
(***************************************************************************)

Rows(S) ==
    /\ S \subseteq Record
    /\ IsFiniteSet(S)
    /\ \A r, s \in S : r.id = s.id => r = s

LEMMA BeforeIsTotal ==
  ASSUME NEW S, Rows(S), NEW q \in S, NEW r \in S, NEW s \in S
  PROVE  /\ ~ Before(r, r)
         /\ Before(q, r) /\ Before(r, s) => Before(q, s)
         /\ r = s \/ Before(r, s) \/ Before(s, r)
  BY DEF Rows, Record, Before

LEMMA SomeRows ==
  ASSUME NEW S, Rows(S), NEW T \in SUBSET S
  PROVE  Rows(T) /\ Cardinality(T) \in Nat
<1>1. IsFiniteSet(T)
  BY FS_Subset DEF Rows
<1>. QED BY <1>1, FS_CardinalityType DEF Rows

LEMMA RankType ==
  ASSUME NEW S, Rows(S), NEW r \in S
  PROVE  Rank(S, r) \in 0 .. Cardinality(S) - 1
<1> DEFINE T == {q \in S : Before(q, r)}
<1>1. T \in SUBSET S \ {r}
  BY BeforeIsTotal
<1>2. IsFiniteSet(S) /\ Cardinality(S) \in Nat
  BY SomeRows DEF Rows
<1>3. IsFiniteSet(S \ {r}) /\ Cardinality(S \ {r}) = Cardinality(S) - 1
  BY <1>2, FS_RemoveElement
<1>4. Cardinality(T) <= Cardinality(S) - 1
  BY <1>1, <1>3, FS_Subset
<1>5. Cardinality(T) \in Nat
  BY SomeRows
<1> HIDE DEF T
<1>6. Cardinality(T) \in 0 .. Cardinality(S) - 1
  BY <1>2, <1>4, <1>5
<1>. QED BY <1>6 DEF T, Rank

LEMMA RankGrows ==
  ASSUME NEW S, Rows(S), NEW r \in S, NEW s \in S, Before(r, s)
  PROVE  Rank(S, r) < Rank(S, s)
<1> DEFINE T == {q \in S : Before(q, r)}
           U == {q \in S : Before(q, s)}
<1>1. T \in SUBSET U
  BY BeforeIsTotal
<1>2. r \in U /\ r \notin T
  BY BeforeIsTotal
<1>3. IsFiniteSet(U) /\ Cardinality(U) \in Nat /\ Cardinality(T) \in Nat
  BY SomeRows DEF Rows
<1> HIDE DEF T, U
<1>4. Cardinality(T) <= Cardinality(U) /\ Cardinality(T) # Cardinality(U)
  BY <1>1, <1>2, <1>3, FS_Subset
<1>5. Cardinality(T) < Cardinality(U)
  BY <1>3, <1>4
<1>. QED BY <1>5 DEF T, U, Rank

LEMMA RankOnto ==
  ASSUME NEW S, Rows(S), NEW k \in 0 .. Cardinality(S) - 1
  PROVE  \E r \in S : Rank(S, r) = k
<1> DEFINE n == Cardinality(S)
           f == [r \in S |-> Rank(S, r)]
<1>1. IsFiniteSet(S) /\ n \in Nat
  BY SomeRows DEF Rows
<1>2. f \in [S -> 0 .. n - 1]
  BY RankType
<1>3. ASSUME NEW r \in S, NEW s \in S, f[r] = f[s]
      PROVE  r = s
  <2>1. Rank(S, r) = Rank(S, s) /\ Rank(S, r) \in Nat
    BY <1>3, RankType
  <2>2. ~ (Rank(S, r) < Rank(S, s)) /\ ~ (Rank(S, s) < Rank(S, r))
    BY <2>1
  <2>. QED BY <2>2, RankGrows, BeforeIsTotal
<1>4. IsFiniteSet(0 .. n - 1) /\ Cardinality(0 .. n - 1) = n
  BY <1>1, FS_Interval
<1>5. f \in Injection(S, 0 .. n - 1)
  BY <1>2, <1>3 DEF Injection, IsInjective
<1> HIDE DEF f
<1>6. f \in Surjection(S, 0 .. n - 1)
  BY <1>4, <1>5, FS_Injection
<1>7. PICK r \in S : f[r] = k
  BY <1>6 DEF Surjection
<1>. QED BY <1>7 DEF f

LEMMA RankedIsUnique ==
  ASSUME NEW S, Rows(S)
  PROVE  /\ \A k \in 0 .. Cardinality(S) - 1 :
               Ranked(S, k) \in S /\ Rank(S, Ranked(S, k)) = k
         /\ \A r \in S : Ranked(S, Rank(S, r)) = r
<1>1. ASSUME NEW k \in 0 .. Cardinality(S) - 1
      PROVE  Ranked(S, k) \in S /\ Rank(S, Ranked(S, k)) = k
  BY RankOnto DEF Ranked
<1>2. ASSUME NEW r \in S
      PROVE  Ranked(S, Rank(S, r)) = r
  <2> DEFINE s == Ranked(S, Rank(S, r))
  <2>1. s \in S /\ Rank(S, s) = Rank(S, r)
    BY <1>1, RankType
  <2> HIDE DEF s
  <2>2. Rank(S, r) \in Nat
    BY RankType
  <2>3. ~ (Rank(S, r) < Rank(S, s)) /\ ~ (Rank(S, s) < Rank(S, r))
    BY <2>1, <2>2
  <2>4. s = r
    BY <2>1, <2>3, RankGrows, BeforeIsTotal
  <2>. QED BY <2>4 DEF s
<1>. QED BY <1>1, <1>2

LEMMA LastRow ==
  ASSUME NEW S, Rows(S), S # {}
  PROVE  \E r \in S : \A q \in S : q = r \/ Before(q, r)
<1> DEFINE n == Cardinality(S)
<1>1. n \in Nat /\ n # 0
  BY SomeRows, FS_EmptySet DEF Rows
<1>2. PICK r \in S : Rank(S, r) = n - 1
  BY <1>1, RankOnto
<1>3. ASSUME NEW q \in S, q # r
      PROVE  Before(q, r)
  <2>1. ~ Before(r, q)
    <3>1. Rank(S, q) \in 0 .. n - 1
      BY RankType
    <3>2. ~ (Rank(S, r) < Rank(S, q))
      BY <1>1, <1>2, <3>1
    <3>. QED BY <3>2, RankGrows
  <2>. QED BY <1>3, <2>1, BeforeIsTotal
<1>. QED BY <1>3

(* MAX(seq) of some rows is the number of one of them and below none.      *)
LEMMA MaxSeqIsLargest ==
  ASSUME NEW S, Rows(S)
  PROVE  /\ MaxSeq(S) \in Nat
         /\ \A r \in S : r.seq <= MaxSeq(S)
         /\ S # {} => \E r \in S : r.seq = MaxSeq(S)
         /\ S = {} => MaxSeq(S) = 0
<1>1. CASE S = {}
  BY <1>1 DEF MaxSeq
<1>2. CASE S # {}
  <2> DEFINE T == {r.seq : r \in S}
  <2>1. PICK r \in S : \A q \in S : q = r \/ Before(q, r)
    BY <1>2, LastRow
  <2>2. r.seq \in T /\ \A q \in S : q.seq <= r.seq
    BY <2>1 DEF Rows, Record, Before
  <2>3. \E m \in T : \A q \in S : q.seq <= m
    BY <2>2
  <2>4. MaxSeq(S) \in T /\ \A q \in S : q.seq <= MaxSeq(S)
    BY <1>2, <2>3 DEF MaxSeq
  <2>. QED BY <1>2, <2>4 DEF Rows, Record
<1>. QED BY <1>1, <1>2

LEMMA FirstRowsOf ==
  ASSUME NEW S, Rows(S), NEW k \in Nat
  PROVE  /\ FirstRows(S, k) \subseteq S
         /\ \A r \in FirstRows(S, k), q \in S : Before(q, r) => q \in FirstRows(S, k)
<1>1. FirstRows(S, k) \subseteq S
  BY DEF FirstRows
<1>2. ASSUME NEW r \in FirstRows(S, k), NEW q \in S, Before(q, r)
      PROVE  q \in FirstRows(S, k)
  <2>1. r \in S /\ Rank(S, r) < k
    BY DEF FirstRows
  <2>2. Rank(S, q) < Rank(S, r) /\ Rank(S, q) \in Nat /\ Rank(S, r) \in Nat
    BY <1>2, <2>1, RankGrows, RankType
  <2>3. Rank(S, q) < k
    BY <2>1, <2>2
  <2>. QED BY <2>3 DEF FirstRows
<1>. QED BY <1>1, <1>2

(* The ids of an answer are those of its rows.                             *)
LEMMA IdsOfRows ==
  ASSUME NEW S, Rows(S)
  PROVE  /\ Ids(S) \in Seq(Nat)
         /\ DOMAIN Ids(S) = 1 .. Cardinality(S)
         /\ Len(Ids(S)) = Cardinality(S)
         /\ \A k \in 1 .. Cardinality(S) : \E r \in S : Ids(S)[k] = r.id
         /\ \A r \in S : \E k \in 1 .. Cardinality(S) : Ids(S)[k] = r.id
<1> DEFINE n == Cardinality(S)
<1>1. n \in Nat
  BY SomeRows
<1>2. ASSUME NEW k \in 1 .. n
      PROVE  /\ Ranked(S, k - 1) \in S
             /\ Ids(S)[k] = Ranked(S, k - 1).id
             /\ Ids(S)[k] \in Nat
  <2>1. k - 1 \in 0 .. n - 1
    BY <1>1
  <2>2. Ranked(S, k - 1) \in S
    BY <2>1, RankedIsUnique
  <2>. QED BY <2>2 DEF Ids, Rows, Record
<1>3. Ids(S) \in [1 .. n -> Nat]
  BY <1>2 DEF Ids
<1>4. Ids(S) \in Seq(Nat)
  BY <1>1, <1>3, SeqDef
<1>5. DOMAIN Ids(S) = 1 .. n
  BY DEF Ids
<1>6. Len(Ids(S)) = n
  BY <1>1, <1>4, <1>5, LenProperties
<1>7. ASSUME NEW r \in S
      PROVE  \E k \in 1 .. n : Ids(S)[k] = r.id
  <2>1. Rank(S, r) \in 0 .. n - 1 /\ Ranked(S, Rank(S, r)) = r
    BY RankType, RankedIsUnique
  <2>2. Rank(S, r) + 1 \in 1 .. n /\ Rank(S, r) + 1 - 1 = Rank(S, r)
    BY <1>1, <2>1
  <2>3. Ids(S)[Rank(S, r) + 1] = r.id
    BY <1>2, <2>1, <2>2
  <2>. QED BY <2>2, <2>3
<1>. QED BY <1>2, <1>4, <1>5, <1>6, <1>7

(* Where sequence numbers grow with the ids, so do the ids of an answer.   *)
LEMMA IdsGrow ==
  ASSUME NEW S, Rows(S), \A r, s \in S : r.id < s.id => r.seq < s.seq,
         NEW j \in 1 .. Cardinality(S), NEW k \in 1 .. Cardinality(S), j < k
  PROVE  Ids(S)[j] < Ids(S)[k]
<1> DEFINE r == Ranked(S, j - 1)
           s == Ranked(S, k - 1)
<1>1. /\ j - 1 \in 0 .. Cardinality(S) - 1 /\ k - 1 \in 0 .. Cardinality(S) - 1
      /\ j - 1 < k - 1 /\ j - 1 \in Nat /\ k - 1 \in Nat
  BY SomeRows
<1>2. r \in S /\ s \in S /\ Rank(S, r) = j - 1 /\ Rank(S, s) = k - 1
  BY <1>1, RankedIsUnique
<1>3. Ids(S)[j] = r.id /\ Ids(S)[k] = s.id
  BY DEF Ids
<1> HIDE DEF r, s
<1>4. r # s /\ ~ Before(s, r)
  BY <1>1, <1>2, RankGrows
<1>5. Before(r, s)
  BY <1>2, <1>4, BeforeIsTotal
<1>6. r.id \in Nat /\ s.id \in Nat /\ r.seq \in Nat /\ s.seq \in Nat /\ r.id # s.id
  BY <1>2, <1>4 DEF Rows, Record
<1>7. r.id < s.id
  BY <1>2, <1>5, <1>6 DEF Before
<1>. QED BY <1>3, <1>7

(***************************************************************************)
(* Type correctness.  The steps of a request assign its local variables    *)
(* one after the other; an iterator somebody can use names a stream; the   *)
(* ids of the table are its own and not above the newest.                  *)
(***************************************************************************)

TableSteps == {"create", "purge", "drop", "collect", "forget", "record", "seq", "insert"}
IteratorSteps == {"query", "advance", "renew", "answer"}
ReadSteps == {"latest", "register"} \cup IteratorSteps

Shape(s) ==
    /\ s.pc \in TableSteps => s.stream \in Streams
    /\ s.pc \in ReadSteps => s.pos.stream \in Streams
    /\ s.pc \in {"seq", "insert"} => s.shards # 0
    /\ s.pc \in {"record", "seq", "insert"} => s.rest # <<>>
    /\ (s.pc \in IteratorSteps) <=> (s.old # NoIterator)
    /\ (s.pc = "answer") <=> (s.new # NoIterator)
    /\ s.client # NoClient => s.pc \in ReadSteps

(* What a thread may be in. *)
Good == {s \in LocalState : Shape(s) /\ Rows(s.rows)}

RecordsOK == Rows(records) /\ \A r \in records : r.id <= lastId

IteratorsOK ==
    \A i \in Iterators :
        i \in open \/ (\E t \in Threads : local[t].old = i) => iterators[i].stream \in Streams

TypeInv ==
    /\ TypeOK
    /\ local \in [Threads -> Good]
    /\ RecordsOK
    /\ IteratorsOK

LEMMA NoRows == Rows({}) /\ Cardinality({}) = 0
  BY FS_EmptySet DEF Rows

LEMMA IdleGood == Idle \in Good
<1>1. <<>> \in Seq(Keys)
  BY EmptySeq
<1>. QED
  BY <1>1, NoRows, KinesisAssumption
     DEF Idle, Nowhere, Good, LocalState, Steps, Position, Shape, TableSteps, ReadSteps,
         IteratorSteps

LEMMA GoodIsAssigned ==
  ASSUME NEW s \in Good
  PROVE  s \in LocalState /\ Assigned(s)
  BY DEF Good, Shape, LocalState, Steps, Assigned, TableSteps, ReadSteps, IteratorSteps

(* A step that gives thread t another local state. *)
LEMMA OneThread ==
  ASSUME local \in [Threads -> Good], NEW t \in Threads, NEW x \in Good,
         local' = [local EXCEPT ![t] = x]
  PROVE  /\ local' \in [Threads -> Good]
         /\ local'[t] = x
         /\ \A u \in Threads : u # t => local'[u] = local[u]
  OBVIOUS

(* A request that uses no iterator and inserts no record.                  *)
Aside(x) ==
    /\ x.old = NoIterator /\ x.new = NoIterator /\ x.client = NoClient
    /\ x.pc # "insert"

LEMMA AdminGood ==
  ASSUME TypeInv, NEW t \in Threads, Admin(t)
  PROVE  \E x \in Good : local' = [local EXCEPT ![t] = x] /\ Aside(x)
<1> USE KinesisAssumption
<1>0. local \in [Threads -> Good] /\ local[t] \in Good
  BY DEF TypeInv
<1>i. Idle \in Good /\ Aside(Idle)
  BY IdleGood DEF Idle, Aside
<1>1. ASSUME NEW n \in Streams, NEW k \in ShardCounts, CreateStreamCheck(t, n, k)
      PROVE  \E x \in Good : local' = [local EXCEPT ![t] = x] /\ Aside(x)
  <2> DEFINE x == [Idle EXCEPT !.pc = "create", !.stream = n, !.shards = k]
  <2>1. x \in Good
    BY ZenonT(60), <1>i DEF Good, Idle, LocalState, Steps, Shape, TableSteps, ReadSteps, IteratorSteps
  <2>2. local' = [local EXCEPT ![t] = x]
    BY <1>1 DEF CreateStreamCheck
  <2>3. Aside(x)
    BY DEF Idle, Aside
  <2>. QED BY <2>1, <2>2, <2>3
<1>2. ASSUME NEW n \in Streams, DeleteStreamRequire(t, n)
      PROVE  \E x \in Good : local' = [local EXCEPT ![t] = x] /\ Aside(x)
  <2> DEFINE x == [Idle EXCEPT !.pc = "purge", !.stream = n]
  <2>1. x \in Good
    BY <1>i DEF Good, Idle, LocalState, Steps, Shape, TableSteps, ReadSteps, IteratorSteps
  <2>2. local' = [local EXCEPT ![t] = x]
    BY <1>2 DEF DeleteStreamRequire
  <2>3. Aside(x)
    BY DEF Idle, Aside
  <2>. QED BY <2>1, <2>2, <2>3
<1>3. CASE local' = [local EXCEPT ![t] = Idle]
  BY <1>3, <1>i
<1>4. ASSUME NEW step \in {"drop", "collect"}, local[t].pc \in {"purge", "drop"},
             local' = [local EXCEPT ![t].pc = step]
      PROVE  \E x \in Good : local' = [local EXCEPT ![t] = x] /\ Aside(x)
  <2> DEFINE x == [local[t] EXCEPT !.pc = step]
  <2>1. x \in Good /\ Aside(x)
    BY <1>0, <1>4 DEF Good, LocalState, Steps, Shape, TableSteps, ReadSteps, IteratorSteps,
       Aside
  <2>2. local' = [local EXCEPT ![t] = x]
    BY <1>0, <1>4 DEF Good, LocalState
  <2>. QED BY <2>1, <2>2
<1>5. ASSUME NEW S \in SUBSET Iterators, local[t].pc \in {"collect", "forget"},
             local' = [local EXCEPT ![t].pc = "forget", ![t].stale = S]
      PROVE  \E x \in Good : local' = [local EXCEPT ![t] = x] /\ Aside(x)
  <2> DEFINE x == [local[t] EXCEPT !.pc = "forget", !.stale = S]
  <2>1. x \in Good /\ Aside(x)
    BY <1>0, <1>5 DEF Good, LocalState, Steps, Shape, TableSteps, ReadSteps, IteratorSteps,
       Aside
  <2>2. local' = [local EXCEPT ![t] = x]
    BY <1>0, <1>5 DEF Good, LocalState
  <2>. QED BY <2>1, <2>2
<1>6. CASE CreateStreamInsert(t)
  BY <1>3, <1>6 DEF CreateStreamInsert, Return
<1>7. CASE DeleteStreamRecords(t)
  BY <1>4, <1>7 DEF DeleteStreamRecords, Goto
<1>8. CASE DeleteStreamDrop(t)
  BY <1>4, <1>8 DEF DeleteStreamDrop, Goto
<1>9. CASE DeleteStreamCollect(t)
  <2> DEFINE S == {i \in open : iterators[i].stream = local[t].stream}
  <2>1. S \in SUBSET Iterators
    BY DEF TypeInv, TypeOK
  <2>2. local' = [local EXCEPT ![t].pc = "forget", ![t].stale = S]
    BY <1>9 DEF DeleteStreamCollect
  <2> HIDE DEF S
  <2>. QED BY <1>5, <1>9, <2>1, <2>2 DEF DeleteStreamCollect
<1>10. CASE DeleteStreamCollectFails(t)
  BY <1>3, <1>10 DEF DeleteStreamCollectFails, Return
<1>11. CASE DeleteStreamForget(t)
  <2>1. ASSUME NEW i \in local[t].stale,
               local' = [local EXCEPT ![t].stale = @ \ {i}]
        PROVE  \E x \in Good : local' = [local EXCEPT ![t] = x] /\ Aside(x)
    <3> DEFINE S == local[t].stale \ {i}
    <3>1. S \in SUBSET Iterators
      BY <1>0 DEF Good, LocalState
    <3>2. local' = [local EXCEPT ![t].pc = "forget", ![t].stale = S]
      BY <1>0, <1>11, <2>1 DEF Good, LocalState, DeleteStreamForget
    <3> HIDE DEF S
    <3>. QED BY <1>5, <1>11, <3>1, <3>2 DEF DeleteStreamForget
  <2>. QED BY <1>3, <1>11, <2>1 DEF DeleteStreamForget, Return
<1>. QED BY <1>1, <1>2, <1>6, <1>7, <1>8, <1>9, <1>10, <1>11 DEF Admin

LEMMA NextRecordGood ==
  ASSUME TypeInv, NEW t \in Threads, local[t].pc \in {"record", "seq", "insert"},
         NextRecord(t)
  PROVE  \E x \in Good : /\ local' = [local EXCEPT ![t] = x]
                         /\ x.pc \in {"idle", "record"}
                         /\ x.old = NoIterator /\ x.new = NoIterator /\ x.client = NoClient
<1>0. local \in [Threads -> Good] /\ local[t] \in Good
  BY DEF TypeInv
<1> DEFINE rest == Tail(local[t].rest)
           x == IF rest = <<>> THEN Idle
                ELSE [local[t] EXCEPT !.pc = "record", !.rest = rest]
<1>1. local' = [local EXCEPT ![t] = x]
  BY <1>0 DEF NextRecord
<1>2. local[t].rest \in Seq(Keys) /\ local[t].rest # <<>>
  BY <1>0 DEF Good, LocalState, Shape
<1>3. rest \in Seq(Keys)
  BY <1>2, HeadTailProperties
<1> HIDE DEF rest
<1>4. CASE rest = <<>>
  BY <1>1, <1>4, IdleGood DEF Idle
<1>5. CASE rest # <<>>
  <2>1. x \in Good /\ x.old = NoIterator /\ x.new = NoIterator /\ x.client = NoClient
    BY <1>0, <1>3, <1>5
       DEF Good, LocalState, Steps, Shape, TableSteps, ReadSteps, IteratorSteps
  <2>2. x.pc = "record"
    BY <1>0, <1>5 DEF Good, LocalState
  <2>. QED BY <1>1, <2>1, <2>2
<1>. QED BY <1>4, <1>5

(* The number of a shard is its place among the shards of the stream.      *)
LEMMA ShardType ==
  ASSUME NEW k \in Keys, NEW count \in Nat, count # 0
  PROVE  ShardForKey(k, count) \in Nat
<1>1. Crc[k] \in Nat
  BY KinesisAssumption
<1>. QED BY <1>1 DEF ShardForKey

LEMMA TablesFinite ==
  ASSUME TypeInv
  PROVE  /\ Rows(records)
         /\ \A S \in SUBSET records : Rows(S) /\ MaxSeq(S) \in Nat
         /\ \A n \in Streams : InStream(n) \in SUBSET records
         /\ \A n \in Streams, s \in Nat : InShard(n, s) \in SUBSET records
  BY SomeRows, MaxSeqIsLargest DEF TypeInv, RecordsOK, InStream, InShard

LEMMA ProduceGood ==
  ASSUME TypeInv, NEW t \in Threads, Produce(t)
  PROVE  \E x \in Good : /\ local' = [local EXCEPT ![t] = x]
                         /\ x.pc = "insert" => NextSeq(t)
                         /\ x.old = NoIterator /\ x.new = NoIterator /\ x.client = NoClient
<1> USE KinesisAssumption
<1>0. local \in [Threads -> Good] /\ local[t] \in Good /\ streams \in [Streams -> Nat]
  BY DEF TypeInv, TypeOK
<1>1. ASSUME NEW n \in Streams, NEW k \in Keys, PutRecord(t, n, k)
      PROVE  \E x \in Good : /\ local' = [local EXCEPT ![t] = x]
                             /\ x.pc # "insert"
                             /\ x.old = NoIterator /\ x.new = NoIterator /\ x.client = NoClient
  <2> DEFINE x == [Idle EXCEPT !.pc = "seq", !.stream = n, !.shards = streams[n], !.rest = <<k>>]
  <2>1. <<k>> \in Seq(Keys) /\ <<k>> # <<>>
    OBVIOUS
  <2>2. streams[n] \in Nat /\ streams[n] # 0
    BY <1>0, <1>1 DEF PutRecord
  <2>3. x \in Good
    BY <2>1, <2>2, IdleGood
       DEF Good, Idle, LocalState, Steps, Shape, TableSteps, ReadSteps, IteratorSteps
  <2>4. local' = [local EXCEPT ![t] = x]
    BY <1>1 DEF PutRecord
  <2>5. x.pc # "insert" /\ x.old = NoIterator /\ x.new = NoIterator /\ x.client = NoClient
    BY DEF Idle
  <2>. QED BY <2>3, <2>4, <2>5
<1>2. ASSUME NEW n \in Streams, NEW keys \in Batches, PutRecords(t, n, keys)
      PROVE  \E x \in Good : /\ local' = [local EXCEPT ![t] = x]
                             /\ x.pc # "insert"
                             /\ x.old = NoIterator /\ x.new = NoIterator /\ x.client = NoClient
  <2> DEFINE x == [Idle EXCEPT !.pc = "record", !.stream = n, !.rest = keys]
  <2>1. keys \in Seq(Keys) /\ keys # <<>>
    OBVIOUS
  <2>2. x \in Good
    BY <2>1, IdleGood
       DEF Good, Idle, LocalState, Steps, Shape, TableSteps, ReadSteps, IteratorSteps
  <2>3. local' = [local EXCEPT ![t] = x]
    BY <1>2 DEF PutRecords
  <2>4. x.pc # "insert" /\ x.old = NoIterator /\ x.new = NoIterator /\ x.client = NoClient
    BY DEF Idle
  <2>. QED BY <2>2, <2>3, <2>4
<1>3. CASE RecordRequire(t)
  <2>1. CASE NextRecord(t)
    BY <1>3, <2>1, NextRecordGood DEF RecordRequire
  <2>2. CASE ~ NextRecord(t)
    <3> DEFINE x == [local[t] EXCEPT !.pc = "seq", !.shards = streams[local[t].stream]]
    <3>1. local[t].pc = "record" /\ local[t].stream \in Streams
      BY <1>0, <1>3 DEF RecordRequire, Good, Shape, TableSteps
    <3>2. streams[local[t].stream] \in Nat /\ streams[local[t].stream] # 0
      BY <1>0, <1>3, <2>2, <3>1 DEF RecordRequire
    <3>3. x \in Good /\ x.old = NoIterator /\ x.new = NoIterator /\ x.client = NoClient
      BY <1>0, <3>1, <3>2
         DEF Good, LocalState, Steps, Shape, TableSteps, ReadSteps, IteratorSteps
    <3>4. local' = [local EXCEPT ![t] = x] /\ x.pc # "insert"
      BY <1>0, <1>3, <2>2 DEF RecordRequire, Good, LocalState
    <3>. QED BY <3>3, <3>4
  <2>. QED BY <2>1, <2>2
<1>4. CASE NextSeq(t)
  <2> DEFINE m == MaxSeq(InStream(local[t].stream)) + 1
             x == [local[t] EXCEPT !.pc = "insert", !.seq = m]
  <2>1. local[t].pc = "seq" /\ local[t].stream \in Streams
    BY <1>0, <1>4 DEF NextSeq, Good, Shape, TableSteps
  <2>2. m \in Nat
    BY <2>1, TablesFinite
  <2>3. local' = [local EXCEPT ![t].pc = "insert", ![t].seq = m]
    BY <1>4 DEF NextSeq
  <2> HIDE DEF m
  <2>4. x \in Good /\ x.old = NoIterator /\ x.new = NoIterator /\ x.client = NoClient
    BY <1>0, <2>1, <2>2
       DEF Good, LocalState, Steps, Shape, TableSteps, ReadSteps, IteratorSteps
  <2>5. local' = [local EXCEPT ![t] = x]
    BY <1>0, <2>3 DEF Good, LocalState
  <2>. QED BY <1>4, <2>4, <2>5
<1>5. CASE PutInsert(t)
  BY <1>5, NextRecordGood DEF PutInsert
<1>6. CASE PutInsertFails(t)
  BY <1>6, NextRecordGood DEF PutInsertFails
<1>. QED BY <1>1, <1>2, <1>3, <1>4, <1>5, <1>6 DEF Produce

(* The rows of an answer are rows of the table.                            *)
LEMMA AnswerRows ==
  ASSUME TypeInv, NEW n \in Streams, NEW s \in Nat, NEW from \in Nat, NEW k \in Nat
  PROVE  LET S == {r \in InShard(n, s) : r.seq >= from}
         IN  /\ S \in SUBSET records /\ Rows(S)
             /\ FirstRows(S, k) \in SUBSET S /\ Rows(FirstRows(S, k))
<1> DEFINE S == {r \in InShard(n, s) : r.seq >= from}
<1>1. S \in SUBSET records
  BY DEF InShard, InStream
<1>2. Rows(S)
  BY <1>1, TablesFinite
<1> HIDE DEF S
<1>3. FirstRows(S, k) \in SUBSET S
  BY <1>2, FirstRowsOf
<1>4. Rows(FirstRows(S, k))
  BY <1>2, <1>3, SomeRows
<1>. QED BY <1>1, <1>2, <1>3, <1>4 DEF S

LEMMA ServeGood ==
  ASSUME TypeInv, NEW t \in Workers, ServeStep(t)
  PROVE  \E x \in Good : /\ local' = [local EXCEPT ![t] = x]
                         /\ x.old \in {NoIterator, local[t].old}
                         /\ x.client \in {NoClient, local[t].client}
                         /\ x.pc = "answer" => GetRecordsRenew(t)
                         /\ x.pc # "insert"
<1> USE KinesisAssumption
<1>0. /\ local \in [Threads -> Good] /\ local[t] \in Good /\ t \in Threads
      /\ iterators \in [Iterators -> Position]
  BY DEF TypeInv, TypeOK, Threads
<1>i. Idle \in Good /\ Idle.old = NoIterator /\ Idle.client = NoClient /\ Idle.pc \notin {"answer", "insert"}
  BY IdleGood DEF Idle
<1>1. CASE GetLatest(t)
  <2> DEFINE p == local[t].pos
             m == MaxSeq(InShard(p.stream, p.shard)) + 1
             x == [local[t] EXCEPT !.pc = "register", !.pos = [p EXCEPT !.next = m]]
  <2>1. local[t].pc = "latest" /\ p \in Position /\ p.stream \in Streams
    BY <1>0, <1>1 DEF GetLatest, Good, LocalState, Shape, ReadSteps
  <2>2. m \in Nat
    <3>1. p.stream \in Streams /\ p.shard \in Nat
      BY <2>1 DEF Position
    <3> HIDE DEF p
    <3>2. InShard(p.stream, p.shard) \in SUBSET records
      BY <3>1, TablesFinite
    <3>3. MaxSeq(InShard(p.stream, p.shard)) \in Nat
      BY <3>2, TablesFinite
    <3>. QED BY <3>3
  <2>3. local' = [local EXCEPT ![t].pc = "register", ![t].pos.next = m]
    BY <1>1 DEF GetLatest
  <2> HIDE DEF m
  <2>4. [p EXCEPT !.next = m] \in Position /\ [p EXCEPT !.next = m].stream = p.stream
    BY <2>1, <2>2 DEF Position
  <2>5. local' = [local EXCEPT ![t] = x]
    BY <1>0, <2>3 DEF Good, LocalState, Position
  <2> HIDE DEF p
  <2>6. x \in Good
    BY <1>0, <2>1, <2>4
       DEF Good, LocalState, Steps, Shape, TableSteps, ReadSteps, IteratorSteps
  <2>7. x.old = local[t].old /\ x.client = local[t].client /\ x.pc \notin {"answer", "insert"}
    BY <1>0 DEF Good, LocalState
  <2>. QED BY <2>5, <2>6, <2>7
<1>2. CASE Register(t)
  BY <1>i, <1>2 DEF Register, Return
<1>3. CASE GetRecordsQuery(t)
  <2> DEFINE p == local[t].pos
             S == {r \in InShard(p.stream, p.shard) : r.seq >= p.next}
  <2>1. PICK k \in 1 .. MaxLimit :
           local' = [local EXCEPT ![t].pc = "advance", ![t].rows = FirstRows(S, k)]
    BY <1>3 DEF GetRecordsQuery
  <2>2. local[t].pc = "query" /\ p \in Position /\ p.stream \in Streams
    BY <1>0, <1>3 DEF GetRecordsQuery, Good, LocalState, Shape, ReadSteps, IteratorSteps
  <2> DEFINE R == FirstRows(S, k)
             x == [local[t] EXCEPT !.pc = "advance", !.rows = R]
  <2>3. Rows(R)
    <3>1. p.stream \in Streams /\ p.shard \in Nat /\ p.next \in Nat /\ k \in Nat
      BY <2>2 DEF Position
    <3> HIDE DEF p
    <3>. QED BY <3>1, AnswerRows
  <2> HIDE DEF R
  <2>4. x \in Good
    BY <1>0, <2>2, <2>3
       DEF Good, LocalState, Steps, Shape, TableSteps, ReadSteps, IteratorSteps, Rows
  <2>5. /\ local' = [local EXCEPT ![t] = x]
        /\ x.old = local[t].old /\ x.client = local[t].client /\ x.pc \notin {"answer", "insert"}
    BY <1>0, <2>1 DEF R, Good, LocalState
  <2>. QED BY <2>4, <2>5
<1>4. CASE GetRecordsAdvance(t)
  <2> DEFINE x == [local[t] EXCEPT !.pc = "renew"]
  <2>1. local[t].pc = "advance" /\ local' = [local EXCEPT ![t].pc = "renew"]
    BY <1>4 DEF GetRecordsAdvance, Goto
  <2>2. x \in Good
    BY <1>0, <2>1 DEF Good, LocalState, Steps, Shape, TableSteps, ReadSteps, IteratorSteps
  <2>3. /\ local' = [local EXCEPT ![t] = x]
        /\ x.old = local[t].old /\ x.client = local[t].client /\ x.pc \notin {"answer", "insert"}
    BY <1>0, <2>1 DEF Good, LocalState
  <2>. QED BY <2>2, <2>3
<1>5. CASE GetRecordsRenew(t)
  <2>1. CASE local[t].old \notin open
    BY <1>i, <1>5, <2>1 DEF GetRecordsRenew, Return
  <2>2. CASE local[t].old \in open
    <3>1. PICK i \in NewIterators :
             local' = [local EXCEPT ![t].pc = "answer", ![t].new = i]
      BY <1>5, <2>2 DEF GetRecordsRenew
    <3> DEFINE x == [local[t] EXCEPT !.pc = "answer", !.new = i]
    <3>2. local[t].pc = "renew" /\ i \in Iterators
      BY <1>5 DEF GetRecordsRenew, NewIterators
    <3>3. x \in Good
      BY <1>0, <3>2 DEF Good, LocalState, Steps, Shape, TableSteps, ReadSteps, IteratorSteps
    <3>4. /\ local' = [local EXCEPT ![t] = x]
          /\ x.old = local[t].old /\ x.client = local[t].client /\ x.pc # "insert"
      BY <1>0, <3>1 DEF Good, LocalState
    <3>. QED BY <1>5, <3>3, <3>4
  <2>. QED BY <2>1, <2>2
<1>6. CASE GetRecordsAnswer(t)
  BY <1>i, <1>6 DEF GetRecordsAnswer, Return
<1>. QED BY <1>1, <1>2, <1>3, <1>4, <1>5, <1>6 DEF ServeStep

LEMMA TimeoutGood ==
  ASSUME TypeInv, NEW t \in Workers, Timeout(t)
  PROVE  \E x \in Good : /\ local' = [local EXCEPT ![t] = x]
                         /\ x = [local[t] EXCEPT !.client = NoClient]
                         /\ x.old = local[t].old
<1>0. local \in [Threads -> Good] /\ local[t] \in Good /\ t \in Threads
  BY DEF TypeInv, TypeOK, Threads
<1> DEFINE x == [local[t] EXCEPT !.client = NoClient]
<1>1. x \in Good
  BY <1>0 DEF Good, LocalState, Shape
<1>2. local' = [local EXCEPT ![t] = x] /\ x.old = local[t].old
  BY <1>0 DEF Timeout, Good, LocalState
<1>. QED BY <1>1, <1>2

LEMMA GetIteratorGood ==
  ASSUME TypeInv, NEW t \in Workers, NEW c \in Clients, GetIterator(t, c)
  PROVE  \E x \in Good, ask \in Asked(c) :
            /\ local' = [local EXCEPT ![t] = x]
            /\ x = [Idle EXCEPT !.pc = IF ask[1] = "LATEST" THEN "latest" ELSE "register",
                                !.client = c, !.era = purged[Reads[c].stream],
                                !.pos = [stream |-> Reads[c].stream, shard |-> Reads[c].shard,
                                         next |-> ask[2]]]
            /\ x.old = NoIterator /\ x.new = NoIterator /\ x.pc # "insert"
<1> USE KinesisAssumption
<1> DEFINE n == Reads[c].stream
           X(ask) == [Idle EXCEPT !.pc = IF ask[1] = "LATEST" THEN "latest" ELSE "register",
                                  !.client = c, !.era = purged[n],
                                  !.pos = [stream |-> n, shard |-> Reads[c].shard,
                                           next |-> ask[2]]]
<1>1. PICK ask \in Asked(c) : local' = [local EXCEPT ![t] = X(ask)]
  BY DEF GetIterator
<1>2. client[c].last \in Nat
  BY DEF TypeInv, TypeOK, ClientState
<1>3. ask[2] \in Nat
  BY <1>2 DEF Asked
<1>4. n \in Streams /\ Reads[c].shard \in Nat /\ purged[n] \in Nat
  BY DEF TypeInv, TypeOK
<1>5. X(ask) \in Good
  BY ZenonT(60), <1>3, <1>4, IdleGood
     DEF Good, Idle, LocalState, Position, Steps, Shape, TableSteps, ReadSteps, IteratorSteps
<1>6. X(ask).old = NoIterator /\ X(ask).new = NoIterator /\ X(ask).pc # "insert"
  BY DEF Idle
<1>. QED BY <1>1, <1>5, <1>6

LEMMA GetRecordsGood ==
  ASSUME TypeInv, NEW t \in Workers, NEW c \in Clients, GetRecords(t, c)
  PROVE  \E x \in Good :
            /\ local' = [local EXCEPT ![t] = x]
            /\ x = [Idle EXCEPT !.pc = "query", !.client = c, !.old = client[c].iter,
                                !.pos = iterators[client[c].iter]]
            /\ x.old = client[c].iter /\ x.new = NoIterator /\ x.pc # "insert"
<1> USE KinesisAssumption
<1> DEFINE i == client[c].iter
           x == [Idle EXCEPT !.pc = "query", !.client = c, !.old = i, !.pos = iterators[i]]
<1>1. i \in open /\ local' = [local EXCEPT ![t] = x]
  BY DEF GetRecords
<1>2. i \in Iterators /\ iterators[i] \in Position /\ iterators[i].stream \in Streams
  BY <1>1 DEF TypeInv, TypeOK, IteratorsOK
<1> HIDE DEF i
<1>3. x \in Good
  BY <1>2, IdleGood
     DEF Good, Idle, LocalState, Steps, Shape, TableSteps, ReadSteps, IteratorSteps
<1>4. x.old = i /\ x.new = NoIterator /\ x.pc # "insert"
  BY DEF Idle
<1>. QED BY <1>1, <1>3, <1>4 DEF i

LEMMA LocalStep ==
  ASSUME TypeInv, [Next]_vars
  PROVE  local' \in [Threads -> Good]
<1>0. local \in [Threads -> Good]
  BY DEF TypeInv
<1>w. Workers \subseteq Threads /\ Admins \subseteq Threads /\ Producers \subseteq Threads
  BY DEF Threads
<1>1. ASSUME NEW t \in Threads, NEW x \in Good, local' = [local EXCEPT ![t] = x]
      PROVE  local' \in [Threads -> Good]
  BY <1>0, <1>1, OneThread
<1>2. ASSUME NEW t \in Admins, Admin(t) PROVE local' \in [Threads -> Good]
  BY <1>w, <1>1, <1>2, AdminGood DEF Aside
<1>3. ASSUME NEW t \in Producers, Produce(t) PROVE local' \in [Threads -> Good]
  BY <1>w, <1>1, <1>3, ProduceGood
<1>4. ASSUME NEW t \in Workers, ServeStep(t) PROVE local' \in [Threads -> Good]
  BY <1>w, <1>1, <1>4, ServeGood
<1>5. ASSUME NEW t \in Workers, Timeout(t) PROVE local' \in [Threads -> Good]
  BY <1>w, <1>1, <1>5, TimeoutGood
<1>6. ASSUME NEW t \in Workers, NEW c \in Clients, GetIterator(t, c)
      PROVE  local' \in [Threads -> Good]
  BY <1>w, <1>1, <1>6, GetIteratorGood
<1>7. ASSUME NEW t \in Workers, NEW c \in Clients, GetRecords(t, c)
      PROVE  local' \in [Threads -> Good]
  BY <1>w, <1>1, <1>7, GetRecordsGood
<1>8. CASE UNCHANGED local
  BY <1>0, <1>8
<1>9. CASE Crash
  BY <1>9, IdleGood DEF Crash
<1>. QED BY <1>2, <1>3, <1>4, <1>5, <1>6, <1>7, <1>8, <1>9 DEF Next, GetRecordsRefused, vars

(* The tables change where records are inserted or purged.                 *)
LEMMA RecordsChange ==
  ASSUME [Next]_vars
  PROVE  \/ records' = records /\ lastId' = lastId
         \/ \E t \in Admins : DeleteStreamRecords(t)
         \/ \E t \in Producers : PutInsert(t)
<1>1. ASSUME NEW t \in Admins, Admin(t)
      PROVE  DeleteStreamRecords(t) \/ (records' = records /\ lastId' = lastId)
  BY <1>1 DEF Admin, CreateStreamCheck, CreateStreamInsert, DeleteStreamRequire,
     DeleteStreamDrop, DeleteStreamCollect, DeleteStreamCollectFails, DeleteStreamForget, tables
<1>2. ASSUME NEW t \in Producers, Produce(t)
      PROVE  PutInsert(t) \/ (records' = records /\ lastId' = lastId)
  BY <1>2 DEF Produce, PutRecord, PutRecords, RecordRequire, NextSeq, PutInsertFails, tables
<1>3. ASSUME NEW t \in Workers, ServeStep(t)
      PROVE  records' = records /\ lastId' = lastId
  BY <1>3 DEF ServeStep, GetLatest, Register, GetRecordsQuery, GetRecordsAdvance,
     GetRecordsRenew, GetRecordsAnswer, tables
<1>. QED
  BY <1>1, <1>2, <1>3
     DEF Next, Timeout, GetIterator, GetRecords, GetRecordsRefused, Crash, tables, vars

(* The record a producer inserts.                                          *)
NewRecord(t) == [id |-> lastId + 1, stream |-> local[t].stream, seq |-> local[t].seq,
                 shard |-> ShardForKey(Head(local[t].rest), local[t].shards)]

LEMMA Inserted ==
  ASSUME TypeInv, NEW t \in Producers, PutInsert(t)
  PROVE  /\ records' = records \cup {NewRecord(t)} /\ lastId' = lastId + 1
         /\ NewRecord(t) \in Record /\ local[t].stream \in Streams
         /\ \A r \in records : r.id < NewRecord(t).id
<1>0. local[t] \in Good /\ local[t].pc = "insert" /\ lastId \in Nat
  BY DEF TypeInv, TypeOK, Threads, PutInsert
<1>1. /\ local[t].stream \in Streams /\ local[t].seq \in Nat
      /\ local[t].shards \in Nat /\ local[t].shards # 0
      /\ local[t].rest \in Seq(Keys) /\ local[t].rest # <<>>
  BY <1>0 DEF Good, LocalState, Shape, TableSteps
<1>2. Head(local[t].rest) \in Keys
  BY <1>1, HeadTailProperties
<1>3. ShardForKey(Head(local[t].rest), local[t].shards) \in Nat
  BY <1>1, <1>2, ShardType
<1>4. NewRecord(t) \in Record
  BY <1>0, <1>1, <1>3 DEF NewRecord, Record
<1>5. \A r \in records : r.id < NewRecord(t).id
  BY <1>0 DEF TypeInv, RecordsOK, Rows, Record, NewRecord
<1>6. records' = records \cup {NewRecord(t)} /\ lastId' = lastId + 1
  BY DEF PutInsert, NewRecord
<1>. QED BY <1>1, <1>4, <1>5, <1>6

LEMMA RecordsStep ==
  ASSUME TypeInv, [Next]_vars
  PROVE  records' \subseteq Record /\ lastId' \in 0 .. MaxRecords /\ RecordsOK'
<1>0. lastId \in 0 .. MaxRecords /\ MaxRecords \in Nat /\ records \subseteq Record /\ RecordsOK
  BY KinesisAssumption DEF TypeInv, TypeOK
<1>1. CASE records' = records /\ lastId' = lastId
  BY <1>0, <1>1 DEF RecordsOK, Rows
<1>2. ASSUME NEW t \in Admins, DeleteStreamRecords(t)
      PROVE  records' \subseteq Record /\ lastId' \in 0 .. MaxRecords /\ RecordsOK'
  <2>1. records' \in SUBSET records /\ lastId' = lastId
    BY <1>2 DEF DeleteStreamRecords
  <2>2. Rows(records')
    BY <1>0, <2>1, SomeRows DEF RecordsOK
  <2>. QED BY <1>0, <2>1, <2>2 DEF RecordsOK, Rows
<1>3. ASSUME NEW t \in Producers, PutInsert(t)
      PROVE  records' \subseteq Record /\ lastId' \in 0 .. MaxRecords /\ RecordsOK'
  <2> DEFINE n == NewRecord(t)
  <2>1. /\ records' = records \cup {n} /\ lastId' = lastId + 1
        /\ n \in Record /\ \A r \in records : r.id < n.id
    BY <1>3, Inserted
  <2>2. lastId' \in 0 .. MaxRecords /\ n.id = lastId'
    BY <1>0, <1>3, <2>1 DEF PutInsert, NewRecord
  <2> HIDE DEF n
  <2>3. IsFiniteSet(records')
    BY <1>0, <2>1, FS_AddElement DEF RecordsOK, Rows
  <2>4. \A r \in records : r.id \in Nat /\ r.id # n.id /\ n.id \in Nat
    BY <1>0, <2>1 DEF Record
  <2>5. \A r, s \in records' : r.id = s.id => r = s
    BY <1>0, <2>1, <2>4 DEF RecordsOK, Rows
  <2>6. \A r \in records' : r.id <= lastId'
    BY <1>0, <2>1, <2>2, <2>4 DEF RecordsOK
  <2>. QED BY <1>0, <2>1, <2>2, <2>3, <2>5, <2>6 DEF RecordsOK, Rows
<1>. QED BY <1>1, <1>2, <1>3, RecordsChange

LEMMA KnownTo ==
  /\ \A c \in Clients : client[c].iter \in Known
  /\ \A t \in Threads : local[t].old \in Known /\ local[t].new \in Known
<1>1. ASSUME NEW t \in Threads
      PROVE  local[t].old \in Known /\ local[t].new \in Known
  <2> DEFINE S(u) == {local[u].old, local[u].new} \cup local[u].stale
  <2>1. S(t) \in {S(u) : u \in Threads}
    OBVIOUS
  <2>2. S(t) \subseteq UNION {S(u) : u \in Threads}
    BY <2>1
  <2>3. local[t].old \in S(t) /\ local[t].new \in S(t)
    OBVIOUS
  <2>. QED BY <2>2, <2>3 DEF Known
<1>. QED BY <1>1 DEF Known

(* What becomes of the iterators: they stay, and at most some are closed;  *)
(* a new one is bound; or the position of one moves.                       *)
Bound(i, p) ==
    /\ i \in Iterators \ Known
    /\ p \in Position /\ p.stream \in Streams
    /\ Bind(i, p)
    /\ open' \subseteq Opened(i)
    /\ i \in open'

LEMMA RegisterBinds ==
  ASSUME TypeInv, NEW t \in Workers, Register(t)
  PROVE  \E i \in Iterators \ Known :
            Bound(i, local[t].pos) /\ open' = Opened(i)
<1>0. local[t] \in Good /\ local[t].pc = "register"
  BY DEF TypeInv, Threads, Register
<1>1. local[t].pos \in Position /\ local[t].pos.stream \in Streams
  BY <1>0 DEF Good, LocalState, Shape, ReadSteps
<1>2. PICK i \in NewIterators : Bind(i, local[t].pos) /\ open' = Opened(i)
  BY DEF Register
<1>. QED BY <1>1, <1>2 DEF Bound, NewIterators, Opened

LEMMA RenewBinds ==
  ASSUME TypeInv, NEW t \in Workers, GetRecordsRenew(t)
  PROVE  \E i \in Iterators \ Known :
            /\ Bound(i, iterators[local[t].old])
            /\ open' = Opened(i) \ {local[t].old}
            /\ IF local[t].old \in open
               THEN /\ local' = [local EXCEPT ![t].pc = "answer", ![t].new = i]
                    /\ UNCHANGED client
               ELSE Return(t) /\ client' = Answered(t)
<1>0. /\ local[t] \in Good /\ local[t].pc = "renew" /\ t \in Threads
      /\ iterators \in [Iterators -> Position]
  BY DEF TypeInv, TypeOK, Threads, GetRecordsRenew
<1>1. local[t].old \in Iterators
  BY <1>0 DEF Good, LocalState, Shape, IteratorSteps
<1>2. iterators[local[t].old] \in Position /\ iterators[local[t].old].stream \in Streams
  BY <1>0, <1>1 DEF TypeInv, IteratorsOK
<1>3. PICK i \in NewIterators :
         /\ Bind(i, iterators[local[t].old])
         /\ open' = Opened(i) \ {local[t].old}
         /\ IF local[t].old \in open
            THEN /\ local' = [local EXCEPT ![t].pc = "answer", ![t].new = i]
                 /\ UNCHANGED client
            ELSE Return(t) /\ client' = Answered(t)
  BY DEF GetRecordsRenew
<1>4. i \in Iterators \ Known /\ i # local[t].old
  BY <1>0, KnownTo DEF NewIterators
<1>5. Bound(i, iterators[local[t].old])
  BY <1>2, <1>3, <1>4 DEF Bound, Opened
<1>. QED BY <1>3, <1>4, <1>5

LEMMA AdvanceMoves ==
  ASSUME TypeInv, NEW t \in Workers, GetRecordsAdvance(t)
  PROVE  /\ local[t].old \in Iterators /\ UNCHANGED open
         /\ \E m \in Nat :
               /\ iterators' = [iterators EXCEPT ![local[t].old].next = m]
               /\ m = IF local[t].rows = {} THEN iterators[local[t].old].next
                      ELSE MaxSeq(local[t].rows) + 1
<1>0. /\ local[t] \in Good /\ local[t].pc = "advance"
      /\ iterators \in [Iterators -> Position]
  BY DEF TypeInv, TypeOK, Threads, GetRecordsAdvance
<1>1. local[t].old \in Iterators
  BY <1>0 DEF Good, LocalState, Shape, IteratorSteps
<1> DEFINE m == IF local[t].rows = {} THEN iterators[local[t].old].next
                ELSE MaxSeq(local[t].rows) + 1
<1>2. MaxSeq(local[t].rows) \in Nat
  BY <1>0, MaxSeqIsLargest DEF Good
<1>3. iterators[local[t].old].next \in Nat
  BY <1>0, <1>1 DEF Position
<1>4. m \in Nat
  BY <1>2, <1>3
<1>5. iterators' = [iterators EXCEPT ![local[t].old].next = m]
  <2>1. CASE local[t].rows = {}
    BY <1>0, <1>1, <2>1 DEF GetRecordsAdvance, Position
  <2>2. CASE local[t].rows # {}
    BY <2>2 DEF GetRecordsAdvance
  <2>. QED BY <2>1, <2>2
<1>. QED BY <1>1, <1>4, <1>5 DEF GetRecordsAdvance

LEMMA IteratorsChange ==
  ASSUME TypeInv, [Next]_vars
  PROVE  \/ iterators' = iterators /\ open' \subseteq open
         \/ \E t \in Workers : Register(t) \/ GetRecordsAdvance(t) \/ GetRecordsRenew(t)
<1>1. ASSUME NEW t \in Admins, Admin(t)
      PROVE  iterators' = iterators /\ open' \subseteq open
  BY <1>1 DEF Admin, CreateStreamCheck, CreateStreamInsert, DeleteStreamRequire,
     DeleteStreamRecords, DeleteStreamDrop, DeleteStreamCollect, DeleteStreamCollectFails,
     DeleteStreamForget, memory
<1>2. ASSUME NEW t \in Producers, Produce(t)
      PROVE  iterators' = iterators /\ open' = open
  BY <1>2 DEF Produce, PutRecord, PutRecords, RecordRequire, NextSeq, PutInsert,
     PutInsertFails, memory
<1>3. ASSUME NEW t \in Workers, ServeStep(t)
      PROVE  \/ iterators' = iterators /\ open' = open
             \/ Register(t) \/ GetRecordsAdvance(t) \/ GetRecordsRenew(t)
  BY <1>3 DEF ServeStep, GetLatest, GetRecordsQuery, GetRecordsAnswer, memory
<1>. QED
  BY <1>1, <1>2, <1>3
     DEF Next, Timeout, GetIterator, GetRecords, GetRecordsRefused, Crash, memory, vars

(* The iterators requests use: one more where get_records begins.          *)
LEMMA OldsChange ==
  ASSUME TypeInv, [Next]_vars
  PROVE  \/ \A u \in Threads : local'[u].old \in {NoIterator, local[u].old}
         \/ /\ UNCHANGED memory
            /\ \E t \in Workers, c \in Clients :
                  /\ GetRecords(t, c)
                  /\ local'[t].old = client[c].iter
                  /\ \A u \in Threads : u # t => local'[u] = local[u]
<1>0. local \in [Threads -> Good]
  BY DEF TypeInv
<1>w. Workers \subseteq Threads /\ Admins \subseteq Threads /\ Producers \subseteq Threads
  BY DEF Threads
<1>1. ASSUME NEW t \in Threads, NEW x \in Good, local' = [local EXCEPT ![t] = x],
             x.old \in {NoIterator, local[t].old}
      PROVE  \A u \in Threads : local'[u].old \in {NoIterator, local[u].old}
  BY <1>0, <1>1, OneThread
<1>2. ASSUME NEW t \in Admins, Admin(t)
      PROVE  \A u \in Threads : local'[u].old \in {NoIterator, local[u].old}
  BY <1>w, <1>1, <1>2, AdminGood DEF Aside
<1>3. ASSUME NEW t \in Producers, Produce(t)
      PROVE  \A u \in Threads : local'[u].old \in {NoIterator, local[u].old}
  BY <1>w, <1>1, <1>3, ProduceGood
<1>4. ASSUME NEW t \in Workers, ServeStep(t)
      PROVE  \A u \in Threads : local'[u].old \in {NoIterator, local[u].old}
  BY <1>w, <1>1, <1>4, ServeGood
<1>5. ASSUME NEW t \in Workers, Timeout(t)
      PROVE  \A u \in Threads : local'[u].old \in {NoIterator, local[u].old}
  <2>1. PICK x \in Good : local' = [local EXCEPT ![t] = x] /\ x.old = local[t].old
    BY <1>5, TimeoutGood
  <2>. QED BY <1>w, <1>1, <2>1
<1>6. ASSUME NEW t \in Workers, NEW c \in Clients, GetIterator(t, c)
      PROVE  \A u \in Threads : local'[u].old \in {NoIterator, local[u].old}
  <2>1. PICK x \in Good : local' = [local EXCEPT ![t] = x] /\ x.old = NoIterator
    BY <1>6, GetIteratorGood
  <2>. QED BY <1>w, <1>1, <2>1
<1>7. ASSUME NEW t \in Workers, NEW c \in Clients, GetRecords(t, c)
      PROVE  /\ UNCHANGED memory
             /\ local'[t].old = client[c].iter
             /\ \A u \in Threads : u # t => local'[u] = local[u]
  <2>1. PICK x \in Good : local' = [local EXCEPT ![t] = x] /\ x.old = client[c].iter
    BY <1>7, GetRecordsGood
  <2>2. UNCHANGED memory
    BY <1>7 DEF GetRecords
  <2>. QED BY <1>0, <1>w, <2>1, <2>2, OneThread
<1>8. CASE UNCHANGED local
  BY <1>8
<1>9. CASE Crash
  BY <1>9 DEF Crash, Idle
<1>. QED BY <1>2, <1>3, <1>4, <1>5, <1>6, <1>7, <1>8, <1>9 DEF Next, GetRecordsRefused, vars

LEMMA BoundType ==
  ASSUME TypeInv, NEW i, NEW p, Bound(i, p),
         \A u \in Threads : local'[u].old \in {NoIterator, local[u].old}
  PROVE  iterators' \in [Iterators -> Position] /\ open' \subseteq Iterators /\ IteratorsOK'
<1>0. /\ iterators \in [Iterators -> Position] /\ open \subseteq Iterators /\ IteratorsOK
      /\ i \in Iterators \ Known /\ p \in Position /\ p.stream \in Streams
      /\ NoIterator \notin Iterators
  BY KinesisAssumption DEF TypeInv, TypeOK, Bound
<1>1. Nowhere \in Position
  BY DEF Nowhere, Position
<1>2. /\ iterators' \in [Iterators -> Position] /\ iterators'[i] = p
      /\ \A j \in Known \cap Iterators : iterators'[j] = iterators[j]
  BY <1>0, <1>1 DEF Bound, Bind
<1>3. open' \subseteq (open \cap Known) \cup {i}
  BY DEF Bound, Opened
<1>4. ASSUME NEW j \in Iterators, j \in open' \/ (\E t \in Threads : local'[t].old = j)
      PROVE  iterators'[j].stream \in Streams
  <2>1. CASE j = i
    BY <1>0, <1>2, <2>1
  <2>2. CASE j # i
    <3>1. CASE j \in open'
      BY <1>0, <1>2, <1>3, <2>2, <3>1 DEF IteratorsOK
    <3>2. ASSUME NEW t \in Threads, local'[t].old = j
          PROVE  iterators'[j].stream \in Streams
      <4>1. local[t].old = j
        BY <1>0, <3>2
      <4>2. j \in Known
        BY <4>1, KnownTo
      <4>. QED BY <1>0, <1>2, <4>1, <4>2 DEF IteratorsOK
    <3>. QED BY <1>4, <3>1, <3>2
  <2>. QED BY <2>1, <2>2
<1>5. open' \subseteq Iterators
  BY <1>0, <1>3
<1>. QED BY <1>2, <1>4, <1>5 DEF IteratorsOK

LEMMA IteratorsStep ==
  ASSUME TypeInv, [Next]_vars
  PROVE  iterators' \in [Iterators -> Position] /\ open' \subseteq Iterators /\ IteratorsOK'
<1>0. /\ iterators \in [Iterators -> Position] /\ open \subseteq Iterators /\ IteratorsOK
      /\ NoIterator \notin Iterators
  BY KinesisAssumption DEF TypeInv, TypeOK
<1>1. CASE iterators' = iterators /\ open' \subseteq open
  <2>1. ASSUME NEW u \in Threads, local'[u].old # NoIterator, local'[u].old \in Iterators
        PROVE  iterators[local'[u].old].stream \in Streams
    <3>1. CASE local'[u].old = local[u].old
      BY <1>0, <2>1, <3>1 DEF IteratorsOK
    <3>2. CASE local'[u].old # local[u].old
      <4>1. PICK t \in Workers, c \in Clients :
               /\ GetRecords(t, c)
               /\ local'[t].old = client[c].iter
               /\ \A v \in Threads : v # t => local'[v] = local[v]
        BY <2>1, <3>2, OldsChange
      <4>2. u = t
        BY <3>2, <4>1
      <4>3. client[c].iter \in open
        BY <4>1 DEF GetRecords
      <4>. QED BY <1>0, <4>1, <4>2, <4>3 DEF IteratorsOK
    <3>. QED BY <3>1, <3>2
  <2>. QED BY <1>0, <1>1, <2>1 DEF IteratorsOK
<1>2. ASSUME NEW t \in Workers, Register(t) \/ GetRecordsAdvance(t) \/ GetRecordsRenew(t)
      PROVE  iterators' \in [Iterators -> Position] /\ open' \subseteq Iterators /\ IteratorsOK'
  <2>0. \A u \in Threads : local'[u].old \in {NoIterator, local[u].old}
    <3>1. PICK x \in Good : local' = [local EXCEPT ![t] = x] /\ x.old \in {NoIterator, local[t].old}
      BY <1>2, ServeGood DEF ServeStep
    <3>. QED BY <3>1, OneThread DEF TypeInv, Threads
  <2>1. CASE Register(t)
    BY <2>0, <2>1, RegisterBinds, BoundType
  <2>2. CASE GetRecordsRenew(t)
    BY <2>0, <2>2, RenewBinds, BoundType
  <2>3. CASE GetRecordsAdvance(t)
    <3>1. PICK m \in Nat : iterators' = [iterators EXCEPT ![local[t].old].next = m]
      BY <2>3, AdvanceMoves
    <3>2. open' = open /\ local[t].old \in Iterators
      BY <2>3, AdvanceMoves
    <3>3. /\ iterators' \in [Iterators -> Position]
          /\ \A j \in Iterators : iterators'[j].stream = iterators[j].stream
      BY <1>0, <3>1, <3>2 DEF Position
    <3>. QED BY <1>0, <2>0, <3>2, <3>3 DEF IteratorsOK
  <2>. QED BY <1>2, <2>1, <2>2, <2>3
<1>. QED BY <1>1, <1>2, IteratorsChange

LEMMA AfterRegisterType ==
  ASSUME NEW me \in ClientState, NEW s \in Good, NEW i \in Iterators
  PROVE  AfterRegister(me, s, i) \in ClientState
<1>1. s.pos.next \in Nat /\ s.era \in Nat
  BY DEF Good, LocalState, Position
<1>2. (IF s.pos.next = 0 THEN 0 ELSE s.pos.next - 1) \in Nat
  BY <1>1
<1>3. <<>> \in Seq(Nat)
  BY EmptySeq
<1>4. CASE me.era = s.era
  BY <1>4 DEF AfterRegister, ClientState
<1>5. CASE me.era # s.era
  BY <1>1, <1>2, <1>3, <1>5 DEF AfterRegister, ClientState
<1>. QED BY <1>4, <1>5

LEMMA AfterAnswerType ==
  ASSUME NEW me \in ClientState, NEW s \in Good
  PROVE  AfterAnswer(me, s) \in ClientState
<1>1. s.new \in Iterators \cup {NoIterator} /\ Rows(s.rows)
  BY DEF Good, LocalState
<1>2. me.seen \in Seq(Nat) /\ me.last \in Nat
  BY DEF ClientState
<1>3. Ids(s.rows) \in Seq(Nat) /\ MaxSeq(s.rows) \in Nat
  BY <1>1, IdsOfRows, MaxSeqIsLargest
<1>4. me.seen \o Ids(s.rows) \in Seq(Nat)
  BY <1>2, <1>3, ConcatProperties
<1>5. (IF s.rows = {} THEN me.last ELSE MaxSeq(s.rows)) \in Nat
  BY <1>2, <1>3
<1>. QED BY <1>1, <1>4, <1>5 DEF AfterAnswer, ClientState

LEMMA RegisterAnswers ==
  ASSUME TypeInv, NEW t \in Workers, Register(t)
  PROVE  \E i \in Iterators \ Known :
            /\ Bound(i, local[t].pos) /\ open' = Opened(i)
            /\ Return(t)
            /\ client' = IF local[t].client = NoClient THEN client
                         ELSE [client EXCEPT ![local[t].client] =
                                 AfterRegister(client[local[t].client], local[t], i)]
<1>0. local[t] \in Good /\ local[t].pc = "register" /\ client \in [Clients -> ClientState]
  BY DEF TypeInv, TypeOK, Threads, Register
<1>1. local[t].pos \in Position /\ local[t].pos.stream \in Streams
  BY <1>0 DEF Good, LocalState, Shape, ReadSteps
<1>2. PICK i \in NewIterators :
         /\ Bind(i, local[t].pos) /\ open' = Opened(i)
         /\ client' = IF local[t].client = NoClient THEN client
                      ELSE [client EXCEPT ![local[t].client] =
                              AfterRegister(client[local[t].client], local[t], i)]
  BY DEF Register
<1>4. Bound(i, local[t].pos)
  BY <1>1, <1>2 DEF Bound, NewIterators, Opened
<1>5. Return(t)
  BY DEF Register
<1>. QED BY <1>2, <1>4, <1>5 DEF NewIterators

LEMMA ClientStep ==
  ASSUME TypeInv, [Next]_vars
  PROVE  client' \in [Clients -> ClientState]
<1>0. client \in [Clients -> ClientState] /\ local \in [Threads -> Good]
  BY DEF TypeInv, TypeOK
<1>w. Workers \subseteq Threads /\ Admins \subseteq Threads /\ Producers \subseteq Threads
  BY DEF Threads
<1>c. \A t \in Threads : local[t].client \in Clients \cup {NoClient}
  BY <1>0 DEF Good, LocalState
<1>1. ASSUME NEW t \in Admins, Admin(t)
      PROVE  client' = client
  BY <1>1 DEF Admin, CreateStreamCheck, CreateStreamInsert, DeleteStreamRequire,
     DeleteStreamRecords, DeleteStreamDrop, DeleteStreamCollect, DeleteStreamCollectFails,
     DeleteStreamForget
<1>2. ASSUME NEW t \in Producers, Produce(t)
      PROVE  client' = client
  BY <1>2 DEF Produce, PutRecord, PutRecords, RecordRequire, NextSeq, PutInsert, PutInsertFails
<1>3. ASSUME NEW t \in Workers, ServeStep(t)
      PROVE  client' \in [Clients -> ClientState]
  <2>1. CASE Register(t)
    <3>1. PICK i \in Iterators :
             client' = IF local[t].client = NoClient THEN client
                       ELSE [client EXCEPT ![local[t].client] =
                               AfterRegister(client[local[t].client], local[t], i)]
      BY <2>1, RegisterAnswers
    <3>2. CASE local[t].client = NoClient
      BY <1>0, <3>1, <3>2
    <3>3. CASE local[t].client # NoClient
      <4>1. local[t].client \in Clients /\ local[t] \in Good
        BY <1>0, <1>w, <1>c, <3>3
      <4>2. AfterRegister(client[local[t].client], local[t], i) \in ClientState
        BY <1>0, <4>1, AfterRegisterType
      <4>. QED BY <1>0, <3>1, <3>3, <4>2
    <3>. QED BY <3>2, <3>3
  <2>2. CASE GetRecordsAnswer(t)
    <3>1. client' = IF local[t].client = NoClient THEN client
                    ELSE [client EXCEPT ![local[t].client] =
                            AfterAnswer(client[local[t].client], local[t])]
      BY <2>2 DEF GetRecordsAnswer
    <3>2. CASE local[t].client = NoClient
      BY <1>0, <3>1, <3>2
    <3>3. CASE local[t].client # NoClient
      <4>1. local[t].client \in Clients /\ local[t] \in Good
        BY <1>0, <1>w, <1>c, <3>3
      <4>2. AfterAnswer(client[local[t].client], local[t]) \in ClientState
        BY <1>0, <4>1, AfterAnswerType
      <4>. QED BY <1>0, <3>1, <3>3, <4>2
    <3>. QED BY <3>2, <3>3
  <2>3. CASE GetRecordsRenew(t)
    <3>1. client' = client \/ client' = Answered(t)
      BY <2>3, RenewBinds
    <3>2. CASE local[t].client \in Clients
      <4> DEFINE c == local[t].client
      <4>1. [client[c] EXCEPT !.busy = FALSE] \in ClientState
        BY <1>0, <3>2 DEF ClientState
      <4>2. client' = client \/ client' = [client EXCEPT ![c] = [client[c] EXCEPT !.busy = FALSE]]
        BY <1>0, <3>1, <3>2 DEF Answered, ClientState
      <4> HIDE DEF c
      <4>. QED BY <1>0, <3>2, <4>1, <4>2 DEF c
    <3>3. CASE local[t].client = NoClient
      BY <1>0, <3>1, <3>3 DEF Answered
    <3>. QED BY <1>w, <1>c, <3>2, <3>3
  <2>4. CASE GetLatest(t) \/ GetRecordsQuery(t) \/ GetRecordsAdvance(t)
    BY <1>0, <2>4 DEF GetLatest, GetRecordsQuery, GetRecordsAdvance
  <2>. QED BY <1>3, <2>1, <2>2, <2>3, <2>4 DEF ServeStep
<1>4. ASSUME NEW t \in Workers, Timeout(t)
      PROVE  client' \in [Clients -> ClientState]
  BY <1>0, <1>4 DEF Timeout, ClientState
<1>5. ASSUME NEW t \in Workers, NEW c \in Clients, GetIterator(t, c)
      PROVE  client' \in [Clients -> ClientState]
  <2>1. [client[c] EXCEPT !.busy = TRUE] \in ClientState
    BY <1>0 DEF ClientState
  <2>2. client' = [client EXCEPT ![c] = [client[c] EXCEPT !.busy = TRUE]]
    BY <1>0, <1>5 DEF GetIterator, ClientState
  <2>. QED BY <1>0, <2>1, <2>2
<1>6. ASSUME NEW t \in Workers, NEW c \in Clients, GetRecords(t, c)
      PROVE  client' \in [Clients -> ClientState]
  <2> DEFINE b == client[c].patient /\ \A u \in Threads : local[u].old # client[c].iter
  <2>1. b \in BOOLEAN
    BY <1>0 DEF ClientState
  <2>2. client' = [client EXCEPT ![c] = [client[c] EXCEPT !.busy = TRUE, !.patient = b]]
    BY <1>0, <1>6 DEF GetRecords
  <2> HIDE DEF b
  <2>3. [client[c] EXCEPT !.busy = TRUE, !.patient = b] \in ClientState
    BY <1>0, <2>1 DEF ClientState
  <2>. QED BY <1>0, <2>2, <2>3
<1>7. ASSUME NEW c \in Clients, GetRecordsRefused(c)
      PROVE  client' \in [Clients -> ClientState]
  BY <1>0, <1>7 DEF GetRecordsRefused, ClientState
<1>8. CASE Crash
  BY <1>0, <1>8 DEF Crash, ClientState
<1>9. CASE UNCHANGED vars
  BY <1>0, <1>9 DEF vars
<1>. QED BY <1>0, <1>1, <1>2, <1>3, <1>4, <1>5, <1>6, <1>7, <1>8, <1>9 DEF Next

LEMMA TypeStep ==
  ASSUME TypeInv, [Next]_vars
  PROVE  TypeInv'
<1> USE KinesisAssumption
<1>0. /\ streams \in [Streams -> Nat] /\ purged \in [Streams -> Nat]
      /\ troubles \in 0 .. MaxTroubles /\ MaxTroubles \in Nat
      /\ local \in [Threads -> Good]
  BY DEF TypeInv, TypeOK
<1>w. Workers \subseteq Threads /\ Admins \subseteq Threads /\ Producers \subseteq Threads
  BY DEF Threads
<1>t. ASSUME Trouble PROVE troubles' \in 0 .. MaxTroubles
  BY <1>0, <1>t DEF Trouble
<1>1. /\ streams' \in [Streams -> Nat] /\ purged' \in [Streams -> Nat]
      /\ troubles' \in 0 .. MaxTroubles
  <2>1. ASSUME NEW t \in Admins, Admin(t)
        PROVE  /\ streams' \in [Streams -> Nat] /\ purged' \in [Streams -> Nat]
               /\ troubles' \in 0 .. MaxTroubles
    <3>0. /\ local[t].shards \in Nat
          /\ local[t].pc \in {"create", "purge", "drop"} => local[t].stream \in Streams
      BY <1>0, <1>w DEF Good, LocalState, Shape, TableSteps
    <3>1. CASE CreateStreamInsert(t)
      BY <1>0, <3>0, <3>1 DEF CreateStreamInsert, history
    <3>2. CASE DeleteStreamRecords(t)
      BY <1>0, <1>t, <3>0, <3>2 DEF DeleteStreamRecords
    <3>3. CASE DeleteStreamDrop(t)
      BY <1>0, <3>0, <3>3 DEF DeleteStreamDrop, history
    <3>4. CASE UNCHANGED <<streams, history>>
      BY <1>0, <3>4 DEF history
    <3>. QED
      BY <2>1, <3>1, <3>2, <3>3, <3>4
         DEF Admin, CreateStreamCheck, DeleteStreamRequire, DeleteStreamCollect,
             DeleteStreamCollectFails, DeleteStreamForget, tables
  <2>2. ASSUME NEW t \in Producers, Produce(t)
        PROVE  UNCHANGED <<streams, purged, troubles>>
    BY <2>2 DEF Produce, PutRecord, PutRecords, RecordRequire, NextSeq, PutInsert,
       PutInsertFails, tables, history
  <2>3. ASSUME NEW t \in Workers, ServeStep(t)
        PROVE  UNCHANGED <<streams, purged, troubles>>
    BY <2>3 DEF ServeStep, GetLatest, Register, GetRecordsQuery, GetRecordsAdvance,
       GetRecordsRenew, GetRecordsAnswer, tables, history
  <2>4. ASSUME NEW t \in Workers, Timeout(t)
        PROVE  /\ streams' \in [Streams -> Nat] /\ purged' \in [Streams -> Nat]
               /\ troubles' \in 0 .. MaxTroubles
    BY <1>0, <1>t, <2>4 DEF Timeout, tables
  <2>5. CASE Crash
    BY <1>0, <1>t, <2>5 DEF Crash, tables
  <2>. QED
    BY <1>0, <2>1, <2>2, <2>3, <2>4, <2>5
       DEF Next, GetIterator, GetRecords, GetRecordsRefused, tables, history, vars
<1>2. local' \in [Threads -> Good]
  BY LocalStep
<1>3. local' \in [Threads -> LocalState] /\ \A t \in Threads : Assigned(local'[t])
  BY <1>2, GoodIsAssigned
<1>4. records' \subseteq Record /\ lastId' \in 0 .. MaxRecords /\ RecordsOK'
  BY RecordsStep
<1>5. iterators' \in [Iterators -> Position] /\ open' \subseteq Iterators /\ IteratorsOK'
  BY IteratorsStep
<1>6. client' \in [Clients -> ClientState]
  BY ClientStep
<1>7. TypeOK'
  BY <1>1, <1>3, <1>4, <1>5, <1>6 DEF TypeOK
<1>. QED BY <1>2, <1>4, <1>5, <1>7 DEF TypeInv

LEMMA TypeInit ==
  ASSUME Init
  PROVE  TypeInv
<1> USE KinesisAssumption
<1>1. local \in [Threads -> Good]
  BY IdleGood DEF Init
<1>2. local \in [Threads -> LocalState] /\ \A t \in Threads : Assigned(local[t])
  BY <1>1, GoodIsAssigned
<1>3. Nowhere \in Position
  BY DEF Nowhere, Position
<1>4. <<>> \in Seq(Nat)
  BY EmptySeq
<1>5. client \in [Clients -> ClientState]
  BY <1>4 DEF Init, ClientState
<1>6. RecordsOK
  BY NoRows DEF Init, RecordsOK
<1>7. IteratorsOK
  BY DEF Init, IteratorsOK, Idle
<1>8. TypeOK
  <2>1. MaxRecords \in Nat /\ MaxTroubles \in Nat
    OBVIOUS
  <2>2. lastId \in 0 .. MaxRecords /\ troubles \in 0 .. MaxTroubles
    BY <2>1 DEF Init
  <2>3. iterators \in [Iterators -> Position] /\ purged \in [Streams -> Nat]
    BY <1>3 DEF Init
  <2>4. streams \in [Streams -> Nat] /\ records \subseteq Record /\ open \subseteq Iterators
    BY DEF Init
  <2>. QED BY <1>2, <1>5, <2>2, <2>3, <2>4 DEF TypeOK
<1>. QED BY <1>1, <1>6, <1>7, <1>8 DEF TypeInv

LEMMA TypeInvHolds == Spec => []TypeInv
<1>1. Init => TypeInv
  BY TypeInit
<1>2. TypeInv /\ [Next]_vars => TypeInv'
  BY TypeStep
<1>. QED BY <1>1, <1>2, PTL DEF Spec

(* Every variable keeps its type: a request is at one of its steps with    *)
(* what the steps before have assigned, an iterator in use names a stream  *)
(* (kinesis.py:56, 257-261, 291-296), and the answer of a request is a     *)
(* list of record ids whatever rows it has read (kinesis.py:276-290).      *)
THEOREM TypeCorrect == Spec => []TypeOK
<1>1. TypeInv => TypeOK
  BY DEF TypeInv
<1>. QED BY <1>1, TypeInvHolds, PTL

(***************************************************************************)
(* An iterator is used up by one answer.                                   *)
(***************************************************************************)

SpentInv ==
    \A t, u \in Threads :
        local[t].pc = "answer" =>
            /\ local[t].old \notin open
            /\ t # u /\ local[u].pc = "answer" => local[u].old # local[t].old

LEMMA AnswerChange ==
  ASSUME TypeInv, [Next]_vars, NEW u \in Threads, local'[u].pc = "answer"
  PROVE  \/ local[u].pc = "answer" /\ local'[u].old = local[u].old
         \/ u \in Workers /\ GetRecordsRenew(u)
<1>0. local \in [Threads -> Good]
  BY DEF TypeInv
<1>w. Workers \subseteq Threads /\ Admins \subseteq Threads /\ Producers \subseteq Threads
  BY DEF Threads
<1>1. ASSUME NEW t \in Threads, NEW x \in Good, local' = [local EXCEPT ![t] = x],
             x.new = NoIterator
      PROVE  local[u].pc = "answer" /\ local'[u].old = local[u].old
  <2>1. x.pc # "answer"
    BY <1>1 DEF Good, Shape
  <2>. QED BY <1>0, <1>1, <2>1, OneThread
<1>2. ASSUME NEW t \in Admins, Admin(t)
      PROVE  local[u].pc = "answer" /\ local'[u].old = local[u].old
  BY <1>w, <1>1, <1>2, AdminGood DEF Aside
<1>3. ASSUME NEW t \in Producers, Produce(t)
      PROVE  local[u].pc = "answer" /\ local'[u].old = local[u].old
  BY <1>w, <1>1, <1>3, ProduceGood
<1>4. ASSUME NEW t \in Workers, ServeStep(t)
      PROVE  \/ local[u].pc = "answer" /\ local'[u].old = local[u].old
             \/ u \in Workers /\ GetRecordsRenew(u)
  <2>1. PICK x \in Good : /\ local' = [local EXCEPT ![t] = x]
                          /\ x.pc = "answer" => GetRecordsRenew(t)
    BY <1>4, ServeGood
  <2>. QED BY <1>0, <1>w, <2>1, OneThread
<1>5. ASSUME NEW t \in Workers, Timeout(t)
      PROVE  local[u].pc = "answer" /\ local'[u].old = local[u].old
  <2>1. PICK x \in Good : /\ local' = [local EXCEPT ![t] = x]
                          /\ x = [local[t] EXCEPT !.client = NoClient]
    BY <1>5, TimeoutGood
  <2>2. x.pc = local[t].pc /\ x.old = local[t].old
    BY <1>0, <1>w, <2>1 DEF Good, LocalState
  <2>. QED BY <1>0, <1>w, <2>1, <2>2, OneThread
<1>6. ASSUME NEW t \in Workers, NEW c \in Clients, GetIterator(t, c)
      PROVE  local[u].pc = "answer" /\ local'[u].old = local[u].old
  <2>1. PICK x \in Good : local' = [local EXCEPT ![t] = x] /\ x.new = NoIterator
    BY <1>6, GetIteratorGood
  <2>. QED BY <1>w, <1>1, <2>1
<1>7. ASSUME NEW t \in Workers, NEW c \in Clients, GetRecords(t, c)
      PROVE  local[u].pc = "answer" /\ local'[u].old = local[u].old
  <2>1. PICK x \in Good : local' = [local EXCEPT ![t] = x] /\ x.new = NoIterator
    BY <1>7, GetRecordsGood
  <2>. QED BY <1>w, <1>1, <2>1
<1>8. CASE UNCHANGED local
  BY <1>8
<1>9. CASE Crash
  BY <1>9 DEF Crash, Idle
<1>. QED BY <1>2, <1>3, <1>4, <1>5, <1>6, <1>7, <1>8, <1>9 DEF Next, GetRecordsRefused, vars

LEMMA SpentStep ==
  ASSUME TypeInv, SpentInv, [Next]_vars
  PROVE  SpentInv'
<1>w. Workers \subseteq Threads
  BY DEF Threads
<1>1. ASSUME NEW t \in Workers, GetRecordsRenew(t)
      PROVE  SpentInv'
  <2>1. PICK i \in Iterators \ Known :
            /\ open' = Opened(i) \ {local[t].old}
            /\ IF local[t].old \in open
               THEN local' = [local EXCEPT ![t].pc = "answer", ![t].new = i]
               ELSE Return(t)
    BY <1>1, RenewBinds
  <2>2. \A u \in Threads : u # t => local'[u] = local[u]
    BY <2>1 DEF Return, TypeInv
  <2>3. local'[t].pc = "answer" => local'[t].old = local[t].old /\ local[t].old \in open
    BY <1>w, <2>1 DEF Return, Idle, TypeInv, Good, LocalState
  <2>4. \A u \in Threads : local[u].pc = "answer" => local[u].old \notin open'
    BY <2>1, KnownTo DEF SpentInv, Opened
  <2>5. local[t].old \notin open'
    BY <2>1
  <2>6. \A u \in Threads : u # t /\ local[u].pc = "answer" /\ local'[t].pc = "answer"
           => local[u].old # local'[t].old
    BY <2>3 DEF SpentInv
  <2>. QED BY <2>2, <2>3, <2>4, <2>5, <2>6 DEF SpentInv
<1>2. CASE \A t \in Workers : ~ GetRecordsRenew(t)
  <2>1. \A u \in Threads : local'[u].pc = "answer" =>
           local[u].pc = "answer" /\ local'[u].old = local[u].old
    BY <1>2, AnswerChange
  <2>2. \A u \in Threads : local[u].pc = "answer" => local[u].old \notin open'
    <3>1. CASE open' \subseteq open
      BY <3>1 DEF SpentInv
    <3>2. ASSUME NEW t \in Workers, Register(t)
          PROVE  \A u \in Threads : local[u].pc = "answer" => local[u].old \notin open'
      <4>1. PICK i \in Iterators \ Known : open' = Opened(i)
        BY <3>2, RegisterBinds
      <4>. QED BY <4>1, KnownTo DEF SpentInv, Opened
    <3>3. ASSUME NEW t \in Workers, GetRecordsAdvance(t)
          PROVE  open' \subseteq open
      BY <3>3 DEF GetRecordsAdvance
    <3>. QED BY <1>2, <3>1, <3>2, <3>3, IteratorsChange
  <2>. QED BY <2>1, <2>2 DEF SpentInv
<1>. QED BY <1>1, <1>2

LEMMA SpentInvHolds == Spec => []SpentInv
<1>1. Init => SpentInv
  BY DEF Init, SpentInv, Idle
<1>2. TypeInv /\ SpentInv /\ [Next]_vars => SpentInv'
  BY SpentStep
<1>. QED BY <1>1, <1>2, TypeInvHolds, PTL DEF Spec

(* However often a request is repeated, and whatever requests of how many  *)
(* clients do meanwhile, at most one request succeeds with an iterator:    *)
(* the deletion of its id (kinesis.py:295-296) is the point where the      *)
(* others fail, and no later request can start with it.                    *)
THEOREM IteratorsAreSpentOnce == Spec => []SpentOnce
<1>1. SpentInv => SpentOnce
  BY DEF SpentInv, SpentOnce, Threads
<1>. QED BY <1>1, SpentInvHolds, PTL

(***************************************************************************)
(* Sequence numbers increase where no two put_record are between reading   *)
(* MAX(seq) and their INSERT: a number that has been computed is above all *)
(* numbers of its stream.                                                  *)
(***************************************************************************)

(* No two producers are between SELECT MAX(seq) and INSERT for one stream. *)
PutsApart ==
    \A t, u \in Producers :
        t # u /\ local[t].pc = "insert" /\ local[u].pc = "insert"
            => local[t].stream # local[u].stream

Numbered == \A r \in records : r.seq # 0

NumberIsFresh(s) ==
    s.pc = "insert" => s.seq # 0 /\ \A r \in InStream(s.stream) : r.seq < s.seq

MonoInv ==
    /\ MonotonicSequenceNumbers
    /\ Numbered
    /\ \A t \in Threads : NumberIsFresh(local[t])
    /\ \A t \in Threads : local[t].pc = "insert" => t \in Producers

LEMMA InsertChange ==
  ASSUME TypeInv, [Next]_vars, NEW u \in Threads, local'[u].pc = "insert"
  PROVE  \/ /\ local[u].pc = "insert" /\ local'[u].stream = local[u].stream
            /\ local'[u].seq = local[u].seq
            /\ ~ (u \in Producers /\ PutInsert(u))
         \/ u \in Producers /\ NextSeq(u)
<1> DEFINE Stays == /\ local[u].pc = "insert" /\ local'[u].stream = local[u].stream
                    /\ local'[u].seq = local[u].seq
<1>0. local \in [Threads -> Good]
  BY DEF TypeInv
<1>w. Workers \subseteq Threads /\ Admins \subseteq Threads /\ Producers \subseteq Threads
  BY DEF Threads
<1>1. ASSUME NEW t \in Threads, NEW x \in Good, local' = [local EXCEPT ![t] = x],
             x.pc # "insert"
      PROVE  Stays
  BY <1>0, <1>1, OneThread
<1>2. ASSUME NEW t \in Admins, Admin(t) PROVE Stays
  BY <1>w, <1>1, <1>2, AdminGood DEF Aside
<1>3. ASSUME NEW t \in Producers, Produce(t)
      PROVE  Stays \/ (u \in Producers /\ NextSeq(u))
  <2>1. PICK x \in Good : /\ local' = [local EXCEPT ![t] = x]
                          /\ x.pc = "insert" => NextSeq(t)
    BY <1>w, <1>3, ProduceGood
  <2>. QED BY <1>0, <1>w, <1>3, <2>1, OneThread
<1>4. ASSUME NEW t \in Workers, ServeStep(t) PROVE Stays
  BY <1>w, <1>1, <1>4, ServeGood
<1>5. ASSUME NEW t \in Workers, Timeout(t) PROVE Stays
  <2>1. PICK x \in Good : /\ local' = [local EXCEPT ![t] = x]
                          /\ x = [local[t] EXCEPT !.client = NoClient]
    BY <1>5, TimeoutGood
  <2>2. x.pc = local[t].pc /\ x.stream = local[t].stream /\ x.seq = local[t].seq
    BY <1>0, <1>w, <2>1 DEF Good, LocalState
  <2>. QED BY <1>0, <1>w, <2>1, <2>2, OneThread
<1>6. ASSUME NEW t \in Workers, NEW c \in Clients, GetIterator(t, c) PROVE Stays
  <2>1. PICK x \in Good : local' = [local EXCEPT ![t] = x] /\ x.pc # "insert"
    BY <1>6, GetIteratorGood
  <2>. QED BY <1>w, <1>1, <2>1
<1>7. ASSUME NEW t \in Workers, NEW c \in Clients, GetRecords(t, c) PROVE Stays
  <2>1. PICK x \in Good : local' = [local EXCEPT ![t] = x] /\ x.pc # "insert"
    BY <1>7, GetRecordsGood
  <2>. QED BY <1>w, <1>1, <2>1
<1>8. ASSUME UNCHANGED local PROVE Stays
  BY <1>8
<1>9. ASSUME Crash PROVE Stays
  BY <1>9 DEF Crash, Idle
<1>10. Stays \/ (u \in Producers /\ NextSeq(u))
  BY <1>2, <1>3, <1>4, <1>5, <1>6, <1>7, <1>8, <1>9 DEF Next, GetRecordsRefused, vars
<1>11. ASSUME u \in Producers, PutInsert(u)
       PROVE  FALSE
  <2>1. local[u].pc = "insert" /\ NextRecord(u)
    BY <1>11 DEF PutInsert
  <2>2. PICK x \in Good : local' = [local EXCEPT ![u] = x] /\ x.pc \in {"idle", "record"}
    BY <2>1, NextRecordGood
  <2>. QED BY <1>0, <2>2, OneThread
<1>. QED BY <1>10, <1>11

LEMMA MonoStep ==
  ASSUME TypeInv, MonoInv, PutsApart, [Next]_vars
  PROVE  MonoInv'
<1>0. local \in [Threads -> Good] /\ records \subseteq Record
  BY DEF TypeInv, TypeOK
<1>w. Producers \subseteq Threads
  BY DEF Threads
<1>1. \A t \in Threads : local'[t].pc = "insert" => t \in Producers
  BY InsertChange DEF MonoInv
<1>2. ASSUME NEW t \in Producers, NextSeq(t)
      PROVE  local'[t].seq # 0 /\ \A r \in InStream(local'[t].stream) : r.seq < local'[t].seq
  <2> DEFINE m == MaxSeq(InStream(local[t].stream))
  <2>1. local[t].stream \in Streams
    BY <1>0, <1>w, <1>2 DEF NextSeq, Good, Shape, TableSteps
  <2>2. Rows(InStream(local[t].stream))
    BY <2>1, TablesFinite
  <2>3. m \in Nat /\ \A r \in InStream(local[t].stream) : r.seq <= m
    BY <2>2, MaxSeqIsLargest
  <2>4. local'[t].seq = m + 1 /\ local'[t].stream = local[t].stream
    BY <1>0, <1>w, <1>2 DEF NextSeq, Good, LocalState
  <2> HIDE DEF m
  <2>5. \A r \in InStream(local[t].stream) : r.seq \in Nat
    BY <1>0 DEF InStream, Record
  <2>. QED BY <2>3, <2>4, <2>5
<1>3. CASE records' \in SUBSET records
  <2>1. MonotonicSequenceNumbers' /\ Numbered'
    BY <1>3 DEF MonoInv, MonotonicSequenceNumbers, Numbered
  <2>2. ASSUME NEW n, NEW r \in InStream(n)'
        PROVE  r \in InStream(n)
    BY <1>3 DEF InStream
  <2>3. ASSUME NEW t \in Threads, local'[t].pc = "insert"
        PROVE  local'[t].seq # 0 /\ \A r \in InStream(local'[t].stream) : r.seq < local'[t].seq
    <3>1. CASE t \in Producers /\ NextSeq(t)
      BY <1>2, <3>1
    <3>2. CASE /\ local[t].pc = "insert" /\ local'[t].stream = local[t].stream
               /\ local'[t].seq = local[t].seq
      BY <3>2 DEF MonoInv, NumberIsFresh
    <3>. QED BY <2>3, <3>1, <3>2, InsertChange
  <2>4. ASSUME NEW t \in Threads
        PROVE  NumberIsFresh(local[t])'
    <3>1. CASE local'[t].pc = "insert"
      <4> DEFINE n == local'[t].stream
      <4>1. local'[t].seq # 0 /\ \A r \in InStream(n) : r.seq < local'[t].seq
        BY <2>3, <3>1
      <4>2. \A r \in records' : r.stream = n => r \in InStream(n)
        BY <1>3 DEF InStream
      <4>3. \A r \in records' : r.stream = n => r.seq < local'[t].seq
        BY <4>1, <4>2
      <4>. QED BY <4>1, <4>3 DEF NumberIsFresh, InStream
    <3>2. CASE local'[t].pc # "insert"
      BY <3>2 DEF NumberIsFresh
    <3>. QED BY <3>1, <3>2
  <2>. QED BY <1>1, <2>1, <2>4 DEF MonoInv
<1>4. ASSUME NEW t \in Producers, PutInsert(t)
      PROVE  MonoInv'
  <2> DEFINE n == NewRecord(t)
  <2>1. /\ records' = records \cup {n} /\ n \in Record
        /\ \A r \in records : r.id < n.id
        /\ n.stream = local[t].stream /\ n.seq = local[t].seq
    BY <1>4, Inserted DEF NewRecord
  <2>2. local[t].pc = "insert" /\ t \in Threads
    BY <1>4, <1>w DEF PutInsert
  <2>3. n.seq # 0 /\ \A r \in records : r.stream = n.stream => r.seq < n.seq
    BY <2>1, <2>2 DEF MonoInv, NumberIsFresh, InStream
  <2> HIDE DEF n
  <2>4. \A r \in records' : r.id \in Nat
    BY <1>0, <2>1 DEF Record
  <2>5. MonotonicSequenceNumbers' /\ Numbered'
    BY <2>1, <2>3, <2>4 DEF MonoInv, MonotonicSequenceNumbers, Numbered
  <2>6. ASSUME NEW u \in Threads, local'[u].pc = "insert"
        PROVE  /\ local'[u].seq # 0 
               /\ \A r \in records' : r.stream = local'[u].stream => r.seq < local'[u].seq
    <3>1. ~ NextSeq(u)
      <4>1. CASE u = t
        BY <2>2, <4>1 DEF NextSeq
      <4>2. CASE u # t
        BY <2>1, <2>4, <4>2, <1>0 DEF NextSeq, tables
      <4>. QED BY <4>1, <4>2
    <3>2. /\ local[u].pc = "insert" /\ local'[u].stream = local[u].stream
          /\ local'[u].seq = local[u].seq /\ u # t /\ u \in Producers
      BY <1>4, <2>6, <3>1, InsertChange DEF MonoInv
    <3>3. local[u].stream # n.stream
      BY <2>1, <2>2, <3>2 DEF PutsApart
    <3>4. local[u].seq # 0 /\ \A r \in records : r.stream = local[u].stream => r.seq < local[u].seq
      BY <3>2 DEF MonoInv, NumberIsFresh, InStream
    <3>. QED BY <2>1, <3>2, <3>3, <3>4
  <2>7. \A u \in Threads : NumberIsFresh(local[u])'
    BY <2>6 DEF NumberIsFresh, InStream
  <2>. QED BY <1>1, <2>5, <2>7 DEF MonoInv
<1>. QED BY <1>3, <1>4, RecordsChange DEF DeleteStreamRecords

LEMMA MonoInvHolds == Spec /\ []PutsApart => []MonoInv
<1>1. Init => MonoInv
  BY DEF Init, MonoInv, MonotonicSequenceNumbers, Numbered, NumberIsFresh, Idle
<1>2. TypeInv /\ MonoInv /\ PutsApart /\ [Next]_vars => MonoInv'
  BY MonoStep
<1>. QED BY <1>1, <1>2, TypeInvHolds, PTL DEF Spec

(* The sequence numbers of a stream increase with its records, as          *)
(* kinesis.py:10 says, as long as no two calls of put_record for one       *)
(* stream are between SELECT MAX(seq) and INSERT (kinesis.py:158-162):     *)
(* purges, restarts, failed INSERTs and other streams' producers do no     *)
(* harm.  The run kinesis_producers shows that overlapping calls do.       *)
THEOREM NumbersIncreaseApart == Spec /\ []PutsApart => []MonotonicSequenceNumbers
<1>1. MonoInv => MonotonicSequenceNumbers
  BY DEF MonoInv
<1>. QED BY <1>1, MonoInvHolds, PTL

(* A server with one producer thread keeps them apart.                     *)
THEOREM OneProducerIsApart ==
  ASSUME \A t, u \in Producers : t = u
  PROVE  Spec => []PutsApart
<1>1. PutsApart
  BY DEF PutsApart
<1>. QED BY <1>1, PTL

(***************************************************************************)
(* Who uses which iterator.  A consumer waits for one request at a time;   *)
(* an iterator that is about to be handed out is nobody's yet; no two      *)
(* consumers have the same iterator, and the request a consumer waits for  *)
(* uses its iterator, alone while the consumer is patient.                 *)
(***************************************************************************)

(* What a step leaves alone of a thread: its client and its iterators.     *)
SameRoles(u) ==
    /\ local'[u].client = local[u].client
    /\ local'[u].old = local[u].old
    /\ local'[u].new = local[u].new

OthersStay(t) == \A u \in Threads : u # t => local'[u] = local[u]

LEMMA NoRoles ==
  ASSUME NEW s \in Good, s.pc \notin ReadSteps
  PROVE  s.client = NoClient /\ s.old = NoIterator /\ s.new = NoIterator
  BY DEF Good, Shape, ReadSteps, IteratorSteps

LEMMA RoleSteps ==
  ASSUME TypeInv, [Next]_vars
  PROVE  \/ client' = client /\ \A u \in Threads : SameRoles(u)
         \/ \E t \in Workers : \/ Timeout(t) \/ Register(t) \/ GetRecordsRenew(t)
                               \/ GetRecordsAnswer(t)
                               \/ \E c \in Clients : GetIterator(t, c) \/ GetRecords(t, c)
         \/ \E c \in Clients : GetRecordsRefused(c)
         \/ Crash
<1> DEFINE Plain == client' = client /\ \A u \in Threads : SameRoles(u)
<1>0. local \in [Threads -> Good]
  BY DEF TypeInv
<1>w. Workers \subseteq Threads /\ Admins \subseteq Threads /\ Producers \subseteq Threads
  BY DEF Threads
<1>1. ASSUME NEW t \in Threads, NEW x \in Good, local' = [local EXCEPT ![t] = x],
             x.client = local[t].client, x.old = local[t].old, x.new = local[t].new
      PROVE  \A u \in Threads : SameRoles(u)
  BY <1>0, <1>1, OneThread DEF SameRoles
<1>2. ASSUME NEW t \in Admins, Admin(t) PROVE Plain
  <2>1. PICK x \in Good : local' = [local EXCEPT ![t] = x] /\ Aside(x)
    BY <1>w, <1>2, AdminGood
  <2>2. local[t].pc \notin ReadSteps
    BY <1>2 DEF Admin, CreateStreamCheck, CreateStreamInsert, DeleteStreamRequire,
       DeleteStreamRecords, DeleteStreamDrop, DeleteStreamCollect, DeleteStreamCollectFails,
       DeleteStreamForget, ReadSteps, IteratorSteps
  <2>3. client' = client
    BY <1>2 DEF Admin, CreateStreamCheck, CreateStreamInsert, DeleteStreamRequire,
       DeleteStreamRecords, DeleteStreamDrop, DeleteStreamCollect, DeleteStreamCollectFails,
       DeleteStreamForget
  <2>4. /\ local[t].client = NoClient /\ local[t].old = NoIterator
        /\ local[t].new = NoIterator
    BY <1>0, <1>w, <2>2, NoRoles
  <2>. QED BY <1>1, <1>w, <2>1, <2>3, <2>4 DEF Aside
<1>3. ASSUME NEW t \in Producers, Produce(t) PROVE Plain
  <2>1. PICK x \in Good : /\ local' = [local EXCEPT ![t] = x]
                          /\ x.old = NoIterator /\ x.new = NoIterator /\ x.client = NoClient
    BY <1>w, <1>3, ProduceGood
  <2>2. local[t].pc \notin ReadSteps
    BY <1>3 DEF Produce, PutRecord, PutRecords, RecordRequire, NextSeq, PutInsert,
       PutInsertFails, ReadSteps, IteratorSteps
  <2>3. client' = client
    BY <1>3 DEF Produce, PutRecord, PutRecords, RecordRequire, NextSeq, PutInsert, PutInsertFails
  <2>4. /\ local[t].client = NoClient /\ local[t].old = NoIterator
        /\ local[t].new = NoIterator
    BY <1>0, <1>w, <2>2, NoRoles
  <2>. QED BY <1>1, <1>w, <2>1, <2>3, <2>4
<1>4. ASSUME NEW t \in Workers, ServeStep(t)
      PROVE  Plain \/ Register(t) \/ GetRecordsRenew(t) \/ GetRecordsAnswer(t)
  <2>0. local[t] \in LocalState
    BY <1>0, <1>w DEF Good
  <2>1. CASE GetLatest(t)
    BY <1>0, <1>w, <2>0, <2>1 DEF GetLatest, SameRoles, LocalState
  <2>2. CASE GetRecordsQuery(t)
    BY <1>0, <1>w, <2>0, <2>2 DEF GetRecordsQuery, SameRoles, LocalState
  <2>3. CASE GetRecordsAdvance(t)
    BY <1>0, <1>w, <2>0, <2>3 DEF GetRecordsAdvance, Goto, SameRoles, LocalState
  <2>. QED BY <1>4, <2>1, <2>2, <2>3 DEF ServeStep
<1>5. ASSUME UNCHANGED vars PROVE Plain
  BY <1>5 DEF vars, SameRoles
<1>. QED BY <1>2, <1>3, <1>4, <1>5 DEF Next

(* The steps that change a role, one by one.                               *)
LEMMA TimeoutFacts ==
  ASSUME TypeInv, NEW t \in Workers, Timeout(t)
  PROVE  /\ local[t].client \in Clients
         /\ local'[t] = [local[t] EXCEPT !.client = NoClient] /\ OthersStay(t)
         /\ client' = [client EXCEPT ![local[t].client] =
                         [client[local[t].client] EXCEPT !.busy = FALSE]]
         /\ UNCHANGED <<tables, memory, purged>>
<1>0. /\ local \in [Threads -> Good] /\ client \in [Clients -> ClientState]
      /\ local[t] \in LocalState /\ t \in Threads
  BY DEF TypeInv, TypeOK, Threads, Good
<1>1. local[t].client \in Clients
  BY <1>0 DEF Timeout, LocalState
<1>. QED BY <1>0, <1>1 DEF Timeout, OthersStay, LocalState, ClientState

LEMMA ReturnFacts ==
  ASSUME TypeInv, NEW t \in Threads, Return(t)
  PROVE  local'[t] = Idle /\ OthersStay(t)
  BY DEF TypeInv, Return, OthersStay

LEMMA IdleRoles ==
  /\ Idle.client = NoClient /\ Idle.old = NoIterator /\ Idle.new = NoIterator
  /\ Idle.pc = "idle"
  BY DEF Idle

LEMMA GetIteratorFacts ==
  ASSUME TypeInv, NEW t \in Workers, NEW c \in Clients, GetIterator(t, c)
  PROVE  /\ ~ client[c].busy /\ client[c].iter = NoIterator
         /\ local'[t].client = c /\ local'[t].old = NoIterator /\ local'[t].new = NoIterator
         /\ OthersStay(t)
         /\ client' = [client EXCEPT ![c] = [client[c] EXCEPT !.busy = TRUE]]
         /\ UNCHANGED <<tables, memory, history>>
<1>0. local \in [Threads -> Good] /\ client \in [Clients -> ClientState] /\ t \in Threads
  BY DEF TypeInv, TypeOK, Threads
<1>1. PICK ask \in Asked(c) :
         local' = [local EXCEPT ![t] =
                     [Idle EXCEPT !.pc = IF ask[1] = "LATEST" THEN "latest" ELSE "register",
                                  !.client = c, !.era = purged[Reads[c].stream],
                                  !.pos = [stream |-> Reads[c].stream, shard |-> Reads[c].shard,
                                           next |-> ask[2]]]]
  BY DEF GetIterator
<1>2. /\ local'[t].client = c /\ local'[t].old = NoIterator /\ local'[t].new = NoIterator
      /\ OthersStay(t)
  BY <1>0, <1>1 DEF OthersStay, Idle
<1>. QED BY <1>0, <1>2 DEF GetIterator, ClientState

LEMMA GetRecordsFacts ==
  ASSUME TypeInv, NEW t \in Workers, NEW c \in Clients, GetRecords(t, c)
  PROVE  /\ ~ client[c].busy /\ client[c].iter \in open /\ client[c].iter \in Iterators
         /\ local'[t].client = c /\ local'[t].old = client[c].iter
         /\ local'[t].new = NoIterator /\ local'[t].pc = "query"
         /\ local'[t].pos = iterators[client[c].iter]
         /\ OthersStay(t)
         /\ local[t].pc = "idle"
         /\ client' = [client EXCEPT ![c] =
                         [client[c] EXCEPT !.busy = TRUE,
                            !.patient = client[c].patient
                                        /\ \A u \in Threads : local[u].old # client[c].iter]]
         /\ UNCHANGED <<tables, memory, history>>
<1>0. /\ local \in [Threads -> Good] /\ client \in [Clients -> ClientState] /\ t \in Threads
      /\ open \subseteq Iterators
  BY DEF TypeInv, TypeOK, Threads
<1>1. local' = [local EXCEPT ![t] = [Idle EXCEPT !.pc = "query", !.client = c,
                                       !.old = client[c].iter, !.pos = iterators[client[c].iter]]]
  BY DEF GetRecords
<1>2. /\ local'[t].client = c /\ local'[t].old = client[c].iter
      /\ local'[t].new = NoIterator /\ local'[t].pc = "query"
      /\ local'[t].pos = iterators[client[c].iter]
      /\ OthersStay(t)
  BY <1>0, <1>1 DEF OthersStay, Idle
<1>. QED BY <1>0, <1>2 DEF GetRecords, ClientState

LEMMA RenewFacts ==
  ASSUME TypeInv, NEW t \in Workers, GetRecordsRenew(t)
  PROVE  \E i \in Iterators \ Known :
            /\ Bound(i, iterators[local[t].old])
            /\ open' = Opened(i) \ {local[t].old}
            /\ OthersStay(t)
            /\ \/ /\ local'[t] = [local[t] EXCEPT !.pc = "answer", !.new = i]
                  /\ UNCHANGED client
               \/ /\ local'[t] = Idle
                  /\ client' = Answered(t)
                  /\ local[t].old \notin open
<1>0. local \in [Threads -> Good] /\ t \in Threads /\ local[t] \in LocalState
  BY DEF TypeInv, Threads, Good
<1>1. PICK i \in Iterators \ Known :
            /\ Bound(i, iterators[local[t].old])
            /\ open' = Opened(i) \ {local[t].old}
            /\ IF local[t].old \in open
               THEN /\ local' = [local EXCEPT ![t].pc = "answer", ![t].new = i]
                    /\ UNCHANGED client
               ELSE Return(t) /\ client' = Answered(t)
  BY RenewBinds
<1>2. CASE local[t].old \in open
  <2>1. local'[t] = [local[t] EXCEPT !.pc = "answer", !.new = i] /\ OthersStay(t)
    BY <1>0, <1>1, <1>2 DEF OthersStay, LocalState
  <2>. QED BY <1>1, <1>2, <2>1
<1>3. CASE local[t].old \notin open
  BY <1>0, <1>1, <1>3, ReturnFacts
<1>. QED BY <1>2, <1>3

LEMMA RegisterFacts ==
  ASSUME TypeInv, NEW t \in Workers, Register(t)
  PROVE  \E i \in Iterators \ Known :
            /\ Bound(i, local[t].pos) /\ open' = Opened(i)
            /\ local'[t] = Idle /\ OthersStay(t)
            /\ local[t].pc = "register"
            /\ UNCHANGED <<tables, history>>
            /\ \/ local[t].client = NoClient /\ client' = client
               \/ /\ local[t].client \in Clients
                  /\ client' = [client EXCEPT ![local[t].client] =
                                  AfterRegister(client[local[t].client], local[t], i)]
<1>0. local[t].client \in Clients \cup {NoClient} /\ t \in Threads
  BY DEF TypeInv, TypeOK, Threads, LocalState
<1>1. PICK i \in Iterators \ Known :
         /\ Bound(i, local[t].pos) /\ open' = Opened(i)
         /\ Return(t)
         /\ client' = IF local[t].client = NoClient THEN client
                      ELSE [client EXCEPT ![local[t].client] =
                              AfterRegister(client[local[t].client], local[t], i)]
  BY RegisterAnswers
<1>2. local'[t] = Idle /\ OthersStay(t)
  BY <1>0, <1>1, ReturnFacts
<1>3. UNCHANGED <<tables, history>> /\ local[t].pc = "register"
  BY DEF Register
<1>. QED BY <1>0, <1>1, <1>2, <1>3

LEMMA AnswerFacts ==
  ASSUME TypeInv, NEW t \in Workers, GetRecordsAnswer(t)
  PROVE  /\ local[t].pc = "answer" /\ local[t].new \in Iterators
         /\ local[t].old \in Iterators
         /\ local'[t] = Idle /\ OthersStay(t)
         /\ UNCHANGED <<tables, memory, history>>
         /\ \/ local[t].client = NoClient /\ client' = client
            \/ /\ local[t].client \in Clients
               /\ client' = [client EXCEPT ![local[t].client] =
                               AfterAnswer(client[local[t].client], local[t])]
<1>0. local[t] \in Good /\ t \in Threads /\ Return(t) /\ local[t].pc = "answer"
  BY DEF TypeInv, Threads, GetRecordsAnswer
<1>1. /\ local[t].client \in Clients \cup {NoClient}
      /\ local[t].new \in Iterators /\ local[t].old \in Iterators
  BY <1>0 DEF Good, LocalState, Shape, IteratorSteps
<1>2. client' = IF local[t].client = NoClient THEN client
                ELSE [client EXCEPT ![local[t].client] =
                        AfterAnswer(client[local[t].client], local[t])]
  BY DEF GetRecordsAnswer
<1>3. UNCHANGED <<tables, memory, history>>
  BY DEF GetRecordsAnswer
<1>. QED BY <1>0, <1>1, <1>2, <1>3, ReturnFacts

(* A consumer waits for one request at a time.                             *)
Served ==
    \A t \in Threads : local[t].client # NoClient =>
        /\ local[t].client \in Clients
        /\ client[local[t].client].busy
        /\ \A u \in Threads : local[u].client = local[t].client => u = t

(* Steps after which fewer wait.                                           *)
LEMMA ServedFewer ==
  ASSUME Served, NEW c, 
         \A u \in Threads : local'[u].client \in {NoClient, local[u].client},
         \A u \in Threads : local'[u].client # c \/ c = NoClient,
         \A d \in Clients : d # c => client'[d].busy = client[d].busy
  PROVE  Served'
<1>1. ASSUME NEW t \in Threads, local'[t].client # NoClient
      PROVE  /\ local'[t].client \in Clients
             /\ client'[local'[t].client].busy
             /\ \A u \in Threads : local'[u].client = local'[t].client => u = t
  <2>1. local'[t].client = local[t].client /\ local'[t].client # c
    BY <1>1
  <2>2. /\ local[t].client \in Clients /\ client[local[t].client].busy
        /\ \A u \in Threads : local[u].client = local[t].client => u = t
    BY <1>1, <2>1 DEF Served
  <2>3. client'[local[t].client].busy
    BY <2>1, <2>2
  <2>4. ASSUME NEW u \in Threads, local'[u].client = local'[t].client
        PROVE  u = t
    BY <1>1, <2>1, <2>2, <2>4
  <2>. QED BY <2>1, <2>2, <2>3, <2>4
<1>. QED BY <1>1 DEF Served

(* A client sends a request.                                               *)
LEMMA ServedMore ==
  ASSUME Served, NEW t \in Threads, NEW c \in Clients, ~ client[c].busy,
         local'[t].client = c, OthersStay(t), client'[c].busy,
         \A d \in Clients : d # c => client'[d].busy = client[d].busy
  PROVE  Served'
<1>0. c # NoClient
  BY KinesisAssumption
<1>1. \A u \in Threads : local[u].client # c
  BY <1>0 DEF Served
<1>2. ASSUME NEW u \in Threads, local'[u].client # NoClient
      PROVE  /\ local'[u].client \in Clients
             /\ client'[local'[u].client].busy
             /\ \A v \in Threads : local'[v].client = local'[u].client => v = u
  <2>1. CASE u = t
    BY <1>1, <2>1 DEF OthersStay
  <2>2. CASE u # t
    <3>1. local'[u] = local[u] /\ local[u].client # c
      BY <1>1, <2>2 DEF OthersStay
    <3>2. /\ local[u].client \in Clients /\ client[local[u].client].busy
          /\ \A v \in Threads : local[v].client = local[u].client => v = u
      BY <1>2, <3>1 DEF Served
    <3>3. client'[local[u].client].busy
      BY <3>1, <3>2
    <3>4. ASSUME NEW v \in Threads, local'[v].client = local'[u].client
          PROVE  v = u
      BY <3>1, <3>2, <3>4 DEF OthersStay
    <3>. QED BY <3>1, <3>2, <3>3, <3>4
  <2>. QED BY <2>1, <2>2
<1>. QED BY <1>2 DEF Served

LEMMA ServedStep ==
  ASSUME TypeInv, Served, [Next]_vars
  PROVE  Served'
<1>0. /\ client \in [Clients -> ClientState] /\ Workers \subseteq Threads
      /\ NoClient \notin Clients
  BY KinesisAssumption DEF TypeInv, TypeOK, Threads
<1>1. CASE client' = client /\ \A u \in Threads : SameRoles(u)
  BY <1>1, ServedFewer, <1>0 DEF SameRoles
<1>2. ASSUME NEW t \in Workers, Timeout(t) PROVE Served'
  <2> DEFINE c == local[t].client
  <2>1. /\ c \in Clients /\ local'[t] = [local[t] EXCEPT !.client = NoClient] /\ OthersStay(t)
        /\ client' = [client EXCEPT ![c] = [client[c] EXCEPT !.busy = FALSE]]
    BY <1>2, TimeoutFacts
  <2>2. local[t] \in LocalState
    BY <1>0 DEF TypeInv, TypeOK
  <2>3. local'[t].client = NoClient
    BY <2>1, <2>2 DEF LocalState
  <2>4. \A u \in Threads : u # t => local'[u].client = local[u].client /\ local[u].client # c
    BY <1>0, <2>1 DEF OthersStay, Served
  <2>5. \A d \in Clients : d # c => client'[d].busy = client[d].busy
    BY <1>0, <2>1
  <2> HIDE DEF c
  <2>. QED BY ZenonT(60), <1>0, <2>1, <2>3, <2>4, <2>5, ServedFewer
<1>3. ASSUME NEW t \in Workers, local'[t] = Idle, OthersStay(t),
             \A d \in Clients : d # local[t].client => client'[d].busy = client[d].busy
      PROVE  Served'
  <2>1. local'[t].client = NoClient
    BY <1>3, IdleRoles
  <2>2. \A u \in Threads : local'[u].client # local[t].client \/ local[t].client = NoClient
    BY <1>0, <1>3, <2>1 DEF OthersStay, Served
  <2>3. \A u \in Threads : local'[u].client \in {NoClient, local[u].client}
    BY <1>3, <2>1 DEF OthersStay
  <2>. QED BY <1>3, <2>2, <2>3, ServedFewer
<1>4. ASSUME NEW t \in Workers, Register(t) PROVE Served'
  BY <1>0, <1>3, <1>4, RegisterFacts
<1>5. ASSUME NEW t \in Workers, GetRecordsAnswer(t) PROVE Served'
  BY <1>0, <1>3, <1>5, AnswerFacts
<1>6. ASSUME NEW t \in Workers, GetRecordsRenew(t) PROVE Served'
  <2>1. /\ OthersStay(t)
        /\ \/ \E i : local'[t] = [local[t] EXCEPT !.pc = "answer", !.new = i] /\ UNCHANGED client
           \/ local'[t] = Idle /\ client' = Answered(t)
    BY <1>6, RenewFacts
  <2>2. CASE local'[t] = Idle /\ client' = Answered(t)
    <3>1. \A d \in Clients : d # local[t].client => client'[d].busy = client[d].busy
      BY <1>0, <2>2 DEF Answered
    <3>. QED BY <1>3, <2>1, <2>2, <3>1
  <2>3. ASSUME NEW i, local'[t] = [local[t] EXCEPT !.pc = "answer", !.new = i], UNCHANGED client
        PROVE  Served'
    <3>1. local'[t].client = local[t].client
      BY <1>0, <2>3 DEF TypeInv, TypeOK, LocalState
    <3>2. \A u \in Threads : local'[u].client = local[u].client
      BY <2>1, <3>1 DEF OthersStay
    <3>. QED BY <1>0, <2>3, <3>2 DEF Served
  <2>. QED BY <2>1, <2>2, <2>3
<1>7. ASSUME NEW t \in Workers, NEW c \in Clients, GetIterator(t, c) PROVE Served'
  <2>1. /\ ~ client[c].busy /\ local'[t].client = c /\ OthersStay(t)
        /\ client' = [client EXCEPT ![c] = [client[c] EXCEPT !.busy = TRUE]]
    BY <1>7, GetIteratorFacts
  <2>2. client'[c].busy /\ \A d \in Clients : d # c => client'[d].busy = client[d].busy
    BY <1>0, <2>1 DEF ClientState
  <2>. QED BY <1>0, <2>1, <2>2, ServedMore
<1>8. ASSUME NEW t \in Workers, NEW c \in Clients, GetRecords(t, c) PROVE Served'
  <2> DEFINE b == client[c].patient /\ \A u \in Threads : local[u].old # client[c].iter
  <2>1. /\ ~ client[c].busy /\ local'[t].client = c /\ OthersStay(t)
        /\ client' = [client EXCEPT ![c] = [client[c] EXCEPT !.busy = TRUE, !.patient = b]]
    BY <1>8, GetRecordsFacts
  <2> HIDE DEF b
  <2>2. client'[c].busy /\ \A d \in Clients : d # c => client'[d].busy = client[d].busy
    BY <1>0, <2>1 DEF ClientState
  <2>. QED BY <1>0, <2>1, <2>2, ServedMore
<1>9. ASSUME NEW c \in Clients, GetRecordsRefused(c) PROVE Served'
  <2>1. client' = [client EXCEPT ![c].iter = NoIterator] /\ local' = local
    BY <1>9 DEF GetRecordsRefused
  <2>2. \A d \in Clients : client'[d].busy = client[d].busy
    BY <1>0, <2>1 DEF ClientState
  <2>. QED BY <2>1, <2>2 DEF Served
<1>10. CASE Crash
  BY <1>10, IdleRoles DEF Crash, Served
<1>. QED BY <1>1, <1>2, <1>4, <1>5, <1>6, <1>7, <1>8, <1>9, <1>10, RoleSteps

Owned ==
    /\ \A t \in Threads : local[t].new # NoIterator =>
          /\ \A u \in Threads : /\ local[u].old # local[t].new
                                /\ local[u].new = local[t].new => u = t
          /\ \A c \in Clients : client[c].iter # local[t].new
    /\ \A c, d \in Clients : client[c].iter = client[d].iter /\ client[c].iter # NoIterator => c = d
    /\ \A t \in Threads : local[t].client # NoClient /\ local[t].old # NoIterator
          => client[local[t].client].iter = local[t].old
    /\ \A c \in Clients : client[c].patient /\ client[c].iter # NoIterator =>
          \A t, u \in Threads :
              local[t].old = client[c].iter /\ local[u].old = client[c].iter => t = u

(* Steps after which fewer iterators are used.                             *)
LEMMA OwnedFewer ==
  ASSUME Owned, TypeInv',
         \A u \in Threads :
            /\ local'[u].new \in {NoIterator, local[u].new}
            /\ local'[u].old \in {NoIterator, local[u].old}
            /\ local'[u].old # NoIterator => local'[u].client \in {NoClient, local[u].client},
         \A d \in Clients :
            /\ client'[d].patient => client[d].patient
            /\ \/ client'[d].iter = client[d].iter
               \/ /\ client'[d].iter = NoIterator
                  /\ d # NoClient => \A u \in Threads : local'[u].client # d
  PROVE  Owned'
<1>1. ASSUME NEW t \in Threads, local'[t].new # NoIterator
      PROVE  /\ \A u \in Threads : /\ local'[u].old # local'[t].new
                                   /\ local'[u].new = local'[t].new => u = t
             /\ \A c \in Clients : client'[c].iter # local'[t].new
  BY <1>1 DEF Owned
<1>2. ASSUME NEW c \in Clients, NEW d \in Clients,
             client'[c].iter = client'[d].iter, client'[c].iter # NoIterator
      PROVE  c = d
  BY <1>2 DEF Owned
<1>3. ASSUME NEW t \in Threads, local'[t].client # NoClient, local'[t].old # NoIterator,
             local'[t].client \in Clients
      PROVE  client'[local'[t].client].iter = local'[t].old
  BY <1>3 DEF Owned
<1>4. ASSUME NEW c \in Clients, client'[c].patient, client'[c].iter # NoIterator,
             NEW t \in Threads, NEW u \in Threads,
             local'[t].old = client'[c].iter, local'[u].old = client'[c].iter
      PROVE  t = u
  BY <1>4 DEF Owned
<1>5. \A t \in Threads : local'[t].client \in Clients \cup {NoClient}
  BY DEF TypeInv, TypeOK, LocalState
<1>. QED BY <1>1, <1>2, <1>3, <1>4, <1>5 DEF Owned

(* The id of a new iterator is in use nowhere.                             *)
LEMMA Unknown ==
  ASSUME NEW i \in Iterators \ Known
  PROVE  /\ \A u \in Threads : local[u].old # i /\ local[u].new # i
         /\ \A c \in Clients : client[c].iter # i
         /\ i # NoIterator
  BY KnownTo, KinesisAssumption

(* Thread t will answer with iterator i.                                   *)
LEMMA OwnedNew ==
  ASSUME Owned, NEW t \in Threads, NEW i \in Iterators \ Known, OthersStay(t),
         local'[t].client = local[t].client, local'[t].old = local[t].old,
         local'[t].new = i, UNCHANGED client
  PROVE  Owned'
<1>1. /\ \A u \in Threads : local[u].old # i /\ local[u].new # i
      /\ \A c \in Clients : client[c].iter # i
  BY Unknown
<1>2. \A u \in Threads : /\ local'[u].client = local[u].client
                         /\ local'[u].old = local[u].old
                         /\ u # t => local'[u].new = local[u].new
  BY DEF OthersStay
<1>3. ASSUME NEW v \in Threads, local'[v].new # NoIterator
      PROVE  /\ \A u \in Threads : /\ local'[u].old # local'[v].new
                                   /\ local'[u].new = local'[v].new => u = v
             /\ \A c \in Clients : client'[c].iter # local'[v].new
  BY <1>1, <1>2, <1>3 DEF Owned
<1>4. \A u \in Threads : local'[u].client # NoClient /\ local'[u].old # NoIterator
          => client'[local'[u].client].iter = local'[u].old
  BY <1>2 DEF Owned
<1>5. \A c \in Clients : client'[c].patient /\ client'[c].iter # NoIterator =>
          \A v, u \in Threads :
              local'[v].old = client'[c].iter /\ local'[u].old = client'[c].iter => v = u
  BY <1>2 DEF Owned
<1>6. \A c, d \in Clients :
          client'[c].iter = client'[d].iter /\ client'[c].iter # NoIterator => c = d
  BY DEF Owned
<1>. QED BY <1>3, <1>4, <1>5, <1>6 DEF Owned

(* The consumer that thread t served gets iterator i.                      *)
LEMMA OwnedGiven ==
  ASSUME Owned, Served, NEW t \in Threads, NEW c \in Clients, NEW i \in Iterators,
         local[t].client = c, local'[t] = Idle, OthersStay(t),
         \A u \in Threads : local[u].old # i /\ (u # t => local[u].new # i),
         \A d \in Clients : client[d].iter # i,
         client'[c].iter = i,
         \A d \in Clients : d # c => client'[d] = client[d]
  PROVE  Owned'
<1>0. c # NoClient /\ i # NoIterator
  BY KinesisAssumption
<1>1. /\ local'[t].client = NoClient /\ local'[t].old = NoIterator /\ local'[t].new = NoIterator
      /\ \A u \in Threads : u # t => local'[u] = local[u] /\ local[u].client # c
  BY <1>0, IdleRoles DEF OthersStay, Served
<1>2. ASSUME NEW v \in Threads, local'[v].new # NoIterator
      PROVE  /\ \A u \in Threads : /\ local'[u].old # local'[v].new
                                   /\ local'[u].new = local'[v].new => u = v
             /\ \A d \in Clients : client'[d].iter # local'[v].new
  <2>1. v # t /\ local'[v] = local[v] /\ local[v].new # i
    BY <1>1, <1>2
  <2>2. \A u \in Threads : /\ local'[u].old # local'[v].new
                           /\ local'[u].new = local'[v].new => u = v
    BY <1>1, <1>2, <2>1 DEF Owned
  <2>3. ASSUME NEW d \in Clients PROVE client'[d].iter # local'[v].new
    BY <1>2, <2>1 DEF Owned
  <2>. QED BY <2>2, <2>3
<1>3. ASSUME NEW v \in Threads, local'[v].client # NoClient, local'[v].old # NoIterator
      PROVE  client'[local'[v].client].iter = local'[v].old
  <2>1. v # t /\ local'[v] = local[v] /\ local[v].client # c
    BY <1>1, <1>3
  <2>2. local[v].client \in Clients
    BY <1>3, <2>1 DEF Served
  <2>. QED BY <1>3, <2>1, <2>2 DEF Owned
<1>4. ASSUME NEW d \in Clients, client'[d].patient, client'[d].iter # NoIterator,
             NEW v \in Threads, NEW u \in Threads,
             local'[v].old = client'[d].iter, local'[u].old = client'[d].iter
      PROVE  v = u
  <2>1. v # t /\ u # t /\ local'[v] = local[v] /\ local'[u] = local[u]
    BY <1>1, <1>4
  <2>2. d # c
    BY <2>1, <1>4
  <2>. QED BY <1>4, <2>1, <2>2 DEF Owned
<1>5. ASSUME NEW d \in Clients, NEW e \in Clients,
             client'[d].iter = client'[e].iter, client'[d].iter # NoIterator
      PROVE  d = e
  BY <1>5 DEF Owned
<1>. QED BY <1>2, <1>3, <1>4, <1>5 DEF Owned

(* A consumer uses its iterator.                                           *)
LEMMA OwnedUsed ==
  ASSUME Owned, Served, NEW t \in Threads, NEW c \in Clients, NEW i \in Iterators,
         client[c].iter = i, OthersStay(t),
         local'[t].client = c, local'[t].old = i, local'[t].new = NoIterator,
         \A d \in Clients : client'[d].iter = client[d].iter,
         \A d \in Clients : d # c => client'[d].patient = client[d].patient,
         client'[c].patient => client[c].patient /\ \A u \in Threads : local[u].old # i
  PROVE  Owned'
<1>0. i # NoIterator
  BY KinesisAssumption
<1>2. ASSUME NEW v \in Threads, local'[v].new # NoIterator
      PROVE  /\ \A u \in Threads : /\ local'[u].old # local'[v].new
                                   /\ local'[u].new = local'[v].new => u = v
             /\ \A d \in Clients : client'[d].iter # local'[v].new
  <2>1. v # t /\ local'[v] = local[v] /\ local[v].new # i
    BY <1>2 DEF OthersStay, Owned
  <2>2. ASSUME NEW u \in Threads
        PROVE  /\ local'[u].old # local'[v].new
               /\ local'[u].new = local'[v].new => u = v
    BY <1>2, <2>1 DEF Owned, OthersStay
  <2>3. ASSUME NEW d \in Clients PROVE client'[d].iter # local'[v].new
    BY <1>2, <2>1 DEF Owned
  <2>. QED BY <2>2, <2>3
<1>3. ASSUME NEW v \in Threads, local'[v].client # NoClient, local'[v].old # NoIterator
      PROVE  client'[local'[v].client].iter = local'[v].old
  <2>1. local[v].client = NoClient \/ local[v].client \in Clients
    BY DEF Served
  <2>. QED BY <1>3, <2>1 DEF Owned, OthersStay
<1>4. ASSUME NEW d \in Clients, client'[d].patient, client'[d].iter # NoIterator,
             NEW v \in Threads, NEW u \in Threads,
             local'[v].old = client'[d].iter, local'[u].old = client'[d].iter
      PROVE  v = u
  <2>1. CASE d = c
    BY <1>0, <1>4, <2>1 DEF OthersStay
  <2>2. CASE d # c
    <3>1. client[d].iter # i
      BY <1>0, <2>2 DEF Owned
    <3>. QED BY <1>4, <2>2, <3>1 DEF Owned, OthersStay
  <2>. QED BY <2>1, <2>2
<1>5. ASSUME NEW d \in Clients, NEW e \in Clients,
             client'[d].iter = client'[e].iter, client'[d].iter # NoIterator
      PROVE  d = e
  BY <1>5 DEF Owned
<1>. QED BY <1>2, <1>3, <1>4, <1>5 DEF Owned

LEMMA OwnedStep ==
  ASSUME TypeInv, Served, Owned, [Next]_vars
  PROVE  Owned'
<1>0. /\ client \in [Clients -> ClientState] /\ Workers \subseteq Threads
      /\ NoClient \notin Clients /\ TypeInv'
      /\ \A t \in Threads : local[t] \in LocalState
  BY KinesisAssumption, TypeStep DEF TypeInv, TypeOK, Threads
<1>1. CASE client' = client /\ \A u \in Threads : SameRoles(u)
  BY <1>0, <1>1, OwnedFewer DEF SameRoles
<1>2. ASSUME NEW t \in Workers, Timeout(t) PROVE Owned'
  <2> DEFINE c == local[t].client
  <2>1. /\ c \in Clients /\ local'[t] = [local[t] EXCEPT !.client = NoClient] /\ OthersStay(t)
        /\ client' = [client EXCEPT ![c] = [client[c] EXCEPT !.busy = FALSE]]
    BY <1>2, TimeoutFacts
  <2>2. /\ local'[t].client = NoClient /\ local'[t].old = local[t].old
        /\ local'[t].new = local[t].new
    BY <1>0, <2>1 DEF LocalState
  <2>3. \A d \in Clients : client'[d].patient = client[d].patient /\ client'[d].iter = client[d].iter
    BY <1>0, <2>1 DEF ClientState
  <2>. QED BY <1>0, <2>1, <2>2, <2>3, OwnedFewer DEF OthersStay
<1>3. ASSUME NEW t \in Workers, local'[t] = Idle, OthersStay(t),
             \A d \in Clients : /\ client'[d].patient = client[d].patient
                                /\ client'[d].iter = client[d].iter
      PROVE  Owned'
  BY <1>0, <1>3, IdleRoles, OwnedFewer DEF OthersStay
<1>4. ASSUME NEW t \in Workers, Register(t) PROVE Owned'
  <2>1. PICK i \in Iterators \ Known :
           /\ local'[t] = Idle /\ OthersStay(t)
           /\ \/ local[t].client = NoClient /\ client' = client
              \/ /\ local[t].client \in Clients
                 /\ client' = [client EXCEPT ![local[t].client] =
                                  AfterRegister(client[local[t].client], local[t], i)]
    BY <1>4, RegisterFacts
  <2>2. CASE client' = client
    BY <1>3, <2>1, <2>2
  <2>3. ASSUME NEW c \in Clients, local[t].client = c,
               client' = [client EXCEPT ![c] = AfterRegister(client[c], local[t], i)]
        PROVE  Owned'
    <3>1. client'[c].iter = i
      BY <1>0, <2>3 DEF AfterRegister, ClientState
    <3>2. \A d \in Clients : d # c => client'[d] = client[d]
      BY <1>0, <2>3
    <3>3. /\ \A u \in Threads : local[u].old # i /\ local[u].new # i
          /\ \A d \in Clients : client[d].iter # i
      BY Unknown
    <3>. QED BY <1>0, <2>1, <2>3, <3>1, <3>2, <3>3, OwnedGiven
  <2>. QED BY <2>1, <2>2, <2>3
<1>5. ASSUME NEW t \in Workers, GetRecordsAnswer(t) PROVE Owned'
  <2>1. /\ local[t].pc = "answer" /\ local[t].new \in Iterators
        /\ local'[t] = Idle /\ OthersStay(t)
        /\ \/ local[t].client = NoClient /\ client' = client
           \/ /\ local[t].client \in Clients
              /\ client' = [client EXCEPT ![local[t].client] =
                               AfterAnswer(client[local[t].client], local[t])]
    BY <1>5, AnswerFacts
  <2>2. CASE client' = client
    BY <1>3, <2>1, <2>2
  <2>3. ASSUME NEW c \in Clients, local[t].client = c,
               client' = [client EXCEPT ![c] = AfterAnswer(client[c], local[t])]
        PROVE  Owned'
    <3>1. client'[c].iter = local[t].new
      BY <1>0, <2>3 DEF AfterAnswer, ClientState
    <3>2. \A d \in Clients : d # c => client'[d] = client[d]
      BY <1>0, <2>3
    <3>3. /\ \A u \in Threads : local[u].old # local[t].new
                                /\ (u # t => local[u].new # local[t].new)
          /\ \A d \in Clients : client[d].iter # local[t].new
      BY <1>0, <2>1, KinesisAssumption DEF Owned
    <3>. QED BY <1>0, <2>1, <2>3, <3>1, <3>2, <3>3, OwnedGiven
  <2>. QED BY <2>1, <2>2, <2>3
<1>6. ASSUME NEW t \in Workers, GetRecordsRenew(t) PROVE Owned'
  <2>1. PICK i \in Iterators \ Known :
            /\ OthersStay(t)
            /\ \/ /\ local'[t] = [local[t] EXCEPT !.pc = "answer", !.new = i]
                  /\ UNCHANGED client
               \/ /\ local'[t] = Idle
                  /\ client' = Answered(t)
    BY <1>6, RenewFacts
  <2>2. CASE local'[t] = Idle /\ client' = Answered(t)
    <3>1. \A d \in Clients : client'[d].patient = client[d].patient /\ client'[d].iter = client[d].iter
      BY <1>0, <2>2 DEF Answered, ClientState
    <3>. QED BY <1>3, <2>1, <2>2, <3>1
  <2>3. CASE local'[t] = [local[t] EXCEPT !.pc = "answer", !.new = i] /\ UNCHANGED client
    <3>1. /\ local'[t].client = local[t].client /\ local'[t].old = local[t].old
          /\ local'[t].new = i
      BY <1>0, <2>3 DEF LocalState
    <3>. QED BY <1>0, <2>1, <2>3, <3>1, OwnedNew
  <2>. QED BY <2>1, <2>2, <2>3
<1>7. ASSUME NEW t \in Workers, NEW c \in Clients, GetIterator(t, c) PROVE Owned'
  <2>1. /\ local'[t].old = NoIterator /\ local'[t].new = NoIterator /\ OthersStay(t)
        /\ client' = [client EXCEPT ![c] = [client[c] EXCEPT !.busy = TRUE]]
    BY <1>7, GetIteratorFacts
  <2>2. \A d \in Clients : client'[d].patient = client[d].patient /\ client'[d].iter = client[d].iter
    BY <1>0, <2>1 DEF ClientState
  <2>. QED BY <1>0, <2>1, <2>2, OwnedFewer DEF OthersStay
<1>8. ASSUME NEW t \in Workers, NEW c \in Clients, GetRecords(t, c) PROVE Owned'
  <2> DEFINE b == client[c].patient /\ \A u \in Threads : local[u].old # client[c].iter
  <2>1. /\ local'[t].client = c /\ local'[t].old = client[c].iter /\ local'[t].new = NoIterator
        /\ OthersStay(t) /\ client[c].iter \in Iterators
        /\ client' = [client EXCEPT ![c] = [client[c] EXCEPT !.busy = TRUE, !.patient = b]]
    BY <1>8, GetRecordsFacts
  <2>2. b => client[c].patient /\ \A u \in Threads : local[u].old # client[c].iter
    OBVIOUS
  <2> HIDE DEF b
  <2>3. /\ \A d \in Clients : client'[d].iter = client[d].iter
        /\ \A d \in Clients : d # c => client'[d].patient = client[d].patient
        /\ client'[c].patient = b
    BY <1>0, <2>1 DEF ClientState
  <2>. QED BY <1>0, <2>1, <2>2, <2>3, OwnedUsed
<1>9. ASSUME NEW c \in Clients, GetRecordsRefused(c) PROVE Owned'
  <2>1. client' = [client EXCEPT ![c].iter = NoIterator] /\ local' = local /\ ~ client[c].busy
    BY <1>9 DEF GetRecordsRefused
  <2>2. /\ client'[c].iter = NoIterator
        /\ \A d \in Clients : d # c => client'[d].iter = client[d].iter
        /\ \A d \in Clients : client'[d].patient = client[d].patient
    BY <1>0, <2>1 DEF ClientState
  <2>3. \A u \in Threads : local[u].client # c
    BY <1>0, <2>1 DEF Served
  <2>. QED BY <1>0, <2>1, <2>2, <2>3, OwnedFewer
<1>10. CASE Crash
  <2>1. \A u \in Threads : local'[u] = Idle
    BY <1>10 DEF Crash
  <2>2. \A d \in Clients : client'[d].patient = client[d].patient /\ client'[d].iter = client[d].iter
    BY <1>0, <1>10 DEF Crash, ClientState
  <2>. QED BY <1>0, <2>1, <2>2, IdleRoles, OwnedFewer
<1>. QED BY <1>1, <1>2, <1>4, <1>5, <1>6, <1>7, <1>8, <1>9, <1>10, RoleSteps

(***************************************************************************)
(* Where a consumer is.  Its stream is the one it started on while the     *)
(* stream has not been purged; a request for an iterator that resumes      *)
(* asks for the place after the last record the consumer has, and one that *)
(* starts afresh for a place no record of the stream is beyond.            *)
(***************************************************************************)

Asking(s, c) == s.client = c /\ s.pc \in {"latest", "register"}

(* The number l is 0 or not above those of the stream.                     *)
Reached(n, l) == l = 0 \/ \E r \in InStream(n) : r.seq >= l

AskedRight(s, c) ==
    /\ s.era <= purged[Reads[c].stream]
    /\ s.pos.stream = Reads[c].stream /\ s.pos.shard = Reads[c].shard
    /\ s.era = client[c].era => s.pc = "register" /\ s.pos.next = client[c].last + 1
    /\ s.era # client[c].era /\ s.era = purged[Reads[c].stream] /\ s.pc = "register"
          => s.pos.next = 0 \/ Reached(Reads[c].stream, s.pos.next - 1)

Eras ==
    \A c \in Clients :
        /\ client[c].era <= purged[Reads[c].stream]
        /\ \A t \in Threads : Asking(local[t], c) => AskedRight(local[t], c)

(* A stream keeps its records, or it is purged.                            *)
Kept(n) == purged'[n] = purged[n] /\ InStream(n) \subseteq InStream(n)'
Lost(n) == purged'[n] > purged[n]

LEMMA StreamChange ==
  ASSUME TypeInv, [Next]_vars, NEW n \in Streams
  PROVE  Kept(n) \/ Lost(n)
<1>0. purged \in [Streams -> Nat]
  BY DEF TypeInv, TypeOK
<1>1. ASSUME NEW t \in Admins, DeleteStreamRecords(t)
      PROVE  Kept(n) \/ Lost(n)
  <2>1. /\ records' = records \ InStream(local[t].stream)
        /\ purged' = [purged EXCEPT ![local[t].stream] = purged[local[t].stream] + 1]
    BY <1>1 DEF DeleteStreamRecords
  <2>2. CASE n = local[t].stream
    BY <1>0, <2>1, <2>2 DEF Lost
  <2>3. CASE n # local[t].stream
    BY <1>0, <2>1, <2>3 DEF Kept, InStream
  <2>. QED BY <2>2, <2>3
<1>2. ASSUME NEW t \in Producers, PutInsert(t)
      PROVE  Kept(n)
  BY <1>2 DEF PutInsert, Kept, InStream, history
<1>3. CASE (\A t \in Admins : ~ DeleteStreamRecords(t)) /\ (\A t \in Producers : ~ PutInsert(t))
  <2>1. records' = records
    BY <1>3, RecordsChange
  <2>2. ASSUME NEW t \in Admins, Admin(t)
        PROVE  purged' = purged
    BY <1>3, <2>2 DEF Admin, CreateStreamCheck, CreateStreamInsert, DeleteStreamRequire,
       DeleteStreamDrop, DeleteStreamCollect, DeleteStreamCollectFails, DeleteStreamForget, history
  <2>3. ASSUME NEW t \in Producers, Produce(t)
        PROVE  purged' = purged
    BY <1>3, <2>3 DEF Produce, PutRecord, PutRecords, RecordRequire, NextSeq, PutInsertFails, history
  <2>4. ASSUME NEW t \in Workers, ServeStep(t)
        PROVE  purged' = purged
    BY <2>4 DEF ServeStep, GetLatest, Register, GetRecordsQuery, GetRecordsAdvance,
       GetRecordsRenew, GetRecordsAnswer, history
  <2>5. purged' = purged
    BY <2>2, <2>3, <2>4
       DEF Next, Timeout, GetIterator, GetRecords, GetRecordsRefused, Crash, history, vars
  <2>. QED BY <2>1, <2>5 DEF Kept, InStream
<1>. QED BY <1>1, <1>2, <1>3

LEMMA ReachedStays ==
  ASSUME NEW n, Kept(n), NEW l, Reached(n, l)
  PROVE  Reached(n, l)'
  BY DEF Kept, Reached

(* What a consumer has is changed by its own request only.                 *)
SameReading(c) ==
    /\ client'[c].era = client[c].era /\ client'[c].last = client[c].last
    /\ client'[c].start = client[c].start /\ client'[c].seen = client[c].seen

(* It loses its iterator and its patience, and gets new ones, there too.   *)
Keeping(c) ==
    /\ SameReading(c)
    /\ client'[c].iter \in {client[c].iter, NoIterator}
    /\ client'[c].patient => client[c].patient

LEMMA ReadingChange ==
  ASSUME TypeInv, [Next]_vars, NEW c \in Clients
  PROVE  \/ Keeping(c)
         \/ \E t \in Workers : local[t].client = c /\ (Register(t) \/ GetRecordsAnswer(t))
<1>0. client \in [Clients -> ClientState]
  BY DEF TypeInv, TypeOK
<1>1. ASSUME client' = client PROVE Keeping(c)
  BY <1>1 DEF Keeping, SameReading
<1>2. ASSUME NEW d \in Clients, client' = [client EXCEPT ![d] = [client[d] EXCEPT !.busy = FALSE]]
      PROVE  Keeping(c)
  BY <1>0, <1>2 DEF Keeping, SameReading, ClientState
<1>3. ASSUME NEW t \in Workers, Timeout(t) PROVE Keeping(c)
  BY <1>2, <1>3, TimeoutFacts
<1>4. ASSUME NEW t \in Workers, Register(t), local[t].client # c PROVE Keeping(c)
  <2>1. \/ client' = client
        \/ \E me : client' = [client EXCEPT ![local[t].client] = me]
    BY <1>4, RegisterFacts
  <2>2. client'[c] = client[c]
    BY <1>0, <1>4, <2>1
  <2>. QED BY <2>2 DEF Keeping, SameReading
<1>5. ASSUME NEW t \in Workers, GetRecordsAnswer(t), local[t].client # c PROVE Keeping(c)
  <2>1. \/ client' = client
        \/ \E me : client' = [client EXCEPT ![local[t].client] = me]
    BY <1>5, AnswerFacts
  <2>2. client'[c] = client[c]
    BY <1>0, <1>5, <2>1
  <2>. QED BY <2>2 DEF Keeping, SameReading
<1>6. ASSUME NEW t \in Workers, GetRecordsRenew(t) PROVE Keeping(c)
  <2>1. UNCHANGED client \/ client' = Answered(t)
    BY <1>6, RenewFacts
  <2>2. local[t].client \in Clients \cup {NoClient}
    BY DEF TypeInv, TypeOK, Threads, LocalState
  <2>3. CASE local[t].client \in Clients
    <3> DEFINE d == local[t].client
    <3>1. client' = client \/ client' = [client EXCEPT ![d] = [client[d] EXCEPT !.busy = FALSE]]
      BY <1>0, <2>1, <2>3 DEF Answered, ClientState
    <3> HIDE DEF d
    <3>. QED BY <1>1, <1>2, <2>3, <3>1 DEF d
  <2>4. CASE local[t].client = NoClient
    BY <1>1, <2>1, <2>4 DEF Answered
  <2>. QED BY <2>2, <2>3, <2>4
<1>7. ASSUME NEW t \in Workers, NEW d \in Clients, GetIterator(t, d) PROVE Keeping(c)
  <2>1. client' = [client EXCEPT ![d] = [client[d] EXCEPT !.busy = TRUE]]
    BY <1>7, GetIteratorFacts
  <2>. QED BY <1>0, <2>1 DEF Keeping, SameReading, ClientState
<1>8. ASSUME NEW t \in Workers, NEW d \in Clients, GetRecords(t, d) PROVE Keeping(c)
  <2> DEFINE b == client[d].patient /\ \A u \in Threads : local[u].old # client[d].iter
  <2>1. client' = [client EXCEPT ![d] = [client[d] EXCEPT !.busy = TRUE, !.patient = b]]
    BY <1>8, GetRecordsFacts
  <2>2. b => client[d].patient
    OBVIOUS
  <2> HIDE DEF b
  <2>3. CASE c = d
    <3>1. client'[c] = [client[c] EXCEPT !.busy = TRUE, !.patient = b]
      BY <1>0, <2>1, <2>3
    <3>2. client'[c].patient = b /\ client'[c].iter = client[c].iter
      BY <1>0, <3>1 DEF ClientState
    <3>. QED BY <1>0, <2>2, <2>3, <3>1, <3>2 DEF Keeping, SameReading, ClientState
  <2>4. CASE c # d
    <3>1. client'[c] = client[c]
      BY <1>0, <2>1, <2>4
    <3>. QED BY <3>1 DEF Keeping, SameReading
  <2>. QED BY <2>3, <2>4
<1>9. ASSUME NEW d \in Clients, GetRecordsRefused(d) PROVE Keeping(c)
  <2>1. client' = [client EXCEPT ![d].iter = NoIterator]
    BY <1>9 DEF GetRecordsRefused
  <2>. QED BY <1>0, <2>1 DEF Keeping, SameReading, ClientState
<1>10. ASSUME Crash PROVE Keeping(c)
  BY <1>0, <1>10 DEF Crash, Keeping, SameReading, ClientState
<1>. QED BY <1>1, <1>3, <1>4, <1>5, <1>6, <1>7, <1>8, <1>9, <1>10, RoleSteps

(* What becomes of a request a consumer waits for.                         *)
LEMMA ServingChange ==
  ASSUME TypeInv, [Next]_vars, NEW c \in Clients, NEW u \in Threads, local'[u].client = c
  PROVE  \/ local'[u] = local[u]
         \/ /\ u \in Workers
            /\ \/ GetLatest(u) \/ GetIterator(u, c) \/ GetRecords(u, c)
               \/ GetRecordsQuery(u) \/ GetRecordsAdvance(u)
               \/ GetRecordsRenew(u) /\ local'[u] # Idle
<1> DEFINE Same == local'[u] = local[u]
<1>0. /\ local \in [Threads -> Good] /\ Workers \subseteq Threads /\ Admins \subseteq Threads
      /\ Producers \subseteq Threads /\ c # NoClient
      /\ \A t \in Threads : local[t] \in LocalState
  BY KinesisAssumption DEF TypeInv, Threads, Good
<1>1. ASSUME NEW t \in Threads, NEW x \in Good, local' = [local EXCEPT ![t] = x],
             x.client = NoClient
      PROVE  Same
  BY <1>0, <1>1
<1>2. ASSUME NEW t \in Admins, Admin(t) PROVE Same
  BY <1>0, <1>1, <1>2, AdminGood DEF Aside
<1>3. ASSUME NEW t \in Producers, Produce(t) PROVE Same
  BY <1>0, <1>1, <1>3, ProduceGood
<1>4. ASSUME NEW t \in Workers, ServeStep(t)
      PROVE  \/ Same
             \/ /\ u = t
                /\ \/ GetLatest(u) \/ GetRecordsQuery(u) \/ GetRecordsAdvance(u)
                   \/ GetRecordsRenew(u) /\ local'[u] # Idle
  <2>1. CASE GetLatest(t)
    BY <1>0, <2>1 DEF GetLatest
  <2>2. CASE GetRecordsQuery(t)
    BY ZenonT(60), <1>0, <2>2 DEF GetRecordsQuery
  <2>3. CASE GetRecordsAdvance(t)
    BY <1>0, <2>3 DEF GetRecordsAdvance, Goto
  <2>4. CASE GetRecordsRenew(t)
    <3>1. OthersStay(t)
      BY <2>4, RenewFacts
    <3>. QED BY <1>0, <2>4, <3>1, IdleRoles DEF OthersStay
  <2>5. CASE Register(t)
    BY <1>0, <2>5, RegisterFacts, IdleRoles DEF OthersStay
  <2>6. CASE GetRecordsAnswer(t)
    BY <1>0, <2>6, AnswerFacts, IdleRoles DEF OthersStay
  <2>. QED BY <1>4, <2>1, <2>2, <2>3, <2>4, <2>5, <2>6 DEF ServeStep
<1>5. ASSUME NEW t \in Workers, Timeout(t) PROVE Same
  <2>1. local'[t] = [local[t] EXCEPT !.client = NoClient] /\ OthersStay(t)
    BY <1>5, TimeoutFacts
  <2>2. local'[t].client = NoClient
    BY <1>0, <2>1 DEF LocalState
  <2>. QED BY <1>0, <2>1, <2>2 DEF OthersStay
<1>6. ASSUME NEW t \in Workers, NEW d \in Clients, GetIterator(t, d)
      PROVE  Same \/ (u = t /\ GetIterator(u, c))
  BY <1>0, <1>6, GetIteratorFacts DEF OthersStay
<1>7. ASSUME NEW t \in Workers, NEW d \in Clients, GetRecords(t, d)
      PROVE  Same \/ (u = t /\ GetRecords(u, c))
  <2>1. OthersStay(t) /\ local'[t].client = d
    BY <1>7, GetRecordsFacts
  <2>. QED BY <1>7, <2>1 DEF OthersStay
<1>8. ASSUME UNCHANGED local PROVE Same
  BY <1>8
<1>9. ASSUME Crash PROVE Same
  <2>1. local'[u].client = NoClient
    BY <1>9, IdleRoles DEF Crash
  <2>. QED BY <1>0, <2>1
<1>. QED
  BY <1>2, <1>3, <1>4, <1>5, <1>6, <1>7, <1>8, <1>9 DEF Next, GetRecordsRefused, vars

LEMMA AskingChange ==
  ASSUME TypeInv, [Next]_vars, NEW c \in Clients, NEW u \in Threads, Asking(local[u], c)'
  PROVE  \/ local'[u] = local[u]
         \/ u \in Workers /\ (GetLatest(u) \/ GetIterator(u, c))
<1>0. /\ local'[u].client = c /\ local'[u].pc \in {"latest", "register"}
      /\ local \in [Threads -> Good] /\ local[u] \in LocalState
  BY DEF Asking, TypeInv, Good
<1>1. CASE GetRecords(u, c) /\ u \in Workers
  BY <1>0, <1>1, GetRecordsFacts
<1>2. CASE GetRecordsQuery(u)
  BY <1>0, <1>2 DEF GetRecordsQuery, LocalState
<1>3. CASE GetRecordsAdvance(u)
  BY <1>0, <1>3 DEF GetRecordsAdvance, Goto, LocalState
<1>4. CASE GetRecordsRenew(u) /\ u \in Workers
  <2>1. PICK i \in Iterators \ Known :
           \/ local'[u] = [local[u] EXCEPT !.pc = "answer", !.new = i]
           \/ local'[u] = Idle
    BY <1>4, RenewFacts
  <2>2. local'[u].pc \in {"answer", "idle"}
    BY <1>0, <2>1, IdleRoles DEF LocalState
  <2>. QED BY <1>0, <2>2
<1>. QED BY <1>0, <1>1, <1>2, <1>3, <1>4, ServingChange

(* A request as it begins.                                                 *)
LEMMA AskedFirst ==
  ASSUME TypeInv, Eras, NEW t \in Workers, NEW c \in Clients, GetIterator(t, c)
  PROVE  /\ local'[t].era = purged[Reads[c].stream]
         /\ local'[t].pos.stream = Reads[c].stream /\ local'[t].pos.shard = Reads[c].shard
         /\ \/ /\ client[c].era = purged[Reads[c].stream]
               /\ local'[t].pc = "register" /\ local'[t].pos.next = client[c].last + 1
            \/ /\ client[c].era # purged[Reads[c].stream]
               /\ local'[t].pos.next = 0
<1> DEFINE n == Reads[c].stream
<1>0. local \in [Threads -> Good] /\ t \in Threads
  BY DEF TypeInv, Threads
<1>1. PICK ask \in Asked(c) :
         local' = [local EXCEPT ![t] =
                     [Idle EXCEPT !.pc = IF ask[1] = "LATEST" THEN "latest" ELSE "register",
                                  !.client = c, !.era = purged[n],
                                  !.pos = [stream |-> n, shard |-> Reads[c].shard,
                                           next |-> ask[2]]]]
  BY DEF GetIterator
<1>2. /\ local'[t].era = purged[n]
      /\ local'[t].pos.stream = n /\ local'[t].pos.shard = Reads[c].shard
      /\ local'[t].pos.next = ask[2]
      /\ local'[t].pc = IF ask[1] = "LATEST" THEN "latest" ELSE "register"
  BY <1>0, <1>1 DEF Idle
<1>3. CASE client[c].era = purged[n]
  <2>1. ask[1] # "LATEST" /\ ask[2] = client[c].last + 1
    BY <1>3 DEF Asked
  <2>. QED BY <1>2, <1>3, <2>1
<1>4. CASE client[c].era # purged[n]
  <2>1. ask[2] = 0
    BY <1>4 DEF Asked
  <2>. QED BY <1>2, <1>4, <2>1
<1>. QED BY <1>3, <1>4

LEMMA ErasStep ==
  ASSUME TypeInv, Served, Eras, [Next]_vars
  PROVE  Eras'
<1>0. /\ client \in [Clients -> ClientState] /\ purged \in [Streams -> Nat]
      /\ purged' \in [Streams -> Nat] /\ client' \in [Clients -> ClientState]
      /\ Workers \subseteq Threads /\ NoClient \notin Clients
      /\ \A t \in Threads : local[t] \in LocalState /\ local'[t] \in LocalState
  BY KinesisAssumption, TypeStep DEF TypeInv, TypeOK, Threads
<1> SUFFICES ASSUME NEW c \in Clients
             PROVE  /\ client'[c].era <= purged'[Reads[c].stream]
                    /\ \A u \in Threads : Asking(local[u], c)' => AskedRight(local[u], c)'
  BY DEF Eras
<1> DEFINE n == Reads[c].stream
<1>1. /\ n \in Streams /\ purged[n] \in Nat /\ purged'[n] \in Nat
      /\ client[c].era \in Int /\ client'[c].era \in Int
  BY <1>0, KinesisAssumption DEF ClientState
<1>2. Kept(n) \/ Lost(n)
  BY <1>1, StreamChange
<1>3. purged[n] <= purged'[n]
  BY <1>1, <1>2 DEF Kept, Lost
<1> HIDE DEF n
<1>4. client[c].era <= purged[n] /\ \A t \in Threads : Asking(local[t], c) => AskedRight(local[t], c)
  BY DEF Eras, n
<1>5. client'[c].era <= purged'[n]
  <2>1. CASE client'[c].era = client[c].era
    BY <1>1, <1>3, <1>4, <2>1
  <2>2. CASE client'[c].era # client[c].era
    <3>1. PICK t \in Workers : local[t].client = c /\ (Register(t) \/ GetRecordsAnswer(t))
      BY <2>2, ReadingChange DEF Keeping, SameReading
    <3>2. CASE GetRecordsAnswer(t)
      <4>1. client' = [client EXCEPT ![c] = AfterAnswer(client[c], local[t])]
        BY <1>0, <3>1, <3>2, AnswerFacts
      <4>2. client'[c].era = client[c].era
        BY <1>0, <4>1 DEF AfterAnswer, ClientState
      <4>. QED BY <2>2, <4>2
    <3>3. CASE Register(t)
      <4>1. PICK i : client' = [client EXCEPT ![c] = AfterRegister(client[c], local[t], i)]
        BY <1>0, <3>1, <3>3, RegisterFacts
      <4>2. client'[c].era = local[t].era
        BY <1>0, <2>2, <4>1 DEF AfterRegister, ClientState
      <4>3. Asking(local[t], c)
        BY <3>1, <3>3 DEF Register, Asking
      <4>4. local[t].era <= purged[n] /\ local[t].era \in Nat
        BY <1>0, <1>4, <4>3 DEF AskedRight, LocalState, n
      <4>. QED BY <1>1, <1>3, <4>2, <4>4
    <3>. QED BY <3>1, <3>2, <3>3
  <2>. QED BY <2>1, <2>2
<1>6. ASSUME NEW u \in Threads, Asking(local[u], c)'
      PROVE  AskedRight(local[u], c)'
  <2> DEFINE s == local'[u]
  <2>0. s.era \in Nat /\ s.pos.next \in Nat /\ client[c].last \in Nat
    BY <1>0 DEF LocalState, Position, ClientState
  <2>1. CASE s = local[u]
    <3>1. Asking(local[u], c) /\ AskedRight(local[u], c)
      BY <1>4, <1>6, <2>1 DEF Asking
    <3>2. SameReading(c)
      <4>1. ASSUME NEW t \in Workers, local[t].client = c, Register(t) \/ GetRecordsAnswer(t)
            PROVE  FALSE
        <5>1. t = u
          BY <1>0, <3>1, <4>1 DEF Served, Asking
        <5>2. local'[u] = Idle
          BY <4>1, <5>1, RegisterFacts, AnswerFacts
        <5>. QED BY <1>0, <1>6, <5>2, IdleRoles DEF Asking
      <4>. QED BY <4>1, ReadingChange DEF Keeping
    <3> HIDE DEF s
    <3>3. /\ s.era <= purged[n] /\ s.pos.stream = n /\ s.pos.shard = Reads[c].shard
          /\ s.era = client'[c].era => s.pc = "register" /\ s.pos.next = client'[c].last + 1
      BY <2>1, <3>1, <3>2 DEF AskedRight, SameReading, n
    <3>4. s.era <= purged'[n]
      BY <1>1, <1>3, <2>0, <3>3
    <3>5. ASSUME s.era # client'[c].era, s.era = purged'[n], s.pc = "register"
          PROVE  \/ s.pos.next = 0 \/ s.pos.next - 1 = 0
                 \/ \E r \in records' : r.stream = n /\ r.seq >= s.pos.next - 1
      <4>1. Kept(n) /\ s.era = purged[n]
        BY <1>1, <1>2, <2>0, <3>3, <3>5 DEF Lost, Kept
      <4>2. s.pos.next = 0 \/ Reached(n, s.pos.next - 1)
        BY <2>1, <3>1, <3>2, <3>5, <4>1 DEF AskedRight, SameReading, n
      <4>. QED BY <4>1, <4>2 DEF Reached, Kept, InStream
    <3>. QED BY <3>3, <3>4, <3>5 DEF AskedRight, Reached, InStream, n, s
  <2>2. CASE u \in Workers /\ GetLatest(u)
    <3> DEFINE p == local[u].pos
               m == MaxSeq(InShard(p.stream, p.shard))
    <3>1. /\ local[u].pc = "latest" /\ UNCHANGED <<tables, client, history>>
          /\ local' = [local EXCEPT ![u].pc = "register", ![u].pos.next = m + 1]
      BY <2>2 DEF GetLatest
    <3> HIDE DEF m
    <3>2. /\ s.client = local[u].client /\ s.era = local[u].era /\ s.pc = "register"
          /\ s.pos.stream = p.stream /\ s.pos.shard = p.shard /\ s.pos.next = m + 1
      BY <1>0, <3>1 DEF LocalState, Position, TypeInv, TypeOK
    <3>3. Asking(local[u], c)
      BY <1>6, <3>1, <3>2 DEF Asking
    <3>4. AskedRight(local[u], c)
      BY <1>4, <3>3
    <3>5. /\ s.era <= purged[n] /\ p.stream = n /\ p.shard = Reads[c].shard
          /\ s.era # client[c].era
      BY <3>1, <3>2, <3>4 DEF AskedRight, n
    <3>6. p.shard \in Nat
      BY <1>0 DEF LocalState, Position
    <3>7. InShard(n, p.shard) \in SUBSET records /\ Rows(InShard(n, p.shard))
      BY <1>1, <3>6, TablesFinite
    <3>8. m \in Nat /\ (m = 0 \/ \E r \in InShard(n, p.shard) : r.seq = m)
      BY <3>5, <3>7, MaxSeqIsLargest DEF m
    <3>9. Reached(n, m)
      BY <3>8 DEF Reached, InShard
    <3>10. \/ s.pos.next - 1 = 0
           \/ \E r \in records' : r.stream = n /\ r.seq >= s.pos.next - 1
      <4>1. s.pos.next - 1 = m
        BY <3>2, <3>8
      <4>2. m = 0 \/ \E r \in records' : r.stream = n /\ r.seq >= m
        BY <3>1, <3>9 DEF Reached, InStream, tables
      <4> HIDE DEF s
      <4>. QED BY <4>1, <4>2
    <3> HIDE DEF s, p
    <3>. QED BY <3>1, <3>2, <3>5, <3>10 DEF AskedRight, Reached, InStream, n, s, history
  <2>3. CASE u \in Workers /\ GetIterator(u, c)
    <3>1. /\ client' = [client EXCEPT ![c] = [client[c] EXCEPT !.busy = TRUE]]
          /\ UNCHANGED <<tables, memory, history>>
      BY <2>3, GetIteratorFacts
    <3>2. client'[c].era = client[c].era /\ client'[c].last = client[c].last
      BY <1>0, <3>1 DEF ClientState
    <3>3. /\ s.era = purged[n] /\ s.pos.stream = n /\ s.pos.shard = Reads[c].shard
          /\ \/ /\ client[c].era = purged[n]
                /\ s.pc = "register" /\ s.pos.next = client[c].last + 1
             \/ client[c].era # purged[n] /\ s.pos.next = 0
      BY <2>3, AskedFirst DEF n
    <3>4. s.era <= purged'[n] /\ purged' = purged
      BY <1>1, <3>1, <3>3 DEF history
    <3> HIDE DEF s
    <3>. QED BY <3>2, <3>3, <3>4 DEF AskedRight, n, s
  <2>. QED BY <1>6, <2>1, <2>2, <2>3, AskingChange
<1>. QED BY <1>5, <1>6 DEF n

(***************************************************************************)
(* Nothing is skipped.  While a consumer is undisturbed, what it has are   *)
(* the ids of its records up to the last number, in their order, and its   *)
(* position is the one after that number: in the iterator it holds, or in  *)
(* the variables of the request it waits for.                              *)
(***************************************************************************)

Follows(next, last) == next = last + 1 \/ (next = 0 /\ last = 0)

(* A position of consumer c after its records up to number last.           *)
At(c, p, last) ==
    /\ p.stream = Reads[c].stream /\ p.shard = Reads[c].shard
    /\ Follows(p.next, last)

(* The last number once rows are received.                                 *)
After(rows, last) == IF rows = {} THEN last ELSE MaxSeq(rows)

(* The rows of an answer are the next records of the consumer.             *)
Ahead(c, rows) ==
    /\ rows \subseteq Mine(c)
    /\ \A r \in rows : r.seq > client[c].last
    /\ \A r \in rows, q \in Mine(c) : q.seq > client[c].last /\ q.seq < r.seq => q \in rows

Collected(c) ==
    /\ \A r \in Mine(c) : r.seq <= client[c].last => r.id \in ToSet(client[c].seen)
    /\ \A k \in DOMAIN client[c].seen :
          \E r \in Mine(c) : r.id = client[c].seen[k] /\ r.seq <= client[c].last
    /\ \A j, k \in DOMAIN client[c].seen : j < k => client[c].seen[j] < client[c].seen[k]
    /\ Reached(Reads[c].stream, client[c].last)
    /\ client[c].start <= client[c].last + 1

Resting(c) ==
    client[c].iter \in open /\ (\A t \in Threads : local[t].old # client[c].iter)
        => At(c, iterators[client[c].iter], client[c].last)

Progressing(c, s) ==
    /\ s.pc = "query" => At(c, s.pos, client[c].last)
    /\ s.pc \in {"query", "advance"} => At(c, iterators[s.old], client[c].last)
    /\ s.pc \in {"advance", "renew", "answer"} => Ahead(c, s.rows)
    /\ s.pc = "renew" => At(c, iterators[s.old], After(s.rows, client[c].last))
    /\ s.pc = "answer" => At(c, iterators[s.new], After(s.rows, client[c].last))

Chain(c) ==
    /\ Collected(c)
    /\ Resting(c)
    /\ \A t \in Threads : local[t].client = c => Progressing(c, local[t])

Chains == \A c \in Clients : Undisturbed(c) => Chain(c)

(* New records come after all others of their stream.                      *)
LEMMA Growth ==
  ASSUME TypeInv, MonoInv, [Next]_vars, NEW n, NEW r \in InStream(n)'
  PROVE  \/ r \in InStream(n)
         \/ r.seq # 0 /\ \A q \in InStream(n) : q.seq < r.seq
<1>1. ASSUME NEW t \in Producers, PutInsert(t), r \notin InStream(n)
      PROVE  r.seq # 0 /\ \A q \in InStream(n) : q.seq < r.seq
  <2>1. r = NewRecord(t) /\ NewRecord(t).stream = n
    BY <1>1, Inserted DEF InStream
  <2>2. NumberIsFresh(local[t]) /\ local[t].pc = "insert"
    BY <1>1 DEF MonoInv, Threads, PutInsert
  <2>. QED BY <2>1, <2>2 DEF NumberIsFresh, NewRecord, InStream
<1>2. ASSUME records' \subseteq records
      PROVE  r \in InStream(n)
  BY <1>2 DEF InStream
<1>. QED BY <1>1, <1>2, RecordsChange DEF DeleteStreamRecords

LEMMA ShardGrowth ==
  ASSUME TypeInv, MonoInv, [Next]_vars, NEW c \in Clients,
         client'[c].start = client[c].start, Kept(Reads[c].stream)
  PROVE  /\ Mine(c) \subseteq Mine(c)'
         /\ \A r \in Mine(c)' : \/ r \in Mine(c)
                                \/ /\ r.seq # 0
                                   /\ \A q \in InStream(Reads[c].stream) : q.seq < r.seq
<1>1. Mine(c) \subseteq Mine(c)'
  BY DEF Mine, InShard, Kept
<1>2. ASSUME NEW r \in Mine(c)', r \notin Mine(c)
      PROVE  r.seq # 0 /\ \A q \in InStream(Reads[c].stream) : q.seq < r.seq
  <2>1. r \in InStream(Reads[c].stream)' /\ r \notin InStream(Reads[c].stream)
    BY <1>2 DEF Mine, InShard
  <2>. QED BY <2>1, Growth
<1>. QED BY <1>1, <1>2

LEMMA MineType ==
  ASSUME TypeInv, NEW c \in Clients
  PROVE  /\ Mine(c) \in SUBSET records /\ Rows(Mine(c))
         /\ Mine(c) \subseteq InStream(Reads[c].stream)
         /\ \A r \in InStream(Reads[c].stream) : r.seq \in Nat /\ r.id \in Nat
         /\ client[c].last \in Nat /\ client[c].start \in Nat /\ client[c].seen \in Seq(Nat)
<1>1. /\ Mine(c) \in SUBSET records
      /\ Mine(c) \subseteq InStream(Reads[c].stream)
  BY DEF Mine, InShard, InStream
<1>2. \A r \in InStream(Reads[c].stream) : r.seq \in Nat /\ r.id \in Nat
  BY DEF TypeInv, TypeOK, Record, InStream
<1>3. client[c].last \in Nat /\ client[c].start \in Nat /\ client[c].seen \in Seq(Nat)
  BY DEF TypeInv, TypeOK, ClientState
<1>. QED BY <1>1, <1>2, <1>3, TablesFinite

LEMMA AheadStays ==
  ASSUME TypeInv, MonoInv, [Next]_vars, NEW c \in Clients, NEW rows,
         SameReading(c), Kept(Reads[c].stream), Ahead(c, rows)
  PROVE  Ahead(c, rows)'
<1>1. client'[c].last = client[c].last
  BY DEF SameReading
<1>2. /\ Mine(c) \subseteq Mine(c)'
      /\ \A r \in Mine(c)' : \/ r \in Mine(c)
                             \/ \A q \in InStream(Reads[c].stream) : q.seq < r.seq
  BY ShardGrowth DEF SameReading
<1>3. TypeInv'
  BY TypeStep
<1>4. \A r \in Mine(c)' : r.seq \in Nat
  BY <1>3 DEF TypeInv, TypeOK, Record, Mine, InShard, InStream
<1>5. rows \subseteq Mine(c) /\ \A r \in rows : r.seq > client[c].last
  BY DEF Ahead
<1>6. \A r \in rows : r \in InStream(Reads[c].stream)
  BY <1>5, MineType
<1>7. ASSUME NEW r \in rows, NEW q \in Mine(c)', q.seq > client[c].last, q.seq < r.seq
      PROVE  q \in rows
  <2>1. q \in Mine(c)
    BY <1>2, <1>4, <1>5, <1>6, <1>7
  <2>. QED BY <1>7, <2>1 DEF Ahead
<1>. QED BY <1>1, <1>2, <1>5, <1>7 DEF Ahead

LEMMA CollectedStays ==
  ASSUME TypeInv, MonoInv, [Next]_vars, NEW c \in Clients,
         SameReading(c), Kept(Reads[c].stream), Collected(c)
  PROVE  Collected(c)'
<1>1. /\ client'[c].last = client[c].last /\ client'[c].seen = client[c].seen
      /\ client'[c].start = client[c].start
  BY DEF SameReading
<1>2. /\ Mine(c) \subseteq Mine(c)'
      /\ \A r \in Mine(c)' : \/ r \in Mine(c)
                             \/ /\ r.seq # 0
                                /\ \A q \in InStream(Reads[c].stream) : q.seq < r.seq
  BY ShardGrowth, <1>1
<1>3. TypeInv'
  BY TypeStep
<1>4. \A r \in Mine(c)' : r.seq \in Nat
  BY <1>3 DEF TypeInv, TypeOK, Record, Mine, InShard, InStream
<1>5. Reached(Reads[c].stream, client[c].last)
  BY DEF Collected
<1>6. ASSUME NEW r \in Mine(c)', r.seq <= client[c].last
      PROVE  r \in Mine(c)
  BY <1>2, <1>4, <1>5, <1>6, MineType DEF Reached
<1>7. \/ client[c].last = 0
      \/ \E r \in InStream(Reads[c].stream)' : r.seq >= client[c].last
  BY <1>5 DEF Reached, Kept
<1>8. \A r \in Mine(c)' : r.seq <= client[c].last => r.id \in ToSet(client[c].seen)
  BY <1>6 DEF Collected
<1>9. \A k \in DOMAIN client[c].seen :
          \E r \in Mine(c)' : r.id = client[c].seen[k] /\ r.seq <= client[c].last
  BY <1>2 DEF Collected
<1>. QED BY <1>1, <1>7, <1>8, <1>9 DEF Collected, Reached

(* An iterator somebody has keeps its position, unless a request with it   *)
(* moves it, and is not opened again.                                      *)
LEMMA KnownStays ==
  ASSUME TypeInv, [Next]_vars, NEW i \in Iterators, i \in Known
  PROVE  /\ i \in open' => i \in open
         /\ \/ iterators'[i] = iterators[i]
            \/ \E t \in Workers : local[t].old = i /\ GetRecordsAdvance(t)
<1>0. iterators \in [Iterators -> Position]
  BY DEF TypeInv, TypeOK
<1>1. ASSUME NEW j, NEW p, Bound(j, p)
      PROVE  (i \in open' => i \in open) /\ iterators'[i] = iterators[i]
  BY <1>1 DEF Bound, Bind, Opened
<1>2. CASE iterators' = iterators /\ open' \subseteq open
  BY <1>2
<1>3. ASSUME NEW t \in Workers, Register(t)
      PROVE  (i \in open' => i \in open) /\ iterators'[i] = iterators[i]
  BY <1>1, <1>3, RegisterBinds
<1>4. ASSUME NEW t \in Workers, GetRecordsRenew(t)
      PROVE  (i \in open' => i \in open) /\ iterators'[i] = iterators[i]
  BY <1>1, <1>4, RenewBinds
<1>5. ASSUME NEW t \in Workers, GetRecordsAdvance(t)
      PROVE  /\ i \in open' => i \in open
             /\ iterators'[i] = iterators[i] \/ local[t].old = i
  BY <1>0, <1>5, AdvanceMoves
<1>. QED BY <1>2, <1>3, <1>4, <1>5, IteratorsChange

(* A request is done with its iterator when that is open no more.          *)
LEMMA OldStays ==
  ASSUME TypeInv, SpentInv, [Next]_vars, NEW u \in Threads, local[u].old \in open'
  PROVE  local'[u].old = local[u].old
<1>0. /\ local \in [Threads -> Good] /\ Workers \subseteq Threads
      /\ \A t \in Threads : local[t] \in LocalState
      /\ NoIterator \notin Iterators /\ open \subseteq Iterators
  BY KinesisAssumption DEF TypeInv, TypeOK, Threads
<1>1. local[u].old # NoIterator
  BY <1>0, TypeStep DEF TypeInv, TypeOK
<1>2. local[u].pc \in IteratorSteps /\ local[u].old \in Known
  BY <1>0, <1>1, KnownTo DEF Good, Shape
<1>3. ASSUME NEW t \in Workers, OthersStay(t), u # t
      PROVE  local'[u].old = local[u].old
  BY <1>3 DEF OthersStay
<1>4. ASSUME NEW t \in Workers, Timeout(t)
      PROVE  local'[u].old = local[u].old
  <2>1. local'[t] = [local[t] EXCEPT !.client = NoClient] /\ OthersStay(t)
    BY <1>4, TimeoutFacts
  <2>2. local'[t].old = local[t].old
    BY <1>0, <2>1 DEF LocalState
  <2>. QED BY <1>3, <2>1, <2>2
<1>5. ASSUME NEW t \in Workers, Register(t)
      PROVE  local'[u].old = local[u].old
  BY <1>2, <1>3, <1>5, RegisterFacts DEF IteratorSteps
<1>6. ASSUME NEW t \in Workers, GetRecordsRenew(t)
      PROVE  local'[u].old = local[u].old
  <2>1. PICK i \in Iterators \ Known :
            /\ open' = Opened(i) \ {local[t].old}
            /\ OthersStay(t)
            /\ \/ local'[t] = [local[t] EXCEPT !.pc = "answer", !.new = i]
               \/ local[t].old \notin open
    BY <1>6, RenewFacts
  <2>2. CASE u = t
    BY <1>0, <2>1, <2>2 DEF LocalState
  <2>. QED BY <1>3, <2>1, <2>2
<1>7. ASSUME NEW t \in Workers, GetRecordsAnswer(t)
      PROVE  local'[u].old = local[u].old
  <2>1. local[t].pc = "answer" /\ OthersStay(t) /\ open' = open
    BY <1>7, AnswerFacts DEF memory
  <2>2. u # t
    BY <1>0, <2>1 DEF SpentInv
  <2>. QED BY <1>3, <2>1, <2>2
<1>8. ASSUME NEW t \in Workers, NEW c \in Clients, GetIterator(t, c) \/ GetRecords(t, c)
      PROVE  local'[u].old = local[u].old
  <2>1. OthersStay(t) /\ local[t].pc = "idle"
    BY <1>8, GetIteratorFacts, GetRecordsFacts DEF GetIterator
  <2>2. u # t
    BY <1>2, <2>1 DEF IteratorSteps
  <2>. QED BY <1>3, <2>1, <2>2
<1>9. ASSUME NEW c \in Clients, GetRecordsRefused(c)
      PROVE  local'[u].old = local[u].old
  BY <1>9 DEF GetRecordsRefused
<1>10. ~ Crash
  BY DEF Crash
<1>. QED BY <1>4, <1>5, <1>6, <1>7, <1>8, <1>9, <1>10, RoleSteps DEF SameRoles

(* The iterator a consumer rests with.                                     *)
LEMMA RestingStays ==
  ASSUME TypeInv, SpentInv, [Next]_vars, NEW c \in Clients, Resting(c),
         client'[c].last = client[c].last, client'[c].iter \in {client[c].iter, NoIterator}
  PROVE  Resting(c)'
<1> DEFINE i == client[c].iter
<1>0. open' \subseteq Iterators /\ NoIterator \notin Iterators
  BY KinesisAssumption, TypeStep DEF TypeInv, TypeOK
<1>1. SUFFICES ASSUME client'[c].iter = i, i \in open', \A t \in Threads : local'[t].old # i
               PROVE  At(c, iterators'[i], client[c].last)
  BY <1>0 DEF Resting, At
<1>2. i \in Iterators /\ i \in Known
  BY <1>0, <1>1, KnownTo
<1>3. \A t \in Threads : local[t].old # i
  BY <1>1, OldStays
<1>4. i \in open /\ iterators'[i] = iterators[i]
  BY <1>2, <1>1, <1>3, KnownStays DEF Threads
<1>. QED BY <1>3, <1>4 DEF Resting

(* A request that stands where it stood.                                   *)
LEMMA WaitingStays ==
  ASSUME TypeInv, MonoInv, Owned, [Next]_vars, NEW c \in Clients, Undisturbed(c),
         SameReading(c), Kept(Reads[c].stream),
         NEW u \in Threads, local[u].client = c, local'[u] = local[u],
         Progressing(c, local[u])
  PROVE  Progressing(c, local[u])'
<1> DEFINE s == local[u]
<1>0. /\ local \in [Threads -> Good] /\ Workers \subseteq Threads /\ c # NoClient
      /\ NoIterator \notin Iterators /\ s \in Good /\ s \in LocalState
  BY KinesisAssumption DEF TypeInv, Threads, Good
<1>1. s.pc \in IteratorSteps => s.old \in Iterators /\ s.old # NoIterator
  BY <1>0 DEF Good, Shape, LocalState
<1>2. s.pc = "answer" => s.new \in Iterators /\ s.new # NoIterator
  BY <1>0 DEF Good, Shape, LocalState
<1>3. ASSUME s.pc \in IteratorSteps PROVE iterators'[s.old] = iterators[s.old]
  <2>1. ASSUME NEW t \in Workers, local[t].old = s.old, GetRecordsAdvance(t)
        PROVE  FALSE
    <3>1. client[c].iter = s.old
      BY <1>0, <1>1, <1>3 DEF Owned
    <3>2. t = u
      BY <1>0, <1>1, <1>3, <2>1, <3>1 DEF Owned, Undisturbed
    <3>3. local'[u].pc = "renew" /\ local[u].pc = "advance"
      BY <1>0, <2>1, <3>2 DEF GetRecordsAdvance, Goto, LocalState
    <3>. QED BY <3>3
  <2>. QED BY <1>1, <1>3, <2>1, KnownTo, KnownStays
<1>4. ASSUME s.pc = "answer" PROVE iterators'[s.new] = iterators[s.new]
  <2>1. ASSUME NEW t \in Workers PROVE local[t].old # s.new
    BY <1>0, <1>2, <1>4 DEF Owned
  <2>. QED BY <1>2, <1>4, <2>1, KnownTo, KnownStays
<1>5. client'[c].last = client[c].last
  BY DEF SameReading
<1>6. Ahead(c, s.rows) => Ahead(c, local[u].rows)'
  <2>1. Ahead(c, s.rows) => Ahead(c, s.rows)'
    BY AheadStays
  <2>. QED BY <2>1 DEF Ahead
<1>. QED BY <1>3, <1>4, <1>5, <1>6 DEF Progressing, At, IteratorSteps

(* What the SELECT finds are the next records.                             *)
LEMMA FoundAhead ==
  ASSUME TypeInv, MonoInv, NEW c \in Clients, Collected(c), NEW k \in Nat,
         NEW p \in Position, At(c, p, client[c].last)
  PROVE  Ahead(c, FirstRows({r \in InShard(p.stream, p.shard) : r.seq >= p.next}, k))
<1> DEFINE n == Reads[c].stream
           S == {r \in InShard(p.stream, p.shard) : r.seq >= p.next}
           last == client[c].last
<1>0. /\ n \in Streams /\ p.next \in Nat /\ p.shard \in Nat /\ p.stream = n
      /\ last \in Nat /\ client[c].start \in Nat
  BY KinesisAssumption, MineType DEF Position, At
<1>1. S \in SUBSET records /\ Rows(S)
  BY <1>0, AnswerRows
<1>2. ASSUME NEW r \in InShard(p.stream, p.shard)
      PROVE  r.seq \in Nat /\ r.id \in Nat /\ r.seq # 0
  BY <1>2 DEF TypeInv, TypeOK, Record, InShard, InStream, MonoInv, Numbered
<1>3. \A r \in S : r \in Mine(c) /\ r.seq > last
  <2>1. client[c].start <= last + 1
    BY DEF Collected
  <2>2. \A r \in S : r.seq > last
    BY <1>0, <1>2 DEF At, Follows
  <2>. QED BY <1>0, <1>2, <2>1, <2>2 DEF At, Mine
<1>4. \A q \in Mine(c) : q.seq > last => q \in S
  <2>1. \A q \in Mine(c) : q \in InShard(p.stream, p.shard)
    BY DEF Mine, At
  <2>. QED BY <1>0, <1>2, <2>1 DEF At, Follows
<1> HIDE DEF S
<1>5. /\ FirstRows(S, k) \subseteq S
      /\ \A r \in FirstRows(S, k), q \in S : Before(q, r) => q \in FirstRows(S, k)
  BY <1>1, FirstRowsOf
<1>6. Ahead(c, FirstRows(S, k))
  BY <1>3, <1>4, <1>5 DEF Ahead, Before
<1>. QED BY <1>6 DEF S

(* A request goes on.                                                      *)
LEMMA QueryProgress ==
  ASSUME TypeInv, MonoInv, NEW c \in Clients, NEW u \in Workers, GetRecordsQuery(u),
         Collected(c), Progressing(c, local[u])
  PROVE  Progressing(c, local[u])'
<1> DEFINE p == local[u].pos
<1>0. /\ local \in [Threads -> Good] /\ u \in Threads /\ local[u] \in LocalState
      /\ local[u].pc = "query" /\ UNCHANGED <<tables, memory, client, history>>
      /\ p \in Position
  BY DEF TypeInv, Threads, Good, GetRecordsQuery, LocalState
<1>1. PICK k \in 1 .. MaxLimit :
         local' = [local EXCEPT ![u].pc = "advance",
            ![u].rows = FirstRows({r \in InShard(p.stream, p.shard) : r.seq >= p.next}, k)]
  BY DEF GetRecordsQuery
<1>2. Ahead(c, FirstRows({r \in InShard(p.stream, p.shard) : r.seq >= p.next}, k))
  <2>1. k \in Nat
    BY KinesisAssumption
  <2>2. At(c, p, client[c].last)
    BY <1>0 DEF Progressing
  <2>. QED BY <1>0, <2>1, <2>2, FoundAhead
<1>3. /\ local'[u].pc = "advance" /\ local'[u].old = local[u].old
      /\ local'[u].rows = FirstRows({r \in InShard(p.stream, p.shard) : r.seq >= p.next}, k)
  BY <1>0, <1>1 DEF LocalState
<1>4. Ahead(c, local'[u].rows)
  BY <1>2, <1>3
<1>5. Ahead(c, local[u].rows)'
  BY <1>0, <1>4 DEF Ahead, Mine, InShard, InStream, tables
<1>6. At(c, iterators'[local'[u].old], client'[c].last)
  BY <1>0, <1>3 DEF Progressing, memory
<1>. QED BY <1>3, <1>5, <1>6 DEF Progressing

LEMMA AdvanceProgress ==
  ASSUME TypeInv, NEW c \in Clients, NEW u \in Workers, GetRecordsAdvance(u),
         Progressing(c, local[u])
  PROVE  Progressing(c, local[u])'
<1> DEFINE s == local[u]
           i == local[u].old
<1>0. /\ local \in [Threads -> Good] /\ u \in Threads /\ s \in LocalState /\ s \in Good
      /\ s.pc = "advance" /\ UNCHANGED <<tables, client, history>>
      /\ local' = [local EXCEPT ![u].pc = "renew"]
      /\ iterators \in [Iterators -> Position] 
  BY DEF TypeInv, TypeOK, Threads, Good, GetRecordsAdvance, Goto
<1>1. /\ local'[u].pc = "renew" /\ local'[u].old = i /\ local'[u].rows = s.rows
  BY <1>0 DEF LocalState
<1>2. Ahead(c, s.rows) /\ At(c, iterators[i], client[c].last)
  BY <1>0 DEF Progressing
<1>3. PICK m \in Nat :
         /\ iterators' = [iterators EXCEPT ![i].next = m]
         /\ m = IF s.rows = {} THEN iterators[i].next ELSE MaxSeq(s.rows) + 1
  BY AdvanceMoves
<1>4. i \in Iterators
  BY AdvanceMoves
<1>5. /\ iterators'[i].stream = iterators[i].stream /\ iterators'[i].shard = iterators[i].shard
      /\ iterators'[i].next = m
  BY <1>0, <1>3, <1>4 DEF Position
<1>6. At(c, iterators'[i], After(s.rows, client[c].last))
  BY <1>2, <1>3, <1>5 DEF At, After, Follows
<1>7. Ahead(c, local[u].rows)'
  BY <1>0, <1>1, <1>2 DEF Ahead, Mine, InShard, InStream, tables
<1>. QED BY <1>0, <1>1, <1>6, <1>7 DEF Progressing

LEMMA RenewProgress ==
  ASSUME TypeInv, NEW c \in Clients, NEW u \in Workers, GetRecordsRenew(u),
         local'[u] # Idle, Progressing(c, local[u])
  PROVE  Progressing(c, local[u])'
<1> DEFINE s == local[u]
<1>0. /\ s \in LocalState /\ s.pc = "renew" /\ UNCHANGED tables
      /\ iterators \in [Iterators -> Position] 
  BY DEF TypeInv, TypeOK, Threads, Good, GetRecordsRenew
<1>1. PICK i \in Iterators \ Known :
         /\ Bound(i, iterators[s.old])
         /\ local'[u] = [s EXCEPT !.pc = "answer", !.new = i]
         /\ UNCHANGED client
  BY RenewFacts
<1>2. local'[u].pc = "answer" /\ local'[u].new = i /\ local'[u].rows = s.rows
  BY <1>0, <1>1 DEF LocalState
<1>3. iterators'[i] = iterators[s.old]
  BY <1>1 DEF Bound, Bind
<1>4. Ahead(c, local[u].rows)'
  BY <1>0, <1>1, <1>2 DEF Progressing, Ahead, Mine, InShard, InStream, tables
<1>5. At(c, iterators'[local'[u].new], After(local'[u].rows, client'[c].last))
  BY <1>0, <1>1, <1>2, <1>3 DEF Progressing
<1>. QED BY <1>2, <1>4, <1>5 DEF Progressing

LEMMA RequestProgress ==
  ASSUME TypeInv, NEW c \in Clients, NEW u \in Workers, GetRecords(u, c),
         client'[c].patient, client'[c].last = client[c].last, Resting(c)
  PROVE  Progressing(c, local[u])'
<1> DEFINE i == client[c].iter
           b == client[c].patient /\ \A t \in Threads : local[t].old # i
<1>0. client \in [Clients -> ClientState]
  BY DEF TypeInv, TypeOK
<1>1. /\ i \in open
      /\ local'[u].old = i /\ local'[u].pc = "query" /\ local'[u].pos = iterators[i]
      /\ client' = [client EXCEPT ![c] = [client[c] EXCEPT !.busy = TRUE, !.patient = b]]
      /\ UNCHANGED memory
  BY ZenonT(60), GetRecordsFacts
<1>2. b => \A t \in Threads : local[t].old # i
  OBVIOUS
<1> HIDE DEF b
<1>3. b
  BY <1>0, <1>1 DEF ClientState
<1>4. At(c, iterators[i], client[c].last)
  BY <1>1, <1>2, <1>3 DEF Resting
<1>. QED BY <1>1, <1>4 DEF Progressing, memory

LEMMA ProgressingStep ==
  ASSUME TypeInv, MonoInv, Owned, [Next]_vars, NEW c \in Clients, Undisturbed(c), Chain(c),
         Undisturbed(c)', SameReading(c), Kept(Reads[c].stream),
         NEW u \in Threads, local'[u].client = c
  PROVE  Progressing(c, local[u])'
<1>0. /\ local \in [Threads -> Good] /\ local[u] \in LocalState /\ Collected(c) /\ Resting(c)
      /\ c # NoClient
  BY KinesisAssumption DEF TypeInv, Good, Chain
<1>1. CASE local'[u] = local[u]
  BY <1>1, WaitingStays DEF Chain
<1>2. ASSUME local'[u].pc \in {"latest", "register"}
      PROVE  Progressing(c, local[u])'
  BY <1>2 DEF Progressing
<1>3. CASE u \in Workers /\ GetLatest(u)
  BY <1>0, <1>2, <1>3 DEF GetLatest, LocalState
<1>4. CASE u \in Workers /\ GetIterator(u, c)
  <2>1. PICK ask \in Asked(c) :
           local' = [local EXCEPT ![u] =
                     [Idle EXCEPT !.pc = IF ask[1] = "LATEST" THEN "latest" ELSE "register",
                                  !.client = c, !.era = purged[Reads[c].stream],
                                  !.pos = [stream |-> Reads[c].stream, shard |-> Reads[c].shard,
                                           next |-> ask[2]]]]
    BY <1>4 DEF GetIterator
  <2>2. local'[u].pc \in {"latest", "register"}
    BY <1>0, <2>1 DEF Idle
  <2>. QED BY <1>2, <2>2
<1>5. CASE u \in Workers /\ GetRecords(u, c)
  BY <1>0, <1>5, RequestProgress DEF SameReading, Undisturbed
<1>6. ASSUME u \in Workers,
             \/ GetRecordsQuery(u) \/ GetRecordsAdvance(u)
             \/ GetRecordsRenew(u) /\ local'[u] # Idle
      PROVE  Progressing(c, local[u])'
  <2>1. local'[u].client = local[u].client
    <3>1. CASE GetRecordsQuery(u)
      BY <1>0, <3>1 DEF GetRecordsQuery, LocalState
    <3>2. CASE GetRecordsAdvance(u)
      BY <1>0, <3>2 DEF GetRecordsAdvance, Goto, LocalState
    <3>3. CASE GetRecordsRenew(u) /\ local'[u] # Idle
      <4>1. PICK i \in Iterators \ Known :
               local'[u] = [local[u] EXCEPT !.pc = "answer", !.new = i]
        BY <1>6, <3>3, RenewFacts
      <4>. QED BY <1>0, <4>1 DEF LocalState
    <3>. QED BY <1>6, <3>1, <3>2, <3>3
  <2>2. Progressing(c, local[u])
    BY <2>1 DEF Chain
  <2>. QED BY <1>0, <1>6, <2>2, QueryProgress, AdvanceProgress, RenewProgress
<1>. QED BY <1>0, <1>1, <1>3, <1>4, <1>5, <1>6, ServingChange

(* A request that goes on without giving its consumer anything.            *)
LEMMA KeepingChain ==
  ASSUME TypeInv, SpentInv, MonoInv, Served, Owned, [Next]_vars, NEW c \in Clients,
         Undisturbed(c), Chain(c), Undisturbed(c)', Keeping(c), Kept(Reads[c].stream)
  PROVE  Chain(c)'
<1>1. Collected(c)'
  BY CollectedStays DEF Keeping, Chain
<1>2. Resting(c)'
  BY RestingStays DEF Keeping, SameReading, Chain
<1>3. ASSUME NEW u \in Threads, local'[u].client = c
      PROVE  Progressing(c, local[u])'
  BY <1>3, ProgressingStep DEF Keeping
<1>. QED BY <1>1, <1>2, <1>3 DEF Chain

(* The rows of an answer are added to what the consumer has.               *)
LEMMA Joined ==
  ASSUME NEW old \in Seq(Nat), NEW new \in Seq(Nat), NEW k \in DOMAIN (old \o new)
  PROVE  \/ k \in DOMAIN old /\ (old \o new)[k] = old[k]
         \/ /\ k - Len(old) \in DOMAIN new /\ (old \o new)[k] = new[k - Len(old)]
            /\ k \notin DOMAIN old /\ k > Len(old)
<1>1. /\ Len(old) \in Nat /\ Len(new) \in Nat
      /\ DOMAIN old = 1 .. Len(old) /\ DOMAIN new = 1 .. Len(new)
  BY LenProperties
<1>2. DOMAIN (old \o new) = 1 .. Len(old) + Len(new)
  BY <1>1, ConcatProperties, LenProperties
<1>3. CASE k <= Len(old)
  BY <1>1, <1>2, <1>3, ConcatProperties
<1>4. CASE k > Len(old)
  <2>1. k - Len(old) \in 1 .. Len(new)
    BY <1>1, <1>2, <1>4
  <2>2. (old \o new)[k] = new[k - Len(old)]
    BY <1>1, <1>2, <1>4, ConcatProperties
  <2>. QED BY <1>1, <1>4, <2>1, <2>2
<1>. QED BY <1>1, <1>2, <1>3, <1>4

LEMMA JoinedSet ==
  ASSUME NEW old \in Seq(Nat), NEW new \in Seq(Nat)
  PROVE  ToSet(old) \cup ToSet(new) \subseteq ToSet(old \o new)
<1>1. /\ Len(old) \in Nat /\ Len(new) \in Nat
      /\ DOMAIN old = 1 .. Len(old) /\ DOMAIN new = 1 .. Len(new)
  BY LenProperties
<1>2. DOMAIN (old \o new) = 1 .. Len(old) + Len(new)
  BY <1>1, ConcatProperties, LenProperties
<1>3. ASSUME NEW k \in DOMAIN old PROVE old[k] \in ToSet(old \o new)
  <2>1. k \in DOMAIN (old \o new) /\ (old \o new)[k] = old[k]
    BY <1>1, <1>2, <1>3, ConcatProperties
  <2>. QED BY <2>1 DEF ToSet
<1>4. ASSUME NEW k \in DOMAIN new PROVE new[k] \in ToSet(old \o new)
  <2>1. Len(old) + k \in 1 .. Len(old) + Len(new) /\ Len(old) + k > Len(old)
        /\ Len(old) + k - Len(old) = k
    BY <1>1
  <2>2. (old \o new)[Len(old) + k] = new[k]
    BY <1>1, <2>1, ConcatProperties
  <2>. QED BY <1>2, <2>1, <2>2 DEF ToSet
<1>. QED BY <1>3, <1>4 DEF ToSet

(* Rows of one stream are in the order of their ids.                       *)
LEMMA OneOrder ==
  ASSUME TypeInv, MonoInv, NEW n, NEW r \in InStream(n), NEW q \in InStream(n)
  PROVE  /\ r.seq < q.seq => r.id < q.id
         /\ r.seq = q.seq => r = q
<1>1. r.id \in Nat /\ q.id \in Nat /\ r.seq \in Nat /\ q.seq \in Nat
  BY DEF TypeInv, TypeOK, Record, InStream
<1>2. /\ r.id < q.id => r.seq < q.seq
      /\ q.id < r.id => q.seq < r.seq
  BY DEF MonoInv, MonotonicSequenceNumbers, InStream
<1>3. r.id = q.id => r = q
  BY DEF TypeInv, RecordsOK, Rows, InStream
<1>. QED BY <1>1, <1>2, <1>3

(* What the consumer has with the rows of an answer.                       *)
LEMMA CollectedMore ==
  ASSUME TypeInv, MonoInv, NEW c \in Clients, Collected(c), NEW rows, Ahead(c, rows)
  PROVE  LET seen == client[c].seen \o Ids(rows)
             last == After(rows, client[c].last)
         IN  /\ \A r \in Mine(c) : r.seq <= last => r.id \in ToSet(seen)
             /\ \A k \in DOMAIN seen : \E r \in Mine(c) : r.id = seen[k] /\ r.seq <= last
             /\ \A j, k \in DOMAIN seen : j < k => seen[j] < seen[k]
             /\ Reached(Reads[c].stream, last)
             /\ client[c].start <= last + 1
<1> DEFINE n == Reads[c].stream
           had == client[c].seen
           new == Ids(rows)
           seen == had \o new
           low == client[c].last
           last == After(rows, low)
<1>0. /\ Mine(c) \in SUBSET records /\ Mine(c) \subseteq InStream(n) /\ rows \in SUBSET records
      /\ rows \subseteq Mine(c) /\ rows \subseteq InStream(n) /\ Rows(rows)
      /\ \A r \in InStream(n) : r.seq \in Nat /\ r.id \in Nat
      /\ low \in Nat /\ client[c].start \in Nat /\ had \in Seq(Nat)
  BY MineType, TablesFinite DEF Ahead
<1>1. /\ new \in Seq(Nat)
      /\ \A k \in DOMAIN new : \E r \in rows : new[k] = r.id
      /\ \A r \in rows : r.id \in ToSet(new)
  <2>1. Rows(rows)
    BY <1>0
  <2> HIDE DEF new
  <2>2. /\ new \in Seq(Nat) /\ DOMAIN new = 1 .. Cardinality(rows)
        /\ \A k \in 1 .. Cardinality(rows) : \E r \in rows : new[k] = r.id
        /\ \A r \in rows : \E k \in 1 .. Cardinality(rows) : new[k] = r.id
    BY <2>1, IdsOfRows, Zenon DEF new
  <2>3. \A r \in rows : r.id \in ToSet(new)
    BY <2>2 DEF ToSet
  <2>. QED BY <2>2, <2>3
<1>2. \A j, k \in DOMAIN new : j < k => new[j] < new[k]
  <2>1. \A r, s \in rows : r.id < s.id => r.seq < s.seq
    BY <1>0 DEF MonoInv, MonotonicSequenceNumbers, InStream
  <2>. QED BY <1>0, <2>1, IdsGrow, IdsOfRows
<1>3. /\ last \in Nat /\ low <= last
      /\ \A r \in rows : r.seq <= last /\ r.seq > low
      /\ (rows = {} /\ last = low) \/ \E r \in rows : r.seq = last
  <2>1. \A r \in rows : r.seq > low
    BY DEF Ahead
  <2>2. /\ MaxSeq(rows) \in Nat
        /\ \A r \in rows : r.seq <= MaxSeq(rows)
        /\ rows # {} => \E r \in rows : r.seq = MaxSeq(rows)
    BY <1>0, MaxSeqIsLargest
  <2>. QED BY <1>0, <2>1, <2>2 DEF After
<1>4. ToSet(had) \cup ToSet(new) \subseteq ToSet(seen)
  BY <1>0, <1>1, JoinedSet
<1> HIDE DEF new, last
<1>5. ASSUME NEW r \in Mine(c), r.seq <= last PROVE r.id \in ToSet(seen)
  <2>1. CASE r.seq <= low
    BY <1>4, <2>1 DEF Collected
  <2>2. CASE r.seq > low
    <3>1. PICK q \in rows : q.seq = last
      BY <1>0, <1>3, <1>5, <2>2
    <3>2. r.seq < q.seq \/ r = q
      BY <1>0, <1>5, <3>1, OneOrder
    <3>3. r \in rows
      BY <2>2, <3>1, <3>2 DEF Ahead
    <3>. QED BY <1>1, <1>4, <3>3
  <2>. QED BY <1>0, <2>1, <2>2
<1>6. ASSUME NEW k \in DOMAIN seen
      PROVE  \/ /\ k \in DOMAIN had /\ seen[k] = had[k]
                /\ \E r \in Mine(c) : r.id = seen[k] /\ r.seq <= low
             \/ /\ k - Len(had) \in DOMAIN new /\ seen[k] = new[k - Len(had)]
                /\ k \notin DOMAIN had /\ k > Len(had)
                /\ \E r \in rows : r.id = seen[k]
  <2>1. \/ k \in DOMAIN had /\ seen[k] = had[k]
        \/ /\ k - Len(had) \in DOMAIN new /\ seen[k] = new[k - Len(had)]
           /\ k \notin DOMAIN had /\ k > Len(had)
    BY <1>0, <1>1, Joined
  <2>2. \A m \in DOMAIN had : \E r \in Mine(c) : r.id = had[m] /\ r.seq <= low
    BY DEF Collected
  <2>. QED BY <1>1, <2>1, <2>2
<1>7. ASSUME NEW k \in DOMAIN seen
      PROVE  \E r \in Mine(c) : r.id = seen[k] /\ r.seq <= last
  <2>1. CASE \E r \in Mine(c) : r.id = seen[k] /\ r.seq <= low
    BY <1>0, <1>3, <2>1
  <2>2. CASE \E r \in rows : r.id = seen[k]
    BY <1>0, <1>3, <2>2
  <2>. QED BY <1>6, <2>1, <2>2
<1>8. ASSUME NEW j \in DOMAIN seen, NEW k \in DOMAIN seen, j < k
      PROVE  seen[j] < seen[k]
  <2>0. DOMAIN had = 1 .. Len(had) /\ Len(had) \in Nat /\ j \in Nat /\ k \in Nat
    <3>1. seen \in Seq(Nat)
      BY <1>0, <1>1, ConcatProperties
    <3>. QED BY <1>0, <3>1, LenProperties
  <2> HIDE DEF seen
  <2>1. CASE k \in DOMAIN had
    <3>1. j \in DOMAIN had
      BY <1>6, <1>8, <2>0, <2>1
    <3>2. seen[j] = had[j] /\ seen[k] = had[k]
      BY <1>6, <2>1, <3>1
    <3>. QED BY <1>8, <2>1, <3>1, <3>2 DEF Collected
  <2>2. CASE k \notin DOMAIN had /\ j \notin DOMAIN had
    <3>1. /\ j - Len(had) \in DOMAIN new /\ seen[j] = new[j - Len(had)]
          /\ k - Len(had) \in DOMAIN new /\ seen[k] = new[k - Len(had)]
      BY <1>6, <2>2
    <3>2. j - Len(had) < k - Len(had)
      BY <1>8, <2>0
    <3>. QED BY <1>2, <3>1, <3>2
  <2>3. CASE k \notin DOMAIN had /\ j \in DOMAIN had
    <3>1. PICK r \in Mine(c) : r.id = seen[j] /\ r.seq <= low
      BY <1>6, <2>3
    <3>2. PICK q \in rows : q.id = seen[k]
      BY <1>6, <2>3
    <3>3. r.seq < q.seq
      BY <1>0, <1>3, <3>1, <3>2
    <3>. QED BY <1>0, <3>1, <3>2, <3>3, OneOrder
  <2>. QED BY <2>1, <2>2, <2>3
<1>9. Reached(n, last)
  <2>1. CASE last = low
    BY <2>1 DEF Collected
  <2>2. ASSUME NEW r \in rows, r.seq = last PROVE Reached(n, last)
    BY <1>0, <1>3, <2>2 DEF Reached
  <2>. QED BY <1>3, <2>1, <2>2
<1>10. client[c].start <= last + 1
  BY <1>0, <1>3 DEF Collected
<1>. QED BY <1>5, <1>7, <1>8, <1>9, <1>10 DEF new, last

(* No other request of a consumer is under way when it is answered.        *)
LEMMA NoneWaits ==
  ASSUME TypeInv, Served, NEW c \in Clients, NEW t \in Threads, local[t].client = c,
         local'[t] = Idle, OthersStay(t)
  PROVE  \A u \in Threads : local'[u].client # c
<1>1. c # NoClient
  BY KinesisAssumption
<1>. QED BY <1>1, IdleRoles DEF Served, OthersStay

LEMMA AnswerChain ==
  ASSUME TypeInv, MonoInv, Served, NEW c \in Clients, Chain(c),
         NEW t \in Workers, GetRecordsAnswer(t), local[t].client = c
  PROVE  Chain(c)'
<1> DEFINE s == local[t]
           me == client[c]
<1>0. /\ client \in [Clients -> ClientState] /\ me \in ClientState /\ t \in Threads
      /\ c # NoClient
  BY KinesisAssumption DEF TypeInv, TypeOK, Threads
<1>1. /\ s.pc = "answer" /\ local'[t] = Idle /\ OthersStay(t)
      /\ UNCHANGED <<tables, memory, history>>
      /\ client' = [client EXCEPT ![c] = AfterAnswer(me, s)]
  BY <1>0, AnswerFacts
<1>2. Collected(c) /\ Ahead(c, s.rows) /\ At(c, iterators[s.new], After(s.rows, me.last))
  BY <1>0, <1>1 DEF Chain, Progressing
<1>3. /\ client'[c].iter = s.new /\ client'[c].seen = me.seen \o Ids(s.rows)
      /\ client'[c].last = After(s.rows, me.last) /\ client'[c].start = me.start
  BY <1>0, <1>1 DEF AfterAnswer, After, ClientState
<1>4. Mine(c)' = Mine(c)
  BY <1>1, <1>3 DEF Mine, InShard, InStream, tables
<1> DEFINE seen == me.seen \o Ids(s.rows)
           last == After(s.rows, me.last)
<1>5. /\ \A r \in Mine(c) : r.seq <= last => r.id \in ToSet(seen)
      /\ \A k \in DOMAIN seen : \E r \in Mine(c) : r.id = seen[k] /\ r.seq <= last
      /\ \A j, k \in DOMAIN seen : j < k => seen[j] < seen[k]
      /\ Reached(Reads[c].stream, last)
      /\ me.start <= last + 1
  BY <1>2, CollectedMore
<1>6. last = 0 \/ \E r \in InStream(Reads[c].stream)' : r.seq >= last
  BY <1>1, <1>5 DEF Reached, InStream, tables
<1> HIDE DEF seen, last
<1>7. client'[c].seen = seen /\ client'[c].last = last /\ client'[c].start = me.start
  BY <1>3 DEF seen, last
<1>8. Collected(c)'
  BY <1>4, <1>5, <1>6, <1>7 DEF Collected, Reached
<1>9. Resting(c)'
  BY <1>1, <1>2, <1>3 DEF Resting, memory
<1>. QED BY <1>0, <1>1, <1>8, <1>9, NoneWaits DEF Chain

(* An iterator that resumes.                                               *)
LEMMA ResumedChain ==
  ASSUME TypeInv, MonoInv, Served, Eras, [Next]_vars, NEW c \in Clients, Chain(c),
         Kept(Reads[c].stream),
         NEW t \in Workers, Register(t), local[t].client = c, client[c].era = local[t].era
  PROVE  Chain(c)'
<1> DEFINE s == local[t]
           me == client[c]
<1>0. /\ client \in [Clients -> ClientState] /\ me \in ClientState /\ t \in Threads
      /\ c # NoClient
  BY KinesisAssumption DEF TypeInv, TypeOK, Threads
<1>1. PICK i \in Iterators \ Known :
         /\ Bound(i, s.pos)
         /\ local'[t] = Idle /\ OthersStay(t) /\ s.pc = "register"
         /\ client' = [client EXCEPT ![c] = AfterRegister(me, s, i)]
  BY <1>0, RegisterFacts
<1>2. client'[c] = [me EXCEPT !.iter = i, !.busy = FALSE]
  BY <1>0, <1>1 DEF AfterRegister
<1>3. client'[c].iter = i /\ SameReading(c)
  BY <1>0, <1>2 DEF ClientState, SameReading
<1>4. Collected(c)'
  BY <1>3, CollectedStays DEF Chain
<1>5. At(c, s.pos, me.last)
  <2>1. Asking(s, c)
    BY <1>1 DEF Asking
  <2>2. AskedRight(s, c)
    BY <1>0, <2>1 DEF Eras
  <2>. QED BY <2>2 DEF AskedRight, At, Follows
<1>6. Resting(c)'
  <2>1. iterators'[i] = s.pos
    BY <1>1 DEF Bound, Bind
  <2>. QED BY <1>3, <1>5, <2>1 DEF Resting, SameReading
<1>. QED BY <1>0, <1>1, <1>4, <1>6, NoneWaits DEF Chain

(* An iterator that starts afresh.                                         *)
LEMMA FreshChain ==
  ASSUME TypeInv, MonoInv, Served, Eras, NEW c \in Clients, Undisturbed(c)',
         NEW t \in Workers, Register(t), local[t].client = c, client[c].era # local[t].era
  PROVE  Chain(c)'
<1> DEFINE s == local[t]
           n == Reads[c].stream
           first == s.pos.next
<1>0. /\ client \in [Clients -> ClientState] /\ t \in Threads
      /\ c # NoClient /\ first \in Nat
  BY KinesisAssumption DEF TypeInv, TypeOK, Threads, LocalState, Position
<1>1. PICK i \in Iterators \ Known :
         /\ Bound(i, s.pos)
         /\ local'[t] = Idle /\ OthersStay(t) /\ s.pc = "register"
         /\ client' = [client EXCEPT ![c] = AfterRegister(client[c], s, i)]
         /\ UNCHANGED <<tables, history>>
  BY <1>0, RegisterFacts
<1> DEFINE last == IF first = 0 THEN 0 ELSE first - 1
<1>2. /\ client'[c].iter = i /\ client'[c].era = s.era /\ client'[c].start = first
      /\ client'[c].seen = <<>> /\ client'[c].last = last
  BY <1>0, <1>1 DEF AfterRegister
<1>3. /\ s.pos.stream = n /\ s.pos.shard = Reads[c].shard
      /\ first = 0 \/ Reached(n, first - 1)
  <2>1. s.era = purged[n]
    BY <1>1, <1>2 DEF Undisturbed, history
  <2>2. Asking(s, c)
    BY <1>1 DEF Asking
  <2>3. AskedRight(s, c)
    BY <1>0, <2>2 DEF Eras
  <2>. QED BY <1>1, <2>1, <2>3 DEF AskedRight
<1>4. \A r \in Mine(c)' : r.seq \in Nat /\ r.seq # 0 /\ r.seq >= first
  BY <1>1, <1>2 DEF Mine, InShard, InStream, TypeInv, TypeOK, Record, MonoInv, Numbered, tables
<1>5. /\ last \in Nat /\ first <= last + 1 /\ Follows(first, last)
      /\ \A r \in Mine(c)' : ~ (r.seq <= last)
  BY <1>0, <1>4 DEF Follows
<1>6. last = 0 \/ \E r \in InStream(n)' : r.seq >= last
  BY <1>0, <1>1, <1>3 DEF Reached, InStream, tables
<1> HIDE DEF last, s, first
<1>7. DOMAIN client'[c].seen = {}
  BY <1>2
<1>8. Collected(c)'
  BY <1>2, <1>5, <1>6, <1>7 DEF Collected, Reached, n
<1>9. Resting(c)'
  <2>1. iterators'[i] = s.pos
    BY <1>1 DEF Bound, Bind
  <2>2. At(c, s.pos, last)
    BY <1>3, <1>5 DEF At, first, n
  <2>. QED BY <1>2, <2>1, <2>2 DEF Resting
<1>. QED BY <1>0, <1>1, <1>8, <1>9, NoneWaits DEF Chain, s

LEMMA ChainsStep ==
  ASSUME TypeInv, SpentInv, MonoInv, Served, Owned, Eras, Chains, [Next]_vars
  PROVE  Chains'
<1> SUFFICES ASSUME NEW c \in Clients, Undisturbed(c)' PROVE Chain(c)'
  BY DEF Chains
<1> DEFINE n == Reads[c].stream
<1>0. /\ n \in Streams /\ purged[n] \in Nat /\ purged'[n] \in Nat
      /\ client[c].era \in Int /\ client \in [Clients -> ClientState]
      /\ client[c].era <= purged[n] /\ Workers \subseteq Threads /\ c # NoClient
  BY KinesisAssumption, TypeStep DEF TypeInv, TypeOK, ClientState, Eras, Threads
<1>1. Kept(n) \/ Lost(n)
  BY <1>0, StreamChange
<1>2. ASSUME client'[c].era = client[c].era, client'[c].patient => client[c].patient
      PROVE  Undisturbed(c) /\ Chain(c) /\ Kept(n)
  <2>1. client[c].era = purged'[n]
    BY <1>2 DEF Undisturbed
  <2>2. Kept(n)
    BY <1>0, <1>1, <2>1 DEF Lost
  <2>3. Undisturbed(c)
    BY <1>2, <2>1, <2>2 DEF Undisturbed, Kept
  <2>. QED BY <2>2, <2>3 DEF Chains
<1>3. CASE Keeping(c)
  <2>1. client'[c].era = client[c].era /\ (client'[c].patient => client[c].patient)
    BY <1>3 DEF Keeping, SameReading
  <2>. QED BY <1>2, <1>3, <2>1, KeepingChain
<1>4. ASSUME NEW t \in Workers, local[t].client = c, GetRecordsAnswer(t)
      PROVE  Chain(c)'
  <2>1. client' = [client EXCEPT ![c] = AfterAnswer(client[c], local[t])]
    BY <1>0, <1>4, AnswerFacts
  <2>2. client'[c].era = client[c].era /\ client'[c].patient = client[c].patient
    BY <1>0, <2>1 DEF AfterAnswer, ClientState
  <2>. QED BY <1>0, <1>2, <1>4, <2>2, AnswerChain
<1>5. ASSUME NEW t \in Workers, local[t].client = c, Register(t), client[c].era = local[t].era
      PROVE  Chain(c)'
  <2>1. PICK i : client' = [client EXCEPT ![c] = AfterRegister(client[c], local[t], i)]
    BY <1>0, <1>5, RegisterFacts
  <2>2. client'[c].era = client[c].era /\ client'[c].patient = client[c].patient
    BY <1>0, <1>5, <2>1 DEF AfterRegister, ClientState
  <2>. QED BY <1>2, <1>5, <2>2, ResumedChain
<1>6. ASSUME NEW t \in Workers, local[t].client = c, Register(t), client[c].era # local[t].era
      PROVE  Chain(c)'
  BY <1>6, FreshChain
<1>. QED BY <1>3, <1>4, <1>5, <1>6, ReadingChange

ReadInv == Served /\ Owned /\ Eras /\ Chains

LEMMA ReadInvHolds == Spec /\ []PutsApart => []ReadInv
<1>1. Init => ReadInv
  <2> SUFFICES ASSUME Init PROVE ReadInv
    OBVIOUS
  <2>0. /\ \A t \in Threads : local[t] = Idle
        /\ \A c \in Clients : client[c] = [iter |-> NoIterator, busy |-> FALSE,
                 patient |-> TRUE, last |-> 0, start |-> 0, era |-> -1, seen |-> <<>>]
        /\ purged = [m \in Streams |-> 0]
        /\ \A c \in Clients : Reads[c].stream \in Streams
    BY KinesisAssumption DEF Init
  <2>1. Served /\ Owned
    BY <2>0, IdleRoles DEF Served, Owned
  <2>2. Eras /\ Chains
    <3>1. \A c \in Clients : client[c].era = -1 /\ purged[Reads[c].stream] = 0
      BY <2>0
    <3>2. \A c \in Clients, t \in Threads : ~ Asking(local[t], c)
      BY <2>0, IdleRoles DEF Asking
    <3>. QED BY <3>1, <3>2 DEF Eras, Chains, Undisturbed
  <2>. QED BY <2>1, <2>2 DEF ReadInv
<1>2. TypeInv /\ SpentInv /\ MonoInv /\ ReadInv /\ [Next]_vars => ReadInv'
  BY ServedStep, OwnedStep, ErasStep, ChainsStep DEF ReadInv
<1>. QED BY <1>1, <1>2, TypeInvHolds, SpentInvHolds, MonoInvHolds, PTL DEF Spec

(* A consumer of a stream that has not been purged since it started, and   *)
(* that has not sent a second request on an iterator while the first was   *)
(* under way, has every record of its shard up to where it is: across      *)
(* iterators that are replaced (kinesis.py:289-296), forgotten by a        *)
(* restart and resumed after the last number (kinesis.py:249-261), with    *)
(* any number of other consumers of the same shard.                        *)
THEOREM NothingIsSkipped == Spec /\ []PutsApart => []NothingSkipped
<1>1. ReadInv => NothingSkipped
  BY DEF ReadInv, Chains, Chain, Collected, NothingSkipped
<1>. QED BY <1>1, ReadInvHolds, PTL

(* The same consumer gets the records in the order of their insertion and  *)
(* none twice (kinesis.py:249-261, 276-296).                               *)
THEOREM OnceAndInOrder == Spec /\ []PutsApart => []OnceInOrder
<1>1. ReadInv => OnceInOrder
  BY DEF ReadInv, Chains, Chain, Collected, OnceInOrder
<1>. QED BY <1>1, ReadInvHolds, PTL
=============================================================================
