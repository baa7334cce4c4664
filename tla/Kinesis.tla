------------------------------ MODULE Kinesis ------------------------------
(***************************************************************************)
(* Data streams, src/openaws/kinesis.py.  Streams and records are tables;  *)
(* shard iterators live in a Python dict of the server process that no     *)
(* lock guards, so the Python code between two statements that uses it is  *)
(* a step of its own, and a restart forgets it.                            *)
(*                                                                         *)
(* As in SQS an action is a SQL statement with the code up to the next     *)
(* one, and a request refused by its first statement is no step.           *)
(***************************************************************************)
EXTENDS Integers, FiniteSets, Sequences, SequencesExt

CONSTANTS
    Streams,      \* stream names
    Keys,         \* partition keys (or explicit hash keys)
    Crc,          \* their CRC32
    ShardCounts,  \* the shard counts admins create streams with
    Initial,      \* the kinesis_streams table of the data directory at start
    Batches,      \* the partition keys of the put_records calls
    Iterators,    \* iterator ids (uuid4)
    Producers,    \* server threads that run put_record and put_records
    Workers,      \* server threads that run get_shard_iterator and get_records
    Admins,       \* server threads that run create_stream and delete_stream
    Clients,      \* consumers
    Reads,        \* the stream and shard a client consumes
    MaxRecords,   \* bound: records ever inserted
    MaxLimit,     \* bound: limit of get_records
    MaxTroubles,  \* bound: purges, restarts and requests a client gives up on
    StoreBusy,    \* whether a write may raise
    NoName, NoIterator, NoClient

Threads == Producers \cup Workers \cup Admins

ASSUME KinesisAssumption ==
    /\ Crc \in [Keys -> Nat]
    /\ ShardCounts \subseteq Nat \ {0}
    /\ Initial \in [Streams -> Nat]
    /\ Batches \subseteq Seq(Keys) \ {<<>>}
    /\ Reads \in [Clients -> [stream : Streams, shard : Nat]]
    /\ NoName \notin Streams /\ NoIterator \notin Iterators /\ NoClient \notin Clients
    /\ {MaxRecords, MaxLimit, MaxTroubles} \subseteq Nat
    /\ StoreBusy \in BOOLEAN

VARIABLES
    streams,    \* table kinesis_streams: the shard count, 0 if no such stream
    records,    \* table kinesis_records
    lastId,     \* its newest id
    iterators,  \* the dict objects get_shard_iterator and get_records create
    open,       \* the keys of self._iterators
    local,      \* the local variables of each server thread
    client,     \* what each consumer remembers
    purged,     \* history: how often each stream was purged
    troubles    \* purges, restarts and requests given up so far

tables == <<streams, records, lastId>>
memory == <<iterators, open>>
history == <<purged, troubles>>
vars == <<streams, records, lastId, iterators, open, local, client, purged, troubles>>

Record == [id : Nat, stream : Streams, shard : Nat, seq : Nat]

(* What self._iterators maps an id to. *)
Position == [stream : Streams \cup {NoName}, shard : Nat, next : Nat]

Steps == {"idle", "create", "purge", "drop", "collect", "forget", "record", "seq",
          "insert", "latest", "register", "query", "advance", "renew", "answer"}

LocalState ==
    [pc : Steps, stream : Streams \cup {NoName}, shards : Nat, seq : Nat,
     rest : Seq(Keys), client : Clients \cup {NoClient},
     old : Iterators \cup {NoIterator}, new : Iterators \cup {NoIterator}, pos : Position,
     rows : SUBSET Record, stale : SUBSET Iterators, era : Nat]

(* What a request has assigned by the time it gets to a step. *)
Assigned(s) ==
    /\ s.pc # "idle" => s.stream \in Streams \/ s.pos.stream \in Streams
    /\ s.pc \in {"record", "seq", "insert"} => s.rest # <<>>
    /\ s.pc \in {"advance", "renew", "answer"} => s.old # NoIterator

(* A consumer: its iterator, the last sequence number it has, where it     *)
(* started, in which era of the stream, the ids it got; busy while it      *)
(* waits, patient unless it has sent a second request on an iterator while *)
(* the first was under way.                                                *)
ClientState ==
    [iter : Iterators \cup {NoIterator}, busy : BOOLEAN, patient : BOOLEAN,
     last : Nat, start : Nat, era : Int, seen : Seq(Nat)]

Nowhere == [stream |-> NoName, shard |-> 0, next |-> 0]

Idle == [pc |-> "idle", stream |-> NoName, shards |-> 0, seq |-> 0, rest |-> <<>>,
         client |-> NoClient, old |-> NoIterator, new |-> NoIterator, pos |-> Nowhere,
         rows |-> {}, stale |-> {}, era |-> 0]

TypeOK ==
    /\ streams \in [Streams -> Nat]
    /\ records \subseteq Record
    /\ lastId \in 0 .. MaxRecords
    /\ iterators \in [Iterators -> Position]
    /\ open \subseteq Iterators
    /\ local \in [Threads -> LocalState]
    /\ \A t \in Threads : Assigned(local[t])
    /\ client \in [Clients -> ClientState]
    /\ purged \in [Streams -> Nat]
    /\ troubles \in 0 .. MaxTroubles

-----------------------------------------------------------------------------
(* Helpers *)

InStream(n) == {r \in records : r.stream = n}
InShard(n, s) == {r \in InStream(n) : r.shard = s}

(* SELECT MAX(seq), or 0. *)
MaxSeq(S) == IF S = {} THEN 0 ELSE CHOOSE m \in {r.seq : r \in S} : \A r \in S : r.seq <= m

(* ORDER BY seq: the index breaks ties by id. *)
Before(r, s) == r.seq < s.seq \/ (r.seq = s.seq /\ r.id < s.id)

(* How many rows come before row r. *)
Rank(S, r) == Cardinality({q \in S : Before(q, r)})

(* LIMIT k *)
FirstRows(S, k) == {r \in S : Rank(S, r) < k}

(* The iterator ids somebody has; uuid4 gives others. *)
Known == {client[c].iter : c \in Clients}
         \cup UNION {{local[t].old, local[t].new} \cup local[t].stale : t \in Threads}

NewIterators == Iterators \ Known

(* self._iterators[i] = p.  Entries whose id nobody has are left out: no   *)
(* request can use them.                                                   *)
Bind(i, p) ==
    iterators' = [j \in Iterators |-> IF j = i THEN p
                                      ELSE IF j \in Known THEN iterators[j] ELSE Nowhere]

Opened(i) == (open \cap Known) \cup {i}

Trouble == troubles < MaxTroubles /\ troubles' = troubles + 1

Return(t) == local' = [local EXCEPT ![t] = Idle]
Goto(t, step) == local' = [local EXCEPT ![t].pc = step]

-----------------------------------------------------------------------------
(* create_stream *)

CreateStreamCheck(t, n, k) ==
    /\ local[t].pc = "idle"
    /\ streams[n] = 0
    /\ local' = [local EXCEPT ![t] = [Idle EXCEPT !.pc = "create", !.stream = n, !.shards = k]]
    /\ UNCHANGED <<tables, memory, client, history>>

(* The name is the primary key: a second INSERT of it raises. *)
CreateStreamInsert(t) ==
    /\ local[t].pc = "create"
    /\ streams' = [streams EXCEPT ![local[t].stream] = IF @ = 0 THEN local[t].shards ELSE @]
    /\ Return(t)
    /\ UNCHANGED <<records, lastId, memory, client, history>>

(* delete_stream *)

DeleteStreamRequire(t, n) ==
    /\ local[t].pc = "idle"
    /\ streams[n] # 0
    /\ local' = [local EXCEPT ![t] = [Idle EXCEPT !.pc = "purge", !.stream = n]]
    /\ UNCHANGED <<tables, memory, client, history>>

DeleteStreamRecords(t) ==
    /\ local[t].pc = "purge"
    /\ Trouble
    /\ records' = records \ InStream(local[t].stream)
    /\ purged' = [purged EXCEPT ![local[t].stream] = @ + 1]
    /\ Goto(t, "drop")
    /\ UNCHANGED <<streams, lastId, memory, client>>

DeleteStreamDrop(t) ==
    /\ local[t].pc = "drop"
    /\ streams' = [streams EXCEPT ![local[t].stream] = 0]
    /\ Goto(t, "collect")
    /\ UNCHANGED <<records, lastId, memory, client, history>>

(* stale = [...] *)
DeleteStreamCollect(t) ==
    /\ local[t].pc = "collect"
    /\ local' = [local EXCEPT ![t].pc = "forget",
                   ![t].stale = {i \in open : iterators[i].stream = local[t].stream}]
    /\ UNCHANGED <<tables, memory, client, history>>

(* The comprehension raises RuntimeError if another thread adds an         *)
(* iterator while it runs; the iterators stay.                             *)
DeleteStreamCollectFails(t) ==
    /\ local[t].pc = "collect"
    /\ \E u \in Workers : local[u].pc \in {"register", "renew"}
    /\ Return(t)
    /\ UNCHANGED <<tables, memory, client, history>>

(* One round of the loop; del of a key that has gone raises KeyError. *)
DeleteStreamForget(t) ==
    /\ local[t].pc = "forget"
    /\ \/ /\ local[t].stale = {}
          /\ Return(t)
          /\ UNCHANGED open
       \/ \E i \in local[t].stale :
             /\ open' = open \ {i}
             /\ IF i \in open THEN local' = [local EXCEPT ![t].stale = @ \ {i}] ELSE Return(t)
    /\ UNCHANGED <<tables, iterators, client, history>>

-----------------------------------------------------------------------------
(* put_record and put_records: the latter calls the former for each record *)
(* and passes over its exceptions.                                         *)

PutRecord(t, n, k) ==
    /\ local[t].pc = "idle"
    /\ streams[n] # 0
    /\ local' = [local EXCEPT ![t] = [Idle EXCEPT !.pc = "seq", !.stream = n,
                                        !.shards = streams[n], !.rest = <<k>>]]
    /\ UNCHANGED <<tables, memory, client, history>>

PutRecords(t, n, keys) ==
    /\ local[t].pc = "idle"
    /\ streams[n] # 0
    /\ local' = [local EXCEPT ![t] = [Idle EXCEPT !.pc = "record", !.stream = n, !.rest = keys]]
    /\ UNCHANGED <<tables, memory, client, history>>

(* Mutant: the last record is not noticed. *)
NextRecordAlways(t) ==
    local' = [local EXCEPT ![t].pc = "record", ![t].rest = Tail(@)]

(* On to the next record of the batch, if any. *)
NextRecord(t) ==
    LET rest == Tail(local[t].rest)
    IN  local' = [local EXCEPT ![t] =
                    IF rest = <<>> THEN Idle ELSE [@ EXCEPT !.pc = "record", !.rest = rest]]

(* _require_stream of a record of a batch. *)
RecordRequire(t) ==
    LET count == streams[local[t].stream]
    IN  /\ local[t].pc = "record"
        /\ IF count = 0
           THEN NextRecord(t)
           ELSE local' = [local EXCEPT ![t].pc = "seq", ![t].shards = count]
        /\ UNCHANGED <<tables, memory, client, history>>

(* Mutant: MAX(seq) itself. *)
NextSeqSame(t) ==
    /\ local[t].pc = "seq"
    /\ local' = [local EXCEPT ![t].pc = "insert", ![t].seq = MaxSeq(InStream(local[t].stream))]
    /\ UNCHANGED <<tables, memory, client, history>>

NextSeq(t) ==
    /\ local[t].pc = "seq"
    /\ local' = [local EXCEPT ![t].pc = "insert", ![t].seq = MaxSeq(InStream(local[t].stream)) + 1]
    /\ UNCHANGED <<tables, memory, client, history>>

(* _shard_for_key *)
ShardForKey(k, count) == Crc[k] % count

PutInsert(t) ==
    LET s == local[t]
    IN  /\ s.pc = "insert"
        /\ lastId < MaxRecords
        /\ lastId' = lastId + 1
        /\ records' = records \cup {[id |-> lastId', stream |-> s.stream, seq |-> s.seq,
                                     shard |-> ShardForKey(Head(s.rest), s.shards)]}
        /\ NextRecord(t)
        /\ UNCHANGED <<streams, memory, client, history>>

(* "database is locked" *)
PutInsertFails(t) ==
    /\ StoreBusy
    /\ local[t].pc = "insert"
    /\ NextRecord(t)
    /\ UNCHANGED <<tables, memory, client, history>>

-----------------------------------------------------------------------------
(* get_shard_iterator.  A client asks for the place after the last record  *)
(* it has if the stream is still the one it has been reading, and starts   *)
(* afresh otherwise.                                                       *)

(* The type of iterator asked for, and the next_seq it gives. *)
Asked(c) ==
    LET me == client[c]
    IN  IF me.era = purged[Reads[c].stream]
        THEN {<<"AFTER_SEQUENCE_NUMBER", me.last + 1>>, <<"AT_SEQUENCE_NUMBER", me.last + 1>>}
        ELSE {<<"TRIM_HORIZON", 0>>, <<"LATEST", 0>>}

GetIterator(t, c) ==
    LET n == Reads[c].stream
    IN  /\ local[t].pc = "idle"
        /\ client[c].iter = NoIterator /\ ~client[c].busy
        /\ Reads[c].shard < streams[n]
        /\ client' = [client EXCEPT ![c].busy = TRUE]
        /\ \E ask \in Asked(c) :
              local' = [local EXCEPT ![t] =
                          [Idle EXCEPT !.pc = IF ask[1] = "LATEST" THEN "latest" ELSE "register",
                                       !.client = c, !.era = purged[n],
                                       !.pos = [stream |-> n, shard |-> Reads[c].shard,
                                                next |-> ask[2]]]]
        /\ UNCHANGED <<tables, memory, history>>

GetLatest(t) ==
    LET p == local[t].pos
    IN  /\ local[t].pc = "latest"
        /\ local' = [local EXCEPT ![t].pc = "register",
                                  ![t].pos.next = MaxSeq(InShard(p.stream, p.shard)) + 1]
        /\ UNCHANGED <<tables, memory, client, history>>

(* What a consumer remembers when its request s is answered with iterator  *)
(* i: it goes on reading the stream it has been reading, or starts afresh. *)
AfterRegister(me, s, i) ==
    IF me.era = s.era
    THEN [me EXCEPT !.iter = i, !.busy = FALSE]
    ELSE [iter |-> i, busy |-> FALSE, patient |-> TRUE, era |-> s.era,
          start |-> s.pos.next, seen |-> <<>>,
          last |-> IF s.pos.next = 0 THEN 0 ELSE s.pos.next - 1]

(* self._iterators[iterator_id] = ..., and the answer. *)
Register(t) ==
    LET s == local[t]
    IN  /\ s.pc = "register"
        /\ \E i \in NewIterators :
              /\ Bind(i, s.pos)
              /\ open' = Opened(i)
              /\ client' = IF s.client = NoClient THEN client
                           ELSE [client EXCEPT ![s.client] = AfterRegister(@, s, i)]
        /\ Return(t)
        /\ UNCHANGED <<tables, history>>

-----------------------------------------------------------------------------
(* get_records *)

(* it = self._iterators.get(...), and the parameters of the SELECT. *)
GetRecords(t, c) ==
    LET i == client[c].iter
    IN  /\ local[t].pc = "idle"
        /\ ~client[c].busy
        /\ i \in open
        /\ client' = [client EXCEPT ![c].busy = TRUE,
                        ![c].patient = @ /\ \A u \in Threads : local[u].old # i]
        /\ local' = [local EXCEPT ![t] = [Idle EXCEPT !.pc = "query", !.client = c, !.old = i,
                                                      !.pos = iterators[i]]]
        /\ UNCHANGED <<tables, memory, history>>

(* "invalid or expired shard iterator" *)
GetRecordsRefused(c) ==
    /\ ~client[c].busy
    /\ client[c].iter \notin open \cup {NoIterator}
    /\ client' = [client EXCEPT ![c].iter = NoIterator]
    /\ UNCHANGED <<tables, memory, local, history>>

GetRecordsQuery(t) ==
    LET p == local[t].pos
    IN  /\ local[t].pc = "query"
        /\ \E k \in 1 .. MaxLimit :
              local' = [local EXCEPT ![t].pc = "advance",
                 ![t].rows = FirstRows({r \in InShard(p.stream, p.shard) : r.seq >= p.next}, k)]
        /\ UNCHANGED <<tables, memory, client, history>>

(* Mutant: the position of the last record, not the one after it. *)
GetRecordsAdvanceShort(t) ==
    LET rows == local[t].rows
    IN  /\ local[t].pc = "advance"
        /\ iterators' = IF rows = {} THEN iterators
                        ELSE [iterators EXCEPT ![local[t].old].next = MaxSeq(rows)]
        /\ Goto(t, "renew")
        /\ UNCHANGED <<tables, open, client, history>>

(* it["next_seq"] = ... changes the dict object, which another request on  *)
(* the same iterator may be using too.                                     *)
GetRecordsAdvance(t) ==
    LET rows == local[t].rows
    IN  /\ local[t].pc = "advance"
        /\ iterators' = IF rows = {} THEN iterators
                        ELSE [iterators EXCEPT ![local[t].old].next = MaxSeq(rows) + 1]
        /\ Goto(t, "renew")
        /\ UNCHANGED <<tables, open, client, history>>

Answered(t) == IF local[t].client = NoClient THEN client
               ELSE [client EXCEPT ![local[t].client].busy = FALSE]

(* Mutant: self._iterators.pop(shard_iterator, None). *)
GetRecordsRenewPop(t) ==
    LET s == local[t]
    IN  /\ s.pc = "renew"
        /\ \E i \in NewIterators :
              /\ Bind(i, iterators[s.old])
              /\ open' = Opened(i) \ {s.old}
              /\ local' = [local EXCEPT ![t].pc = "answer", ![t].new = i]
              /\ UNCHANGED client
        /\ UNCHANGED <<tables, history>>

(* A copy of the object under a new id; del of the old one, which raises   *)
(* KeyError if another request has been faster.                            *)
GetRecordsRenew(t) ==
    LET s == local[t]
    IN  /\ s.pc = "renew"
        /\ \E i \in NewIterators :
              /\ Bind(i, iterators[s.old])
              /\ open' = Opened(i) \ {s.old}
              /\ IF s.old \in open
                 THEN /\ local' = [local EXCEPT ![t].pc = "answer", ![t].new = i]
                      /\ UNCHANGED client
                 ELSE /\ Return(t)
                      /\ client' = Answered(t)
        /\ UNCHANGED <<tables, history>>

(* The rows of an answer in their order. *)
Ranked(rows, k) == CHOOSE r \in rows : Rank(rows, r) = k

Ids(rows) == [k \in 1 .. Cardinality(rows) |-> Ranked(rows, k - 1).id]

(* What a consumer remembers when its request s has been answered. *)
AfterAnswer(me, s) ==
    [me EXCEPT !.iter = s.new, !.busy = FALSE, !.seen = me.seen \o Ids(s.rows),
               !.last = IF s.rows = {} THEN me.last ELSE MaxSeq(s.rows)]

(* The answer reaches the client, if it still waits. *)
GetRecordsAnswer(t) ==
    LET s == local[t]
    IN  /\ s.pc = "answer"
        /\ client' = IF s.client = NoClient THEN client
                     ELSE [client EXCEPT ![s.client] = AfterAnswer(@, s)]
        /\ Return(t)
        /\ UNCHANGED <<tables, memory, history>>

-----------------------------------------------------------------------------
(* Clients and process *)

(* A client gives up waiting for thread t; it may send its request again   *)
(* while t goes on with the first.                                         *)
Timeout(t) ==
    LET c == local[t].client
    IN  /\ c # NoClient
        /\ Trouble
        /\ local' = [local EXCEPT ![t].client = NoClient]
        /\ client' = [client EXCEPT ![c].busy = FALSE]
        /\ UNCHANGED <<tables, memory, purged>>

(* The server dies and is started again: the tables are all it has. *)
Crash ==
    /\ Trouble
    /\ open' = {}
    /\ local' = [t \in Threads |-> Idle]
    /\ client' = [c \in Clients |-> [client[c] EXCEPT !.busy = FALSE]]
    /\ UNCHANGED <<tables, iterators, purged>>

-----------------------------------------------------------------------------
Init ==
    /\ streams = Initial
    /\ records = {}
    /\ lastId = 0
    /\ iterators = [i \in Iterators |-> Nowhere]
    /\ open = {}
    /\ local = [t \in Threads |-> Idle]
    /\ client = [c \in Clients |-> [iter |-> NoIterator, busy |-> FALSE, patient |-> TRUE,
                                    last |-> 0, start |-> 0, era |-> -1, seen |-> <<>>]]
    /\ purged = [n \in Streams |-> 0]
    /\ troubles = 0

Admin(t) == \/ \E n \in Streams : \/ \E k \in ShardCounts : CreateStreamCheck(t, n, k)
                                  \/ DeleteStreamRequire(t, n)
            \/ CreateStreamInsert(t)
            \/ DeleteStreamRecords(t)
            \/ DeleteStreamDrop(t)
            \/ DeleteStreamCollect(t)
            \/ DeleteStreamCollectFails(t)
            \/ DeleteStreamForget(t)

Produce(t) == \/ \E n \in Streams : \/ \E k \in Keys : PutRecord(t, n, k)
                                    \/ \E keys \in Batches : PutRecords(t, n, keys)
              \/ RecordRequire(t)
              \/ NextSeq(t)
              \/ PutInsert(t)
              \/ PutInsertFails(t)

(* The steps of a request of a consumer that has begun. *)
ServeStep(t) == \/ GetLatest(t)
                \/ Register(t)
                \/ GetRecordsQuery(t)
                \/ GetRecordsAdvance(t)
                \/ GetRecordsRenew(t)
                \/ GetRecordsAnswer(t)

Next == \/ \E t \in Admins : Admin(t)
        \/ \E t \in Producers : Produce(t)
        \/ \E t \in Workers : ServeStep(t) \/ Timeout(t)
                              \/ \E c \in Clients : GetIterator(t, c) \/ GetRecords(t, c)
        \/ \E c \in Clients : GetRecordsRefused(c)
        \/ Crash

Spec == Init /\ [][Next]_vars

-----------------------------------------------------------------------------
(* Properties *)

(* A consumer on its own stream: not purged since it started, and never a  *)
(* second request on an iterator while one was under way.                  *)
Undisturbed(c) == client[c].patient /\ client[c].era = purged[Reads[c].stream]

Mine(c) == {r \in InShard(Reads[c].stream, Reads[c].shard) : r.seq >= client[c].start}

(* A consumer misses nothing up to where it is, through restarts and       *)
(* refused iterators, although the numbers of a shard have gaps            *)
(* (kinesis.py:125-131, 276-292).  Holds with one producer at a time.      *)
NothingSkipped ==
    \A c \in Clients : Undisturbed(c) =>
        \A r \in Mine(c) : r.seq <= client[c].last => r.id \in ToSet(client[c].seen)

(* A consumer gets every record once, in the order of their insertion,     *)
(* from one iterator to the next and from one iterator chain to the chain  *)
(* that resumes it (kinesis.py:249-261, 289-296).                          *)
OnceInOrder ==
    \A c \in Clients : Undisturbed(c) =>
        \A j, k \in DOMAIN client[c].seen : j < k => client[c].seen[j] < client[c].seen[k]

(* However often a request is repeated, an iterator is used up by one      *)
(* answer: at most one request succeeds with it (kinesis.py:295-296).      *)
SpentOnce ==
    \A t, u \in Workers :
        local[t].pc = "answer" =>
            /\ local[t].old \notin open
            /\ t # u /\ local[u].pc = "answer" => local[u].old # local[t].old

(* kinesis.py:10 and README.md:178: sequence numbers increase from one     *)
(* record of a stream to the next.                                         *)
MonotonicSequenceNumbers ==
    \A r, s \in records : r.stream = s.stream /\ r.id < s.id => r.seq < s.seq
=============================================================================
