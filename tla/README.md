# openaws in TLA+

A verification project for `openaws`, a local re-implementation of a set of
cloud services: a Python process that serves every service over HTTP
(`src/openaws/server.py`) and keeps all state in one SQLite database file. The
modules here translate the code; TLC checks them on small instances and TLAPS
proves the theorems listed below for every instance.

## 1. The system

`OpenAWSServer` is a `ThreadingHTTPServer`: each request runs in a thread of its
own, calls one method of one service object, and any exception becomes an error
answer (`server.py:1052`). The services hold no locks. Their only shared state
is the database, through one `Storage` object whose methods `execute`, `query`
and `query_one` each take one lock, run one SQL statement and (for `execute`)
commit. So **a statement is atomic and a request is not**: the statements of
concurrent requests interleave, a request that fails half-way keeps what it did,
and a crash may fall between any two statements. A command line (`cli.py`) may
work on the same database file from a second process.

| component (source) | state | operations | what is hard | what makes it correct |
|---|---|---|---|---|
| Storage (`storage.py`) | sqlite connection, lock, open transaction | execute, query, query_one, schema and migrations | threads on one connection; statements that raise; a second process; crash before commit | a call is one atomic step; the lock always comes back |
| SQS (`sqs.py`) | queues, messages with receipt, visibility and receive count | create/delete queue, send (with deduplication), receive (with redrive), delete | overlapping receives; expiring leases; redrive in two statements; queue deleted meanwhile | nothing accepted is lost; leases, deletions, delivery bound, deduplication |
| Kinesis (`kinesis.py`) | streams, records, shard iterators in memory | create/delete stream, put record(s), get iterator, get records | sequence numbers by `MAX+1`; iterators shared by retries, lost by a restart | a consumer misses nothing and sees nothing twice |
| DynamoDB (`dynamodb.py`) | tables, items | put/get/delete/update with conditions, query, scan, batch and transact writes, TTL | condition and write are separate statements; a transaction is a loop | conditional writes; all-or-nothing |
| S3 (`s3.py`) | buckets with versioning, objects, versions, tags, multipart uploads and parts | put/get/copy/delete, delete a version, tagging, multipart | `is_latest` moved in several statements; delete markers; completion against parts still arriving | one latest version, which the object follows; an upload becomes one whole object |
| Secrets Manager (`secretsmanager.py`) | secrets, versions with staging labels, tags | create, put value, update, rotate, delete/restore, tag | labels moved one UPDATE at a time | exactly one `AWSCURRENT`, `AWSPREVIOUS` before it |
| KMS (`kms.py`) | keys, aliases | create, enable/disable, schedule deletion, rotation, encrypt/decrypt | a key disabled between two uses | ciphertexts are readable while the key is enabled |
| SSM (`ssm.py`) | parameters, history, tags | put (overwrite), get, delete, history | version, type and key read, written statements later | history has each version once; a value is readable with the key of its row |
| IAM (`iam.py`), STS (`sts.py`) | principals, keys, memberships, policies, attachments, sessions | create/delete, attach, simulate, assume, revoke | deletions table by table; policies changed during a simulation | nothing left of who is deleted; a standing Deny is obeyed |
| Cognito (`cognito.py`) | pools, clients, users, refresh tokens | sign up, confirm, sign in, refresh, sign out, admin calls | code checked on one row, another updated; tokens issued during a sign-out | nobody is confirmed by what another's row held; sign-out reaches every refresh token |
| Lambda (`lambdas.py`) | functions (some in memory), versions, aliases, layers, asynchronous queue | register, configure, publish, alias, invoke, queue processing, SQS polling | versions numbered by counting; run and mark are two steps; batches from SQS | a version never changes; an invocation runs once; a message leaves its queue only handled |
| SNS (`sns.py`) | topics, subscriptions, deliveries | subscribe, unsubscribe, publish | fan-out while subscriptions change and targets raise | every standing subscriber is tried |
| EventBridge (`eventbridge.py`) | buses, rules, targets | put/delete rules, put/remove targets, put_events | pattern matching; routing while rules change; stale targets | every standing matching target is tried |
| API Gateway (`apigateway.py`) | APIs, resources | create, delete, invoke | exact or template routes; no key makes a route unique | a standing route is found, an exact one first |
| CloudWatch (`cloudwatch.py`) | metric data, log groups, streams and events, alarms and their history | put data, statistics, logs, alarms, set state | window boundaries; alarm and history in two statements | windows add up; history tells the state |
| Step Functions (`stepfunctions.py`) | state machines, executions; interpreters in memory | create, delete, start, list, describe | threads per branch, nested; cycles; record written after the run | branches are joined and their errors arrive; every execution ends |
| SES (`ses.py`) | identities, captured mails | verify, send, list, delete | little | - |
| server, cli, connect, errors, livesearch | none of their own | routing, parsing, formatting | threads | - |

The services call one another in the thread of the request: SNS and EventBridge
send to SQS and invoke Lambda functions, API Gateway and Step Functions invoke
functions, Lambda polls SQS, SSM encrypts with KMS. A call is a sequence of the
callee's statements, with no lock around them.

`PROJECT.json` has the same list with the status of each part, and under
"hazards" what can go wrong at which line.

## 2. Modules

| module | models | with |
|---|---|---|
| `AtomicStore` | what the services rely on: a call takes effect in one step or not at all | abstract specification |
| `Storage` | `storage.py:571-587` and the sqlite transactions under it | `MCStorage`, `StorageProofs` |
| `SQS` | `sqs.py`: one action per SQL statement | `MCSQS`, `SQSProofs` |
| `Kinesis` | `kinesis.py`: one action per SQL statement or use of the shared iterator dict, and a consumer | `MCKinesis`, `KinesisProofs` |
| `Items` | conditions and update expressions of `dynamodb.py`, without state | used by the next two |
| `AtomicTable` | what a table promises: a write is one step on the item it checked | abstract specification |
| `DynamoDB` | the writes of `dynamodb.py`: one action per SQL statement | `MCDynamoDB`, `DynamoDBProofs` |
| `Requests` | what the services below share: a request per server thread, begun, going on statement by statement, broken off | extended by each of them |
| `S3`, `SecretsManager`, `KMS`, `SSM`, `IAM` (with STS), `Cognito` | the modules of `src/openaws` of those names: one action per SQL statement | `Stores` |
| `Stores` | those in one server, a behaviour being about one of them | `MCStores`, `StoresProofs`, `VersionsProofs` |
| `Lambda`, `SNS`, `EventBridge`, `CloudWatch`, `APIGateway` | likewise | `Services` |
| `Services` | those in one server, likewise | `MCServices`, `ServicesProofs` |
| `EventSource` | `lambdas.py:427-450` composed with `SQS` | `MCEventSource`, `SQSProofs` |
| `StepFunctions` | the interpreter, its threads and its records | `MCStepFunctions`, `StepFunctionsProofs` |

`Storage` justifies the grain of the others: it refines `AtomicStore` (checked
and proved), so a service may be modelled with one action per statement, the
Python code up to the next statement included. A request whose first statement
refuses it changes nothing and is not a step.

### Storage

`log` is the sequence of committed writes and a database version is the length
of a prefix. Each thread is in one call (`pc`, `op`); each process has the lock
(`lock`), its connection's transaction (`tx`, `base`, `pending`).
`Call`, `Acquire`, `ExecWrite`, `Commit`, `Release` are the lines of `execute`;
`ExecQuery` is `query`/`query_one`. `ExecReject` is a constraint failure,
`ExecBusy` is "database is locked" (another process is writing, or this
process's snapshot is old). In both, `execute` raises without a rollback and
the implicit transaction stays open, which the model keeps: with a constraint
failure it holds the write lock (`tx = "write"`), after "database is locked" it
is only `"begun"` and the next SELECT fixes a snapshot (`"read"`), so the
process may read an old version until one of its writes succeeds. `AtomicStore`
says how old: never older than the process has read or written, and only after a
refused write.

### SQS

`queues` and `messages` are the two tables; `local[t]` is where server thread
`t` is in a request and what it has read so far (`q`, the candidates `todo`, the
answer `out`); `held` are the receipts clients keep. `receive_messages` is
`ReceiveRequire`, `ReceiveSelect`, then per candidate `ReceiveLease` or
`RedriveInsert`/`RedriveDelete`, then `ReceiveReturn`. The counts come from the
candidates as SELECTed, as in the code; the UPDATE does not look at
`visible_at` again; the redrive inserts whether or not the DLQ still exists and
deletes even if the INSERT raised (`RedriveInsertFails`). Time is abstract: a
row is `hidden` until `LeaseExpires`, a deduplication id counts until
`WindowPasses`. `Crash` forgets every `local`, the tables stay.

History variables (`accepted`, `settled`, `finished`, `swallowed`, `grants`)
record what clients were promised and what became of it; no guard reads them but
the bound `MaxSends`.

### Kinesis

`streams` and `records` are the tables, `iterators` the dict of the service
object, which all threads share and a restart empties. In `get_records` the
fetched dict is one object for all requests that use the same iterator: moving
its position (`GetRecordsAdvance`) and copying it under a new name
(`GetRecordsRenew`) are separate actions, and a request repeated after a timeout
may come between them. A consumer reads until it has everything; after a lost
answer it repeats the request, after a restart it asks for an iterator after the
last number it has. `put_records` catches the failure of one record and goes on.

`patient` is a history variable of a consumer: it has never sent a request on an
iterator while another on that iterator was under way. A consumer that has may be
served from a position the other request moved, and `NothingSkipped` and `OnceInOrder`
claim nothing for it (`Undisturbed`); what holds for it too is `SpentOnce`. It stays
impatient when it resumes after a restart, because the older request may still be
answered.

### DynamoDB

`tables` and `items` are the two tables; `local[t]` is the operation `k` of the
request of thread `t` and the item an update is about to store. All writes are
sequences of operations: one for `put_item`, `delete_item` and `update_item`
(`Require`, `Read`, `Write`), several for a batch or a transaction, which first
goes through `CheckTable` and `Check` for each. A condition is one of the three
functions the code has, an update is its SET, REMOVE and ADD.

`AtomicTable` is the promise a client relies on: check and write in one step.
The code keeps it only for requests nobody else writes to the items of while
they run; those are `disturbed` (a history variable set at the interfering
write), and for them the abstract step may have read any item.

### Requests and the services that keep records

A check whose only effect is to refuse may be one step with the SELECT it precedes, as
`PutTargetRequire` (the rule, then the target, `eventbridge.py:225-241`) and `CopyRead`
(the SELECTs of `get_object`) are; a SELECT and the write that depends on it never are.

`local[t].todo` names the statements the request of thread `t` has still to run
(its program counter), `local[t].touches` the rows it relies on nobody else
changing, and the other fields are its Python variables, read when the code reads
them. `Begin` is the first statement of a request together with the checks that
may refuse it, `Does(t, step)` a statement, `Ends` an early return or an exception
before anything was written. `Fails` is an exception out of any statement,
`Crash` a restart: both leave what was written and forget the rest.

The code gives no isolation, so most of what its docs say of these services holds
only between requests that do not overlap. The history variable `disturbed` has
the rows on which two requests overlapped or one broke off, `Quiet(row)` that
neither happened nor is a request at work there. A property of the form
`Quiet(row) => ...` says two things: the sequence of statements is right when it
runs alone (whatever is going on in other rows), and damage needs an overlap or a
broken request *for that row*. It says nothing of what the overlap does: two puts that
overlap do leave two latest versions (`s3.py:114`), two completions do upload twice
(`s3.py:432`), a token issued during a sign-out does survive it (`cognito.py:442`). Those
hazards stay in the code, and `PROJECT.json` notes at each that its property confines
it and does not exclude it. Requests that may run side by side touch rows of
their own (`<<pool, thread>>`), what excludes all of them touches every such row.
Properties without `Quiet` hold through every overlap and crash: `ConfirmedInPerson`,
`AnsweredInClear`, `VersionsImmutable`, `StandingPoliciesCount`, `FanOutComplete`,
`StandingRouteFound`, `WindowsAddUp`.

* `S3`: a body is the sequence of the numbers of the uploads it is made of, time
  the number of bodies received. `PutInside` decides on versioning, `PutClear`,
  `PutVersion` and `PutObject` are the three statements of a versioned put;
  `DeleteVersion`, `DeleteVersionNext`, `DeleteVersionPromote` those of deleting
  one; `CompleteSelect` reads the parts a completion joins.
* `SecretsManager`: `PutSelect` reads the labelled versions, `PutDemote` and
  `PutDemoted` move labels one UPDATE at a time, `PutVersion` inserts.
* `KMS`, `SSM`: `PutSelect` reads the row, `PutEncrypt` asks KMS, `PutInsert` or
  `PutUpdate`, `PutHistory` and `PutTag` write. `Answer(row)` is what
  `get_parameter` decrypts.
* `IAM`: one table of principals by kind; `SimulateInline`, `SimulateAttached` and
  one `SimulateDocument` per attached policy are the SELECTs of a simulation.
  A document is the set of its effects on the simulated action. `attach_policy` and
  `put_inline_policy` never ask for the principal (`iam.py:247`, `:298`), so a name that
  nobody has may be given policies, and the next principal of that name has them. The
  history variable `unasked` has those names, until a principal of the name is
  deleted, and they are all that `NothingDangling` leaves out of its claim that a
  deletion takes inline and attached policies with it (`iam.py:62-63`, `131-132`,
  `197-198`).
* `Cognito`: codes and tokens are numbers of requests, a client presents those
  that were issued, or none. `Vouch` is the check of a code or of an admin; `UpdateUser`,
  later, the UPDATE by `user_id`. The check is an equality with what the column holds
  (`cognito.py:227`, `:477`) and the server passes a JSON null on as `None`
  (`server.py:898`, `:946`), so a user with no code outstanding (made by an admin, between
  the INSERT and the UPDATE of his code at 203-209, or confirmed before) is CONFIRMED, and
  with `confirm_forgot_password` given a new password, by a request with a null.
  `WithCodeSelect` does the same. `ConfirmedInPerson` therefore claims that what was
  presented is what *this user's own row* held, NULL included, and not that he
  was ever sent a code; `users`, `vouched` and the UPDATE go by user id, a name may be
  deleted and taken again in between.

### The services that call others

* `Lambda`: `ProcessSelect`, `ProcessRun`, `ProcessMark` are the asynchronous queue;
  `PublishCount` and `Publish` number a version. Functions registered as callables
  live in memory and go with a restart.
* `EventSource`: a poller is a receiver and acknowledger of `SQS` that goes on to `InvokeReturns` or
  `InvokeRaises` and then deletes its batch one receipt at a time (`PollDelete`,
  `PollDeleted`); the other clients of the queue, deletions of queues, failing writes and
  crashes are those of `SQS`.
* `SNS`, `EventBridge`: a publish SELECTs its subscribers, or rules and then their
  targets, and delivers to one after another; a delivery returns or raises.
  Patterns (`kind`, numeric ranges, anything-but, exists) are matched as in the code.
* `CloudWatch`: `Statistics` is the bucketing of `get_metric_statistics`;
  `PutAlarm`, `SetState` and `AddHistory` are statements of their own.
* `APIGateway`: routes are sequences of segments; `InvokeExact`, then
  `InvokeTemplate` over the rows as SELECTed.
* `StepFunctions`: an interpreter is known by its path in the tree of branches.
  `Fork` starts the threads of a Parallel state, `Join` waits for them; `Record`
  is the INSERT after the run. Which way a Choice goes depends on data, which is
  left out: any.

## 3. Runs

| run | what is instantiated | what it shows |
|---|---|---|
| `storage` | server process with two threads, command line with one; 2 writes, crashes | `StoreInv`, the refinement `ImplementsAtomicStore`, `CallsReturn` (liveness) |
| `storage_locked` | the same | **violated**: a process keeps the others from writing while none of its calls is under way, because a rejected write leaves its transaction open |
| `sqs_single` | one sender, one receiver, one acknowledger (each runs one request at a time, and the three overlap), FIFO queue with deduplication and DLQ, batches of 2, writes that may fail, crashes | `TypeOK`, `ReceiptNamesItsMessage`, `LeaseExclusive`, `DeletedInTimeIsFinal`, `DeliveriesBounded`, `NoRecentDuplicate` |
| `sqs_drain` | two receivers overwriting each other's counts and racing each other's redrives | `NoMessageLost`, `PolicyDrains` (liveness) |
| `event_source` | a poller, a sender, an admin who deletes and creates queues, a queue with a DLQ, batches of 2, functions and writes that fail, crashes | `LeftOnlyIfHandled` |
| `kinesis` | one producer, a consumer on two worker threads, an admin; 2 shards, 2 records; one restart, purge or repeated request | `TypeOK`, `NothingSkipped`, `OnceInOrder`, `SpentOnce` |
| `kinesis_producers` | two producers | **violated** `MonotonicSequenceNumbers`: both read the same `MAX(seq)` |
| `dynamodb` | two workers, six kinds of writes (two tables, two keys, one counter), an admin who deletes and creates tables, writes that raise, crashes | `TypeOK`, the refinement `ImplementsAtomicTable` |
| `dynamodb_transact` | one worker, nothing else | **violated** `AllOrNothing`: an ADD on a text fails after the put before it is stored |
| `stepfunctions` | two request threads, eight definitions: a cycle, nested Parallel states, a failing branch, a missing state; machines deleted, crashes | `RecordsOK`, `ParentsWait`, `FailedIfAnyRaised`, `ExecutionsEnd` (liveness) |
| `stores` | two request threads on S3, Secrets Manager, SSM with KMS, IAM with STS, or Cognito; failing writes, crashes | `StoresTypeOK`, `OneLatestVersion`, `MultipartWhole`, `CurrentAndPrevious`, `HistoryComplete`, `AnsweredInClear`, `NothingDangling`, `StandingPoliciesCount`, `ConfirmedInPerson`, `SignOutReachesAll` |
| `services` | two request threads on Lambda, SNS, EventBridge, CloudWatch or API Gateway; failing writes, crashes | `ServicesTypeOK`, `RunsOnce`, `FanOutComplete`, `StandingRouteFound`, `RowsHaveOwners`, `WindowsAddUp`, `HistoryTellsState`, `VersionsImmutable` |

Bounds. Two processes are enough for every conflict between a process and
"another"; two threads in one of them compete for the lock. Two receivers are
enough for a stale snapshot, and a third would only be stale towards one of the
others. Three rows (`MaxIds`) hold a message, its copy in the DLQ and one more.
`CountCap` saturates counts above every `max_receive_count`: the code only
compares them with it. Handles are reused only when no row, receipt or request
knows them, which is what `uuid4` gives. `MaxBatch = 2` in `sqs_single` lets a
row of a batch go away between the SELECT and its UPDATE. Where two rows of
messages already have many interleavings (`sqs_drain`), batches are of one.

What the overlaps left out of `sqs_single` do is known: two receives that SELECT
before either UPDATEs hand one message out twice (`sqs.py:134`), two sends store
one deduplication id twice, and an acknowledged message no longer proves a later
send a duplicate (`sqs.py:103`, where README.md:176 promises deduplication within
the window). A redrive whose INSERT raises deletes the message all the same
(`sqs.py:185`): `swallowed` has these messages and only these, and `NoMessageLost`
and `LeftOnlyIfHandled` make no claim about them. `sqs_drain` has no failing writes,
`event_source` has them.

In `kinesis`, two records on two shards give a shard whose numbers have a gap;
one restart, purge or repeated request (`MaxTroubles`) may fall anywhere, and the
claims are about what one of them does. In `dynamodb`, two workers suffice for
"somebody else wrote to my item"; counters stay in `Numbers = {0, 1}`, an update
that leaves it is not taken further. Workers are interchangeable there, so
symmetry is used; the only temporal property is a safety one.

In `stores` and `services` the tables of the services are disjoint and no request
works on those of two (but SSM and KMS, which are one module), so a behaviour is
about one service, chosen at the start. Two workers are enough for an overlap of
any two requests; every property is about one row or one request and what others
do to it. A behaviour begins up to 4 requests (3 for Secrets Manager, Cognito,
CloudWatch and API Gateway, 2 for IAM and EventBridge, whose data directories
already hold what the first requests would make), so that a row is made, changed and
read back with another request in between. `MaxRequests` also bounds the numbers
that stand for ids and time. In `stepfunctions` two executions overlap, and
`MaxVisits = 2` stands for the 1000 of `_run_state`: the cycle comes to the limit.
Workers, policies, clients and rules are interchangeable where a symmetry set says so;
`VersionsImmutable`, checked with it, is a safety property that names none of them.

Fairness. `FairSpec` of `Storage` assumes that the thread inside the lock goes
on (the operating system schedules it and nothing in the block waits) and that a
thread waiting for the lock gets it if it is free again and again (strong:
`threading.Lock` is not handed over in order, so weak fairness would not be
enough, and starvation for ever is excluded, not delay). `FairSpec` of `SQS`
assumes that a request that has begun goes on, that receivers poll each
queue again and again, and that visibility timeouts run out. Acknowledgements,
sends and failures are never forced. `Spec` of `StepFunctions` assumes weak
fairness of the interpreters of a request: its threads are scheduled, and the
functions a Task invokes return or raise.

## 4. Proofs

All theorems hold for any number of threads, processes, queues, streams, tables and
messages, and for any bounds (`MaxRequests`, `MaxRecords`, `MaxVisits` and the others
are parameters of the modules). A proof file begins with the types, goes on with
the parts of the inductive invariant and lemmas about the operators they use, and
ends with the theorems; where an invariant was strengthened, TLC had checked the
stronger one before.

Some properties hold only of requests that do not overlap in a certain way. The
hypothesis of such a theorem is a state predicate that names this way, and it is
required of every state:

| hypothesis | no two ... | met by |
|---|---|---|
| `ReceivesApart` (`SQSProofs`) | `receive_messages` of one queue are between their SELECT and their last UPDATE (`sqs.py:134-153`) | a server with one receiver thread: `OneReceiverIsApart` |
| `SendsApart` (`SQSProofs`) | sends of one deduplication id to one queue are between the check and the INSERT (`sqs.py:103-117`) | one sender thread: `OneSenderIsApart` |
| `PutsApart` (`KinesisProofs`) | `put_record` for one stream are between `SELECT MAX(seq)` and the INSERT (`kinesis.py:158-162`) | one producer thread: `OneProducerIsApart` |

Everything else (other requests, other queues and streams, failing writes, crashes)
is free. `[][UNCHANGED queues]_vars` says that queues are not created, deleted or
given another policy while the claim is made; the queues there are (`InitialQueues`)
are arbitrary.

* `StorageProofs!StoreInvariant`: `Spec => []StoreInv`. `StoreInv` is
  inductive: the lock is held by exactly the thread that is inside a call
  (`LockHeld`), so pending writes are the one of that thread
  (`OwnWritePending`), and a writer's snapshot is the newest version
  (`OneWriter`); stale snapshots arise only in the window `StaleOnlyAfterRefusal`
  describes.
* `StorageProofs!StorageIsAtomic`: `Spec => ImplementsAtomicStore`. The mapping
  shows a call as its kind until its effect, then "done"; a write maps at
  `Commit`, a refused one at `ExecBusy`, everything else stutters. It needs
  `StoreInv` before and after the step.
* `SQSProofs!TypeCorrect`: `Spec => []TypeOK`, including `Assigned`: a request
  reads only what its earlier statements assigned.
* `SQSProofs!NeverLost`: `Spec => []NoMessageLost`, crashes and failing writes
  included. `NoMessageLost` is not inductive: the DELETE of a redrive needs the copy
  the INSERT made. The invariant `LostInv` adds that ids above `lastId` are unused
  (`IdsUsed`), that a candidate's body is its row's (`Snapshots`), and that a request
  about to DELETE has a younger copy or the message is settled or swallowed
  (`CopyMade`, `Excused`). It covers redrives racing each other, queue deletions and
  crashes.
* `SQSProofs!ReceiptsNameOne`: `Spec => []ReceiptNamesItsMessage`. `ReceiptInv`
  adds that candidates are rows of the queue the request reads (`Candidates`)
  and that ids are used in order.
* `SQSProofs!LeasesExclude`, `DeletedInTimeStaysOut`:
  `Spec /\ []ReceivesApart => []LeaseExclusive`, and the same for
  `DeletedInTimeIsFinal`. `ApartInv` adds that the row of a live receipt is hidden and
  has its handle (`LiveIsHidden`), that a candidate has no live receipt
  (`CandidatesFree`), that no row is a candidate of two receives (`CandidatesApart`) and
  that what was deleted in time is gone (`FinishedGone`).
* `SQSProofs!DeliveriesStayBounded`:
  `Spec /\ []ReceivesApart /\ [][UNCHANGED queues]_vars => []DeliveriesBounded`.
  `CountInv` ties the number of times a message was handed out to the count in its row
  (`CountsTrue`) and that to the count in the candidate as SELECTed (`CandidateCounts`).
* `SQSProofs!NoDuplicates`:
  `Spec /\ []SendsApart /\ []NoFifoDlq /\ [][UNCHANGED queues]_vars => []NoRecentDuplicate`.
  `DedupInv` adds that a send about to INSERT duplicates nothing (`NoDuplicateYet`).
  `NoFifoDlq` (no FIFO queue is another's dead-letter queue) is needed: a redrive copies
  the deduplication id past the check (`sqs.py:171-187`).
* `SQSProofs!ClientOfSQS`: `EventSourceSpec => Spec`. Every step of the
  composition is a step of `SQS` or leaves its variables alone, so the
  theorems about `SQS` hold of a queue that feeds a function.
* `SQSProofs!OnlyIfHandled`: `EventSourceSpec => []LeftOnlyIfHandled`.
  `NoMessageLost` leaves to show that what was settled was handled or discarded
  (`SettledSeen`). A poller settles the rows its receipts name when it deletes, and
  they may have changed since the invocation; `HandledRows` says that whatever row has
  a handle of a batch being deleted was handled. It is inductive because no step gives
  a row a handle somebody holds (`StepKeepsRows`), because of `ReceiptsNameOne` when
  the invocation returns, and because a thread acknowledges out of its own batch
  (`AckOwn`) of handles still held (`BatchHeld`).

* `DynamoDBProofs!TypeCorrect`: `Spec => []TypeOK`, together with `KindsOK`: at each
  step of a request the operation under way has the kind the step is for.
* `DynamoDBProofs!WritesAreAtomic`: `Spec => ImplementsAtomicTable`, table deletions,
  failing writes and crashes included. What remains of a request maps to the abstract
  request, phase 1 of a transaction to its checking; `Write` maps to the abstract step,
  the rest stutters or breaks off. A step needs `UpToDate`: what an undisturbed request has
  read of an item is still there, and its checks hold of it (`Checked`, `Started`). It
  is inductive because a write to the items of a request disturbs it.
* `KinesisProofs!TypeCorrect`: `Spec => []TypeOK`. `TypeInv` adds that an iterator
  that is open or in use names a stream and that an answer is a finite set of rows of
  different rank, so that `Ids` of it is a sequence.
* `KinesisProofs!IteratorsAreSpentOnce`: `Spec => []SpentOnce`. `SpentInv`: the old
  iterator of a request that is about to answer is closed, and no two such requests
  have the same.
* `KinesisProofs!NumbersIncreaseApart`:
  `Spec /\ []PutsApart => []MonotonicSequenceNumbers`, the property the run
  `kinesis_producers` refutes without the hypothesis. `MonoInv` adds that the number of a
  put about to INSERT is above all of its stream.
* `KinesisProofs!NothingIsSkipped`, `OnceAndInOrder`: `Spec /\ []PutsApart` implies
  `[]NothingSkipped` and `[]OnceInOrder`, with any number of restarts, lost answers, repeated
  requests, purges and consumers of the same shard. `ReadInv` has four parts on top of
  the three invariants above: a consumer waits for one request at a time (`Served`); an
  iterator id belongs to one consumer or one request (`Owned`); a request was asked for in an era of
  the stream, between two purges, that is the consumer's or a new one, and goes on after
  what the consumer has (`Eras`); and
  what an undisturbed consumer has got, together with the rows of the answer under way, is
  its shard up to the position of its iterator, in order (`Chains`). The step of `Chains`
  needs `MonoInv`: a record inserted later has a higher number than any read.
* `StepFunctionsProofs!RecordsCorrect`: `Spec => []RecordsOK`. `MachineInv`: on the
  machine of undisturbed requests only one is at work, its executions have
  it, a run or record of it finds it, and when the machine is about to be dropped it has
  no executions left.
* `StepFunctionsProofs!ParentsAlwaysWait`, `FailuresSurface`: `Spec => []ParentsWait`
  and `Spec => []FailedIfAnyRaised`, for any nesting of Parallel states. `LocalInv` says
  that the paths of interpreters form a tree closed under prefixes in which whatever is above
  another is joining (`Tree`; lemmas `TreeGoesOn`, `TreeForks`, `TreeJoins`), and
  that an interpreter has raised exactly if one that is still there has (`Marked`): a join
  removes those that raised only when it raises itself. When the root is over it is alone
  (`RootAlone`).

The services of `Stores` and `Services` share the bookkeeping of `Requests`; a step is
one of the service the behaviour is about (`ServiceStep`). `Apart`, part of most of
the invariants, says what `disturbed` is for: two requests under way that touch a row
have made it disturbed. An invariant for the rows that are not disturbed is then
inductive because a request is the only one at work on them, and because `Fails` and
`Crash` disturb the rows of what they break off. Some names of the constants
may not coincide, which the modules assume by name: what stands for "no row" is
no row (`ParameterAssumption`, `PoolAssumption`, `RowAssumption`), users, groups, roles
and policies have names of their own (`IdentityAssumption`: in the code they have tables,
or ARNs, of their own), a route is not empty (`RouteAssumption`), data points are dated
and periods last (`MetricsAssumption`), bounds are numbers (`BoundsAssumption`), and the id of an upload is not the place of an object
(`UploadAssumption`), and no version of a secret is what stands for none
(`SecretAssumption`).

* `StoresProofs!AnswersAreClear`: `Spec => []AnsweredInClear`. `ClearInv`: the type of
  a row is the one its key was stored with, unless the parameter was put
  with two types (`retyped`). Keys and aliases may change in any way.
* `StoresProofs!HistoryIsComplete`: `Spec => []HistoryComplete`. `HistoryInv` follows the
  phases of a put: before it writes the row, between the row and its history
  entry, and after it (`Followed`); versions of the entries are those up to the row's, or up
  to the one before while the entry is due (`Counted`).
* `StoresProofs!StandingPoliciesDecide`: `Spec => []StandingPoliciesCount`. `SimInv`: a source
  that had an effect all along since a simulation began has either been found or will
  still be looked at. What is attached and put meanwhile only adds sources.
* `StoresProofs!ConfirmedByVoucher`: `Spec => []ConfirmedInPerson`. The UPDATE comes
  after the check, so the property is not inductive: `VouchInv` adds what every
  request under way relies on: one that has still to run "update" names a user vouched
  for, one that has still to run "user" inserts a status other than CONFIRMED. Codes may
  be NULL in the rows and in the requests.
* `StoresProofs!SignOutIsFinal`: `Spec => []SignOutReachesAll`, of refresh tokens. `AccountInv` has the
  shape of rows and requests, for each name that tokens are later than its last
  sign-out, the one under way included (`SignedIn`), and for each pool that is gone or being
  dropped what is left in it (`Emptied`).
* `StoresProofs!NothingIsLeft`: `Spec => []NothingDangling`, by `AccountInv` for pools and
  `NameInv` and `RemainInv` for principals and policies. A deletion drops the row first and what
  names it after, so rows do dangle in between: `Left` and `Loose` say that what is left of
  a name that is gone is still owed a DELETE by a request under way, and that nobody
  else is about to add to it. Groups and roles drop different lists of tables;
  `Pending` speaks of a statement anywhere in what a request has still to do. `RemainInv`
  is about the tables that do ask nobody: what a principal that is gone still has, inline or
  attached, is owed a DELETE by the request that drops him (`Wiping`), or he was given it
  while he was not there (`unasked`).
* `VersionsProofs!VersionsAreLabelled`: `Spec => []OneLatestVersion`. While a put has
  cleared the label and not yet inserted its version no version is the latest, and while a
  deletion goes from the object to its versions there is no object. `Stage` says, by the
  next statement of the request at work on a place, which of these holds, and that
  the number a put is about to insert is above those there are; `Numbers`
  says that a number is of one version or of one put under way, whatever overlaps.
  That there is a newest version to promote is by well-founded induction on the numbers.
* `VersionsProofs!UploadsAreWhole`: `Spec => []MultipartWhole`, by the same invariant
  (`ObjectInv`): the parts of an upload are those given while its row is there
  (`Carried`), its completion carries the parts listed when they were SELECTed, and
  both are dropped before the request ends.
* `VersionsProofs!LabelsFollow`: `ServiceMovesPrevious => (Spec => []CurrentAndPrevious)`.
  `ServiceMovesPrevious` says that no client asks for `AWSPREVIOUS` itself, which
  `put_secret_value` would give to any version (`secretsmanager.py:139`); the labels are the service's
  own to move otherwise. `SecretStage` says, by the next statement of the request at work on a
  secret, where its labels are: with the last version made current (`Labelled`), with
  none while the new one is due (`Demoted`), and what the request has SELECTed is
  the current version with the labels it still has. A new version is dated
  after all there are, so the newest previous one is the last that was current.
* `ServicesProofs!StandingOnesTried`: `Spec => []FanOutComplete`. A subscriber there since
  the publish began, or a rule since the put of events and a target since the
  SELECT of its rule, has been tried, is in the list still to be tried, or will be
  SELECTed (`FanInv`, and the like for rules).
* `ServicesProofs!RouteIsFound`: `Spec => []StandingRouteFound`. `MatchInv`: a resource that
  matched all along is still to be looked for, is among the rows SELECTed, or has
  been preferred. Rows keep their route and ids are not taken twice (`RowsInv`).
* `ServicesProofs!InvocationsRunOnce`: `Spec => []RunsOnce`. `QueueInv`: the number of runs
  of an undisturbed invocation is 1 as soon as a request has run it and has not
  marked it, or its status says so, and 0 before; and no two requests have it.
* `ServicesProofs!NumbersKeepTheirCode`: `Spec => VersionsImmutable`, an action
  property: two publications that counted the same versions make the second INSERT fail.
* `ServicesProofs!HistoryTells`: `Spec => []HistoryTellsState`. `AlarmInv`: the newest entry
  of an undisturbed alarm is its state, except between the two statements of
  `set_alarm_state`, where the request under way has it.
* `ServicesProofs!WindowsSum`: `Spec => []WindowsAddUp`: the buckets of two adjoining windows,
  the first of whole periods, are those of the two as one (arithmetic of
  `//` and the bounds of a window, for any timestamps and period).
* `ServicesProofs!RowsAreOwned`: `Spec => []RowsHaveOwners`. `OwnersInv` is one invariant
  per service: subscriptions and topics (`TopicInv`), rules, targets and buses (`BusInv`), log
  events, streams and groups (`LogInv`), resources and APIs, of which one has a name
  and a route (`ApiInv`). A row without its owner is owed a DELETE by a request
  under way, as for names above.

What the proofs changed in the models: the history variable `patient` of `Kinesis` was
reset when a consumer resumed, and `NothingSkipped` turned out false with two
troubles, because the older request may still be answered; it is no longer reset.
`NothingDangling` was false of a client without a pool if `NoPool` might be one, hence
`PoolAssumption`. The compositions `Stores` and `Services` are modules of their own,
so that the theorems are about what the runs instantiate, and functions are changed
by `Also` or EXCEPT where the provers do not know `@@`. `PutDemote` UPDATEs by version id, which may be a row of
another secret by then if a token was used again; `reused` did not record that and
`CurrentAndPrevious` was false of the other secret. Some
definitions were given names the proofs needed, with the same meaning.

Only model-checked:

* liveness (`CallsReturn`, `PolicyDrains`, `ExecutionsEnd`), which is out of the prover's
  reach. It is checked where a request can go on for
  long (`Storage`, `SQS`, `StepFunctions`): elsewhere a request is a bounded sequence of
  statements, and its end follows from `CallsReturn`.
* `StoresTypeOK` and `ServicesTypeOK`: the proofs state the types they need in the shape
  part of each invariant (`NameShape`, `AccountShape`, `BusShape`, ...).

## 5. Not modelled

* Opening the database: schema script and column migrations (`storage.py:37-569`).
* `query_one` reads one row of a cursor and lets it go; it is treated as a
  query that is read to its end.
* Message bodies, attributes and group ids (group ids do not order deliveries in
  this code); wording of errors.
* DynamoDB: reads (they change nothing), TTL (it only hides items from reads),
  rounding of floats in ADD. `delete_table` empties the table and then drops it, so
  a put in between leaves an item (`dynamodb.py:92`); `update_item` may change the
  key attributes of an item that stays at its place (`:266`).
* Kinesis: one admin thread creates and deletes streams, two that delete one stream at
  once are not run; an iterator renewed while its stream is deleted survives into the next
  stream of that name (`kinesis.py:82`).
* S3: bodies, types and ETags; listings, presigned URLs. Deleting the newest version by its
  id promotes the one before it, but `s3_objects` keeps the old body
  (`s3.py:258-273`), and deleting the last version removes an object that was put while
  versioning was suspended (`:276`): `OneLatestVersion` speaks of versions, and of
  the object only that it is there.
* Secrets Manager: the description `update_secret` sets and the dates of a rotation.
* KMS: ciphers and data keys. SSM: values and paths.
* Cognito: passwords, attributes, signatures. `admin_delete_user` leaves refresh
  tokens; `SignOutReachesAll` is about sign-outs, and about refresh tokens, the only
  ones with a row. Access and id tokens are signed and dated, and `get_user` asks nothing
  else of them (`cognito.py:296-307`, `510-529`): one from before a `global_sign_out` is accepted
  after it until it expires, although `cognito.py:11` calls the operation "revoke tokens".
* Secrets Manager: the runs have no client that asks for `AWSPREVIOUS`, and the
  theorem excludes it; such a put would make any version the previous one.
* IAM: nothing keeps a policy from a principal that is not there (`unasked` above).
* Lambda: what a function does. Timeouts are stored by the code and not enforced.
* EventBridge: more than one entry per `put_events` or `put_targets` (entries are
  handled one after another), nested patterns, schedules.
* CloudWatch: values, units, dimensions; a batch of `put_metric_data` is stored up
  to a datum without a name (`cloudwatch.py:53`). Nothing evaluates alarms.
* Step Functions: data and paths. A state of an unknown type raises
  (`stepfunctions.py:174`) as a missing state does, which is in the runs. A name used again runs the
  execution before the INSERT refuses it (`stepfunctions.py:329`).
* SES appends mails and identities, each in one statement: no property would say
  more than the statement. The command line, entry points, client configuration
  and `livesearch.py` keep no state of their own; that the command line works on the
  same file is the second process of `Storage`.
* Real time: order of expiry is free, which covers every timing.

## 6. Plan

What is left, most useful first:

1. Proofs of the type invariants of `Stores` and `Services`.
2. Opening and migrating the database in `Storage` (`storage.py:560-569` passes over
   every exception, a busy file included).
3. SNS and EventBridge composed with `SQS`, as `EventSource` is.
4. An abstract versioned object that quiet requests of `S3` refine.
