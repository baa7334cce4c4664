------------------------------- MODULE Lambda -------------------------------
(***************************************************************************)
(* Functions, their versions and aliases, layers, and the asynchronous     *)
(* queue, src/openaws/lambdas.py.  A piece of code, or configuration, is   *)
(* the number of the request that brought it.  Synchronous invocations     *)
(* change no table; those an SQS queue triggers are in module EventSource. *)
(*                                                                         *)
(* Rows a request relies on: publications of a function share it, a        *)
(* deletion has it for itself, so the one touches <<n, t>>, the other all  *)
(* pairs with n.                                                           *)
(***************************************************************************)
EXTENDS Requests

CONSTANTS Functions, AliasNames, Layers, NoFunction

Numbers == 1 .. MaxRequests

Code == [source : Numbers, config : Numbers]  \* a row of lambda_functions

Invocation == [function : Functions, status : {"QUEUED", "SUCCEEDED", "FAILED"}]

VARIABLES
    callables,    \* _callables, in memory
    functions,    \* table lambda_functions
    published,    \* table lambda_versions, by function and number
    lambdaAliases,\* table lambda_aliases: the number
    layers,       \* table lambda_layers: the numbers
    invocations,  \* table lambda_async_queue, by id
    runs          \* history: how often each invocation was run

functionTables == <<functions, published, lambdaAliases>>
lambdavars == <<callables, functionTables, layers, invocations, runs>>
vars == <<requests, lambdavars>>

Rows == (Functions \X Workers) \cup ({"queue"} \X Numbers)

TypeOK ==
    /\ RequestsTypeOK(Rows)
    /\ callables \subseteq Functions
    /\ functions \in [Functions -> Code \cup {NoFunction}]
    /\ published \in [Functions -> [Numbers -> Code \cup {NoFunction}]]
    /\ lambdaAliases \in [Functions \X AliasNames -> Numbers \cup {0}]
    /\ layers \in [Layers -> SUBSET Numbers]
    /\ invocations \in [Numbers -> Invocation \cup {NoFunction}]
    /\ runs \in [Numbers -> Nat]

-----------------------------------------------------------------------------
Known(n) == n \in callables \/ functions[n] # NoFunction

Shared(n, t) == {<<n, t>>}

Exclusive(n) == {n} \X Workers

Ask(t, s) == Begin(t, s) /\ UNCHANGED lambdavars

On(n, rows, todo) == [todo |-> todo, touches |-> rows, function |-> n, at |-> begun + 1]

-----------------------------------------------------------------------------
(* Functions *)

RegisterCallable(t, n) ==
    /\ ~Known(n)
    /\ Begin(t, Idle)
    /\ callables' = callables \cup {n}
    /\ UNCHANGED <<functionTables, layers, invocations, runs>>

RegisterSourceCheck(t, n) == ~Known(n) /\ Ask(t, On(n, {}, <<"register">>))

(* The name is the primary key: a second INSERT of it raises. *)
RegisterSource(t) ==
    LET s == local[t] IN
    /\ Does(t, "register")
    /\ functions' = [functions EXCEPT ![s.function] =
                       IF @ = NoFunction THEN [source |-> s.at, config |-> s.at] ELSE @]
    /\ UNCHANGED <<callables, published, lambdaAliases, layers, invocations, runs>>

UpdateRequire(t, n) == functions[n] # NoFunction /\ Ask(t, On(n, {}, <<"configure">>))

UpdateConfiguration(t) ==
    LET s == local[t] IN
    /\ Does(t, "configure")
    /\ functions' = [functions EXCEPT ![s.function] =
                       IF @ = NoFunction THEN @ ELSE [@ EXCEPT !.config = s.at]]
    /\ UNCHANGED <<callables, published, lambdaAliases, layers, invocations, runs>>

DeleteCallable(t, n) ==
    /\ n \in callables
    /\ Begin(t, Idle)
    /\ callables' = callables \ {n}
    /\ UNCHANGED <<functionTables, layers, invocations, runs>>

DeleteRequire(t, n) ==
    /\ n \notin callables /\ functions[n] # NoFunction
    /\ Ask(t, On(n, Exclusive(n), <<"drop", "drop versions", "drop aliases">>))

Drop(t) ==
    /\ Does(t, "drop")
    /\ functions' = [functions EXCEPT ![local[t].function] = NoFunction]
    /\ UNCHANGED <<callables, published, lambdaAliases, layers, invocations, runs>>

DropVersions(t) ==
    /\ Does(t, "drop versions")
    /\ published' = [published EXCEPT ![local[t].function] = [v \in Numbers |-> NoFunction]]
    /\ UNCHANGED <<callables, functions, lambdaAliases, layers, invocations, runs>>

DropAliases(t) ==
    /\ Does(t, "drop aliases")
    /\ lambdaAliases' = [p \in Functions \X AliasNames |->
                           IF p[1] = local[t].function THEN 0 ELSE lambdaAliases[p]]
    /\ UNCHANGED <<callables, functions, published, layers, invocations, runs>>

-----------------------------------------------------------------------------
(* Versions *)

(* _function_row: what is going to be published. *)
PublishRequire(t, n) ==
    /\ functions[n] # NoFunction
    /\ Ask(t, Also(On(n, Shared(n, t), <<"count", "publish">>), [code |-> functions[n], version |-> 0]))

Versions(n) == {v \in Numbers : published[n][v] # NoFunction}

PublishCount(t) ==
    LET s == local[t] IN
    /\ At(t, "count")
    /\ Continue(t, [s EXCEPT !.todo = Tail(@), !.version = Cardinality(Versions(s.function)) + 1])
    /\ UNCHANGED lambdavars

(* Mutant: the row of an earlier publication is replaced. *)
PublishReplace(t) ==
    LET s == local[t] IN
    /\ Does(t, "publish")
    /\ published' = [published EXCEPT ![s.function][s.version] = s.code]
    /\ UNCHANGED <<callables, functions, lambdaAliases, layers, invocations, runs>>

(* Function and number are the primary key. *)
Publish(t) ==
    LET s == local[t] IN
    /\ Does(t, "publish")
    /\ published' = [published EXCEPT ![s.function][s.version] =
                       IF @ = NoFunction THEN s.code ELSE @]
    /\ UNCHANGED <<callables, functions, lambdaAliases, layers, invocations, runs>>

-----------------------------------------------------------------------------
(* Aliases.  The number is not looked up. *)

OnAlias(n, a, v, todo) == Also(On(n, {}, todo), [alias |-> <<n, a>>, version |-> v])

CreateAliasCheck(t, n, a, v) ==
    Known(n) /\ lambdaAliases[<<n, a>>] = 0 /\ Ask(t, OnAlias(n, a, v, <<"create alias">>))

CreateAlias(t) ==
    LET s == local[t] IN
    /\ Does(t, "create alias")
    /\ lambdaAliases' = [lambdaAliases EXCEPT ![s.alias] = IF @ = 0 THEN s.version ELSE @]
    /\ UNCHANGED <<callables, functions, published, layers, invocations, runs>>

(* update_alias, and with 0 delete_alias. *)
ChangeAliasCheck(t, n, a, v) ==
    lambdaAliases[<<n, a>>] # 0 /\ Ask(t, OnAlias(n, a, v, <<"change alias">>))

ChangeAlias(t) ==
    LET s == local[t] IN
    /\ Does(t, "change alias")
    /\ lambdaAliases' = [lambdaAliases EXCEPT ![s.alias] = IF @ = 0 THEN @ ELSE s.version]
    /\ UNCHANGED <<callables, functions, published, layers, invocations, runs>>

-----------------------------------------------------------------------------
(* Layers.  Name and number are the primary key. *)

(* One more than the version that comes first in descending order, or 1.   *)
NextLayer(y) == CHOOSE v \in 1 .. MaxRequests + 1 :
                   v - 1 \in layers[y] \cup {0} /\ \A w \in layers[y] : w < v

AddLayerSelect(t, y) ==
    Ask(t, [todo |-> <<"layer">>, touches |-> {}, layer |-> y, version |-> NextLayer(y)])

AddLayer(t) ==
    /\ Does(t, "layer")
    /\ layers' = [layers EXCEPT ![local[t].layer] = @ \cup {local[t].version}]
    /\ UNCHANGED <<callables, functionTables, invocations, runs>>

-----------------------------------------------------------------------------
(* The asynchronous queue *)

InvokeAsyncRequire(t, n) == Known(n) /\ Ask(t, On(n, {}, <<"queue">>))

InvokeAsync(t) ==
    LET s == local[t] IN
    /\ Does(t, "queue")
    /\ invocations' = [invocations EXCEPT ![s.at] = [function |-> s.function, status |-> "QUEUED"]]
    /\ UNCHANGED <<callables, functionTables, layers, runs>>

Queued(n) == {i \in Numbers : /\ invocations[i] # NoFunction
                              /\ invocations[i].status = "QUEUED"
                              /\ invocations[i].function = n}

(* process_async_queue of the functions in N; created_at is in the order   *)
(* of the ids.                                                             *)
ProcessSelect(t, N) ==
    LET ids == UNION {Queued(n) : n \in N} IN
    /\ ids # {}
    /\ Ask(t, [todo |-> <<"run">>, touches |-> {"queue"} \X ids, ids |-> ids, status |-> "QUEUED"])

First(ids) == CHOOSE i \in ids : \A j \in ids : i <= j

(* _resolve and the call: a function that raises, or has gone, FAILED.     *)
ProcessRun(t) ==
    LET s == local[t]
        i == First(s.ids)
    IN  /\ At(t, "run")
        /\ \E status \in {"SUCCEEDED", "FAILED"} :
              /\ Known(invocations[i].function) \/ status = "FAILED"
              /\ Continue(t, [s EXCEPT !.todo = <<"mark">>, !.status = status])
        /\ runs' = [runs EXCEPT ![i] = @ + 1]
        /\ UNCHANGED <<callables, functionTables, layers, invocations>>

(* Mutant: a failed invocation stays in the queue. *)
ProcessMarkIfSucceeded(t) ==
    LET s == local[t]
        i == First(s.ids)
    IN  /\ At(t, "mark")
        /\ invocations' = [invocations EXCEPT ![i].status =
                             IF s.status = "FAILED" THEN @ ELSE s.status]
        /\ IF s.ids = {i} THEN Ends(t)
           ELSE Continue(t, [s EXCEPT !.todo = <<"run">>, !.ids = @ \ {i}])
        /\ UNCHANGED <<callables, functionTables, layers, runs>>

(* UPDATE ... SET status, then the next one. *)
ProcessMark(t) ==
    LET s == local[t]
        i == First(s.ids)
    IN  /\ At(t, "mark")
        /\ invocations' = [invocations EXCEPT ![i].status = s.status]
        /\ IF s.ids = {i} THEN Ends(t)
           ELSE Continue(t, [s EXCEPT !.todo = <<"run">>, !.ids = @ \ {i}])
        /\ UNCHANGED <<callables, functionTables, layers, runs>>

-----------------------------------------------------------------------------
InitTables ==
    /\ callables = {}
    /\ functions = [n \in Functions |-> NoFunction]
    /\ published = [n \in Functions |-> [v \in Numbers |-> NoFunction]]
    /\ lambdaAliases = [p \in Functions \X AliasNames |-> 0]
    /\ layers = [y \in Layers |-> {}]
    /\ invocations = [i \in Numbers |-> NoFunction]
    /\ runs = [i \in Numbers |-> 0]

Init == InitRequests /\ InitTables

Serve(t) ==
    \/ \E n \in Functions :
          \/ RegisterCallable(t, n) \/ RegisterSourceCheck(t, n) \/ UpdateRequire(t, n)
          \/ DeleteCallable(t, n) \/ DeleteRequire(t, n)
          \/ PublishRequire(t, n) \/ InvokeAsyncRequire(t, n)
          \/ \E a \in AliasNames : \/ CreateAliasCheck(t, n, a, 1)
                                   \/ \E v \in {0, 2} : ChangeAliasCheck(t, n, a, v)
    \/ \E y \in Layers : AddLayerSelect(t, y)
    \/ \E N \in {{n} : n \in Functions} \cup {Functions} : ProcessSelect(t, N)
    \/ RegisterSource(t) \/ UpdateConfiguration(t) \/ Drop(t) \/ DropVersions(t) \/ DropAliases(t)
    \/ PublishCount(t) \/ Publish(t) \/ CreateAlias(t) \/ ChangeAlias(t) \/ AddLayer(t)
    \/ InvokeAsync(t) \/ ProcessRun(t) \/ ProcessMark(t)

(* Callables do not outlive the process. *)
Restart == Crash /\ callables' = {} /\ UNCHANGED <<functionTables, layers, invocations, runs>>

Next ==
    \/ \E t \in Workers : Serve(t) \/ (Fails(t) /\ UNCHANGED lambdavars)
    \/ Restart

Spec == Init /\ [][Next]_vars

-----------------------------------------------------------------------------
(* Properties *)

(* lambdas.py:139-151 and 199-215: what a number names never changes while *)
(* the function is there, however publications overlap.                    *)
VersionsImmutable ==
    [][\A n \in Functions : \A v \in Versions(n) :
          published'[n][v] \in {published[n][v], NoFunction}]_vars

(* lambdas.py:320-351: an invocation that no two requests processed, or    *)
(* half processed, ran once if its status says so and otherwise not yet.   *)
RunsOnce ==
    \A i \in Numbers : invocations[i] # NoFunction /\ Quiet(<<"queue", i>>) =>
        runs[i] = IF invocations[i].status = "QUEUED" THEN 0 ELSE 1
=============================================================================
