---------------------------- MODULE StoresProofs ----------------------------
(* Theorems about the services of module Stores, for every value of their  *)
(* constants.                                                              *)
EXTENDS Stores, FiniteSetTheorems, TLAPS

-----------------------------------------------------------------------------
(* A step of the server is one of the service the behaviour is about.      *)
LEMMA ServiceStep ==
  ASSUME [Next]_vars
  PROVE  /\ service' = service
         /\ service = "s3" => [Store!Next]_(Store!vars)
         /\ service = "secretsmanager" => [Secret!Next]_(Secret!vars)
         /\ service = "ssm" => [Param!Next]_(Param!vars)
         /\ service = "iam" => [Identity!Next]_(Identity!vars)
         /\ service = "cognito" => [Pool!Next]_(Pool!vars)
<1>1. CASE Next
  BY <1>1 DEF Next
<1>2. CASE UNCHANGED vars
  <2>1. UNCHANGED <<service, requests, s3vars, smvars, ssmvars, iamvars, cognitovars>>
    BY <1>2 DEF vars
  <2>2. UNCHANGED Store!vars
    BY <2>1 DEF s3vars, requests, Store!vars, Store!s3vars, Store!tables, Store!objectTables,
                Store!uploadTables, Store!requests
  <2>3. UNCHANGED Secret!vars
    BY <2>1 DEF smvars, requests, Secret!vars, Secret!smvars, Secret!requests
  <2>4. UNCHANGED Param!vars
    BY <2>1 DEF ssmvars, requests, Param!vars, Param!kmsvars, Param!ssmvars, Param!requests
  <2>5. UNCHANGED Identity!vars
    BY <2>1 DEF iamvars, requests, Identity!vars, Identity!iamvars, Identity!tables,
                Identity!identities, Identity!permissions, Identity!requests
  <2>6. UNCHANGED Pool!vars
    BY <2>1 DEF cognitovars, requests, Pool!vars, Pool!cognitovars, Pool!tables, Pool!requests
  <2>. QED BY <2>1, <2>2, <2>3, <2>4, <2>5, <2>6
<1>. QED BY <1>1, <1>2

-----------------------------------------------------------------------------
(* What a step does to the requests under way, whatever bounds their       *)
(* number.                                                                 *)
Begins(t, s) ==
    /\ local[t] = Idle
    /\ begun' = begun + 1
    /\ local' = [local EXCEPT ![t] = s]
    /\ disturbed' = disturbed \cup {row \in s.touches : \E u \in Workers : row \in local[u].touches}

Goes(t, s) ==
    /\ local' = [local EXCEPT ![t] = IF s.todo = <<>> THEN Idle ELSE s]
    /\ UNCHANGED <<begun, disturbed>>

Breaks ==
    /\ \A u \in Workers : \/ local'[u] = local[u]
                          \/ local'[u] = Idle /\ local[u].touches \subseteq disturbed'
    /\ local' = [u \in Workers |-> local'[u]]
    /\ disturbed \subseteq disturbed' /\ begun' = begun

Threads == local = [t \in Workers |-> local[t]]

(* Where no two requests overlapped, at most one is at work on a row.      *)
Apart ==
    \A t, u \in Workers : t # u => local[t].touches \cap local[u].touches \subseteq disturbed

(* t is the only thread whose request changes. *)
Only(t, s) == \A u \in Workers : local'[u] = IF u = t THEN s ELSE local[u]

Rest(s) == [s EXCEPT !.todo = Tail(@)]

LEMMA BeginsOnly ==
  ASSUME Threads, NEW t \in Workers, NEW s, Begins(t, s)
  PROVE  Threads' /\ Only(t, s)
  BY DEF Threads, Only, Begins

LEMMA GoesOnly ==
  ASSUME Threads, NEW t \in Workers, NEW s, Goes(t, s)
  PROVE  Threads' /\ Only(t, IF s.todo = <<>> THEN Idle ELSE s)
  BY DEF Threads, Only, Goes

LEMMA BreaksThreads == ASSUME Breaks PROVE Threads'
  BY DEF Breaks, Threads

LEMMA BeginsApart ==
  ASSUME Apart, Threads, NEW t \in Workers, NEW s, Begins(t, s)
  PROVE  Apart'
<1>1. Only(t, s)
  BY BeginsOnly
<1>. QED BY <1>1 DEF Apart, Only, Begins

LEMMA GoesApart ==
  ASSUME Apart, Threads, NEW t \in Workers, NEW s, Goes(t, s), s.touches \subseteq local[t].touches
  PROVE  Apart'
<1> DEFINE r == IF s.todo = <<>> THEN Idle ELSE s
<1>1. Only(t, r) /\ disturbed' = disturbed
  BY GoesOnly DEF Goes
<1>2. r.touches \subseteq local[t].touches
  BY DEF Idle
<1>. QED BY <1>1, <1>2 DEF Apart, Only

LEMMA BreaksApart == ASSUME Apart, Breaks PROVE Apart'
  BY DEF Apart, Breaks, Idle

(* Sequences of steps. *)
LEMMA Tails ==
  /\ \A a : <<a>> # <<>> /\ Head(<<a>>) = a /\ Tail(<<a>>) = <<>>
  /\ \A a, b : <<a, b>> # <<>> /\ Head(<<a, b>>) = a /\ Tail(<<a, b>>) = <<b>>
  /\ \A a, b, c : <<a, b, c>> # <<>> /\ Head(<<a, b, c>>) = a /\ Tail(<<a, b, c>>) = <<b, c>>
  /\ \A a, b, c, d : <<a, b, c, d>> # <<>> /\ Head(<<a, b, c, d>>) = a /\ Tail(<<a, b, c, d>>) = <<b, c, d>>
<1>1. \A a : <<a>> # <<>> /\ Head(<<a>>) = a /\ Tail(<<a>>) = <<>>
  OBVIOUS
<1>2. \A a, b : <<a, b>> # <<>> /\ Head(<<a, b>>) = a /\ Tail(<<a, b>>) = <<b>>
  OBVIOUS
<1>3. \A a, b, c : <<a, b, c>> # <<>> /\ Head(<<a, b, c>>) = a /\ Tail(<<a, b, c>>) = <<b, c>>
  OBVIOUS
<1>4. \A a, b, c, d : <<a, b, c, d>> # <<>> /\ Head(<<a, b, c, d>>) = a /\ Tail(<<a, b, c, d>>) = <<b, c, d>>
  OBVIOUS
<1>. QED BY <1>1, <1>2, <1>3, <1>4

LEMMA RestFields ==
  ASSUME NEW s, "todo" \in DOMAIN s
  PROVE  /\ DOMAIN Rest(s) = DOMAIN s /\ Rest(s).todo = Tail(s.todo)
         /\ \A x \in DOMAIN s : x # "todo" => Rest(s)[x] = s[x]
  BY DEF Rest

-----------------------------------------------------------------------------
(* SSM: a row has the key its value is encrypted under and, unless it was  *)
(* put with two types, the type that goes with it.                         *)
ParamRow(row) ==
    /\ row = [stored |-> [value |-> row.stored.value, key |-> row.stored.key], type |-> row.type,
              key |-> row.key, version |-> row.version]
    /\ row.key = row.stored.key

ClearInv ==
    /\ parameters = [n \in Parameters |-> parameters[n]]
    /\ \A n \in Parameters : parameters[n] # NoParameter =>
          /\ ParamRow(parameters[n])
          /\ n \notin retyped => parameters[n].type = Param!TypeOf(parameters[n].stored.key)

LEMMA ClearSame ==
  ASSUME ClearInv, parameters' = parameters, retyped' = retyped
  PROVE  ClearInv'
  BY DEF ClearInv

LEMMA ClearInsert ==
  ASSUME ClearInv, NEW t \in Workers, Param!PutInsert(t)
  PROVE  ClearInv'
<1> DEFINE s == local[t]
           new == [stored |-> Param!StoredValue(s), type |-> Param!TypeOf(s.key), key |-> s.key,
                   version |-> s.version]
<1>1. retyped' = retyped /\ (parameters' = parameters \/ parameters' = [parameters EXCEPT ![s.name] = new])
  BY DEF Param!PutInsert
<1>2. ParamRow(new) /\ new.type = Param!TypeOf(new.stored.key)
  BY DEF ParamRow, Param!StoredValue
<1>3. CASE parameters' = parameters
  BY <1>1, <1>3, ClearSame
<1>4. CASE parameters' = [parameters EXCEPT ![s.name] = new]
  <2>1. parameters' = [n \in Parameters |-> IF n = s.name THEN new ELSE parameters[n]]
    BY <1>4 DEF ClearInv
  <2>. QED BY <1>1, <1>2, <2>1 DEF ClearInv
<1>. QED BY <1>1, <1>3, <1>4

Rewritten(row, s) ==
    [row EXCEPT !.stored = Param!StoredValue(s), !.key = s.key, !.version = s.version]

LEMMA RowRewritten ==
  ASSUME NEW row, ParamRow(row), NEW s
  PROVE  Rewritten(row, s) = [stored |-> Param!StoredValue(s), type |-> row.type, key |-> s.key,
                              version |-> s.version]
<1> DEFINE r == Rewritten(row, s)
<1>1. DOMAIN row = {"stored", "type", "key", "version"}
  BY DEF ParamRow
<1>2. /\ r = [x \in {"stored", "type", "key", "version"} |-> r[x]]
      /\ r.stored = Param!StoredValue(s) /\ r.key = s.key /\ r.version = s.version
      /\ r.type = row.type
  BY <1>1 DEF Rewritten
<1> HIDE DEF r
<1>3. r = [stored |-> Param!StoredValue(s), type |-> row.type, key |-> s.key, version |-> s.version]
  BY <1>2
<1>. QED BY <1>3 DEF r

LEMMA ClearUpdate ==
  ASSUME ClearInv, NEW t \in Workers, Param!PutUpdate(t)
  PROVE  ClearInv'
<1> DEFINE s == local[t]
           row == parameters[s.name]
           new == Rewritten(row, s)
<1>1. CASE row = NoParameter \/ s.name \notin Parameters
  <2>1. parameters' = parameters /\ (s.name \in Parameters => retyped' = retyped)
    BY <1>1 DEF Param!PutUpdate, ClearInv
  <2>2. \A n \in Parameters : n \notin retyped' => n \notin retyped
    BY <1>1, <2>1 DEF Param!PutUpdate
  <2>. QED BY <2>1, <2>2 DEF ClearInv
<1>2. CASE row # NoParameter /\ s.name \in Parameters
  <2>1. parameters' = [parameters EXCEPT ![s.name] = new]
    BY <1>2 DEF Param!PutUpdate, ClearInv, Rewritten
  <2>2. retyped' = IF row.type = Param!TypeOf(s.key) THEN retyped ELSE retyped \cup {s.name}
    BY <1>2 DEF Param!PutUpdate
  <2>3. new = [stored |-> Param!StoredValue(s), type |-> row.type, key |-> s.key, version |-> s.version]
    <3>1. ParamRow(row)
      BY <1>2 DEF ClearInv
    <3>. QED BY <3>1, RowRewritten
  <2>4. ParamRow(new) /\ (s.name \notin retyped' => new.type = Param!TypeOf(new.stored.key))
    BY <2>2, <2>3 DEF ParamRow, Param!StoredValue
  <2>5. parameters' = [n \in Parameters |-> IF n = s.name THEN new ELSE parameters[n]]
    BY <2>1 DEF ClearInv
  <2>. QED BY <2>2, <2>4, <2>5 DEF ClearInv
<1>. QED BY <1>1, <1>2

LEMMA ClearNext ==
  ASSUME ClearInv, [Param!Next]_(Param!vars)
  PROVE  ClearInv'
<1>1. CASE \E t \in Workers : Param!PutInsert(t)
  BY <1>1, ClearInsert
<1>2. CASE \E t \in Workers : Param!PutUpdate(t)
  BY <1>2, ClearUpdate
<1>3. CASE \E t \in Workers : Param!Delete(t)
  <2>1. PICK t \in Workers : Param!Delete(t)
    BY <1>3
  <2>2. /\ parameters' = [n \in Parameters |-> IF n = local[t].name THEN NoParameter ELSE parameters[n]]
        /\ retyped' = retyped
    BY <2>1 DEF Param!Delete, ClearInv
  <2>. QED BY <2>2 DEF ClearInv
<1>4. CASE UNCHANGED <<parameters, retyped>>
  BY <1>4, ClearSame
<1>. QED BY <1>1, <1>2, <1>3, <1>4
         DEF Param!Next, Param!vars, Param!ssmvars, Param!Serve, Param!DeleteSelect, Param!PutSelect,
             Param!PutEncrypt, Param!PutHistory, Param!PutTag

LEMMA ClearInit == Param!InitTables => ClearInv
  BY DEF Param!InitTables, ClearInv

(* ssm.py:53-98, 138-155: whatever requests overlap and wherever they      *)
(* break off, a parameter is answered in clear as long as its key is       *)
(* enabled and it was always put with one type.                            *)
THEOREM AnswersAreClear == Spec => []AnsweredInClear
<1> DEFINE Inv == service = "ssm" => ClearInv
<1>1. Init => Inv
  BY ClearInit DEF Init
<1>2. Inv /\ [Next]_vars => Inv'
  <2> SUFFICES ASSUME Inv, [Next]_vars, service' = "ssm" PROVE ClearInv'
    OBVIOUS
  <2>. QED BY ServiceStep, ClearNext
<1>3. Inv => AnsweredInClear
  <2> SUFFICES ASSUME ClearInv, NEW n \in Parameters \ retyped, parameters[n] # NoParameter,
                      parameters[n].stored.key = NoKey \/ Param!Usable(parameters[n].stored.key)
               PROVE  Param!Answer(parameters[n]) = [value |-> parameters[n].stored.value, key |-> NoKey]
    BY DEF AnsweredInClear, Param!AnsweredInClear
  <2> DEFINE row == parameters[n]
  <2>1. /\ row.stored = [value |-> row.stored.value, key |-> row.stored.key]
        /\ row.key = row.stored.key /\ row.type = Param!TypeOf(row.stored.key)
    BY DEF ClearInv, ParamRow
  <2>2. CASE row.stored.key = NoKey
    BY <2>1, <2>2 DEF Param!Answer, Param!TypeOf
  <2>3. CASE row.stored.key # NoKey
    BY <2>1, <2>3 DEF Param!Answer, Param!TypeOf
  <2>. QED BY <2>2, <2>3
<1>. QED BY <1>1, <1>2, <1>3, PTL DEF Spec

LEMMA ParamRequests ==
  /\ \A t, s : Param!Begin(t, s) => Begins(t, s)
  /\ \A t, s : Param!Continue(t, s) => Goes(t, s)
  /\ \A t : Param!Advance(t) => Goes(t, Rest(local[t]))
  /\ \A t : Param!Ends(t) => Goes(t, Idle)
  /\ Threads /\ (Param!Crash \/ \E t \in Workers : Param!Fails(t)) => Breaks
<1>1. /\ \A t, s : Param!Begin(t, s) => Begins(t, s)
      /\ \A t, s : Param!Continue(t, s) => Goes(t, s)
  BY DEF Param!Begin, Begins, Param!Continue, Goes, Idle, Param!Idle
<1>2. /\ \A t : Param!Advance(t) => Goes(t, Rest(local[t]))
      /\ \A t : Param!Ends(t) => Goes(t, Idle)
  BY <1>1 DEF Param!Advance, Rest, Param!Ends, Idle, Param!Idle
<1>3. ASSUME Threads, NEW S, Param!BreakOff(S) PROVE Breaks
  <2>1. /\ local' = [u \in Workers |-> IF u \in S THEN Idle ELSE local[u]]
        /\ disturbed' = disturbed \cup UNION {local[u].touches : u \in S} /\ begun' = begun
    BY <1>3 DEF Param!BreakOff, Idle, Param!Idle
  <2>2. \A u \in S : local[u].touches \subseteq disturbed'
    BY <2>1
  <2>. QED BY <2>1, <2>2 DEF Breaks
<1>. QED BY <1>1, <1>2, <1>3 DEF Param!Crash, Param!Fails

-----------------------------------------------------------------------------
(* The history of parameters.                                              *)
ToInsert == {<<"encrypt", "insert", "history">>, <<"encrypt", "insert", "history", "tag">>,
             <<"insert", "history">>, <<"insert", "history", "tag">>}
ToUpdate == {<<"encrypt", "update", "history">>, <<"encrypt", "update", "history", "tag">>,
             <<"update", "history">>, <<"update", "history", "tag">>}
ToRecord == {<<"history">>, <<"history", "tag">>}
ToEnd == {<<"tag">>, <<"delete">>}

ParamLocal(s) ==
    /\ {"todo", "touches"} \subseteq DOMAIN s
    /\ \/ s.touches = {} /\ s.todo \in {<<>>, <<"state">>, <<"rotation">>, <<"alias">>}
       \/ /\ s.todo \in ToInsert \cup ToUpdate \cup ToRecord \cup ToEnd
          /\ "name" \in DOMAIN s /\ s.name \in Parameters /\ s.touches = {s.name}
          /\ s.todo # <<"delete">> =>
                /\ {"value", "key", "version"} \subseteq DOMAIN s
                /\ s.value \in Nat /\ s.key \in KeyIds \cup {NoKey} /\ s.version \in Nat

(* P and E are the tables; the history of n has the versions up to k.      *)
Mine(n, E) == {e \in E : e.name = n}

Recorded(n, E, k) ==
    /\ IsFiniteSet(Mine(n, E)) /\ Cardinality(Mine(n, E)) = k
    /\ {e.version : e \in Mine(n, E)} = 1 .. k

Complete(n, P, E) ==
    IF P[n] = NoParameter THEN Mine(n, E) = {}
    ELSE /\ P[n].version \in Nat /\ Recorded(n, E, P[n].version)
         /\ \E e \in Mine(n, E) : e.version = P[n].version /\ e.stored = P[n].stored

(* What an undisturbed request relies on for what it has still to do.      *)
Phase(n, P, E, s) ==
    /\ s.todo \in ToInsert => P[n] = NoParameter /\ Mine(n, E) = {} /\ s.version = 1
    /\ s.todo \in ToUpdate => /\ P[n] # NoParameter /\ Complete(n, P, E)
                              /\ s.version = P[n].version + 1
    /\ s.todo \in ToRecord => /\ P[n] # NoParameter /\ P[n].version = s.version
                              /\ P[n].stored = Param!StoredValue(s)
                              /\ s.version \in Nat \ {0} /\ Recorded(n, E, s.version - 1)
    /\ s.todo \in ToEnd => Complete(n, P, E)

Followed(n) ==
    /\ (\A t \in Workers : n \notin local[t].touches) => Complete(n, parameters, entries)
    /\ \A t \in Workers : n \in local[t].touches => Phase(n, parameters, entries, local[t])

Counted ==
    /\ begun \in Nat
    /\ \A n \in Parameters : parameters[n] # NoParameter =>
          parameters[n].version \in Nat /\ parameters[n].type \in {"String", "SecureString"}

TablesInv == ClearInv /\ Counted

HistoryInv ==
    /\ Threads /\ Apart
    /\ \A t \in Workers : ParamLocal(local[t])
    /\ TablesInv
    /\ \A n \in Parameters : n \notin deleted \cup disturbed => Followed(n)

LEMMA ParamTodos ==
  /\ \A w \in ToInsert : /\ w # <<>> /\ Head(w) \in {"encrypt", "insert"}
                         /\ Head(w) = "encrypt" => Tail(w) \in ToInsert
                         /\ Head(w) = "insert" => Tail(w) \in ToRecord
  /\ \A w \in ToUpdate : /\ w # <<>> /\ Head(w) \in {"encrypt", "update"}
                         /\ Head(w) = "encrypt" => Tail(w) \in ToUpdate
                         /\ Head(w) = "update" => Tail(w) \in ToRecord
  /\ \A w \in ToRecord : w # <<>> /\ Head(w) = "history" /\ Tail(w) \in {<<>>, <<"tag">>}
  /\ \A w \in ToEnd : w # <<>> /\ Head(w) \in {"tag", "delete"} /\ Tail(w) = <<>>
  /\ \A w \in {<<"state">>, <<"rotation">>, <<"alias">>} :
        w # <<>> /\ Head(w) \in {"state", "rotation", "alias"} /\ Tail(w) = <<>>
<1>1. \A w \in ToInsert : /\ w # <<>> /\ Head(w) \in {"encrypt", "insert"}
                          /\ Head(w) = "encrypt" => Tail(w) \in ToInsert
                          /\ Head(w) = "insert" => Tail(w) \in ToRecord
  <2> SUFFICES ASSUME NEW w \in ToInsert
               PROVE  /\ w # <<>> /\ Head(w) \in {"encrypt", "insert"}
                      /\ Head(w) = "encrypt" => Tail(w) \in ToInsert
                      /\ Head(w) = "insert" => Tail(w) \in ToRecord
    OBVIOUS
  <2>1. CASE w = <<"encrypt", "insert", "history">>
    BY <2>1, Tails DEF ToInsert
  <2>2. CASE w = <<"encrypt", "insert", "history", "tag">>
    BY <2>2, Tails DEF ToInsert
  <2>3. CASE w = <<"insert", "history">>
    BY <2>3, Tails DEF ToRecord
  <2>4. CASE w = <<"insert", "history", "tag">>
    BY <2>4, Tails DEF ToRecord
  <2>. QED BY <2>1, <2>2, <2>3, <2>4 DEF ToInsert
<1>2. \A w \in ToUpdate : /\ w # <<>> /\ Head(w) \in {"encrypt", "update"}
                          /\ Head(w) = "encrypt" => Tail(w) \in ToUpdate
                          /\ Head(w) = "update" => Tail(w) \in ToRecord
  <2> SUFFICES ASSUME NEW w \in ToUpdate
               PROVE  /\ w # <<>> /\ Head(w) \in {"encrypt", "update"}
                      /\ Head(w) = "encrypt" => Tail(w) \in ToUpdate
                      /\ Head(w) = "update" => Tail(w) \in ToRecord
    OBVIOUS
  <2>1. CASE w = <<"encrypt", "update", "history">>
    BY <2>1, Tails DEF ToUpdate
  <2>2. CASE w = <<"encrypt", "update", "history", "tag">>
    BY <2>2, Tails DEF ToUpdate
  <2>3. CASE w = <<"update", "history">>
    BY <2>3, Tails DEF ToRecord
  <2>4. CASE w = <<"update", "history", "tag">>
    BY <2>4, Tails DEF ToRecord
  <2>. QED BY <2>1, <2>2, <2>3, <2>4 DEF ToUpdate
<1>3. \A w \in ToRecord : w # <<>> /\ Head(w) = "history" /\ Tail(w) \in {<<>>, <<"tag">>}
  BY Tails, ZenonT(30) DEF ToRecord
<1>4. \A w \in ToEnd : w # <<>> /\ Head(w) \in {"tag", "delete"} /\ Tail(w) = <<>>
  BY Tails DEF ToEnd
<1>5. \A w \in {<<"state">>, <<"rotation">>, <<"alias">>} :
         w # <<>> /\ Head(w) \in {"state", "rotation", "alias"} /\ Tail(w) = <<>>
  BY Tails
<1>. QED BY <1>1, <1>2, <1>3, <1>4, <1>5

LEMMA TodosApart ==
  ASSUME NEW w
  PROVE  /\ w \in ToInsert => w \notin ToUpdate \cup ToRecord \cup ToEnd
         /\ w \in ToUpdate => w \notin ToRecord \cup ToEnd
         /\ w \in ToRecord => w \notin ToEnd
         /\ w = <<"tag">> => w \in ToEnd
         /\ w = <<>> => w \notin ToInsert \cup ToUpdate \cup ToRecord \cup ToEnd
<1>1. w \in ToInsert => w \notin ToUpdate
  BY DEF ToInsert, ToUpdate
<1>2. w \in ToEnd => w \in {<<"tag">>, <<"delete">>}
  BY DEF ToEnd
<1>. QED BY <1>1, <1>2, ParamTodos DEF ToEnd

LEMMA PhaseSame ==
  ASSUME NEW n, NEW P, NEW Q, NEW E, NEW F, P[n] = Q[n], Mine(n, E) = Mine(n, F)
  PROVE  /\ Complete(n, P, E) => Complete(n, Q, F)
         /\ \A s : Phase(n, P, E, s) => Phase(n, Q, F, s)
  BY DEF Complete, Phase, Recorded

LEMMA HistoryStep ==
  ASSUME HistoryInv, NEW t \in Workers, NEW r, Only(t, r), Threads', Apart', ParamLocal(r), TablesInv',
         deleted \subseteq deleted', disturbed \subseteq disturbed',
         \A n \in Parameters : n \notin deleted' \cup disturbed' =>
            IF n \in r.touches THEN Phase(n, parameters', entries', r)
            ELSE IF n \in local[t].touches THEN Complete(n, parameters', entries')
            ELSE parameters'[n] = parameters[n] /\ Mine(n, entries') = Mine(n, entries)
  PROVE  HistoryInv'
<1>1. \A u \in Workers : ParamLocal(local'[u])
  BY DEF HistoryInv, Only
<1>2. ASSUME NEW n \in Parameters, n \notin deleted' \cup disturbed' PROVE Followed(n)'
  <2>1. Followed(n)
    BY <1>2 DEF HistoryInv
  <2>2. CASE n \in r.touches
    <3>1. \A u \in Workers : u # t => n \notin local'[u].touches
      BY <1>2, <2>2 DEF Apart, Only
    <3>2. local'[t] = r /\ Phase(n, parameters', entries', r)
      BY <1>2, <2>2 DEF Only
    <3>. QED BY <2>2, <3>1, <3>2 DEF Followed
  <2>3. CASE n \notin r.touches /\ n \in local[t].touches
    <3>1. \A u \in Workers : u # t => n \notin local'[u].touches
      BY <1>2, <2>3 DEF HistoryInv, Apart, Only
    <3>2. local'[t] = r /\ Complete(n, parameters', entries')
      BY <1>2, <2>3 DEF Only
    <3>. QED BY <2>3, <3>1, <3>2 DEF Followed
  <2>4. CASE n \notin r.touches /\ n \notin local[t].touches
    <3>1. parameters[n] = parameters'[n] /\ Mine(n, entries) = Mine(n, entries')
      BY <1>2, <2>4
    <3>2. ASSUME \A u \in Workers : n \notin local'[u].touches PROVE Complete(n, parameters', entries')
      <4>1. \A u \in Workers : n \notin local[u].touches
        BY <2>4, <3>2 DEF Only
      <4>. QED BY <2>1, <3>1, <4>1, PhaseSame DEF Followed
    <3>3. ASSUME NEW u \in Workers, n \in local'[u].touches PROVE Phase(n, parameters', entries', local'[u])
      <4>1. local'[u] = local[u] /\ n \in local[u].touches
        BY <2>4, <3>3 DEF Only
      <4>2. Phase(n, parameters, entries, local[u])
        BY <2>1, <4>1 DEF Followed
      <4>. QED BY <3>1, <4>1, <4>2, PhaseSame
    <3>. QED BY <3>2, <3>3 DEF Followed
  <2>. QED BY <2>2, <2>3, <2>4
<1>. QED BY <1>1, <1>2 DEF HistoryInv

LEMMA HistoryBegins ==
  ASSUME HistoryInv, TablesInv', NEW t \in Workers, NEW s, Param!Begin(t, s), ParamLocal(s),
         UNCHANGED <<parameters, entries, deleted>>,
         \A n \in s.touches : Complete(n, parameters, entries) => Phase(n, parameters, entries, s)
  PROVE  HistoryInv'
<1>1. Begins(t, s) /\ Threads /\ Apart
  BY ParamRequests DEF HistoryInv
<1>2. Threads' /\ Only(t, s) /\ Apart'
  BY <1>1, BeginsOnly, BeginsApart
<1>3. disturbed \subseteq disturbed' /\ local[t].touches = {}
  BY <1>1 DEF Begins, Idle
<1>4. ASSUME NEW n \in Parameters, n \notin deleted' \cup disturbed', n \in s.touches
      PROVE  Phase(n, parameters', entries', s)
  <2>1. \A u \in Workers : n \notin local[u].touches
    BY <1>1, <1>4 DEF Begins
  <2>2. Followed(n)
    BY <1>3, <1>4 DEF HistoryInv
  <2>3. Complete(n, parameters, entries)
    BY <2>1, <2>2 DEF Followed
  <2>. QED BY <1>4, <2>3
<1>. QED BY <1>2, <1>3, <1>4, HistoryStep

LEMMA Joined ==
  ASSUME NEW S, NEW s \in Seq(S), NEW x \in S, NEW r \in Seq(S),
         Len(r) = Len(s) + 1, \A i \in 1 .. Len(s) : r[i] = s[i], r[Len(s) + 1] = x
  PROVE  s \o <<x>> = r
<1>1. s \o <<x>> \in Seq(S)
  OBVIOUS
<1>2. Len(s \o <<x>>) = Len(s) + 1
  OBVIOUS
<1>3. \A i \in 1 .. Len(s) + 1 : (s \o <<x>>)[i] = r[i]
  OBVIOUS
<1>. QED BY <1>1, <1>2, <1>3

LEMMA Joins ==
  ASSUME NEW a, NEW b, NEW c
  PROVE  /\ <<a>> \o <<b>> = <<a, b>>
         /\ <<a, b>> \o <<c>> = <<a, b, c>>
<1> DEFINE S == {a, b, c}
<1>1. <<a>> \in Seq(S) /\ <<a, b>> \in Seq(S) /\ <<a, b, c>> \in Seq(S)
  OBVIOUS
<1>2. a \in S /\ b \in S /\ c \in S
  OBVIOUS
<1> HIDE DEF S
<1>3. <<a>> \o <<b>> = <<a, b>>
  <2> DEFINE s == <<a>>  r == <<a, b>>
  <2>1. /\ Len(s) = 1 /\ Len(r) = 2 /\ r[2] = b
        /\ s[1] = a /\ r[1] = a
    OBVIOUS
  <2>2. s \in Seq(S) /\ r \in Seq(S)
    BY <1>1
  <2> HIDE DEF s, r
  <2>3. Len(r) = Len(s) + 1 /\ (\A i \in 1 .. Len(s) : r[i] = s[i]) /\ r[Len(s) + 1] = b
    BY <2>1
  <2>4. s \o <<b>> = r
    BY <1>2, <2>2, <2>3, Joined
  <2>. QED BY <2>4 DEF s, r
<1>4. <<a, b>> \o <<c>> = <<a, b, c>>
  <2> DEFINE s == <<a, b>>  r == <<a, b, c>>
  <2>1. /\ Len(s) = 2 /\ Len(r) = 3 /\ r[3] = c
        /\ s[1] = a /\ r[1] = a /\ s[2] = b /\ r[2] = b
    OBVIOUS
  <2>2. s \in Seq(S) /\ r \in Seq(S)
    BY <1>1
  <2> HIDE DEF s, r
  <2>3. Len(r) = Len(s) + 1 /\ (\A i \in 1 .. Len(s) : r[i] = s[i]) /\ r[Len(s) + 1] = c
    BY <2>1
  <2>4. s \o <<c>> = r
    BY <1>2, <2>2, <2>3, Joined
  <2>. QED BY <2>4 DEF s, r
<1>. QED BY <1>3, <1>4

LEMMA JoinsFourth ==
  ASSUME NEW a, NEW b, NEW c, NEW d
  PROVE  <<a, b, c>> \o <<d>> = <<a, b, c, d>>
<1> DEFINE S == {a, b, c, d}
<1>1. <<a, b, c>> \in Seq(S) /\ <<a, b, c, d>> \in Seq(S)
  OBVIOUS
<1>2. d \in S
  OBVIOUS
<1> HIDE DEF S
<1>5. <<a, b, c>> \o <<d>> = <<a, b, c, d>>
  <2> DEFINE s == <<a, b, c>>  r == <<a, b, c, d>>
  <2>1. /\ Len(s) = 3 /\ Len(r) = 4 /\ r[4] = d
        /\ s[1] = a /\ r[1] = a /\ s[2] = b /\ r[2] = b /\ s[3] = c /\ r[3] = c
    OBVIOUS
  <2>2. s \in Seq(S) /\ r \in Seq(S)
    BY <1>1
  <2> HIDE DEF s, r
  <2>3. Len(r) = Len(s) + 1 /\ (\A i \in 1 .. Len(s) : r[i] = s[i]) /\ r[Len(s) + 1] = d
    BY <2>1
  <2>4. s \o <<d>> = r
    BY <1>2, <2>2, <2>3, Joined
  <2>. QED BY <2>4 DEF s, r
<1>. QED BY <1>5

LEMMA Nothings ==
  ASSUME NEW a, NEW b, NEW c
  PROVE  <<>> \o <<a>> = <<a>> /\ <<a, b>> \o <<>> = <<a, b>> /\ <<a, b, c>> \o <<>> = <<a, b, c>>
<1>1. <<>> \o <<a>> = <<a>>
  OBVIOUS
<1>2. <<a, b>> \o <<>> = <<a, b>>
  OBVIOUS
<1>3. <<a, b, c>> \o <<>> = <<a, b, c>>
  OBVIOUS
<1>. QED BY <1>1, <1>2, <1>3

LEMMA Concats ==
  /\ \A a, b : <<>> \o <<a>> \o <<b>> \o <<>> = <<a, b>>
  /\ \A a, b, c : <<>> \o <<a>> \o <<b>> \o <<c>> = <<a, b, c>>
  /\ \A a, b, c : <<a>> \o <<b>> \o <<c>> \o <<>> = <<a, b, c>>
  /\ \A a, b, c, d : <<a>> \o <<b>> \o <<c>> \o <<d>> = <<a, b, c, d>>
<1>1. ASSUME NEW a, NEW b PROVE <<>> \o <<a>> \o <<b>> \o <<>> = <<a, b>>
  <2>1. <<>> \o <<a>> = <<a>>
    BY Nothings
  <2>2. <<a>> \o <<b>> = <<a, b>>
    BY Joins, Zenon
  <2>3. <<a, b>> \o <<>> = <<a, b>>
    BY Nothings
  <2>. QED BY <2>1, <2>2, <2>3, Zenon
<1>2. ASSUME NEW a, NEW b, NEW c PROVE <<>> \o <<a>> \o <<b>> \o <<c>> = <<a, b, c>>
  <2>1. <<>> \o <<a>> = <<a>>
    BY Nothings
  <2>2. <<a>> \o <<b>> = <<a, b>>
    BY Joins, Zenon
  <2>3. <<a, b>> \o <<c>> = <<a, b, c>>
    BY Joins, Zenon
  <2>. QED BY <2>1, <2>2, <2>3, Zenon
<1>3. ASSUME NEW a, NEW b, NEW c PROVE <<a>> \o <<b>> \o <<c>> \o <<>> = <<a, b, c>>
  <2>1. <<a>> \o <<b>> = <<a, b>>
    BY Joins, Zenon
  <2>3. <<a, b>> \o <<c>> = <<a, b, c>>
    BY Joins, Zenon
  <2>2. <<a, b, c>> \o <<>> = <<a, b, c>>
    BY Nothings
  <2>. QED BY <2>1, <2>2, <2>3, Zenon
<1>4. ASSUME NEW a, NEW b, NEW c, NEW d PROVE <<a>> \o <<b>> \o <<c>> \o <<d>> = <<a, b, c, d>>
  <2>1. <<a>> \o <<b>> = <<a, b>>
    BY Joins, Zenon
  <2>3. <<a, b>> \o <<c>> = <<a, b, c>>
    BY Joins, Zenon
  <2>2. <<a, b, c>> \o <<d>> = <<a, b, c, d>>
    BY JoinsFourth
  <2>. QED BY <2>1, <2>2, <2>3, Zenon
<1>. QED BY <1>1, <1>2, <1>3, <1>4

LEMMA PutSelectHistory ==
  ASSUME HistoryInv, TablesInv', NEW t \in Workers, NEW n \in Parameters,
         NEW k \in KeyIds \cup {NoKey}, NEW tag \in BOOLEAN,
         NEW overwrite \in BOOLEAN, Param!PutSelect(t, n, k, tag, overwrite)
  PROVE  HistoryInv'
<1> DEFINE row == parameters[n]
           new == row = NoParameter
           todo == (IF k = NoKey THEN <<>> ELSE <<"encrypt">>)
                     \o (IF new THEN <<"insert">> ELSE <<"update">>) \o <<"history">>
                     \o (IF tag THEN <<"tag">> ELSE <<>>)
           s == [todo |-> todo, touches |-> {n}, name |-> n, value |-> begun + 1, key |-> k,
                 version |-> IF new THEN 1 ELSE row.version + 1]
<1>1. Param!Begin(t, s) /\ UNCHANGED <<parameters, entries, deleted>>
  BY DEF Param!PutSelect, Param!ssmvars
<1>2. todo \in (IF new THEN ToInsert ELSE ToUpdate)
  <2> DEFINE step == IF new THEN "insert" ELSE "update"
  <2>1. todo = (IF k = NoKey THEN <<>> ELSE <<"encrypt">>) \o <<step>> \o <<"history">>
                 \o (IF tag THEN <<"tag">> ELSE <<>>)
    OBVIOUS
  <2> HIDE DEF step, todo
  <2>2. CASE k = NoKey /\ tag
    <3>1. todo = <<step, "history", "tag">>
      BY <2>1, <2>2, Concats
    <3>. QED BY <3>1 DEF step, ToInsert, ToUpdate
  <2>3. CASE k = NoKey /\ ~tag
    <3>1. todo = <<step, "history">>
      BY <2>1, <2>3, Concats
    <3>. QED BY <3>1 DEF step, ToInsert, ToUpdate
  <2>4. CASE k # NoKey /\ tag
    <3>1. todo = <<"encrypt", step, "history", "tag">>
      BY <2>1, <2>4, Concats
    <3>. QED BY <3>1 DEF step, ToInsert, ToUpdate
  <2>5. CASE k # NoKey /\ ~tag
    <3>1. todo = <<"encrypt", step, "history">>
      BY <2>1, <2>5, Concats
    <3>. QED BY <3>1 DEF step, ToInsert, ToUpdate
  <2>. QED BY <2>2, <2>3, <2>4, <2>5
<1> HIDE DEF todo
<1>3. s.todo = todo /\ s.touches = {n} /\ s.name = n
      /\ s.version = (IF new THEN 1 ELSE row.version + 1)
      /\ s.value = begun + 1 /\ s.key = k
      /\ DOMAIN s = {"todo", "touches", "name", "value", "key", "version"}
  OBVIOUS
<1> HIDE DEF s
<1>4. ParamLocal(s)
  <2>1. begun + 1 \in Nat /\ s.version \in Nat
    BY <1>3 DEF HistoryInv, TablesInv, Counted
  <2>. QED BY <1>2, <1>3, <2>1 DEF ParamLocal
<1>5. ASSUME Complete(n, parameters, entries) PROVE Phase(n, parameters, entries, s)
  <2>1. CASE new
    <3>1. s.todo \in ToInsert /\ s.version = 1
      BY <1>2, <1>3, <2>1
    <3>2. s.todo \notin ToUpdate \cup ToRecord \cup ToEnd
      BY <3>1, TodosApart
    <3>. QED BY <1>5, <2>1, <3>1, <3>2 DEF Phase, Complete
  <2>2. CASE ~new
    <3>1. s.todo \in ToUpdate /\ s.version = row.version + 1
      BY <1>2, <1>3, <2>2
    <3>2. s.todo \notin ToInsert \cup ToRecord \cup ToEnd
      BY <3>1, TodosApart
    <3>. QED BY <1>5, <2>2, <3>1, <3>2 DEF Phase, Complete
  <2>. QED BY <2>1, <2>2
<1>. QED BY <1>1, <1>3, <1>4, <1>5, HistoryBegins

LEMMA DeleteSelectHistory ==
  ASSUME HistoryInv, TablesInv', NEW t \in Workers, NEW n \in Parameters, Param!DeleteSelect(t, n)
  PROVE  HistoryInv'
<1> DEFINE s == [todo |-> <<"delete">>, touches |-> {n}, name |-> n]
<1>1. Param!Begin(t, s) /\ UNCHANGED <<parameters, entries, deleted>>
  BY DEF Param!DeleteSelect, Param!ssmvars
<1>2. s.todo = <<"delete">> /\ s.touches = {n} /\ s.name = n /\ DOMAIN s = {"todo", "touches", "name"}
  OBVIOUS
<1> HIDE DEF s
<1>3. s.todo \in ToEnd
  BY <1>2 DEF ToEnd
<1>4. s.todo \notin ToInsert \cup ToUpdate \cup ToRecord
  BY <1>3, TodosApart
<1>5. ParamLocal(s)
  BY <1>2, <1>3 DEF ParamLocal
<1>6. Complete(n, parameters, entries) => Phase(n, parameters, entries, s)
  BY <1>3, <1>4 DEF Phase
<1>. QED BY <1>1, <1>2, <1>5, <1>6, HistoryBegins

(* A request goes on as r, or ends. *)
LEMMA HistoryGoes ==
  ASSUME HistoryInv, TablesInv', NEW t \in Workers, NEW r, Goes(t, r), r.todo = <<>> \/ ParamLocal(r),
         r.touches \subseteq local[t].touches, deleted \subseteq deleted',
         \A n \in Parameters : n \notin deleted' \cup disturbed' =>
            IF n \in local[t].touches
            THEN IF r.todo # <<>> THEN Phase(n, parameters', entries', r)
                                  ELSE Complete(n, parameters', entries')
            ELSE parameters'[n] = parameters[n] /\ Mine(n, entries') = Mine(n, entries),
         r.todo # <<>> => r.touches = local[t].touches
  PROVE  HistoryInv'
<1> DEFINE q == IF r.todo = <<>> THEN Idle ELSE r
<1>1. Threads' /\ Only(t, q) /\ disturbed' = disturbed
  BY GoesOnly DEF HistoryInv, Goes
<1>2. Apart'
  BY GoesApart DEF HistoryInv
<1>3. ParamLocal(Idle) /\ Idle.touches = {}
  BY DEF ParamLocal, Idle
<1>4. ParamLocal(q)
  BY <1>3
<1>5. ASSUME NEW n \in Parameters, n \notin deleted' \cup disturbed'
      PROVE  IF n \in q.touches THEN Phase(n, parameters', entries', q)
             ELSE IF n \in local[t].touches THEN Complete(n, parameters', entries')
             ELSE parameters'[n] = parameters[n] /\ Mine(n, entries') = Mine(n, entries)
  <2>1. CASE r.todo = <<>>
    <3>1. q.touches = {}
      BY <1>3, <2>1
    <3>. QED BY <1>5, <2>1, <3>1
  <2>2. CASE r.todo # <<>>
    <3>1. q = r /\ r.touches = local[t].touches
      BY <2>2
    <3>. QED BY <1>5, <2>2, <3>1
  <2>. QED BY <2>1, <2>2
<1> HIDE DEF q
<1>. QED BY <1>1, <1>2, <1>4, <1>5, HistoryStep

(* Where a request is in what it has to do. *)
LEMMA ParamAt ==
  ASSUME NEW t, ParamLocal(local[t]), NEW step, Param!At(t, step)
  PROVE  /\ step \in {"state", "rotation", "alias"} =>
               /\ Tail(local[t].todo) = <<>> /\ local[t].touches = {}
         /\ step \notin {"state", "rotation", "alias"} =>
               /\ local[t].name \in Parameters /\ local[t].touches = {local[t].name}
               /\ {"todo", "touches", "name"} \subseteq DOMAIN local[t]
         /\ step = "encrypt" => \/ local[t].todo \in ToInsert /\ Tail(local[t].todo) \in ToInsert
                                \/ local[t].todo \in ToUpdate /\ Tail(local[t].todo) \in ToUpdate
         /\ step = "insert" => local[t].todo \in ToInsert /\ Tail(local[t].todo) \in ToRecord
         /\ step = "update" => local[t].todo \in ToUpdate /\ Tail(local[t].todo) \in ToRecord
         /\ step = "history" => local[t].todo \in ToRecord /\ Tail(local[t].todo) \in {<<>>, <<"tag">>}
         /\ step \in {"tag", "delete"} => local[t].todo \in ToEnd /\ Tail(local[t].todo) = <<>>
<1> DEFINE s == local[t]
<1>1. s.todo # <<>> /\ Head(s.todo) = step
  BY DEF Param!At
<1>2. CASE s.touches = {} /\ s.todo \in {<<"state">>, <<"rotation">>, <<"alias">>}
  <2>1. step \in {"state", "rotation", "alias"} /\ Tail(s.todo) = <<>>
    BY <1>1, <1>2, ParamTodos
  <2>. QED BY <1>2, <2>1
<1>3. CASE /\ s.todo \in ToInsert \cup ToUpdate \cup ToRecord \cup ToEnd
           /\ "name" \in DOMAIN s /\ s.name \in Parameters /\ s.touches = {s.name}
  <2>1. {"todo", "touches", "name"} \subseteq DOMAIN s
    BY <1>3 DEF ParamLocal
  <2>2. CASE s.todo \in ToInsert
    BY <1>1, <1>3, <2>1, <2>2, ParamTodos
  <2>3. CASE s.todo \in ToUpdate
    BY <1>1, <1>3, <2>1, <2>3, ParamTodos
  <2>4. CASE s.todo \in ToRecord
    BY <1>1, <1>3, <2>1, <2>4, ParamTodos
  <2>5. CASE s.todo \in ToEnd
    BY <1>1, <1>3, <2>1, <2>5, ParamTodos
  <2>. QED BY <1>3, <2>2, <2>3, <2>4, <2>5
<1>. QED BY <1>1, <1>2, <1>3 DEF ParamLocal

(* What is left of a request is again one that may be under way. *)
LEMMA ParamRest ==
  ASSUME NEW t, ParamLocal(local[t]), NEW step, Param!At(t, step)
  PROVE  LET r == Rest(local[t]) IN
         /\ ParamLocal(r) \/ r.todo = <<>>
         /\ r.touches = local[t].touches /\ r.todo = Tail(local[t].todo)
         /\ r.todo # <<>> => /\ r.name = local[t].name
                             /\ "value" \in DOMAIN local[t] => r.value = local[t].value
                             /\ "key" \in DOMAIN local[t] => r.key = local[t].key
                             /\ "version" \in DOMAIN local[t] => r.version = local[t].version
<1> DEFINE s == local[t]  r == Rest(s)
<1>1. /\ DOMAIN r = DOMAIN s /\ r.todo = Tail(s.todo)
      /\ \A x \in DOMAIN s : x # "todo" => r[x] = s[x]
      /\ {"todo", "touches"} \subseteq DOMAIN s
  BY RestFields DEF ParamLocal
<1> HIDE DEF r
<1>2. r.touches = s.touches
  BY <1>1
<1>3. CASE step \in {"state", "rotation", "alias"}
  <2>1. r.todo = <<>>
    BY <1>1, <1>3, ParamAt
  <2>. QED BY <1>1, <1>2, <2>1 DEF r
<1>4. CASE step \in {"tag", "delete"}
  <2>1. r.todo = <<>>
    BY <1>1, <1>4, ParamAt
  <2>. QED BY <1>1, <1>2, <2>1 DEF r
<1>5. CASE step \in {"encrypt", "insert", "update", "history"}
  <2>1. s.name \in Parameters /\ s.touches = {s.name} /\ "name" \in DOMAIN s
    BY <1>5, ParamAt
  <2>2. r.todo \in ToInsert \cup ToUpdate \cup ToRecord \cup {<<>>, <<"tag">>}
    BY <1>1, <1>5, ParamAt
  <2>3. s.todo \in ToInsert \cup ToUpdate \cup ToRecord
    BY <1>5, ParamAt
  <2>4. s.todo # <<"delete">>
    BY <2>3, TodosApart DEF ToEnd
  <2>5. {"value", "key", "version"} \subseteq DOMAIN s
    BY <2>1, <2>4 DEF ParamLocal
  <2>8. s.value \in Nat /\ s.key \in KeyIds \cup {NoKey} /\ s.version \in Nat
    BY <2>1, <2>4 DEF ParamLocal
  <2>9. {"todo", "touches", "name", "value", "key", "version"} \subseteq DOMAIN r
    <3>1. {"todo", "touches"} \subseteq DOMAIN r /\ DOMAIN r = DOMAIN s
      BY <1>1
    <3>. QED BY <2>1, <2>5, <3>1
  <2>6. r.name = s.name /\ r.value = s.value /\ r.key = s.key /\ r.version = s.version
    BY <1>1, <2>1, <2>5
  <2>7. r.todo # <<>> => ParamLocal(r)
    <3>1. ASSUME r.todo # <<>> PROVE r.todo \in ToInsert \cup ToUpdate \cup ToRecord \cup ToEnd
      BY <2>2, <3>1, TodosApart
    <3>. QED BY <1>2, <2>1, <2>6, <2>8, <2>9, <3>1 DEF ParamLocal
  <2>. QED BY <1>1, <1>2, <2>6, <2>7 DEF r
<1>6. step \in {"encrypt", "insert", "update", "history", "tag", "delete", "state", "rotation", "alias"}
  BY ParamTodos DEF Param!At, ParamLocal
<1>. QED BY <1>3, <1>4, <1>5, <1>6

(* A step of a request that is as it is stored, name by name. *)
LEMMA HistoryAdvances ==
  ASSUME HistoryInv, TablesInv', NEW t \in Workers, NEW step, Param!Does(t, step), deleted \subseteq deleted',
         \A n \in Parameters : n \notin deleted' \cup disturbed' =>
            IF n \in local[t].touches
            THEN IF Tail(local[t].todo) # <<>> THEN Phase(n, parameters', entries', Rest(local[t]))
                                               ELSE Complete(n, parameters', entries')
            ELSE parameters'[n] = parameters[n] /\ Mine(n, entries') = Mine(n, entries)
  PROVE  HistoryInv'
<1> DEFINE r == Rest(local[t])
<1>1. ParamLocal(local[t]) /\ Param!At(t, step) /\ Goes(t, r)
  BY ParamRequests DEF Param!Does, HistoryInv
<1>2. /\ r.todo = <<>> \/ ParamLocal(r)
      /\ r.touches = local[t].touches /\ r.todo = Tail(local[t].todo)
  BY <1>1, ParamRest
<1> HIDE DEF r
<1>3. ASSUME NEW n \in Parameters, n \notin deleted' \cup disturbed'
      PROVE  IF n \in local[t].touches
             THEN IF r.todo # <<>> THEN Phase(n, parameters', entries', r)
                                   ELSE Complete(n, parameters', entries')
             ELSE parameters'[n] = parameters[n] /\ Mine(n, entries') = Mine(n, entries)
  BY <1>2, <1>3 DEF r
<1>. QED BY <1>1, <1>2, <1>3, HistoryGoes

(* The request under way relies on what Phase says of its parameter. *)
LEMMA PhaseNow ==
  ASSUME HistoryInv, NEW t \in Workers, NEW n \in Parameters, n \in local[t].touches,
         n \notin deleted' \cup disturbed', deleted \subseteq deleted', disturbed \subseteq disturbed'
  PROVE  Phase(n, parameters, entries, local[t])
  BY DEF HistoryInv, Followed

LEMMA PutEncryptHistory ==
  ASSUME HistoryInv, TablesInv', NEW t \in Workers, Param!PutEncrypt(t)
  PROVE  HistoryInv'
<1> DEFINE s == local[t]  r == Rest(s)
<1>1. Param!At(t, "encrypt") /\ UNCHANGED <<parameters, entries, deleted>>
  BY DEF Param!PutEncrypt, Param!ssmvars
<1>2. ParamLocal(s)
  BY DEF HistoryInv
<1>3. /\ s.touches = {s.name} /\ s.name \in Parameters
      /\ \/ s.todo \in ToInsert /\ Tail(s.todo) \in ToInsert
         \/ s.todo \in ToUpdate /\ Tail(s.todo) \in ToUpdate
  BY <1>1, <1>2, ParamAt
<1>4. CASE Param!Advance(t)
  <2>1. Param!Does(t, "encrypt") /\ disturbed' = disturbed
    BY <1>1, <1>4 DEF Param!Does, Param!Advance, Param!Continue
  <2>2. /\ r.todo = Tail(s.todo) /\ Tail(s.todo) # <<>>
        /\ r.todo # <<>> => r.version = s.version
    <3>1. "version" \in DOMAIN s
      <4>1. s.todo # <<"delete">>
        BY <1>3, TodosApart DEF ToEnd
      <4>. QED BY <1>2, <1>3, <4>1 DEF ParamLocal
    <3>. QED BY <1>1, <1>2, <1>3, <3>1, ParamRest, TodosApart
  <2>3. ASSUME NEW n \in Parameters, n \notin deleted' \cup disturbed', n \in s.touches
        PROVE  Phase(n, parameters', entries', r)
    <3>1. Phase(n, parameters, entries, s)
      BY <1>1, <2>1, <2>3, PhaseNow
    <3> HIDE DEF r
    <3>2. Phase(n, parameters, entries, r)
      <4>1. CASE s.todo \in ToInsert /\ r.todo \in ToInsert
        BY <2>2, <3>1, <4>1, TodosApart DEF Phase
      <4>2. CASE s.todo \in ToUpdate /\ r.todo \in ToUpdate
        BY <2>2, <3>1, <4>2, TodosApart DEF Phase
      <4>. QED BY <1>3, <2>2, <4>1, <4>2
    <3>. QED BY <1>1, <3>2, PhaseSame
  <2>. QED BY <1>1, <2>1, <2>2, <2>3, HistoryAdvances
<1>5. CASE Param!Ends(t)
  <2>1. Goes(t, Idle) /\ Idle.todo = <<>> /\ Idle.touches = {}
    BY <1>5, ParamRequests DEF Idle
  <2>2. disturbed' = disturbed
    BY <2>1 DEF Goes
  <2>3. ASSUME NEW n \in Parameters, n \notin deleted' \cup disturbed', n \in s.touches
        PROVE  Complete(n, parameters', entries')
    <3>1. Phase(n, parameters, entries, s)
      BY <1>1, <2>2, <2>3, PhaseNow
    <3>2. Complete(n, parameters, entries)
      BY <1>3, <3>1 DEF Phase, Complete
    <3>. QED BY <1>1, <3>2
  <2>. QED BY <1>1, <2>1, <2>3, HistoryGoes
<1>. QED BY <1>4, <1>5 DEF Param!PutEncrypt

LEMMA PutInsertHistory ==
  ASSUME HistoryInv, TablesInv', NEW t \in Workers, Param!PutInsert(t)
  PROVE  HistoryInv'
<1> DEFINE s == local[t]  r == Rest(s)
           new == [stored |-> Param!StoredValue(s), type |-> Param!TypeOf(s.key), key |-> s.key,
                   version |-> s.version]
<1>1. /\ Param!At(t, "insert") /\ UNCHANGED <<entries, deleted>>
      /\ \/ /\ parameters[s.name] = NoParameter /\ Param!Advance(t)
            /\ parameters' = [parameters EXCEPT ![s.name] = new]
         \/ parameters[s.name] # NoParameter /\ parameters' = parameters /\ Param!Ends(t)
  BY DEF Param!PutInsert
<1>2. ParamLocal(s) /\ parameters = [n \in Parameters |-> parameters[n]]
  BY DEF HistoryInv, TablesInv, ClearInv
<1>3. s.touches = {s.name} /\ s.name \in Parameters /\ s.todo \in ToInsert /\ Tail(s.todo) \in ToRecord
  BY <1>1, <1>2, ParamAt
<1>4. {"value", "key", "version"} \subseteq DOMAIN s
  <2>1. s.todo # <<"delete">>
    BY <1>3, TodosApart DEF ToEnd
  <2>. QED BY <1>2, <1>3, <2>1 DEF ParamLocal
<1>9. s.value \in Nat /\ s.key \in KeyIds \cup {NoKey} /\ s.version \in Nat
  <2>1. s.todo # <<"delete">>
    BY <1>3, TodosApart DEF ToEnd
  <2>. QED BY <1>2, <1>3, <2>1 DEF ParamLocal
<1>5. CASE Param!Advance(t) /\ parameters' = [parameters EXCEPT ![s.name] = new]
  <2>1. Param!Does(t, "insert") /\ disturbed' = disturbed
    BY <1>1, <1>5 DEF Param!Does, Param!Advance, Param!Continue
  <2>2. /\ r.todo = Tail(s.todo) /\ Tail(s.todo) # <<>>
        /\ r.version = s.version /\ r.value = s.value /\ r.key = s.key
    BY <1>1, <1>2, <1>3, <1>4, ParamRest, TodosApart
  <2>3. ASSUME NEW n \in Parameters, n \notin deleted' \cup disturbed', n \in s.touches
        PROVE  Phase(n, parameters', entries', r)
    <3>1. Phase(n, parameters, entries, s)
      BY <1>1, <2>1, <2>3, PhaseNow
    <3> HIDE DEF r
    <3>2. Mine(n, entries) = {} /\ s.version = 1
      BY <1>3, <3>1 DEF Phase
    <3>3. parameters'[n] = new /\ n \in DOMAIN parameters
      BY <1>2, <1>3, <1>5, <2>3
    <3>4. Recorded(n, entries', 0)
      BY <1>1, <3>2, FS_EmptySet DEF Recorded, Mine
    <3>5. parameters'[n] # NoParameter
      BY <1>4, <1>9, <3>3, ParameterAssumption DEF Param!StoredValue, Param!TypeOf
    <3>6. /\ parameters'[n].version = r.version /\ parameters'[n].stored = Param!StoredValue(r)
      BY <2>2, <3>3 DEF Param!StoredValue
    <3>7. r.todo \in ToRecord
      BY <1>3, <2>2
    <3>8. r.version \in Nat \ {0} /\ r.version - 1 = 0
      BY <2>2, <3>2
    <3>. QED BY <3>4, <3>5, <3>6, <3>7, <3>8, TodosApart DEF Phase
  <2>4. ASSUME NEW n \in Parameters, n \notin s.touches
        PROVE  parameters'[n] = parameters[n] /\ Mine(n, entries') = Mine(n, entries)
    BY <1>1, <1>2, <1>3, <1>5, <2>4
  <2>. QED BY <1>1, <2>1, <2>2, <2>3, <2>4, HistoryAdvances
<1>6. CASE Param!Ends(t) /\ parameters' = parameters /\ parameters[s.name] # NoParameter
  <2>1. Goes(t, Idle) /\ Idle.todo = <<>> /\ Idle.touches = {}
    BY <1>6, ParamRequests DEF Idle
  <2>2. disturbed' = disturbed
    BY <2>1 DEF Goes
  <2>3. ASSUME NEW n \in Parameters, n \notin deleted' \cup disturbed', n \in s.touches
        PROVE  FALSE
    <3>1. Phase(n, parameters, entries, s)
      BY <1>1, <2>2, <2>3, PhaseNow
    <3>2. parameters[n] = NoParameter
      BY <1>3, <3>1 DEF Phase
    <3>. QED BY <1>3, <1>6, <2>3, <3>2
  <2>. QED BY <1>1, <1>6, <2>1, <2>3, HistoryGoes
<1>. QED BY <1>1, <1>5, <1>6

LEMMA PutUpdateHistory ==
  ASSUME HistoryInv, TablesInv', NEW t \in Workers, Param!PutUpdate(t)
  PROVE  HistoryInv'
<1> DEFINE s == local[t]  r == Rest(s)  row == parameters[s.name]
<1>1. /\ Param!Does(t, "update") /\ Param!At(t, "update") /\ UNCHANGED <<entries, deleted>>
      /\ row = NoParameter => parameters' = parameters
      /\ row # NoParameter => parameters' = [parameters EXCEPT ![s.name] = Rewritten(row, s)]
  BY DEF Param!PutUpdate, Param!Does, Rewritten
<1>2. ParamLocal(s) /\ parameters = [n \in Parameters |-> parameters[n]]
  BY DEF HistoryInv, TablesInv, ClearInv
<1>3. s.touches = {s.name} /\ s.name \in Parameters /\ s.todo \in ToUpdate /\ Tail(s.todo) \in ToRecord
  BY <1>1, <1>2, ParamAt
<1>4. /\ {"value", "key", "version"} \subseteq DOMAIN s
      /\ s.value \in Nat /\ s.key \in KeyIds \cup {NoKey} /\ s.version \in Nat
  <2>1. s.todo # <<"delete">>
    BY <1>3, TodosApart DEF ToEnd
  <2>. QED BY <1>2, <1>3, <2>1 DEF ParamLocal
<1>5. disturbed' = disturbed
  BY <1>1 DEF Param!Does, Param!Advance, Param!Continue
<1>6. /\ r.todo = Tail(s.todo) /\ Tail(s.todo) # <<>>
      /\ r.version = s.version /\ r.value = s.value /\ r.key = s.key
  BY <1>1, <1>2, <1>3, <1>4, ParamRest, TodosApart
<1>7. ASSUME NEW n \in Parameters, n \notin deleted' \cup disturbed', n \in s.touches
      PROVE  Phase(n, parameters', entries', r)
  <2>1. n = s.name /\ Phase(n, parameters, entries, s)
    BY <1>1, <1>3, <1>5, <1>7, PhaseNow
  <2> HIDE DEF r
  <2>2. row # NoParameter /\ Complete(n, parameters, entries) /\ s.version = row.version + 1
    BY <1>3, <2>1 DEF Phase
  <2>3. Rewritten(row, s) = [stored |-> Param!StoredValue(s), type |-> row.type, key |-> s.key,
                             version |-> s.version]
    <3>1. ParamRow(row)
      BY <1>3, <2>2 DEF HistoryInv, TablesInv, ClearInv
    <3>. QED BY <3>1, RowRewritten
  <2>4. parameters'[n] = Rewritten(row, s)
    BY <1>1, <1>2, <1>3, <2>1, <2>2
  <2>5. parameters'[n] # NoParameter
    <3>1. row.type \in {"String", "SecureString"}
      BY <1>3, <2>2 DEF HistoryInv, TablesInv, Counted
    <3>. QED BY <1>4, <2>3, <2>4, <3>1, ParameterAssumption DEF Param!StoredValue
  <2>6. parameters'[n].version = r.version /\ parameters'[n].stored = Param!StoredValue(r)
    BY <1>6, <2>3, <2>4 DEF Param!StoredValue
  <2>7. r.todo \in ToRecord
    BY <1>3, <1>6
  <2>8. row.version \in Nat /\ Recorded(n, entries, row.version)
    BY <2>1, <2>2 DEF Complete
  <2>9. r.version \in Nat \ {0} /\ r.version - 1 = row.version
    BY <1>6, <2>2, <2>8
  <2>10. Recorded(n, entries', r.version - 1)
    BY <1>1, <2>8, <2>9
  <2>. QED BY <2>5, <2>6, <2>7, <2>9, <2>10, TodosApart DEF Phase
<1>8. ASSUME NEW n \in Parameters, n \notin s.touches
      PROVE  parameters'[n] = parameters[n] /\ Mine(n, entries') = Mine(n, entries)
  BY <1>1, <1>2, <1>3, <1>8
<1>. QED BY <1>1, <1>6, <1>7, <1>8, HistoryAdvances

LEMMA PutHistoryHistory ==
  ASSUME HistoryInv, TablesInv', NEW t \in Workers, Param!PutHistory(t)
  PROVE  HistoryInv'
<1> DEFINE s == local[t]  r == Rest(s)
           e == [name |-> s.name, id |-> s.value, stored |-> Param!StoredValue(s), version |-> s.version]
<1>1. /\ Param!Does(t, "history") /\ Param!At(t, "history") /\ UNCHANGED <<parameters, deleted>>
      /\ entries' = entries \cup {e}
  BY DEF Param!PutHistory, Param!Does
<1>2. ParamLocal(s)
  BY DEF HistoryInv
<1>3. /\ s.touches = {s.name} /\ s.name \in Parameters /\ s.todo \in ToRecord
      /\ Tail(s.todo) \in {<<>>, <<"tag">>}
  BY <1>1, <1>2, ParamAt
<1>4. disturbed' = disturbed
  BY <1>1 DEF Param!Does, Param!Advance, Param!Continue
<1>5. r.todo = Tail(s.todo)
  BY <1>1, <1>2, ParamRest
<1>6. e.name = s.name /\ e.version = s.version /\ e.stored = Param!StoredValue(s)
  OBVIOUS
<1> HIDE DEF e, r
<1>7. ASSUME NEW n \in Parameters, n \notin deleted' \cup disturbed', n \in s.touches
      PROVE  Complete(n, parameters', entries')
  <2>1. n = s.name /\ Phase(n, parameters, entries, s)
    BY <1>1, <1>3, <1>4, <1>7, PhaseNow
  <2>2. /\ parameters[n] # NoParameter /\ parameters[n].version = s.version
        /\ parameters[n].stored = Param!StoredValue(s)
        /\ s.version \in Nat \ {0} /\ Recorded(n, entries, s.version - 1)
    BY <1>3, <2>1 DEF Phase
  <2>3. Mine(n, entries') = Mine(n, entries) \cup {e}
    BY <1>1, <1>6, <2>1 DEF Mine
  <2>4. e \notin Mine(n, entries)
    <3>1. SUFFICES ASSUME e \in Mine(n, entries) PROVE FALSE
      OBVIOUS
    <3>2. s.version \in 1 .. s.version - 1
      BY <1>6, <2>2, <3>1 DEF Recorded
    <3>. QED BY <2>2, <3>2
  <2>5. IsFiniteSet(Mine(n, entries')) /\ Cardinality(Mine(n, entries')) = s.version
    <3>1. IsFiniteSet(Mine(n, entries)) /\ Cardinality(Mine(n, entries)) = s.version - 1
      BY <2>2 DEF Recorded
    <3>2. /\ IsFiniteSet(Mine(n, entries) \cup {e})
          /\ Cardinality(Mine(n, entries) \cup {e}) = Cardinality(Mine(n, entries)) + 1
      BY <2>4, <3>1, FS_AddElement
    <3>. QED BY <2>2, <2>3, <3>1, <3>2
  <2>6. {f.version : f \in Mine(n, entries')} = 1 .. s.version
    <3>1. {f.version : f \in Mine(n, entries)} = 1 .. s.version - 1
      BY <2>2 DEF Recorded
    <3>2. {f.version : f \in Mine(n, entries')} = {f.version : f \in Mine(n, entries)} \cup {s.version}
      BY <1>6, <2>3
    <3>. QED BY <2>2, <3>1, <3>2
  <2>7. e \in Mine(n, entries')
    BY <2>3
  <2>. QED BY <1>1, <1>6, <2>2, <2>5, <2>6, <2>7 DEF Complete, Recorded
<1>8. ASSUME NEW n \in Parameters, n \notin deleted' \cup disturbed', n \in s.touches, r.todo # <<>>
      PROVE  Phase(n, parameters', entries', r)
  <2>1. r.todo = <<"tag">> /\ r.todo \in ToEnd
    BY <1>3, <1>5, <1>8 DEF ToEnd
  <2>. QED BY <1>7, <1>8, <2>1, TodosApart DEF Phase
<1>9. ASSUME NEW n \in Parameters, n \notin s.touches
      PROVE  parameters'[n] = parameters[n] /\ Mine(n, entries') = Mine(n, entries)
  BY <1>1, <1>3, <1>6, <1>9 DEF Mine
<1>. QED BY <1>1, <1>5, <1>7, <1>8, <1>9, HistoryAdvances DEF r

LEMMA PutTagHistory ==
  ASSUME HistoryInv, TablesInv', NEW t \in Workers, Param!PutTag(t)
  PROVE  HistoryInv'
<1>1. Param!Does(t, "tag") /\ Param!At(t, "tag") /\ UNCHANGED <<parameters, entries, deleted>>
  BY DEF Param!PutTag, Param!Does
<1>2. disturbed' = disturbed
  BY <1>1 DEF Param!Does, Param!Advance, Param!Continue
<1>3. local[t].todo \in ToEnd /\ Tail(local[t].todo) = <<>>
  BY <1>1, ParamAt DEF HistoryInv
<1>4. ASSUME NEW n \in Parameters, n \notin deleted' \cup disturbed', n \in local[t].touches
      PROVE  Complete(n, parameters', entries')
  <2>1. Phase(n, parameters, entries, local[t])
    BY <1>1, <1>2, <1>4, PhaseNow
  <2>. QED BY <1>1, <1>3, <2>1 DEF Phase
<1>. QED BY <1>1, <1>3, <1>4, HistoryAdvances

LEMMA DeleteHistory ==
  ASSUME HistoryInv, TablesInv', NEW t \in Workers, Param!Delete(t)
  PROVE  HistoryInv'
<1> DEFINE s == local[t]
<1>1. /\ Param!Does(t, "delete") /\ Param!At(t, "delete") /\ entries' = entries
      /\ parameters' = [parameters EXCEPT ![s.name] = NoParameter] /\ deleted' = deleted \cup {s.name}
  BY DEF Param!Delete, Param!Does
<1>2. parameters = [n \in Parameters |-> parameters[n]]
  BY DEF HistoryInv, TablesInv, ClearInv
<1>3. s.touches = {s.name} /\ s.name \in Parameters
  BY <1>1, ParamAt DEF HistoryInv
<1>4. ASSUME NEW n \in Parameters, n \notin deleted'
      PROVE  n \notin s.touches /\ parameters'[n] = parameters[n] /\ Mine(n, entries') = Mine(n, entries)
  BY <1>1, <1>2, <1>3, <1>4
<1>. QED BY <1>1, <1>4, HistoryAdvances

(* A request that touches no parameter, of KMS. *)
LEMMA KMSHistory ==
  ASSUME HistoryInv, TablesInv', NEW t \in Workers, Param!KMSServe(t),
         UNCHANGED <<parameters, entries, deleted>>
  PROVE  HistoryInv'
<1>1. ASSUME NEW s, Param!Begin(t, s), s.touches = {}, ParamLocal(s) PROVE HistoryInv'
  BY <1>1, HistoryBegins
<1>2. ParamLocal(Idle) /\ Idle.touches = {}
  BY DEF ParamLocal, Idle
<1>3. ASSUME NEW k, NEW step \in {"state", "rotation", "alias"}, NEW a
      PROVE  LET s == Param!OnKey(k, step, a) IN ParamLocal(s) /\ s.touches = {}
  <2> DEFINE s == Param!OnKey(k, step, a)
  <2>1. s.touches = {} /\ s.todo = <<step>> /\ {"todo", "touches"} \subseteq DOMAIN s
    BY DEF Param!OnKey
  <2> HIDE DEF s
  <2>2. ParamLocal(s)
    BY <2>1 DEF ParamLocal
  <2>. QED BY <2>1, <2>2 DEF s
<1>4. ASSUME NEW step \in {"state", "rotation", "alias"}, Param!Does(t, step) PROVE HistoryInv'
  <2>1. Tail(local[t].todo) = <<>> /\ local[t].touches = {}
    BY <1>4, ParamAt DEF HistoryInv, Param!Does
  <2>. QED BY <1>4, <2>1, HistoryAdvances
<1>5. CASE \E k \in KeyIds : Param!CreateKey(t, k)
  <2>1. Param!Begin(t, Idle)
    BY <1>5 DEF Param!CreateKey, Idle, Param!Idle
  <2>. QED BY <1>1, <1>2, <2>1
<1>6. CASE \E k \in KeyIds : Param!KeyRequire(t, k)
  <2>1. PICK k \in KeyIds : Param!KeyRequire(t, k)
    BY <1>6
  <2>2. CASE \E a : Param!Begin(t, Param!OnKey(k, "state", a))
    BY <1>1, <1>3, <2>2
  <2>3. CASE \E a : Param!Begin(t, Param!OnKey(k, "rotation", a))
    BY <1>1, <1>3, <2>3
  <2>. QED BY <2>1, <2>2, <2>3 DEF Param!KeyRequire
<1>7. CASE \E k \in KeyIds, a \in Aliases : Param!CreateAliasCheck(t, a, k)
  <2>1. \E k, a : Param!Begin(t, Param!OnKey(k, "alias", a))
    BY <1>7 DEF Param!CreateAliasCheck
  <2>. QED BY <1>1, <1>3, <2>1
<1>8. CASE \E a \in Aliases : Param!DeleteAlias(t, a)
  <2>1. Param!Begin(t, Idle)
    BY <1>8 DEF Param!DeleteAlias, Idle, Param!Idle
  <2>. QED BY <1>1, <1>2, <2>1
<1>9. CASE Param!SetState(t) \/ Param!SetRotation(t) \/ Param!CreateAlias(t)
  BY <1>4, <1>9 DEF Param!SetState, Param!SetRotation, Param!CreateAlias
<1>. QED BY <1>5, <1>6, <1>7, <1>8, <1>9 DEF Param!KMSServe

LEMMA HistoryBreaks ==
  ASSUME HistoryInv, TablesInv', Breaks, UNCHANGED <<parameters, entries, deleted>>
  PROVE  HistoryInv'
<1>1. Threads' /\ Apart'
  BY BreaksThreads, BreaksApart DEF HistoryInv
<1>2. ParamLocal(Idle) /\ Idle.touches = {}
  BY DEF ParamLocal, Idle
<1>3. \A t \in Workers : ParamLocal(local'[t])
  BY <1>2 DEF Breaks, HistoryInv
<1>4. ASSUME NEW n \in Parameters, n \notin deleted' \cup disturbed' PROVE Followed(n)'
  <2>1. Followed(n)
    BY <1>4 DEF HistoryInv, Breaks
  <2>2. \A t \in Workers : n \in local[t].touches => local'[t] = local[t]
    BY <1>4 DEF Breaks
  <2>3. \A t \in Workers : n \in local'[t].touches => local'[t] = local[t]
    BY <1>2 DEF Breaks
  <2>4. ASSUME \A t \in Workers : n \notin local'[t].touches PROVE Complete(n, parameters', entries')
    <3>1. Complete(n, parameters, entries)
      BY <2>1, <2>2, <2>4 DEF Followed
    <3>. QED BY <3>1
  <2>5. ASSUME NEW t \in Workers, n \in local'[t].touches
        PROVE  Phase(n, parameters', entries', local'[t])
    <3>1. Phase(n, parameters, entries, local[t])
      BY <2>1, <2>3, <2>5 DEF Followed
    <3>. QED BY <2>3, <2>5, <3>1
  <2>. QED BY <2>4, <2>5 DEF Followed
<1>. QED BY <1>1, <1>3, <1>4 DEF HistoryInv

LEMMA HistoryCounted ==
  ASSUME HistoryInv, [Param!Next]_(Param!vars)
  PROVE  Counted'
<1>1. Counted /\ parameters = [n \in Parameters |-> parameters[n]]
  BY DEF HistoryInv, TablesInv, ClearInv
<1>2. begun' \in Nat
  <2>1. begun' = begun \/ begun' = begun + 1
    <3>1. CASE \E t \in Workers : Param!Serve(t)
      <4>1. PICK t \in Workers : Param!Serve(t)
        BY <3>1
      <4>2. CASE \E n \in Parameters : Param!DeleteSelect(t, n)
        BY <4>2 DEF Param!DeleteSelect, Param!Begin
      <4>3. CASE \E n \in Parameters, k \in KeyIds \cup {NoKey}, tag, overwrite \in BOOLEAN :
                    Param!PutSelect(t, n, k, tag, overwrite)
        BY <4>3 DEF Param!PutSelect, Param!Begin
      <4>4. CASE Param!PutEncrypt(t) \/ Param!PutInsert(t)
        BY <4>4 DEF Param!PutEncrypt, Param!PutInsert, Param!Advance, Param!Ends, Param!Continue
      <4>5. CASE Param!PutUpdate(t) \/ Param!PutHistory(t) \/ Param!PutTag(t) \/ Param!Delete(t)
        BY <4>5 DEF Param!PutUpdate, Param!PutHistory, Param!PutTag, Param!Delete, Param!Does,
               Param!Advance, Param!Continue
      <4>. QED BY <4>1, <4>2, <4>3, <4>4, <4>5 DEF Param!Serve
    <3>2. CASE \E t \in Workers : Param!KMSServe(t)
      BY <3>2 DEF Param!KMSServe, Param!CreateKey, Param!KeyRequire, Param!CreateAliasCheck,
             Param!DeleteAlias, Param!SetState, Param!SetRotation, Param!CreateAlias, Param!Begin,
             Param!Does, Param!Advance, Param!Continue
    <3>3. CASE Param!Crash \/ \E t \in Workers : Param!Fails(t)
      BY <3>3 DEF Param!Crash, Param!Fails, Param!BreakOff
    <3>4. CASE UNCHANGED Param!vars
      BY <3>4 DEF Param!vars, Param!requests
    <3>. QED BY <3>1, <3>2, <3>3, <3>4 DEF Param!Next
  <2>. QED BY <1>1, <2>1 DEF Counted
<1>3. ASSUME parameters' = parameters PROVE Counted'
  BY <1>1, <1>2, <1>3 DEF Counted
<1>4. ASSUME NEW n \in Parameters, NEW row, parameters' = [parameters EXCEPT ![n] = row],
             row # NoParameter => row.version \in Nat /\ row.type \in {"String", "SecureString"}
      PROVE  Counted'
  <2>1. \A m \in Parameters : parameters'[m] = IF m = n THEN row ELSE parameters[m]
    BY <1>1, <1>4
  <2>. QED BY <1>1, <1>2, <1>4, <2>1 DEF Counted
<1>5. ASSUME NEW t \in Workers, NEW step \in {"insert", "update"}, Param!At(t, step)
      PROVE  local[t].name \in Parameters /\ local[t].version \in Nat
  <2>1. local[t].name \in Parameters /\ local[t].todo \in ToInsert \cup ToUpdate
    BY <1>5, ParamAt DEF HistoryInv
  <2>2. local[t].todo # <<"delete">> /\ local[t].todo \notin {<<>>, <<"state">>, <<"rotation">>, <<"alias">>}
    <3>1. local[t].todo \notin ToEnd
      BY <2>1, TodosApart
    <3>2. Head(local[t].todo) \in {"encrypt", "insert", "update"} /\ local[t].todo # <<>>
      BY <2>1, ParamTodos
    <3>3. local[t].todo \notin {<<"state">>, <<"rotation">>, <<"alias">>}
      BY <3>2, ParamTodos
    <3>. QED BY <3>1, <3>2, <3>3 DEF ToEnd
  <2>. QED BY <2>1, <2>2 DEF HistoryInv, ParamLocal
<1>6. CASE \E t \in Workers : Param!PutInsert(t)
  <2>1. PICK t \in Workers : Param!PutInsert(t)
    BY <1>6
  <2> DEFINE s == local[t]
             new == [stored |-> Param!StoredValue(s), type |-> Param!TypeOf(s.key), key |-> s.key,
                     version |-> s.version]
  <2>2. Param!At(t, "insert") /\ (parameters' = parameters \/ parameters' = [parameters EXCEPT ![s.name] = new])
    BY <2>1 DEF Param!PutInsert
  <2>3. s.name \in Parameters /\ s.version \in Nat
    BY <1>5, <2>2
  <2>4. new.version = s.version /\ new.type \in {"String", "SecureString"}
    BY DEF Param!TypeOf
  <2> HIDE DEF new
  <2>. QED BY <1>3, <1>4, <2>2, <2>3, <2>4
<1>7. CASE \E t \in Workers : Param!PutUpdate(t)
  <2>1. PICK t \in Workers : Param!PutUpdate(t)
    BY <1>7
  <2> DEFINE s == local[t]  row == parameters[s.name]
  <2>2. /\ Param!At(t, "update")
        /\ \/ parameters' = parameters
           \/ row # NoParameter /\ parameters' = [parameters EXCEPT ![s.name] = Rewritten(row, s)]
    BY <2>1 DEF Param!PutUpdate, Param!Does, Rewritten
  <2>3. s.name \in Parameters /\ s.version \in Nat
    BY <1>5, <2>2
  <2>4. CASE row # NoParameter /\ parameters' = [parameters EXCEPT ![s.name] = Rewritten(row, s)]
    <3>1. ParamRow(row) /\ row.type \in {"String", "SecureString"}
      BY <1>1, <2>3, <2>4 DEF HistoryInv, TablesInv, ClearInv, Counted
    <3>2. Rewritten(row, s).version = s.version /\ Rewritten(row, s).type = row.type
      BY <3>1, RowRewritten
    <3>. QED BY <1>4, <2>3, <2>4, <3>1, <3>2
  <2>. QED BY <1>3, <2>2, <2>4
<1>8. CASE \E t \in Workers : Param!Delete(t)
  <2>1. PICK t \in Workers : Param!Delete(t)
    BY <1>8
  <2>2. Param!At(t, "delete") /\ parameters' = [parameters EXCEPT ![local[t].name] = NoParameter]
    BY <2>1 DEF Param!Delete, Param!Does
  <2>3. local[t].name \in Parameters
    BY <2>2, ParamAt DEF HistoryInv
  <2>. QED BY <1>4, <2>2, <2>3
<1>9. CASE UNCHANGED parameters
  BY <1>3, <1>9
<1>. QED BY <1>6, <1>7, <1>8, <1>9
         DEF Param!Next, Param!vars, Param!ssmvars, Param!Serve, Param!DeleteSelect, Param!PutSelect,
             Param!PutEncrypt, Param!PutHistory, Param!PutTag

LEMMA HistoryNext ==
  ASSUME HistoryInv, [Param!Next]_(Param!vars)
  PROVE  HistoryInv'
<1>1. TablesInv'
  BY ClearNext, HistoryCounted DEF TablesInv, HistoryInv
<1>2. CASE \E t \in Workers : Param!Serve(t)
  <2>1. PICK t \in Workers : Param!Serve(t)
    BY <1>2
  <2>2. CASE \E n \in Parameters : Param!DeleteSelect(t, n)
    BY <1>1, <2>2, DeleteSelectHistory
  <2>3. CASE \E n \in Parameters, k \in KeyIds \cup {NoKey}, tag, overwrite \in BOOLEAN :
                Param!PutSelect(t, n, k, tag, overwrite)
    BY <1>1, <2>3, PutSelectHistory
  <2>. QED BY <1>1, <2>1, <2>2, <2>3, PutEncryptHistory, PutInsertHistory, PutUpdateHistory,
              PutHistoryHistory, PutTagHistory, DeleteHistory DEF Param!Serve
<1>3. CASE \E t \in Workers : Param!KMSServe(t) /\ UNCHANGED Param!ssmvars
  BY <1>1, <1>3, KMSHistory DEF Param!ssmvars
<1>4. CASE (Param!Crash \/ \E t \in Workers : Param!Fails(t)) /\ UNCHANGED Param!ssmvars
  <2>1. Breaks
    BY <1>4, ParamRequests DEF HistoryInv
  <2>. QED BY <1>1, <1>4, <2>1, HistoryBreaks DEF Param!ssmvars
<1>5. CASE UNCHANGED Param!vars
  <2>1. UNCHANGED <<local, begun, disturbed, parameters, entries, deleted>>
    BY <1>5 DEF Param!vars, Param!requests, Param!ssmvars
  <2>2. Breaks
    BY <2>1 DEF HistoryInv, Threads, Breaks
  <2>. QED BY <1>1, <2>1, <2>2, HistoryBreaks
<1>. QED BY <1>2, <1>3, <1>4, <1>5 DEF Param!Next

LEMMA HistoryInit == InitRequests /\ Param!InitTables => HistoryInv
<1> SUFFICES ASSUME InitRequests, Param!InitTables PROVE HistoryInv
  OBVIOUS
<1>1. /\ \A t \in Workers : local[t] = Idle
      /\ local = [t \in Workers |-> Idle] /\ begun = 0 /\ disturbed = {}
      /\ parameters = [n \in Parameters |-> NoParameter] /\ entries = {} /\ deleted = {}
  BY DEF InitRequests, Param!InitTables
<1>2. Threads /\ Apart
  BY <1>1 DEF Threads, Apart, Idle
<1>3. \A t \in Workers : ParamLocal(local[t])
  BY <1>1 DEF ParamLocal, Idle
<1>4. TablesInv
  BY <1>1, ClearInit DEF TablesInv, Counted
<1>5. \A n \in Parameters : Followed(n)
  BY <1>1 DEF Followed, Complete, Mine, Idle
<1>. QED BY <1>2, <1>3, <1>4, <1>5 DEF HistoryInv

(* ssm.py:53-98: whatever requests overlap elsewhere, the history of a     *)
(* parameter whose own did not has every version once, and the last is     *)
(* what the parameter holds.                                               *)
THEOREM HistoryIsComplete == Spec => []HistoryComplete
<1> DEFINE Inv == service = "ssm" => HistoryInv
<1>1. Init => Inv
  BY HistoryInit DEF Init
<1>2. Inv /\ [Next]_vars => Inv'
  <2> SUFFICES ASSUME Inv, [Next]_vars, service' = "ssm" PROVE HistoryInv'
    OBVIOUS
  <2>. QED BY ServiceStep, HistoryNext
<1>3. Inv => HistoryComplete
  <2>1. ASSUME HistoryInv, NEW n \in Parameters, n \notin deleted, Param!Quiet(n), parameters[n] # NoParameter
        PROVE  Complete(n, parameters, entries)
    BY <2>1 DEF HistoryInv, Followed, Param!Quiet
  <2>2. ASSUME HistoryInv, NEW n \in Parameters, n \notin deleted, Param!Quiet(n), parameters[n] # NoParameter
        PROVE  /\ {e.version : e \in Mine(n, entries)} = 1 .. parameters[n].version
               /\ Cardinality(Mine(n, entries)) = parameters[n].version
               /\ \E e \in Mine(n, entries) : /\ e.version = parameters[n].version
                                               /\ e.stored = parameters[n].stored
    BY <2>1, <2>2 DEF Complete, Recorded
  <2>3. ASSUME HistoryInv PROVE Param!HistoryComplete
    <3>1. \A S : Param!Cardinality(S) = Cardinality(S)
      BY DEF Param!Cardinality, Cardinality
    <3>. QED BY <2>2, <2>3, <3>1 DEF Param!HistoryComplete, Mine
  <2>. QED BY <2>3 DEF HistoryComplete
<1>. QED BY <1>1, <1>2, <1>3, PTL DEF Spec

LEMMA IdentityThreads ==
  /\ \A t, s : Identity!Begin(t, s) => Begins(t, s)
  /\ \A t, s : Identity!Continue(t, s) => Goes(t, s)
  /\ \A t : Identity!Advance(t) => Goes(t, Rest(local[t]))
  /\ \A t : Identity!Ends(t) => Goes(t, Idle)
  /\ Threads /\ (Identity!Crash \/ \E t \in Workers : Identity!Fails(t)) => Breaks
<1>1. /\ \A t, s : Identity!Begin(t, s) => Begins(t, s)
      /\ \A t, s : Identity!Continue(t, s) => Goes(t, s)
  BY DEF Identity!Begin, Begins, Identity!Continue, Goes, Idle, Identity!Idle
<1>2. /\ \A t : Identity!Advance(t) => Goes(t, Rest(local[t]))
      /\ \A t : Identity!Ends(t) => Goes(t, Idle)
  BY <1>1 DEF Identity!Advance, Rest, Identity!Ends, Idle, Identity!Idle
<1>3. ASSUME Threads, NEW S, Identity!BreakOff(S) PROVE Breaks
  <2>1. /\ local' = [u \in Workers |-> IF u \in S THEN Idle ELSE local[u]]
        /\ disturbed' = disturbed \cup UNION {local[u].touches : u \in S} /\ begun' = begun
    BY <1>3 DEF Identity!BreakOff, Idle, Identity!Idle
  <2>2. \A u \in S : local[u].touches \subseteq disturbed'
    BY <2>1
  <2>. QED BY <2>1, <2>2 DEF Breaks
<1>. QED BY <1>1, <1>2, <1>3 DEF Identity!Crash, Identity!Fails

(* The four statements of a simulation, and those of all other requests.   *)
SimInline == <<"inline policies", "attached", "documents", "answer">>
SimAttached == <<"attached", "documents", "answer">>
SimDocuments == <<"documents", "answer">>
SimAnswer == <<"answer">>

SimSteps == {"inline policies", "attached", "documents", "answer"}

IdentityPlain == {"create", "drop", "drop keys", "drop memberships", "drop inline", "drop attachments",
                  "key", "add", "remove", "policy", "drop policy", "attach", "detach", "inline",
                  "session", "revoke"}

Collecting(s) == "simulated" \in DOMAIN s

SimLocal(s) ==
    /\ {"todo", "touches"} \subseteq DOMAIN s
    /\ ~Collecting(s) => s.todo \in Seq(IdentityPlain)
    /\ Collecting(s) =>
          /\ s.simulated \in Identity!Principals
          /\ \/ s.todo = SimInline /\ DOMAIN s = {"todo", "touches", "simulated"}
             \/ s.todo = SimAttached /\ DOMAIN s = {"todo", "touches", "simulated", "docs"}
             \/ s.todo = SimDocuments /\ DOMAIN s = {"todo", "touches", "simulated", "docs", "names"}
             \/ s.todo = SimAnswer /\ DOMAIN s = {"todo", "touches", "simulated", "docs", "names"}

(* The effect is among what s has collected. *)
Found(s, e) == \E d \in s.docs : e \in d

(* What is known of a source y that was there all along.                   *)
CollectedFrom(s, e, y) ==
    /\ s.todo \in {SimAttached, SimDocuments, SimAnswer} /\ y = s.simulated => Found(s, e)
    /\ s.todo = SimDocuments /\ y \in Policies => y \in s.names \/ Found(s, e)
    /\ s.todo = SimAnswer => Found(s, e)

(* Identity!Sources, of the tables I, A and P. *)
SourcesOf(x, e, I, A, P) ==
    {y \in {x} : I[y] # NoDocument /\ e \in I[y]} \cup
    {n \in Policies : <<x, n>> \in A /\ P[n] # NoDocument /\ e \in P[n]}

Standing(s, S, I, A, P) ==
    Collecting(s) => \A e \in Identity!Effects : /\ S[e] \subseteq SourcesOf(s.simulated, e, I, A, P)
                                                 /\ \A y \in S[e] : CollectedFrom(s, e, y)

SimInv ==
    /\ Threads
    /\ \A t \in Workers : /\ SimLocal(local[t])
                          /\ Standing(local[t], standing[t], inline, attachments, policies)

LEMMA SimWatch ==
  ASSUME Identity!Watch
  PROVE  \A u \in Workers, e \in Identity!Effects : Collecting(local'[u]) =>
            standing'[u][e] = (IF Collecting(local[u]) THEN standing[u][e] ELSE Identity!Principals \cup Policies)
                              \cap SourcesOf(local'[u].simulated, e, inline', attachments', policies')
  BY DEF Identity!Watch, Identity!Simulating, Identity!Sources, Collecting, SourcesOf

LEMMA SimTodos ==
  /\ SimInline # <<>> /\ Head(SimInline) = "inline policies" /\ Tail(SimInline) = SimAttached
  /\ SimAttached # <<>> /\ Head(SimAttached) = "attached" /\ Tail(SimAttached) = SimDocuments
  /\ SimDocuments # <<>> /\ Head(SimDocuments) = "documents" /\ Tail(SimDocuments) = SimAnswer
  /\ SimAnswer # <<>> /\ Head(SimAnswer) = "answer" /\ Tail(SimAnswer) = <<>>
  BY Tails DEF SimInline, SimAttached, SimDocuments, SimAnswer

LEMMA SimApart ==
  /\ SimAttached # SimInline /\ SimDocuments # SimInline /\ SimAnswer # SimInline
  /\ SimDocuments # SimAttached /\ SimAnswer # SimAttached /\ SimAnswer # SimDocuments
<1>1. /\ "attached" # "inline policies" /\ "documents" # "inline policies" /\ "answer" # "inline policies"
      /\ "documents" # "attached" /\ "answer" # "attached" /\ "answer" # "documents"
  OBVIOUS
<1>. QED BY <1>1, SimTodos

LEMMA SimNotPlain ==
  /\ "inline policies" \notin IdentityPlain /\ "attached" \notin IdentityPlain
  /\ "documents" \notin IdentityPlain /\ "answer" \notin IdentityPlain
  BY DEF IdentityPlain

(* A step of thread t, to r; the requests of others stay as they are. *)
LEMMA SimStep ==
  ASSUME SimInv, Identity!Watch, Threads', NEW t \in Workers, NEW r, Only(t, r), SimLocal(r),
         \/ ~Collecting(r)
         \/ r.todo = SimInline
         \/ /\ Collecting(local[t]) /\ r.simulated = local[t].simulated
            /\ \A e \in Identity!Effects : \A y \in standing[t][e] :
                  y \in SourcesOf(r.simulated, e, inline', attachments', policies') => CollectedFrom(r, e, y)
  PROVE  SimInv'
<1>1. \A u \in Workers : SimLocal(local'[u])
  BY DEF SimInv, Only
<1>2. ASSUME NEW u \in Workers, Collecting(local'[u]), NEW e \in Identity!Effects
      PROVE  /\ standing'[u][e] \subseteq SourcesOf(local'[u].simulated, e, inline', attachments', policies')
             /\ \A y \in standing'[u][e] : CollectedFrom(local'[u], e, y)
  <2>1. standing'[u][e] = (IF Collecting(local[u]) THEN standing[u][e] ELSE Identity!Principals \cup Policies)
                          \cap SourcesOf(local'[u].simulated, e, inline', attachments', policies')
    BY <1>2, SimWatch
  <2>2. CASE u # t
    <3>1. local'[u] = local[u]
      BY <2>2 DEF Only
    <3>2. \A y \in standing[u][e] : CollectedFrom(local[u], e, y)
      BY <1>2, <3>1 DEF SimInv, Standing
    <3>. QED BY <1>2, <2>1, <3>1, <3>2
  <2>3. CASE u = t
    <3>1. local'[u] = r
      BY <2>3 DEF Only
    <3>2. CASE r.todo = SimInline
      <4>1. \A y : CollectedFrom(r, e, y)
        BY <3>2, SimApart DEF CollectedFrom
      <4>. QED BY <2>1, <3>1, <4>1
    <3>3. CASE /\ Collecting(local[t]) /\ r.simulated = local[t].simulated
               /\ \A y \in standing[t][e] :
                    y \in SourcesOf(r.simulated, e, inline', attachments', policies') => CollectedFrom(r, e, y)
      BY <2>1, <2>3, <3>1, <3>3
    <3>. QED BY <1>2, <3>1, <3>2, <3>3
  <2>. QED BY <2>2, <2>3
<1>3. \A u \in Workers : Standing(local'[u], standing'[u], inline', attachments', policies')
  BY <1>2 DEF Standing
<1>. QED BY <1>1, <1>3 DEF SimInv

LEMMA SimIdle == SimLocal(Idle) /\ ~Collecting(Idle)
<1>1. Idle.todo = <<>> /\ DOMAIN Idle = {"todo", "touches"}
  BY DEF Idle
<1>2. <<>> \in Seq(IdentityPlain)
  OBVIOUS
<1>3. ~Collecting(Idle)
  BY <1>1 DEF Collecting
<1>. QED BY <1>1, <1>2, <1>3 DEF SimLocal

LEMMA SimAsk ==
  ASSUME SimInv, Identity!Watch, NEW t \in Workers, NEW s, Identity!Ask(t, s), SimLocal(s),
         ~Collecting(s) \/ s.todo = SimInline
  PROVE  SimInv'
<1>1. Begins(t, s)
  BY IdentityThreads DEF Identity!Ask
<1>2. Threads' /\ Only(t, s)
  BY <1>1, BeginsOnly DEF SimInv
<1>. QED BY <1>2, SimStep

LEMMA IdentityFields ==
  /\ \A a : "simulated" \notin DOMAIN [name |-> a]
  /\ \A a : "simulated" \notin DOMAIN [member |-> a]
  /\ \A a : "simulated" \notin DOMAIN [attached |-> a]
  /\ \A a : "simulated" \notin DOMAIN [session |-> a]
  /\ \A a, b : "simulated" \notin DOMAIN [key |-> a, user |-> b]
  /\ \A a, b : "simulated" \notin DOMAIN [name |-> a, document |-> b]
  /\ \A a, b, c : "simulated" \notin DOMAIN [name |-> a, document |-> b, found |-> c]
  OBVIOUS

LEMMA SimAskPlain ==
  ASSUME SimInv, Identity!Watch, NEW t \in Workers, NEW rows, NEW todo \in Seq(IdentityPlain), NEW r,
         "simulated" \notin DOMAIN r, Identity!Ask(t, Identity!On(rows, todo, r))
  PROVE  SimInv'
<1> DEFINE s == Identity!On(rows, todo, r)
<1>1. DOMAIN s = {"todo", "touches"} \cup DOMAIN r /\ s.todo = todo
  BY DEF Identity!On, Identity!Also
<1>3. s = Identity!On(rows, todo, r)
  OBVIOUS
<1> HIDE DEF s
<1>2. ~Collecting(s)
  BY <1>1 DEF Collecting
<1>4. SimLocal(s)
  BY <1>1, <1>2 DEF SimLocal
<1>. QED BY <1>2, <1>3, <1>4, SimAsk

LEMMA SimDoesPlain ==
  ASSUME SimInv, Identity!Watch, NEW t \in Workers, NEW step \in IdentityPlain, Identity!Does(t, step)
  PROVE  SimInv'
<1> DEFINE s == local[t]  r == Rest(s)  q == IF r.todo = <<>> THEN Idle ELSE r
<1>1. s.todo # <<>> /\ Head(s.todo) = step /\ Goes(t, r)
  BY IdentityThreads DEF Identity!Does, Identity!At
<1>2. Threads' /\ Only(t, q)
  BY <1>1, GoesOnly DEF SimInv
<1>3. SimLocal(s)
  BY DEF SimInv
<1>4. ~Collecting(s) /\ s.todo \in Seq(IdentityPlain)
  BY <1>1, <1>3, SimTodos, SimNotPlain DEF SimLocal
<1>5. DOMAIN r = DOMAIN s /\ r.todo = Tail(s.todo)
  BY <1>3, RestFields DEF SimLocal
<1> HIDE DEF r
<1>6. Tail(s.todo) \in Seq(IdentityPlain)
  BY <1>1, <1>4
<1>7. SimLocal(r) /\ ~Collecting(r)
  BY <1>3, <1>4, <1>5, <1>6 DEF SimLocal, Collecting
<1>8. SimLocal(q) /\ ~Collecting(q)
  BY <1>7, SimIdle
<1> HIDE DEF q
<1>. QED BY <1>2, <1>8, SimStep

LEMMA IdentityPlainTodos ==
  /\ <<"create">> \in Seq(IdentityPlain) /\ <<"key">> \in Seq(IdentityPlain)
  /\ <<"add">> \in Seq(IdentityPlain) /\ <<"remove">> \in Seq(IdentityPlain)
  /\ <<"policy">> \in Seq(IdentityPlain) /\ <<"drop policy", "drop attachments">> \in Seq(IdentityPlain)
  /\ <<"attach">> \in Seq(IdentityPlain) /\ <<"detach">> \in Seq(IdentityPlain)
  /\ <<"inline">> \in Seq(IdentityPlain) /\ <<"drop inline">> \in Seq(IdentityPlain)
  /\ <<"session">> \in Seq(IdentityPlain) /\ <<"revoke">> \in Seq(IdentityPlain)
  /\ <<"drop">> \in Seq(IdentityPlain) /\ <<"drop keys">> \in Seq(IdentityPlain)
  /\ <<"drop memberships">> \in Seq(IdentityPlain)
  /\ <<"drop inline", "drop attachments">> \in Seq(IdentityPlain)
  BY DEF IdentityPlain

LEMMA JoinedSeq ==
  ASSUME NEW S, NEW a \in Seq(S), NEW b \in Seq(S)
  PROVE  a \o b \in Seq(S)
  OBVIOUS

LEMMA SimIdentity ==
  ASSUME SimInv, Identity!Watch, NEW t \in Workers, Identity!Identity(t)
  PROVE  SimInv'
<1>1. CASE \E x \in Identity!Principals : Identity!CreateCheck(t, x)
  BY <1>1, SimAskPlain, IdentityPlainTodos, IdentityFields DEF Identity!CreateCheck
<1>2. CASE \E x \in Identity!Principals : Identity!DeleteRequire(t, x)
  <2>1. PICK x \in Identity!Principals : Identity!DeleteRequire(t, x)
    BY <1>2
  <2> DEFINE own == IF x \in Users THEN <<"drop keys">> ELSE <<>>
             joined == IF x \in Roles THEN <<>> ELSE <<"drop memberships">>
             todo == <<"drop">> \o own \o joined \o <<"drop inline", "drop attachments">>
  <2>2. Identity!Ask(t, Identity!On({x}, todo, [name |-> x]))
    BY <2>1 DEF Identity!DeleteRequire
  <2>3. todo \in Seq(IdentityPlain)
    <3>1. own \in Seq(IdentityPlain) /\ joined \in Seq(IdentityPlain)
      <4>1. own \in {<<>>, <<"drop keys">>} /\ joined \in {<<>>, <<"drop memberships">>}
        OBVIOUS
      <4> HIDE DEF own, joined
      <4>2. <<>> \in Seq(IdentityPlain)
        OBVIOUS
      <4>. QED BY <4>1, <4>2, IdentityPlainTodos
    <3> HIDE DEF own, joined
    <3>2. <<"drop">> \o own \in Seq(IdentityPlain)
      BY <3>1, IdentityPlainTodos, JoinedSeq
    <3>3. <<"drop">> \o own \o joined \in Seq(IdentityPlain)
      BY <3>1, <3>2, JoinedSeq
    <3>. QED BY <3>3, IdentityPlainTodos, JoinedSeq
  <2> HIDE DEF todo
  <2>. QED BY <2>2, <2>3, SimAskPlain, IdentityFields
<1>3. CASE \E u \in Users : Identity!CreateKeyRequire(t, u)
  BY <1>3, SimAskPlain, IdentityPlainTodos, IdentityFields DEF Identity!CreateKeyRequire
<1>4. CASE \E u \in Users, g \in Groups : Identity!AddCheck(t, u, g)
  BY <1>4, SimAskPlain, IdentityPlainTodos, IdentityFields DEF Identity!AddCheck
<1>5. CASE \E u \in Users, g \in Groups : Identity!Remove(t, u, g)
  BY <1>5, SimAskPlain, IdentityPlainTodos, IdentityFields DEF Identity!Remove
<1>6. CASE \E k \in Identity!Ids : Identity!DeleteKeyRequire(t, k)
  BY <1>6, SimAskPlain, IdentityPlainTodos, IdentityFields DEF Identity!DeleteKeyRequire
<1>7. CASE \/ Identity!Create(t) \/ Identity!Drop(t) \/ Identity!DropKeys(t) \/ Identity!DropMemberships(t)
           \/ Identity!DropInline(t) \/ Identity!DropAttachments(t) \/ Identity!SetKey(t)
           \/ Identity!Add(t) \/ Identity!RemoveDelete(t)
  <2>1. \E step \in IdentityPlain : Identity!Does(t, step)
    BY <1>7 DEF Identity!Create, Identity!Drop, Identity!DropKeys, Identity!DropMemberships,
           Identity!DropInline, Identity!DropAttachments, Identity!SetKey, Identity!Add,
           Identity!RemoveDelete, IdentityPlain
  <2>. QED BY <2>1, SimDoesPlain
<1>. QED BY <1>1, <1>2, <1>3, <1>4, <1>5, <1>6, <1>7 DEF Identity!Identity

LEMMA SimPermission ==
  ASSUME SimInv, Identity!Watch, NEW t \in Workers, Identity!Permission(t)
  PROVE  SimInv'
<1>1. CASE \E n \in Policies : Identity!DeletePolicyRequire(t, n)
  BY <1>1, SimAskPlain, IdentityPlainTodos, IdentityFields DEF Identity!DeletePolicyRequire
<1>2. CASE \E n \in Policies, d \in Documents : Identity!CreatePolicyCheck(t, n, d)
  BY <1>2, SimAskPlain, IdentityPlainTodos, IdentityFields DEF Identity!CreatePolicyCheck
<1>3. CASE \E n \in Policies, x \in Identity!Principals : Identity!AttachCheck(t, x, n)
  BY <1>3, SimAskPlain, IdentityPlainTodos, IdentityFields DEF Identity!AttachCheck
<1>4. CASE \E n \in Policies, x \in Identity!Principals : Identity!Detach(t, x, n)
  BY <1>4, SimAskPlain, IdentityPlainTodos, IdentityFields DEF Identity!Detach
<1>5. CASE \E x \in Identity!Principals : Identity!DeleteInline(t, x)
  BY <1>5, SimAskPlain, IdentityPlainTodos, IdentityFields DEF Identity!DeleteInline
<1>6. CASE \E x \in Identity!Principals, d \in Documents : Identity!PutInlineSelect(t, x, d)
  BY <1>6, SimAskPlain, IdentityPlainTodos, IdentityFields DEF Identity!PutInlineSelect
<1>7. CASE \/ Identity!CreatePolicy(t) \/ Identity!DropPolicy(t) \/ Identity!Attach(t)
           \/ Identity!DetachDelete(t) \/ Identity!PutInline(t)
  <2>1. \E step \in IdentityPlain : Identity!Does(t, step)
    BY <1>7 DEF Identity!CreatePolicy, Identity!DropPolicy, Identity!Attach, Identity!DetachDelete,
           Identity!PutInline, IdentityPlain
  <2>. QED BY <2>1, SimDoesPlain
<1>. QED BY <1>1, <1>2, <1>3, <1>4, <1>5, <1>6, <1>7 DEF Identity!Permission

LEMMA SimSession ==
  ASSUME SimInv, Identity!Watch, NEW t \in Workers, Identity!Session(t)
  PROVE  SimInv'
<1>1. CASE \E r \in Roles : Identity!AssumeRoleSelect(t, r)
  BY <1>1, SimAskPlain, IdentityPlainTodos, IdentityFields DEF Identity!AssumeRoleSelect
<1>2. CASE Identity!SessionToken(t)
  BY <1>2, SimAskPlain, IdentityPlainTodos, IdentityFields DEF Identity!SessionToken
<1>3. CASE \E s \in sessions : Identity!Revoke(t, s)
  BY <1>3, SimAskPlain, IdentityPlainTodos, IdentityFields DEF Identity!Revoke
<1>4. CASE Identity!AddSession(t) \/ Identity!RevokeDelete(t)
  <2>1. \E step \in IdentityPlain : Identity!Does(t, step)
    BY <1>4 DEF Identity!AddSession, Identity!RevokeDelete, IdentityPlain
  <2>. QED BY <2>1, SimDoesPlain
<1>. QED BY <1>1, <1>2, <1>3, <1>4 DEF Identity!Session

(* A statement of the simulation itself. *)
LEMMA SimCollects ==
  ASSUME SimInv, Identity!Watch, NEW t \in Workers, NEW r, Collecting(local[t]), Goes(t, r), r.todo # <<>>,
         Collecting(r), r.simulated = local[t].simulated, SimLocal(r), UNCHANGED <<inline, attachments, policies>>,
         \A e \in Identity!Effects : \A y \in standing[t][e] :
            y \in SourcesOf(r.simulated, e, inline, attachments, policies) => CollectedFrom(r, e, y)
  PROVE  SimInv'
<1>1. Threads' /\ Only(t, r)
  BY GoesOnly DEF SimInv
<1>2. \A e \in Identity!Effects :
         SourcesOf(r.simulated, e, inline', attachments', policies')
           = SourcesOf(r.simulated, e, inline, attachments, policies)
  OBVIOUS
<1>3. \A e \in Identity!Effects : \A y \in standing[t][e] :
         y \in SourcesOf(r.simulated, e, inline', attachments', policies') => CollectedFrom(r, e, y)
  BY <1>2
<1>. QED BY <1>1, <1>3, SimStep

LEMMA SimAt ==
  ASSUME SimInv, NEW t \in Workers, NEW step \in SimSteps, Identity!At(t, step)
  PROVE  /\ SimLocal(local[t]) /\ Collecting(local[t])
         /\ step = "inline policies" =>
               local[t].todo = SimInline /\ DOMAIN local[t] = {"todo", "touches", "simulated"}
         /\ step = "attached" =>
               local[t].todo = SimAttached /\ DOMAIN local[t] = {"todo", "touches", "simulated", "docs"}
         /\ step = "documents" =>
               /\ local[t].todo = SimDocuments
               /\ DOMAIN local[t] = {"todo", "touches", "simulated", "docs", "names"}
         /\ step = "answer" => local[t].todo = SimAnswer
<1> DEFINE s == local[t]
<1>1. SimLocal(s) /\ s.todo # <<>> /\ Head(s.todo) = step
  BY DEF SimInv, Identity!At
<1>2. Collecting(s)
  <2>1. SUFFICES ASSUME s.todo \in Seq(IdentityPlain) PROVE FALSE
    BY <1>1 DEF SimLocal
  <2>2. step \in IdentityPlain
    BY <1>1, <2>1
  <2>. QED BY <2>2, SimNotPlain DEF SimSteps
<1>3. \/ s.todo = SimInline /\ DOMAIN s = {"todo", "touches", "simulated"}
      \/ s.todo = SimAttached /\ DOMAIN s = {"todo", "touches", "simulated", "docs"}
      \/ s.todo = SimDocuments /\ DOMAIN s = {"todo", "touches", "simulated", "docs", "names"}
      \/ s.todo = SimAnswer
  BY <1>1, <1>2 DEF SimLocal
<1>4. /\ Head(SimInline) = "inline policies" /\ Head(SimAttached) = "attached"
      /\ Head(SimDocuments) = "documents" /\ Head(SimAnswer) = "answer"
  BY SimTodos
<1>5. /\ "attached" # "inline policies" /\ "documents" # "inline policies" /\ "answer" # "inline policies"
      /\ "documents" # "attached" /\ "answer" # "attached" /\ "answer" # "documents"
  OBVIOUS
<1>. QED BY <1>1, <1>2, <1>3, <1>4, <1>5

LEMMA SimInlineRead ==
  ASSUME SimInv, Identity!Watch, NEW t \in Workers, Identity!SimulateInline(t)
  PROVE  SimInv'
<1> DEFINE s == local[t]
           doc == inline[s.simulated]
           r == Identity!Also(Rest(s), [docs |-> {doc} \ {NoDocument}])
<1>1. Identity!At(t, "inline policies") /\ Identity!Continue(t, r) /\ UNCHANGED <<inline, attachments, policies>>
  BY DEF Identity!SimulateInline, Rest, Identity!tables, Identity!permissions
<1>2. /\ SimLocal(s) /\ Collecting(s) /\ s.todo = SimInline /\ s.simulated \in Identity!Principals
      /\ DOMAIN s = {"todo", "touches", "simulated"}
  BY <1>1, SimAt DEF SimSteps, SimLocal
<1>3. /\ DOMAIN r = {"todo", "touches", "simulated", "docs"}
      /\ r.todo = SimAttached /\ r.simulated = s.simulated /\ r.docs = {doc} \ {NoDocument}
  <2>1. DOMAIN Rest(s) = DOMAIN s /\ Rest(s).todo = SimAttached /\ Rest(s).simulated = s.simulated
    BY <1>2, SimTodos, RestFields
  <2>. QED BY <1>2, <2>1 DEF Identity!Also
<1>4. Goes(t, r)
  BY <1>1, IdentityThreads
<1> HIDE DEF r
<1>5. SimLocal(r) /\ Collecting(r) /\ r.todo # <<>>
  BY <1>2, <1>3, SimTodos DEF SimLocal, Collecting
<1>6. ASSUME NEW e \in Identity!Effects, NEW y \in standing[t][e],
             y \in SourcesOf(r.simulated, e, inline, attachments, policies)
      PROVE  CollectedFrom(r, e, y)
  <2>1. y = r.simulated => Found(r, e)
    <3>1. SUFFICES ASSUME y = s.simulated PROVE e \in doc /\ doc # NoDocument
      BY <1>3 DEF Found
    <3>2. y \notin Policies
      BY <1>2, <3>1, IdentityAssumption DEF Identity!Principals
    <3>. QED BY <1>3, <1>6, <3>1, <3>2 DEF SourcesOf
  <2>2. r.todo # SimDocuments /\ r.todo # SimAnswer
    BY <1>3, SimApart
  <2>. QED BY <2>1, <2>2 DEF CollectedFrom
<1>. QED BY <1>1, <1>2, <1>3, <1>4, <1>5, <1>6, SimCollects

LEMMA SimAttachedRead ==
  ASSUME SimInv, Identity!Watch, NEW t \in Workers, Identity!SimulateAttached(t)
  PROVE  SimInv'
<1> DEFINE s == local[t]
           names == {n \in Policies : <<s.simulated, n>> \in attachments}
           r == Identity!Also(Rest(s), [names |-> names])
<1>1. Identity!At(t, "attached") /\ Identity!Continue(t, r) /\ UNCHANGED <<inline, attachments, policies>>
  BY DEF Identity!SimulateAttached, Rest, Identity!tables, Identity!permissions
<1>2. /\ SimLocal(s) /\ Collecting(s) /\ s.todo = SimAttached /\ s.simulated \in Identity!Principals
      /\ DOMAIN s = {"todo", "touches", "simulated", "docs"}
  BY <1>1, SimAt DEF SimSteps, SimLocal
<1>3. /\ DOMAIN r = {"todo", "touches", "simulated", "docs", "names"} /\ r.todo = SimDocuments
      /\ r.simulated = s.simulated /\ r.docs = s.docs /\ r.names = names
  <2>1. /\ DOMAIN Rest(s) = DOMAIN s /\ Rest(s).todo = SimDocuments /\ Rest(s).simulated = s.simulated
        /\ Rest(s).docs = s.docs
    BY <1>2, SimTodos, RestFields
  <2>. QED BY <1>2, <2>1 DEF Identity!Also
<1>4. Goes(t, r)
  BY <1>1, IdentityThreads
<1> HIDE DEF r
<1>5. SimLocal(r) /\ Collecting(r) /\ r.todo # <<>>
  BY <1>2, <1>3, SimTodos DEF SimLocal, Collecting
<1>6. ASSUME NEW e \in Identity!Effects, NEW y \in standing[t][e],
             y \in SourcesOf(r.simulated, e, inline, attachments, policies)
      PROVE  CollectedFrom(r, e, y)
  <2>1. CollectedFrom(s, e, y)
    BY <1>2 DEF SimInv, Standing
  <2>2. y = r.simulated => Found(r, e)
    BY <1>2, <1>3, <2>1 DEF CollectedFrom, Found
  <2>3. y \in Policies => y \in r.names
    <3>1. SUFFICES ASSUME y \in Policies PROVE <<s.simulated, y>> \in attachments
      BY <1>3
    <3>2. y # s.simulated
      BY <1>2, <3>1, IdentityAssumption DEF Identity!Principals
    <3>. QED BY <1>3, <1>6, <3>2 DEF SourcesOf
  <2>4. r.todo # SimAnswer
    BY <1>3, SimApart
  <2>. QED BY <2>2, <2>3, <2>4 DEF CollectedFrom
<1>. QED BY <1>1, <1>2, <1>3, <1>4, <1>5, <1>6, SimCollects

LEMMA SimDocumentRead ==
  ASSUME SimInv, Identity!Watch, NEW t \in Workers, Identity!SimulateDocument(t)
  PROVE  SimInv'
<1> DEFINE s == local[t]
<1>1. /\ Identity!At(t, "documents") /\ UNCHANGED <<inline, attachments, policies>>
      /\ IF s.names = {} THEN Identity!Advance(t)
         ELSE \E n \in s.names : Identity!Continue(t, [s EXCEPT !.names = @ \ {n},
                                                    !.docs = @ \cup ({policies[n]} \ {NoDocument})])
  BY DEF Identity!SimulateDocument, Identity!tables, Identity!permissions
<1>2. /\ SimLocal(s) /\ Collecting(s) /\ s.todo = SimDocuments /\ s.simulated \in Identity!Principals
      /\ DOMAIN s = {"todo", "touches", "simulated", "docs", "names"}
  BY <1>1, SimAt DEF SimSteps, SimLocal
<1>3. ASSUME NEW e \in Identity!Effects, NEW y \in standing[t][e]
      PROVE  CollectedFrom(s, e, y) /\ y \in SourcesOf(s.simulated, e, inline, attachments, policies)
  BY <1>2, <1>3 DEF SimInv, Standing
<1>4. CASE s.names = {}
  <2> DEFINE r == Rest(s)
  <2>1. Goes(t, r)
    BY <1>1, <1>4, IdentityThreads
  <2>2. /\ DOMAIN r = DOMAIN s /\ r.todo = SimAnswer /\ r.simulated = s.simulated /\ r.docs = s.docs
    BY <1>2, SimTodos, RestFields
  <2> HIDE DEF r
  <2>3. SimLocal(r) /\ Collecting(r) /\ r.todo # <<>>
    BY <1>2, <2>2, SimTodos DEF SimLocal, Collecting
  <2>4. ASSUME NEW e \in Identity!Effects, NEW y \in standing[t][e] PROVE CollectedFrom(r, e, y)
    <3>1. y = s.simulated \/ y \in Policies
      BY <1>3, <2>4 DEF SourcesOf
    <3>2. Found(s, e)
      BY <1>2, <1>3, <1>4, <2>4, <3>1 DEF CollectedFrom
    <3>3. r.todo # SimDocuments
      BY <2>2, SimApart
    <3>. QED BY <2>2, <3>2, <3>3 DEF CollectedFrom, Found
  <2>. QED BY <1>1, <1>2, <2>1, <2>2, <2>3, <2>4, SimCollects
<1>5. CASE s.names # {}
  <2>1. PICK n \in s.names : Identity!Continue(t, [s EXCEPT !.names = @ \ {n},
                                              !.docs = @ \cup ({policies[n]} \ {NoDocument})])
    BY <1>1, <1>5
  <2> DEFINE r == [s EXCEPT !.names = @ \ {n}, !.docs = @ \cup ({policies[n]} \ {NoDocument})]
  <2>2. Goes(t, r)
    BY <2>1, IdentityThreads
  <2>3. /\ DOMAIN r = DOMAIN s /\ r.todo = SimDocuments /\ r.simulated = s.simulated
        /\ r.docs = s.docs \cup ({policies[n]} \ {NoDocument}) /\ r.names = s.names \ {n}
    BY <1>2
  <2> HIDE DEF r
  <2>4. SimLocal(r) /\ Collecting(r) /\ r.todo # <<>>
    BY <1>2, <2>3, SimTodos DEF SimLocal, Collecting
  <2>5. ASSUME NEW e \in Identity!Effects, NEW y \in standing[t][e] PROVE CollectedFrom(r, e, y)
    <3>1. CollectedFrom(s, e, y) /\ y \in SourcesOf(s.simulated, e, inline, attachments, policies)
      BY <1>3, <2>5
    <3>2. Found(s, e) => Found(r, e)
      BY <2>3 DEF Found
    <3>3. y = n /\ y \in Policies => Found(r, e)
      <4>1. SUFFICES ASSUME y = n, y \in Policies PROVE policies[n] # NoDocument /\ e \in policies[n]
        BY <2>3 DEF Found
      <4>2. y # s.simulated
        BY <1>2, <4>1, IdentityAssumption DEF Identity!Principals
      <4>. QED BY <3>1, <4>1, <4>2 DEF SourcesOf
    <3>4. r.todo # SimAnswer
      BY <2>3, SimApart
    <3>. QED BY <1>2, <2>3, <3>1, <3>2, <3>3, <3>4 DEF CollectedFrom
  <2>. QED BY <1>1, <1>2, <2>2, <2>3, <2>4, <2>5, SimCollects
<1>. QED BY <1>4, <1>5

LEMMA SimAnswered ==
  ASSUME SimInv, Identity!Watch, NEW t \in Workers, Identity!SimulateAnswer(t)
  PROVE  SimInv'
<1>1. Goes(t, Rest(local[t])) /\ Identity!At(t, "answer")
  BY IdentityThreads DEF Identity!SimulateAnswer, Identity!Does
<1>2. local[t].todo = SimAnswer /\ "todo" \in DOMAIN local[t]
  BY <1>1, SimAt DEF SimSteps, SimLocal
<1>3. Rest(local[t]).todo = <<>>
  BY <1>2, RestFields, SimTodos
<1>4. Threads' /\ Only(t, Idle)
  BY <1>1, <1>3, GoesOnly DEF SimInv
<1>. QED BY <1>4, SimIdle, SimStep

LEMMA SimBreaks ==
  ASSUME SimInv, Breaks, Identity!Watch
  PROVE  SimInv'
<1>1. Threads' /\ \A u \in Workers : local'[u] = local[u] \/ local'[u] = Idle
  BY BreaksThreads DEF Breaks
<1>2. \A u \in Workers : SimLocal(local'[u])
  BY <1>1, SimIdle DEF SimInv
<1>3. ASSUME NEW u \in Workers, Collecting(local'[u]), NEW e \in Identity!Effects
      PROVE  /\ standing'[u][e] \subseteq SourcesOf(local'[u].simulated, e, inline', attachments', policies')
             /\ \A y \in standing'[u][e] : CollectedFrom(local'[u], e, y)
  <2>1. local'[u] = local[u] /\ Collecting(local[u])
    BY <1>1, <1>3, SimIdle
  <2>2. standing'[u][e] = standing[u][e]
                          \cap SourcesOf(local'[u].simulated, e, inline', attachments', policies')
    BY <1>3, <2>1, SimWatch
  <2>3. \A y \in standing[u][e] : CollectedFrom(local[u], e, y)
    BY <2>1 DEF SimInv, Standing
  <2>. QED BY <2>1, <2>2, <2>3
<1>4. \A u \in Workers : Standing(local'[u], standing'[u], inline', attachments', policies')
  BY <1>3 DEF Standing
<1>. QED BY <1>1, <1>2, <1>4 DEF SimInv

LEMMA SimNext ==
  ASSUME SimInv, [Identity!Next]_(Identity!vars)
  PROVE  SimInv'
<1>1. CASE UNCHANGED Identity!vars
  <2>1. UNCHANGED <<local, standing, inline, attachments, policies>>
    BY <1>1 DEF Identity!vars, Identity!requests, Identity!iamvars, Identity!tables, Identity!permissions
  <2>. QED BY <2>1 DEF SimInv, Threads
<1>2. CASE Identity!Next
  <2>1. Identity!Watch
    BY <1>2 DEF Identity!Next
  <2>2. CASE \E t \in Workers : Identity!Identity(t) \/ Identity!Permission(t) \/ Identity!Session(t)
    BY <2>1, <2>2, SimIdentity, SimPermission, SimSession
  <2>3. CASE \E t \in Workers : Identity!Simulation(t)
    <3>1. PICK t \in Workers : Identity!Simulation(t)
      BY <2>3
    <3>2. CASE \E x \in Identity!Principals : Identity!Simulate(t, x)
      <4>1. PICK x \in Identity!Principals : Identity!Simulate(t, x)
        BY <3>2
      <4> DEFINE s == Identity!On({}, SimInline, [simulated |-> x])
      <4>2. Identity!Ask(t, s)
        BY <4>1 DEF Identity!Simulate, SimInline
      <4>3. s.todo = SimInline /\ DOMAIN s = {"todo", "touches", "simulated"} /\ s.simulated = x
        BY DEF Identity!On, Identity!Also
      <4> HIDE DEF s
      <4>4. SimLocal(s)
        BY <4>3 DEF SimLocal, Collecting
      <4>. QED BY <2>1, <4>2, <4>3, <4>4, SimAsk
    <3>. QED BY <2>1, <3>1, <3>2, SimInlineRead, SimAttachedRead, SimDocumentRead, SimAnswered
             DEF Identity!Simulation
  <2>4. CASE Identity!Crash \/ \E t \in Workers : Identity!Fails(t)
    <3>1. Breaks
      BY <2>4, IdentityThreads DEF SimInv
    <3>. QED BY <2>1, <3>1, SimBreaks
  <2>. QED BY <1>2, <2>2, <2>3, <2>4 DEF Identity!Next
<1>. QED BY <1>1, <1>2

LEMMA SimInit == InitRequests => SimInv
<1> SUFFICES ASSUME InitRequests PROVE SimInv
  OBVIOUS
<1>1. \A t \in Workers : local[t] = Idle
  BY DEF InitRequests
<1>2. Threads
  BY <1>1 DEF InitRequests, Threads
<1>. QED BY <1>1, <1>2, SimIdle DEF SimInv, Standing

(* iam.py:331-404: whatever is changed while a policy is simulated, a Deny *)
(* that was there all along is obeyed and an Allow never overlooked.       *)
THEOREM StandingPoliciesDecide == Spec => []StandingPoliciesCount
<1> DEFINE Inv == service = "iam" => SimInv
<1>1. Init => Inv
  BY SimInit DEF Init
<1>2. Inv /\ [Next]_vars => Inv'
  <2> SUFFICES ASSUME Inv, [Next]_vars, service' = "iam" PROVE SimInv'
    OBVIOUS
  <2>. QED BY ServiceStep, SimNext
<1>3. Inv => StandingPoliciesCount
  <2> SUFFICES ASSUME SimInv, NEW t \in Workers, Identity!At(t, "answer")
               PROVE  LET decision == Identity!Decision(local[t].docs) IN
                      /\ standing[t]["Deny"] # {} => decision = "explicitDeny"
                      /\ standing[t]["Allow"] # {} => decision # "implicitDeny"
    BY DEF StandingPoliciesCount, Identity!StandingPoliciesCount
  <2>1. Collecting(local[t]) /\ local[t].todo = SimAnswer
    BY SimAt DEF SimSteps
  <2>2. \A e \in Identity!Effects : standing[t][e] # {} => Found(local[t], e)
    BY <2>1 DEF SimInv, Standing, CollectedFrom
  <2>3. "Deny" \in Identity!Effects /\ "Allow" \in Identity!Effects
    BY DEF Identity!Effects
  <2>. QED BY <2>2, <2>3 DEF Identity!Decision, Found
<1>. QED BY <1>1, <1>2, <1>3, PTL DEF Spec

-----------------------------------------------------------------------------
(* Cognito *)
(* The steps of requests; of those that insert no user and update none.    *)
PoolPlain == {"create pool", "drop pool", "drop users", "drop clients", "drop tokens", "client",
          "code", "reset", "delete", "require pool", "token", "sign out"}
PoolSteps == PoolPlain \cup {"user", "update"}

(* What a request has still to do, and what it relies on for that, when    *)
(* the users in V are vouched for.                                         *)
PoolLocalOK(s, V) ==
    /\ "todo" \in DOMAIN s
    /\ s.todo \in Seq(PoolSteps)
    /\ \A k \in 1 .. Len(s.todo) :
          /\ s.todo[k] = "update" => "user" \in DOMAIN s /\ s.user \in V
          /\ s.todo[k] = "user" => "status" \in DOMAIN s /\ s.status # "CONFIRMED"

UsersOK ==
    /\ users = [i \in Pool!Ids |-> users[i]]
    /\ \A i \in Pool!Ids : users[i] # NoUser => "status" \in DOMAIN users[i]
    /\ Pool!ConfirmedInPerson

PoolRequestsOK ==
    /\ local = [t \in Workers |-> local[t]]
    /\ \A t \in Workers : PoolLocalOK(local[t], vouched)

(* The strengthening of ConfirmedInPerson.                                 *)
VouchInv == UsersOK /\ PoolRequestsOK

LEMMA PoolIdleOK == ASSUME NEW V PROVE PoolLocalOK(Pool!Idle, V)
  BY DEF PoolLocalOK, Pool!Idle

LEMMA PoolTailOK ==
  ASSUME NEW s, NEW V, PoolLocalOK(s, V), s.todo # <<>>
  PROVE  PoolLocalOK([s EXCEPT !.todo = Tail(@)], V)
<1> DEFINE r == [s EXCEPT !.todo = Tail(@)]
<1>1. r.todo = Tail(s.todo) /\ DOMAIN r = DOMAIN s
  BY DEF PoolLocalOK
<1>2. \A x \in DOMAIN s : x # "todo" => r[x] = s[x]
  OBVIOUS
<1>3. Tail(s.todo) \in Seq(PoolSteps) /\ Len(Tail(s.todo)) = Len(s.todo) - 1
  BY DEF PoolLocalOK
<1>4. \A k \in 1 .. Len(Tail(s.todo)) : k + 1 \in 1 .. Len(s.todo) /\ Tail(s.todo)[k] = s.todo[k + 1]
  BY <1>3 DEF PoolLocalOK
<1>5. ASSUME NEW k \in 1 .. Len(r.todo)
      PROVE  /\ r.todo[k] = "update" => "user" \in DOMAIN r /\ r.user \in V
             /\ r.todo[k] = "user" => "status" \in DOMAIN r /\ r.status # "CONFIRMED"
  <2>1. r.todo[k] = s.todo[k + 1] /\ k + 1 \in 1 .. Len(s.todo)
    BY <1>1, <1>4
  <2>2. "user" \in DOMAIN s => r.user = s.user
    BY <1>2
  <2>3. "status" \in DOMAIN s => r.status = s.status
    BY <1>2
  <2>. QED BY <1>1, <2>1, <2>2, <2>3 DEF PoolLocalOK
<1>. QED BY <1>1, <1>3, <1>5 DEF PoolLocalOK

LEMMA PoolMoreVouched ==
  ASSUME NEW s, NEW V, NEW W, V \subseteq W, PoolLocalOK(s, V)
  PROVE  PoolLocalOK(s, W)
  BY DEF PoolLocalOK

(* A step that gives thread t the local state s. *)
LEMMA PoolThreadStep ==
  ASSUME PoolRequestsOK, NEW t \in Workers, NEW s,
         vouched \subseteq vouched', PoolLocalOK(s, vouched'),
         local' = [local EXCEPT ![t] = s]
  PROVE  PoolRequestsOK'
<1>1. DOMAIN local = Workers
  BY DEF PoolRequestsOK
<1>2. \A u \in Workers : local'[u] = IF u = t THEN s ELSE local[u]
  BY <1>1
<1>3. \A u \in Workers : PoolLocalOK(local[u], vouched')
  BY PoolMoreVouched DEF PoolRequestsOK
<1>. QED BY <1>1, <1>2, <1>3 DEF PoolRequestsOK

LEMMA PoolAdvanceOK ==
  ASSUME PoolRequestsOK, NEW t \in Workers, Pool!Advance(t), local[t].todo # <<>>, vouched' = vouched
  PROVE  PoolRequestsOK'
<1> DEFINE s == [local[t] EXCEPT !.todo = Tail(@)]
<1>1. PoolLocalOK(IF s.todo = <<>> THEN Pool!Idle ELSE s, vouched')
  BY PoolTailOK, PoolIdleOK DEF PoolRequestsOK
<1>. QED BY <1>1, PoolThreadStep DEF Pool!Advance, Pool!Continue

LEMMA PoolBeginOK ==
  ASSUME PoolRequestsOK, NEW t \in Workers, NEW s, Pool!Begin(t, s),
         vouched \subseteq vouched', PoolLocalOK(s, vouched')
  PROVE  PoolRequestsOK'
  BY PoolThreadStep DEF Pool!Begin

LEMMA PoolEndsOK ==
  ASSUME PoolRequestsOK, NEW t \in Workers, Pool!Ends(t), vouched' = vouched
  PROVE  PoolRequestsOK'
<1>1. local' = [local EXCEPT ![t] = Pool!Idle]
  BY DEF Pool!Ends, Pool!Continue, Pool!Idle
<1>. QED BY <1>1, PoolIdleOK, PoolThreadStep

LEMMA PoolBreakOffOK ==
  ASSUME PoolRequestsOK, NEW S, Pool!BreakOff(S), vouched' = vouched
  PROVE  PoolRequestsOK'
  BY PoolIdleOK DEF PoolRequestsOK, Pool!BreakOff

LEMMA PoolPlainOnly == "user" \notin PoolPlain /\ "update" \notin PoolPlain
  BY DEF PoolPlain

(* What requests begin with. *)
LEMMA PoolPlainOK ==
  ASSUME NEW rows, NEW todo \in Seq(PoolPlain), NEW r, NEW V
  PROVE  PoolLocalOK(Pool!On(rows, todo, r), V)
<1>1. todo \in Seq(PoolSteps) /\ \A k \in 1 .. Len(todo) : todo[k] \notin {"update", "user"}
  BY PoolPlainOnly DEF PoolSteps
<1>2. "todo" \in DOMAIN Pool!On(rows, todo, r) /\ Pool!On(rows, todo, r).todo = todo
  BY DEF Pool!On, Pool!Also
<1>. QED BY <1>1, <1>2 DEF PoolLocalOK

LEMMA PoolPlainTodos ==
  /\ <<"create pool">> \in Seq(PoolPlain)
  /\ <<"drop pool", "drop users", "drop clients", "drop tokens">> \in Seq(PoolPlain)
  /\ <<"client">> \in Seq(PoolPlain)
  /\ <<"reset">> \in Seq(PoolPlain)
  /\ <<"delete">> \in Seq(PoolPlain)
  /\ <<"require pool", "token">> \in Seq(PoolPlain)
  /\ <<"sign out">> \in Seq(PoolPlain)
  BY DEF PoolPlain

LEMMA PoolUserTodos ==
  /\ <<"user">> \in Seq(PoolSteps) /\ <<"user", "code">> \in Seq(PoolSteps) /\ <<"update">> \in Seq(PoolSteps)
  BY DEF PoolSteps, PoolPlain

LEMMA PoolNewUserOK ==
  ASSUME NEW rows, NEW todo, todo = <<"user">> \/ todo = <<"user", "code">>, NEW r, NEW V,
         "status" \in DOMAIN r, r.status # "CONFIRMED"
  PROVE  PoolLocalOK(Pool!On(rows, todo, r), V)
<1>1. /\ Pool!On(rows, todo, r).todo = todo
      /\ {"todo", "status"} \subseteq DOMAIN Pool!On(rows, todo, r)
      /\ Pool!On(rows, todo, r).status = r.status
  BY DEF Pool!On, Pool!Also
<1>2. todo \in Seq(PoolSteps)
  BY PoolUserTodos
<1>3. \A k \in 1 .. Len(todo) : todo[k] # "update"
  <2>1. CASE todo = <<"user">>
    BY <2>1
  <2>2. CASE todo = <<"user", "code">>
    BY <2>2
  <2>. QED BY <2>1, <2>2
<1>. QED BY <1>1, <1>2, <1>3 DEF PoolLocalOK

LEMMA PoolUpdateOK ==
  ASSUME NEW rows, NEW r, NEW V, "user" \in DOMAIN r, r.user \in V
  PROVE  PoolLocalOK(Pool!On(rows, <<"update">>, r), V)
<1>1. /\ Pool!On(rows, <<"update">>, r).todo = <<"update">>
      /\ {"todo", "user"} \subseteq DOMAIN Pool!On(rows, <<"update">>, r)
      /\ Pool!On(rows, <<"update">>, r).user = r.user
  BY DEF Pool!On, Pool!Also
<1>2. \A k \in 1 .. Len(<<"update">>) : <<"update">>[k] # "user"
  OBVIOUS
<1>. QED BY <1>1, <1>2, PoolUserTodos DEF PoolLocalOK

-----------------------------------------------------------------------------
(* Steps that leave the users alone. *)
LEMMA PoolSameUsers ==
  ASSUME UsersOK, users' = users, vouched \subseteq vouched'
  PROVE  UsersOK'
  BY DEF UsersOK, Pool!ConfirmedInPerson

LEMMA PoolAskOK ==
  ASSUME VouchInv, NEW t \in Workers, NEW s, Pool!Ask(t, s), PoolLocalOK(s, vouched)
  PROVE  VouchInv'
<1>1. users' = users /\ vouched' = vouched /\ Pool!Begin(t, s)
  BY DEF Pool!Ask, Pool!cognitovars, Pool!tables
<1>. QED BY <1>1, PoolSameUsers, PoolBeginOK DEF VouchInv

LEMMA PoolAskPlainOK ==
  ASSUME VouchInv, NEW t \in Workers, NEW rows, NEW todo \in Seq(PoolPlain), NEW r,
         Pool!Ask(t, Pool!On(rows, todo, r))
  PROVE  VouchInv'
  BY PoolPlainOK, PoolAskOK

LEMMA PoolDoesOK ==
  ASSUME VouchInv, NEW t \in Workers, NEW step, Pool!Does(t, step), users' = users, vouched' = vouched
  PROVE  VouchInv'
  BY PoolSameUsers, PoolAdvanceOK DEF VouchInv, Pool!Does, Pool!At

LEMMA PoolVouchOK ==
  ASSUME VouchInv, NEW t \in Workers, NEW i, NEW change, Pool!Vouch(t, i, change)
  PROVE  VouchInv'
<1> DEFINE r == [user |-> i, change |-> change]
<1>1. /\ Pool!Begin(t, Pool!On({}, <<"update">>, r)) /\ users' = users
      /\ vouched \subseteq vouched' /\ i \in vouched'
  BY DEF Pool!Vouch, Pool!tables
<1>2. PoolLocalOK(Pool!On({}, <<"update">>, r), vouched')
  BY <1>1, PoolUpdateOK
<1>. QED BY <1>1, <1>2, PoolSameUsers, PoolBeginOK DEF VouchInv

-----------------------------------------------------------------------------
(* Steps that change them.  An update sets what is there, or sets it to    *)
(* "CONFIRMED" where the user is vouched for.                              *)
LEMMA PoolUpdatedOK ==
  ASSUME UsersOK, NEW ids, NEW change, users' = Pool!Update(ids, change), vouched' = vouched,
         "status" \in DOMAIN change => ids \subseteq vouched
  PROVE  UsersOK'
<1>1. ASSUME NEW i \in Pool!Ids, users'[i] # NoUser
      PROVE  /\ "status" \in DOMAIN users'[i]
             /\ users'[i].status = "CONFIRMED" => i \in vouched
  <2>1. CASE ~(i \in ids /\ users[i] # NoUser)
    <3>1. users'[i] = users[i]
      BY <2>1 DEF Pool!Update
    <3>. QED BY <1>1, <3>1 DEF UsersOK, Pool!ConfirmedInPerson
  <2>2. CASE i \in ids /\ users[i] # NoUser
    <3>1. users'[i] = Pool!Also(change, users[i])
      BY <2>2 DEF Pool!Update
    <3>2. "status" \in DOMAIN users'[i]
      BY <2>2, <3>1 DEF Pool!Also, UsersOK
    <3>3. CASE "status" \in DOMAIN change
      BY <2>2, <3>2, <3>3
    <3>4. CASE "status" \notin DOMAIN change
      <4>1. users'[i].status = users[i].status
        BY <2>2, <3>1, <3>4 DEF Pool!Also, UsersOK
      <4>. QED BY <2>2, <3>2, <4>1 DEF UsersOK, Pool!ConfirmedInPerson
    <3>. QED BY <3>3, <3>4
  <2>. QED BY <2>1, <2>2
<1>2. users' = [i \in Pool!Ids |-> users'[i]]
  BY DEF Pool!Update
<1>. QED BY <1>1, <1>2 DEF UsersOK, Pool!ConfirmedInPerson

LEMMA PoolDeletedOK ==
  ASSUME UsersOK, NEW G, users' = [i \in Pool!Ids |-> IF i \in G THEN NoUser ELSE users[i]],
         vouched' = vouched
  PROVE  UsersOK'
  BY DEF UsersOK, Pool!ConfirmedInPerson

LEMMA PoolInsertUserOK ==
  ASSUME VouchInv, NEW t \in Workers, Pool!InsertUser(t)
  PROVE  VouchInv'
<1> DEFINE s == local[t]
           free == Pool!Found(s.pool, s.name) = {}
           new == [pool |-> s.pool, name |-> s.name, status |-> s.status, code |-> Pool!NoCode]
<1>1. /\ s.todo # <<>> /\ Head(s.todo) = "user" /\ vouched' = vouched
      /\ users' = IF ~free THEN users ELSE [users EXCEPT ![s.at] = new]
      /\ IF free THEN Pool!Advance(t) ELSE Pool!Ends(t)
  BY DEF Pool!InsertUser, Pool!At
<1>2. s.status # "CONFIRMED"
  <2>1. 1 \in 1 .. Len(s.todo) /\ s.todo[1] = "user"
    BY <1>1 DEF VouchInv, PoolRequestsOK, PoolLocalOK
  <2>. QED BY <2>1 DEF VouchInv, PoolRequestsOK, PoolLocalOK
<1>3. UsersOK'
  <2>1. CASE ~free
    BY <1>1, <2>1, PoolSameUsers DEF VouchInv
  <2>2. CASE free
    <3>1. users' = [users EXCEPT ![s.at] = new] /\ DOMAIN users = Pool!Ids
      BY <1>1, <2>2 DEF VouchInv, UsersOK
    <3>2. "status" \in DOMAIN new /\ new.status # "CONFIRMED"
      BY <1>2
    <3>. QED BY <1>1, <3>1, <3>2 DEF VouchInv, UsersOK, Pool!ConfirmedInPerson
  <2>. QED BY <2>1, <2>2
<1>4. PoolRequestsOK'
  BY <1>1, PoolAdvanceOK, PoolEndsOK DEF VouchInv
<1>. QED BY <1>3, <1>4 DEF VouchInv

LEMMA PoolUpdateUserOK ==
  ASSUME VouchInv, NEW t \in Workers, Pool!UpdateUser(t)
  PROVE  VouchInv'
<1>1. /\ local[t].todo # <<>> /\ Head(local[t].todo) = "update" /\ Pool!Advance(t)
      /\ users' = Pool!Update({local[t].user}, local[t].change) /\ vouched' = vouched
  BY DEF Pool!UpdateUser, Pool!Does, Pool!At
<1>2. local[t].user \in vouched
  <2>1. 1 \in 1 .. Len(local[t].todo) /\ local[t].todo[1] = "update"
    BY <1>1 DEF VouchInv, PoolRequestsOK, PoolLocalOK
  <2>. QED BY <2>1 DEF VouchInv, PoolRequestsOK, PoolLocalOK
<1>3. UsersOK'
  BY <1>1, <1>2, PoolUpdatedOK DEF VouchInv
<1>. QED BY <1>1, <1>3, PoolAdvanceOK DEF VouchInv

-----------------------------------------------------------------------------
LEMMA PoolStepOK ==
  ASSUME VouchInv, NEW t \in Workers, Pool!PoolStep(t)
  PROVE  VouchInv'
<1>1. CASE \E p \in Pools : Pool!CreatePool(t, p)
  BY <1>1, PoolAskPlainOK, PoolPlainTodos DEF Pool!CreatePool
<1>2. CASE \E p \in Pools : Pool!DeletePoolRequire(t, p)
  BY <1>2, PoolAskPlainOK, PoolPlainTodos DEF Pool!DeletePoolRequire
<1>3. CASE \E p \in Pools, c \in Clients : Pool!CreateClientRequire(t, p, c)
  BY <1>3, PoolAskPlainOK, PoolPlainTodos DEF Pool!CreateClientRequire
<1>4. CASE \E c \in Clients : Pool!DeleteClientRequire(t, c)
  BY <1>4, PoolAskPlainOK, PoolPlainTodos DEF Pool!DeleteClientRequire
<1>5. CASE Pool!CreatePoolInsert(t)
  BY <1>5, PoolDoesOK DEF Pool!CreatePoolInsert
<1>6. CASE Pool!DropPool(t)
  BY <1>6, PoolDoesOK DEF Pool!DropPool
<1>7. CASE Pool!DropUsers(t)
  <2>1. users' = [i \in Pool!Ids |-> IF i \in {j \in Pool!Ids : users[j] # NoUser /\ users[j].pool = local[t].pool}
                                 THEN NoUser ELSE users[i]]
    BY <1>7 DEF Pool!DropUsers
  <2>2. UsersOK'
    BY <1>7, <2>1, PoolDeletedOK DEF VouchInv, Pool!DropUsers
  <2>. QED BY <1>7, <2>2, PoolAdvanceOK DEF VouchInv, Pool!DropUsers, Pool!Does, Pool!At
<1>8. CASE Pool!DropClients(t)
  BY <1>8, PoolDoesOK DEF Pool!DropClients
<1>9. CASE Pool!DropTokens(t)
  BY <1>9, PoolDoesOK DEF Pool!DropTokens
<1>10. CASE Pool!SetClient(t)
  BY <1>10, PoolDoesOK DEF Pool!SetClient
<1>. QED BY <1>1, <1>2, <1>3, <1>4, <1>5, <1>6, <1>7, <1>8, <1>9, <1>10 DEF Pool!PoolStep

LEMMA PoolUserStepOK ==
  ASSUME VouchInv, NEW t \in Workers, Pool!UserStep(t)
  PROVE  VouchInv'
<1>1. CASE \E p \in Pools, n \in Usernames : Pool!AdminCreateCheck(t, p, n)
  <2>1. PICK p \in Pools, n \in Usernames : Pool!AdminCreateCheck(t, p, n)
    BY <1>1
  <2> DEFINE r == [pool |-> p, name |-> n, status |-> "FORCE_CHANGE_PASSWORD"]
  <2>2. PoolLocalOK(Pool!On(Pool!Shared(p, t), <<"user">>, r), vouched)
    BY PoolNewUserOK
  <2>. QED BY <2>1, <2>2, PoolAskOK DEF Pool!AdminCreateCheck
<1>2. CASE \E p \in Pools, n \in Usernames : Pool!ForgotCheck(t, p, n)
  BY <1>2, PoolAskPlainOK, PoolPlainTodos DEF Pool!ForgotCheck
<1>3. CASE \E p \in Pools, n \in Usernames, c \in Clients : Pool!SignUpCheck(t, p, n, c)
  <2>1. PICK p \in Pools, n \in Usernames, c \in Clients : Pool!SignUpCheck(t, p, n, c)
    BY <1>3
  <2> DEFINE r == [pool |-> p, name |-> n, status |-> "UNCONFIRMED"]
  <2>2. PoolLocalOK(Pool!On(Pool!Shared(p, t), <<"user", "code">>, r), vouched)
    BY PoolNewUserOK
  <2>. QED BY <2>1, <2>2, PoolAskOK DEF Pool!SignUpCheck
<1>4. CASE \E i \in Pool!Ids, code \in Pool!Ids \cup {Pool!NoCode} : Pool!WithCodeSelect(t, i, code)
  BY <1>4, PoolVouchOK DEF Pool!WithCodeSelect
<1>5. CASE \E i \in Pool!Ids : Pool!AdminSelect(t, i)
  BY <1>5, PoolVouchOK DEF Pool!AdminSelect
<1>6. CASE \E i \in Pool!Ids : Pool!DeleteUserSelect(t, i)
  BY <1>6, PoolAskPlainOK, PoolPlainTodos DEF Pool!DeleteUserSelect
<1>7. CASE Pool!InsertUser(t)
  BY <1>7, PoolInsertUserOK
<1>8. CASE Pool!SetCode(t)
  <2>1. UsersOK'
    BY <1>8, PoolUpdatedOK DEF VouchInv, Pool!SetCode
  <2>. QED BY <1>8, <2>1, PoolAdvanceOK DEF VouchInv, Pool!SetCode, Pool!Does, Pool!At
<1>9. CASE Pool!Forgot(t)
  <2>1. UsersOK'
    BY <1>9, PoolUpdatedOK DEF VouchInv, Pool!Forgot
  <2>. QED BY <1>9, <2>1, PoolAdvanceOK DEF VouchInv, Pool!Forgot, Pool!Does, Pool!At
<1>10. CASE Pool!UpdateUser(t)
  BY <1>10, PoolUpdateUserOK
<1>11. CASE Pool!DeleteUser(t)
  <2>1. UsersOK'
    BY <1>11, PoolDeletedOK DEF VouchInv, Pool!DeleteUser
  <2>. QED BY <1>11, <2>1, PoolAdvanceOK DEF VouchInv, Pool!DeleteUser, Pool!Does, Pool!At
<1>. QED BY <1>1, <1>2, <1>3, <1>4, <1>5, <1>6, <1>7, <1>8, <1>9, <1>10, <1>11 DEF Pool!UserStep

LEMMA PoolTokenStepOK ==
  ASSUME VouchInv, NEW t \in Workers, Pool!TokenStep(t)
  PROVE  VouchInv'
<1>1. CASE \E i \in Pool!Ids, c \in Clients : Pool!AuthSelect(t, i, c)
  BY <1>1, PoolAskPlainOK, PoolPlainTodos DEF Pool!AuthSelect, Pool!Sign
<1>2. CASE \E k \in tokens : Pool!RefreshSelect(t, k)
  BY <1>2, PoolAskPlainOK, PoolPlainTodos DEF Pool!RefreshSelect, Pool!Sign
<1>3. CASE \E p \in Pools, n \in Usernames : Pool!SignOutDecode(t, p, n)
  BY <1>3, PoolAskPlainOK, PoolPlainTodos DEF Pool!SignOutDecode
<1>4. CASE Pool!RequirePool(t)
  <2>1. users' = users /\ vouched' = vouched
    BY <1>4 DEF Pool!RequirePool, Pool!cognitovars, Pool!tables
  <2>. QED BY <1>4, <2>1, PoolSameUsers, PoolAdvanceOK, PoolEndsOK DEF VouchInv, Pool!RequirePool, Pool!At
<1>5. CASE Pool!InsertToken(t)
  BY <1>5, PoolDoesOK DEF Pool!InsertToken
<1>6. CASE Pool!SignOut(t)
  BY <1>6, PoolDoesOK DEF Pool!SignOut
<1>. QED BY <1>1, <1>2, <1>3, <1>4, <1>5, <1>6 DEF Pool!TokenStep

-----------------------------------------------------------------------------
LEMMA PoolInitVouched == Pool!Init => VouchInv
<1> SUFFICES ASSUME Pool!Init PROVE VouchInv
  OBVIOUS
<1>1. PoolRequestsOK
  BY PoolIdleOK DEF Pool!Init, Pool!InitRequests, PoolRequestsOK
<1>2. PICK status \in Pool!Status, live \in BOOLEAN, code \in {0, Pool!NoCode}, p \in Pools, n \in Usernames :
        /\ users = [i \in Pool!Ids |-> IF i = 0 /\ live
                     THEN [pool |-> p, name |-> n, status |-> status, code |-> code] ELSE NoUser]
        /\ vouched = IF status = "CONFIRMED" THEN {0} ELSE {}
  BY DEF Pool!Init, Pool!InitTables
<1>3. UsersOK
  BY <1>2 DEF UsersOK, Pool!ConfirmedInPerson
<1>. QED BY <1>1, <1>3 DEF VouchInv

LEMMA PoolNextVouched == VouchInv /\ [Pool!Next]_(Pool!vars) => VouchInv'
<1> SUFFICES ASSUME VouchInv, [Pool!Next]_(Pool!vars) PROVE VouchInv'
  OBVIOUS
<1>1. CASE \E t \in Workers : Pool!PoolStep(t) \/ Pool!UserStep(t) \/ Pool!TokenStep(t)
  BY <1>1, PoolStepOK, PoolUserStepOK, PoolTokenStepOK
<1>2. CASE (Pool!Crash \/ \E t \in Workers : Pool!Fails(t)) /\ UNCHANGED Pool!cognitovars
  <2>1. users' = users /\ vouched' = vouched /\ \E S : Pool!BreakOff(S)
    BY <1>2 DEF Pool!Crash, Pool!Fails, Pool!cognitovars, Pool!tables
  <2>. QED BY <2>1, PoolSameUsers, PoolBreakOffOK DEF VouchInv
<1>3. CASE UNCHANGED Pool!vars
  BY <1>3 DEF Pool!vars, Pool!requests, Pool!cognitovars, Pool!tables, VouchInv, UsersOK, PoolRequestsOK, Pool!ConfirmedInPerson
<1>. QED BY <1>1, <1>2, <1>3 DEF Pool!Next

(* cognito.py:219-246 and 471-486: whatever the numbers of pools, names,   *)
(* clients and threads, wherever the server is killed and whichever        *)
(* writes fail, a user is CONFIRMED only if a request gave what the code   *)
(* column of his own row held, NULL included, or an admin saw to him, also *)
(* when the user of a name was deleted and created again between the       *)
(* SELECT and the UPDATE.                                                  *)
THEOREM ConfirmedByVoucher == Spec => []ConfirmedInPerson
<1> DEFINE Inv == service = "cognito" => VouchInv
<1>1. Init => Inv
  BY PoolInitVouched DEF Init, InitRequests, Pool!Init, Pool!InitRequests, Idle, Pool!Idle
<1>2. Inv /\ [Next]_vars => Inv'
  <2> SUFFICES ASSUME Inv, [Next]_vars, service' = "cognito" PROVE VouchInv'
    OBVIOUS
  <2>1. service = "cognito" /\ [Pool!Next]_(Pool!vars)
    BY ServiceStep
  <2>. QED BY <2>1, PoolNextVouched
<1>3. Inv => ConfirmedInPerson
  BY DEF VouchInv, UsersOK, ConfirmedInPerson
<1>. QED BY <1>1, <1>2, <1>3, PTL DEF Spec

LEMMA PoolThreads ==
  /\ \A t, s : Pool!Begin(t, s) => Begins(t, s)
  /\ \A t, s : Pool!Continue(t, s) => Goes(t, s)
  /\ \A t : Pool!Advance(t) => Goes(t, Rest(local[t]))
  /\ \A t : Pool!Ends(t) => Goes(t, Idle)
  /\ Threads /\ (Pool!Crash \/ \E t \in Workers : Pool!Fails(t)) => Breaks
<1>1. /\ \A t, s : Pool!Begin(t, s) => Begins(t, s)
      /\ \A t, s : Pool!Continue(t, s) => Goes(t, s)
  BY DEF Pool!Begin, Begins, Pool!Continue, Goes, Idle, Pool!Idle
<1>2. /\ \A t : Pool!Advance(t) => Goes(t, Rest(local[t]))
      /\ \A t : Pool!Ends(t) => Goes(t, Idle)
  BY <1>1 DEF Pool!Advance, Rest, Pool!Ends, Idle, Pool!Idle
<1>3. ASSUME Threads, NEW S, Pool!BreakOff(S) PROVE Breaks
  <2>1. /\ local' = [u \in Workers |-> IF u \in S THEN Idle ELSE local[u]]
        /\ disturbed' = disturbed \cup UNION {local[u].touches : u \in S} /\ begun' = begun
    BY <1>3 DEF Pool!BreakOff, Idle, Pool!Idle
  <2>2. \A u \in S : local[u].touches \subseteq disturbed'
    BY <2>1
  <2>. QED BY <2>1, <2>2 DEF Breaks
<1>. QED BY <1>1, <1>2, <1>3 DEF Pool!Crash, Pool!Fails

(* The requests that neither add to a pool nor drop it nor sign out.       *)
PoolAside == {"create pool", "code", "reset", "delete"}

ClientTodo == <<"client">>
UserTodo == <<"user">>
SignUpTodo == <<"user", "code">>
UpdateTodo == <<"update">>
SignTodo == <<"require pool", "token">>
TokenTodo == <<"token">>
OutTodo == <<"sign out">>
PoolDrop == <<"drop pool", "drop users", "drop clients", "drop tokens">>
UsersDrop == <<"drop users", "drop clients", "drop tokens">>
ClientsDrop == <<"drop clients", "drop tokens">>
TokensDrop == <<"drop tokens">>

NewUserTodos == {UserTodo, SignUpTodo}
SignTodos == {SignTodo, TokenTodo}
AddTodos == {ClientTodo} \cup NewUserTodos \cup SignTodos
DropTodos == {PoolDrop, UsersDrop, ClientsDrop, TokensDrop}
AccountTodos == AddTodos \cup DropTodos \cup {UpdateTodo, OutTodo}

(* What the request of thread t has to do, and which rows it relies on:    *)
(* one that adds to a pool on the thread's, one that drops it on all.      *)
AccountLocal(s, t, b) ==
    /\ {"todo", "touches"} \subseteq DOMAIN s
    /\ s.todo \in Seq(PoolAside) \cup AccountTodos
    /\ s.todo \in AddTodos => "pool" \in DOMAIN s /\ (s.pool \in Pools => <<s.pool, t>> \in s.touches)
    /\ s.todo \in NewUserTodos \cup SignTodos => "name" \in DOMAIN s /\ s.pool \in Pools /\ s.name \in Usernames
    /\ s.todo = UpdateTodo => "change" \in DOMAIN s /\ DOMAIN s.change \subseteq {"status", "code"}
    /\ s.todo \in SignTodos => "signin" \in DOMAIN s /\ s.signin \in Nat /\ <<s.pool, s.name>> \in s.touches
    /\ s.todo = OutTodo => /\ {"pool", "name", "at"} \subseteq DOMAIN s /\ s.at \in Nat /\ s.at <= b
                           /\ <<s.pool, s.name>> \in s.touches
    /\ s.todo \in DropTodos => "pool" \in DOMAIN s /\ Pool!Exclusive(s.pool) \subseteq s.touches

AccountsTyped(U, K, S, b) ==
    /\ b \in Nat
    /\ U = [i \in Pool!Ids |-> U[i]]
    /\ \A i \in Pool!Ids : U[i] # NoUser =>
          {"pool", "name"} \subseteq DOMAIN U[i] /\ U[i].pool \in Pools /\ U[i].name \in Usernames
    /\ \A k \in K : k.pool \in Pools /\ k.name \in Usernames /\ k.signin \in Nat
    /\ S = [r \in Pool!Names |-> S[r]]
    /\ \A r \in Pool!Names : S[r] \in Int /\ S[r] <= b

AccountShape ==
    /\ Threads /\ Apart
    /\ AccountsTyped(users, tokens, signedOut, begun)
    /\ pools = [p \in Pools |-> pools[p]] /\ clients = [c \in Clients |-> clients[c]]
    /\ \A t \in Workers : AccountLocal(local[t], t, begun)

LEMMA AccountHeads ==
  /\ ClientTodo # <<>> /\ Head(ClientTodo) = "client" /\ Tail(ClientTodo) = <<>>
  /\ UserTodo # <<>> /\ Head(UserTodo) = "user" /\ Tail(UserTodo) = <<>>
  /\ SignUpTodo # <<>> /\ Head(SignUpTodo) = "user" /\ Tail(SignUpTodo) = <<"code">>
  /\ UpdateTodo # <<>> /\ Head(UpdateTodo) = "update" /\ Tail(UpdateTodo) = <<>>
  /\ SignTodo # <<>> /\ Head(SignTodo) = "require pool" /\ Tail(SignTodo) = TokenTodo
  /\ TokenTodo # <<>> /\ Head(TokenTodo) = "token" /\ Tail(TokenTodo) = <<>>
  /\ OutTodo # <<>> /\ Head(OutTodo) = "sign out" /\ Tail(OutTodo) = <<>>
  /\ PoolDrop # <<>> /\ Head(PoolDrop) = "drop pool" /\ Tail(PoolDrop) = UsersDrop
  /\ UsersDrop # <<>> /\ Head(UsersDrop) = "drop users" /\ Tail(UsersDrop) = ClientsDrop
  /\ ClientsDrop # <<>> /\ Head(ClientsDrop) = "drop clients" /\ Tail(ClientsDrop) = TokensDrop
  /\ TokensDrop # <<>> /\ Head(TokensDrop) = "drop tokens" /\ Tail(TokensDrop) = <<>>
<1>1. ClientTodo # <<>> /\ Head(ClientTodo) = "client" /\ Tail(ClientTodo) = <<>>
  BY Tails DEF ClientTodo
<1>2. UserTodo # <<>> /\ Head(UserTodo) = "user" /\ Tail(UserTodo) = <<>>
  BY Tails DEF UserTodo
<1>3. SignUpTodo # <<>> /\ Head(SignUpTodo) = "user" /\ Tail(SignUpTodo) = <<"code">>
  BY Tails DEF SignUpTodo
<1>4. UpdateTodo # <<>> /\ Head(UpdateTodo) = "update" /\ Tail(UpdateTodo) = <<>>
  BY Tails DEF UpdateTodo
<1>5. SignTodo # <<>> /\ Head(SignTodo) = "require pool" /\ Tail(SignTodo) = TokenTodo
  BY Tails DEF SignTodo, TokenTodo
<1>6. TokenTodo # <<>> /\ Head(TokenTodo) = "token" /\ Tail(TokenTodo) = <<>>
  BY Tails DEF TokenTodo
<1>7. OutTodo # <<>> /\ Head(OutTodo) = "sign out" /\ Tail(OutTodo) = <<>>
  BY Tails DEF OutTodo
<1>8. PoolDrop # <<>> /\ Head(PoolDrop) = "drop pool" /\ Tail(PoolDrop) = UsersDrop
  <2>2. \A a, b, c, d : <<a, b, c, d>> # <<>> /\ Head(<<a, b, c, d>>) = a /\ Tail(<<a, b, c, d>>) = <<b, c, d>>
    OBVIOUS
  <2>. PICK a, b, c, d : a = "drop pool" /\ b = "drop users" /\ c = "drop clients" /\ d = "drop tokens"
    OBVIOUS
  <2>1. PoolDrop = <<a, b, c, d>> /\ UsersDrop = <<b, c, d>>
    BY DEF PoolDrop, UsersDrop
  <2>. QED BY <2>1, <2>2
<1>9. UsersDrop # <<>> /\ Head(UsersDrop) = "drop users" /\ Tail(UsersDrop) = ClientsDrop
  <2>2. \A b, c, d : <<b, c, d>> # <<>> /\ Head(<<b, c, d>>) = b /\ Tail(<<b, c, d>>) = <<c, d>>
    OBVIOUS
  <2>. PICK b, c, d : b = "drop users" /\ c = "drop clients" /\ d = "drop tokens"
    OBVIOUS
  <2>1. UsersDrop = <<b, c, d>> /\ ClientsDrop = <<c, d>>
    BY DEF UsersDrop, ClientsDrop
  <2>. QED BY <2>1, <2>2
<1>10. ClientsDrop # <<>> /\ Head(ClientsDrop) = "drop clients" /\ Tail(ClientsDrop) = TokensDrop
  BY Tails DEF ClientsDrop, TokensDrop
<1>11. TokensDrop # <<>> /\ Head(TokensDrop) = "drop tokens" /\ Tail(TokensDrop) = <<>>
  BY Tails DEF TokensDrop
<1>. QED BY <1>1, <1>2, <1>3, <1>4, <1>5, <1>6, <1>7, <1>8, <1>9, <1>10, <1>11

LEMMA AsideTodos ==
  /\ <<>> \in Seq(PoolAside) /\ <<"create pool">> \in Seq(PoolAside) /\ <<"code">> \in Seq(PoolAside)
  /\ <<"reset">> \in Seq(PoolAside) /\ <<"delete">> \in Seq(PoolAside)
<1>1. "create pool" \in PoolAside /\ "code" \in PoolAside /\ "reset" \in PoolAside /\ "delete" \in PoolAside
  BY DEF PoolAside
<1> HIDE DEF PoolAside
<1>2. \A a \in PoolAside : <<a>> \in Seq(PoolAside)
  OBVIOUS
<1>3. <<>> \in Seq(PoolAside)
  OBVIOUS
<1>. QED BY <1>1, <1>2, <1>3

(* No list of steps is of two kinds. *)
LEMMA AccountTodosApart ==
  /\ \A x \in Seq(PoolAside) : x \notin AccountTodos
  /\ UpdateTodo \notin AddTodos \cup DropTodos \cup {OutTodo}
  /\ OutTodo \notin AddTodos \cup DropTodos
  /\ \A x \in AddTodos : x \notin DropTodos
  /\ ClientTodo \notin NewUserTodos \cup SignTodos
  /\ \A x \in NewUserTodos : x \notin SignTodos
  /\ UsersDrop # PoolDrop /\ ClientsDrop \notin {PoolDrop, UsersDrop} /\ TokensDrop \notin {PoolDrop, UsersDrop, ClientsDrop}
<1>1. ASSUME NEW x \in Seq(PoolAside) PROVE x \notin AccountTodos
  <2>1. x # <<>> => Head(x) \in PoolAside
    OBVIOUS
  <2>. QED BY <2>1, AccountHeads DEF AccountTodos, AddTodos, NewUserTodos, SignTodos, DropTodos, PoolAside
<1>2. UpdateTodo \notin AddTodos \cup DropTodos \cup {OutTodo}
  BY AccountHeads DEF AddTodos, NewUserTodos, SignTodos, DropTodos
<1>3. OutTodo \notin AddTodos \cup DropTodos
  BY AccountHeads DEF AddTodos, NewUserTodos, SignTodos, DropTodos
<1>4. \A x \in AddTodos : x \notin DropTodos
  BY AccountHeads DEF AddTodos, NewUserTodos, SignTodos, DropTodos
<1>5. ClientTodo \notin NewUserTodos \cup SignTodos /\ \A x \in NewUserTodos : x \notin SignTodos
  BY AccountHeads DEF NewUserTodos, SignTodos
<1>6. /\ UsersDrop # PoolDrop /\ ClientsDrop \notin {PoolDrop, UsersDrop}
      /\ TokensDrop \notin {PoolDrop, UsersDrop, ClientsDrop}
  BY AccountHeads
<1>. QED BY <1>1, <1>2, <1>3, <1>4, <1>5, <1>6

LEMMA AccountIdle == \A t, b : AccountLocal(Idle, t, b)
<1>1. Idle.todo = <<>> /\ DOMAIN Idle = {"todo", "touches"} /\ <<>> \in Seq(PoolAside)
  BY AsideTodos DEF Idle
<1>2. <<>> \notin AccountTodos
  BY <1>1, AccountTodosApart
<1>. QED BY <1>1, <1>2 DEF AccountLocal, AccountTodos, AddTodos, NewUserTodos, SignTodos, DropTodos

LEMMA AccountAt ==
  ASSUME AccountShape, NEW t \in Workers, NEW step, Pool!At(t, step)
  PROVE  /\ AccountLocal(local[t], t, begun) /\ local[t].todo # <<>>
         /\ step = "client" => local[t].todo = ClientTodo
         /\ step = "user" => local[t].todo \in NewUserTodos
         /\ step = "update" => local[t].todo = UpdateTodo
         /\ step = "require pool" => local[t].todo = SignTodo
         /\ step = "token" => local[t].todo = TokenTodo
         /\ step = "sign out" => local[t].todo = OutTodo
         /\ step = "drop pool" => local[t].todo = PoolDrop
         /\ step = "drop users" => local[t].todo = UsersDrop
         /\ step = "drop clients" => local[t].todo = ClientsDrop
         /\ step = "drop tokens" => local[t].todo = TokensDrop
         /\ step \in PoolAside => local[t].todo \in Seq(PoolAside)
<1>. PICK x : x = local[t].todo
  OBVIOUS
<1>1. AccountLocal(local[t], t, begun) /\ x # <<>> /\ Head(x) = step
  BY DEF AccountShape, Pool!At
<1>2. x \in Seq(PoolAside) \cup AccountTodos
  BY <1>1 DEF AccountLocal
<1>3. CASE x \in Seq(PoolAside)
  <2>1. step \in PoolAside
    BY <1>1, <1>3
  <2>. QED BY <1>1, <1>3, <2>1 DEF PoolAside
<1>4. CASE x \in AccountTodos
  BY <1>1, <1>4, AccountHeads DEF AccountTodos, AddTodos, NewUserTodos, SignTodos, DropTodos, PoolAside
<1>. QED BY <1>2, <1>3, <1>4

(* A request that has done a step. *)
LEMMA AccountRest ==
  ASSUME NEW s, NEW t, NEW b, AccountLocal(s, t, b), s.todo # <<>>
  PROVE  AccountLocal(Rest(s), t, b) /\ Rest(s).touches = s.touches /\ Rest(s).todo = Tail(s.todo)
<1>. PICK r : r = Rest(s)
  OBVIOUS
<1>1. /\ DOMAIN r = DOMAIN s /\ r.todo = Tail(s.todo) /\ {"todo", "touches"} \subseteq DOMAIN s
      /\ \A x \in DOMAIN s : x # "todo" => r[x] = s[x]
  BY RestFields DEF AccountLocal
<1>2. r.touches = s.touches
  BY <1>1
<1>3. s.todo \in Seq(PoolAside) \cup AccountTodos
  BY DEF AccountLocal
<1>4. ASSUME r.todo \in Seq(PoolAside) PROVE AccountLocal(r, t, b)
  <2>1. r.todo \notin AccountTodos
    BY <1>4, AccountTodosApart
  <2>. QED BY <1>1, <1>4, <2>1 DEF AccountLocal, AccountTodos, AddTodos, NewUserTodos, SignTodos, DropTodos
<1>5. CASE s.todo \in Seq(PoolAside)
  <2>1. Tail(s.todo) \in Seq(PoolAside)
    BY <1>5
  <2>. QED BY <1>1, <1>2, <1>4, <2>1
<1>6. CASE s.todo \in {ClientTodo, UserTodo, SignUpTodo, UpdateTodo, TokenTodo, OutTodo, TokensDrop}
  <2>1. Tail(s.todo) \in Seq(PoolAside)
    BY <1>6, AccountHeads, AsideTodos
  <2>. QED BY <1>1, <1>2, <1>4, <2>1
<1>7. CASE s.todo = SignTodo
  <2>1. s.todo \in AddTodos /\ s.todo \in NewUserTodos \cup SignTodos /\ s.todo \in SignTodos
    BY <1>7 DEF AddTodos, NewUserTodos, SignTodos
  <2>2. /\ {"pool", "name", "signin"} \subseteq DOMAIN s /\ <<s.pool, t>> \in s.touches /\ <<s.pool, s.name>> \in s.touches
        /\ s.pool \in Pools /\ s.name \in Usernames /\ s.signin \in Nat
    BY <2>1 DEF AccountLocal
  <2>3. r.pool = s.pool /\ r.name = s.name /\ r.signin = s.signin
    BY <1>1, <2>2
  <2>4. r.todo = TokenTodo /\ TokenTodo \in SignTodos /\ TokenTodo \in AddTodos
    BY <1>1, <1>7, AccountHeads DEF AddTodos, SignTodos
  <2>5. r.todo \in AccountTodos /\ r.todo # UpdateTodo /\ r.todo # OutTodo /\ r.todo \notin DropTodos
    BY <2>4, AccountTodosApart DEF AccountTodos
  <2>. QED BY <1>1, <1>2, <2>2, <2>3, <2>4, <2>5 DEF AccountLocal
<1>8. CASE s.todo \in {PoolDrop, UsersDrop, ClientsDrop}
  <2>1. s.todo \in DropTodos /\ r.todo \in DropTodos
    BY <1>1, <1>8, AccountHeads DEF DropTodos
  <2>2. "pool" \in DOMAIN s /\ Pool!Exclusive(s.pool) \subseteq s.touches
    BY <2>1 DEF AccountLocal
  <2>3. r.pool = s.pool
    BY <1>1, <2>2
  <2>4. r.todo \in AccountTodos /\ r.todo # UpdateTodo /\ r.todo # OutTodo /\ r.todo \notin AddTodos
    BY <2>1, AccountTodosApart DEF AccountTodos
  <2>5. r.todo \notin NewUserTodos \cup SignTodos
    BY <2>4 DEF AddTodos
  <2>. QED BY <1>1, <1>2, <2>1, <2>2, <2>3, <2>4, <2>5 DEF AccountLocal
<1>. QED BY <1>3, <1>5, <1>6, <1>7, <1>8 DEF AccountTodos, AddTodos, NewUserTodos, SignTodos, DropTodos

Adding(s, p) == s.todo \in AddTodos /\ s.pool = p

SigningIn(s, r) == s.todo \in SignTodos /\ <<s.pool, s.name>> = r

Holds(L, p, todos) == \E d \in Workers : L[d].todo \in todos /\ L[d].pool = p

InUsers(p, U) == \E i \in Pool!Ids : U[i] # NoUser /\ U[i].pool = p
InClients(p, C) == \E c \in Clients : C[c] = p
InTokens(p, K) == \E k \in K : k.pool = p

(* What is left in a pool that is gone is still to be dropped.             *)
Emptied(p, P, U, C, K, L) ==
    P[p] = "gone" =>
      /\ \A t \in Workers : ~Adding(L[t], p)
      /\ InUsers(p, U) => Holds(L, p, {UsersDrop})
      /\ InClients(p, C) => Holds(L, p, {UsersDrop, ClientsDrop})
      /\ InTokens(p, K) => Holds(L, p, {UsersDrop, ClientsDrop, TokensDrop})

(* The tokens of a name, and those under way, are of later sign-ins.       *)
SignedIn(r, K, S, L) ==
    /\ \A k \in K : <<k.pool, k.name>> = r => k.signin > S[r]
    /\ \A t \in Workers : SigningIn(L[t], r) => L[t].signin > S[r]

FreePool(p) == \A t \in Workers : <<p, t>> \notin disturbed

AccountInv ==
    /\ AccountShape
    /\ \A p \in Pools : FreePool(p) => Emptied(p, pools, users, clients, tokens, local)
    /\ \A r \in Pool!Names : r \notin disturbed => SignedIn(r, tokens, signedOut, local)

LEMMA AccountLater ==
  ASSUME NEW s, NEW t, NEW b \in Nat, AccountLocal(s, t, b)
  PROVE  AccountLocal(s, t, b + 1)
<1>1. s.todo = OutTodo => s.at \in Nat /\ s.at <= b
  BY DEF AccountLocal
<1>2. s.todo = OutTodo => s.at <= b + 1
  BY <1>1
<1>. QED BY <1>2 DEF AccountLocal

LEMMA AccountAsk ==
  ASSUME AccountShape, NEW t \in Workers, NEW s, Pool!Begin(t, s), AccountLocal(s, t, begun + 1),
         UNCHANGED <<pools, clients, users, tokens, signedOut>>
  PROVE  /\ AccountShape' /\ disturbed \subseteq disturbed' /\ UNCHANGED <<pools, clients, users, tokens, signedOut>>
         /\ local[t] = Idle /\ \A u \in Workers : local'[u] = IF u = t THEN s ELSE local[u]
         /\ \A row \in s.touches : \A u \in Workers : row \in local[u].touches => row \in disturbed'
<1>1. Begins(t, s) /\ UNCHANGED <<pools, clients, users, tokens, signedOut>> /\ begun' = begun + 1
  BY PoolThreads DEF Begins
<1>2. Threads' /\ Apart' /\ Only(t, s) /\ disturbed \subseteq disturbed' /\ local[t] = Idle
  BY <1>1, BeginsOnly, BeginsApart DEF AccountShape, Begins
<1>3. \A u \in Workers : local'[u] = IF u = t THEN s ELSE local[u]
  BY <1>2 DEF Only
<1>4. begun \in Nat /\ begun + 1 \in Nat
  BY DEF AccountShape, AccountsTyped
<1>5. \A u \in Workers : AccountLocal(local'[u], u, begun + 1)
  BY <1>3, <1>4, AccountLater DEF AccountShape
<1>6. \A r \in Pool!Names : signedOut[r] \in Int /\ signedOut[r] <= begun + 1
  BY <1>4 DEF AccountShape, AccountsTyped
<1>7. AccountsTyped(users, tokens, signedOut, begun + 1)
  BY <1>4, <1>6 DEF AccountShape, AccountsTyped
<1>8. \A row \in s.touches : \A u \in Workers : row \in local[u].touches => row \in disturbed'
  BY <1>1 DEF Begins
<1>. QED BY <1>1, <1>2, <1>3, <1>5, <1>7, <1>8 DEF AccountShape

LEMMA AccountTails ==
  /\ \A x \in Seq(PoolAside) : x # <<>> => Tail(x) \in Seq(PoolAside)
  /\ \A x \in AccountTodos : x # SignTodo /\ x \notin DropTodos => Tail(x) \in Seq(PoolAside)
  /\ \A x \in DropTodos : Tail(x) \in Seq(PoolAside) \cup DropTodos
  /\ Tail(SignTodo) \in SignTodos
<1>1. \A x \in Seq(PoolAside) : x # <<>> => Tail(x) \in Seq(PoolAside)
  OBVIOUS
<1>2. \A x \in {ClientTodo, UserTodo, SignUpTodo, UpdateTodo, TokenTodo, OutTodo, TokensDrop} : Tail(x) \in Seq(PoolAside)
  BY AccountHeads, AsideTodos
<1>3. \A x \in {PoolDrop, UsersDrop, ClientsDrop} : Tail(x) \in DropTodos
  BY AccountHeads DEF DropTodos
<1>4. Tail(SignTodo) \in SignTodos
  BY AccountHeads DEF SignTodos
<1>. QED BY <1>1, <1>2, <1>3, <1>4 DEF AccountTodos, AddTodos, NewUserTodos, SignTodos, DropTodos

(* What becomes of a request with a step. *)
AfterStep(s) == IF Tail(s.todo) = <<>> THEN Idle ELSE Rest(s)

LEMMA AccountAfter ==
  ASSUME NEW s, NEW t, NEW b, AccountLocal(s, t, b), s.todo # <<>>, NEW r, r = AfterStep(s)
  PROVE  /\ AccountLocal(r, t, b) /\ r.touches \subseteq s.touches /\ r.todo = Tail(s.todo)
         /\ \A p : Adding(r, p) => Adding(s, p)
         /\ \A x : SigningIn(r, x) => SigningIn(s, x) /\ r.signin = s.signin
         /\ r.todo \in DropTodos => s.todo \in DropTodos /\ r.pool = s.pool
<1>0. Idle.todo = <<>> /\ Idle.touches = {}
  BY DEF Idle
<1>1. AccountLocal(r, t, b) /\ r.touches \subseteq s.touches /\ r.todo = Tail(s.todo)
  BY <1>0, AccountRest, AccountIdle DEF AfterStep
<1>2. s.todo \in Seq(PoolAside) \cup AccountTodos /\ DOMAIN Rest(s) = DOMAIN s
  BY RestFields DEF AccountLocal
<1>3. \A x \in DOMAIN s : r.todo # <<>> /\ x # "todo" => r[x] = s[x]
  BY <1>0, <1>1, RestFields DEF AfterStep, AccountLocal
<1>4. r.todo \in SignTodos => s.todo = SignTodo /\ r.pool = s.pool /\ r.name = s.name /\ r.signin = s.signin
  <2>1. CASE s.todo \in Seq(PoolAside)
    <3>1. Tail(s.todo) \in Seq(PoolAside)
      BY <2>1
    <3>. QED BY <1>1, <3>1, AccountTodosApart DEF AccountTodos, AddTodos
  <2>2. CASE s.todo = SignTodo
    <3>1. {"pool", "name", "signin"} \subseteq DOMAIN s
      BY <2>2 DEF AccountLocal, AddTodos, SignTodos
    <3>2. r.todo # <<>>
      BY <1>1, <2>2, AccountHeads
    <3>. QED BY <1>3, <2>2, <3>1, <3>2
  <2>3. CASE s.todo \in AccountTodos \ {SignTodo}
    <3>1. Tail(s.todo) \in Seq(PoolAside) \cup DropTodos
      BY <2>3, AccountTails
    <3>. QED BY <1>1, <3>1, AccountTodosApart DEF AccountTodos, AddTodos
  <2>. QED BY <1>2, <2>1, <2>2, <2>3
<1>5. r.todo \in AddTodos => r.todo \in SignTodos
  <2>1. CASE s.todo \in Seq(PoolAside)
    <3>1. Tail(s.todo) \in Seq(PoolAside)
      BY <2>1
    <3>. QED BY <1>1, <3>1, AccountTodosApart DEF AccountTodos
  <2>2. CASE s.todo \in AccountTodos
    <3>1. Tail(s.todo) \in Seq(PoolAside) \cup DropTodos \cup SignTodos
      BY <2>2, AccountTails
    <3>. QED BY <1>1, <3>1, AccountTodosApart DEF AccountTodos
  <2>. QED BY <1>2, <2>1, <2>2
<1>6. r.todo \in DropTodos => s.todo \in DropTodos /\ r.pool = s.pool
  <2>1. CASE s.todo \in Seq(PoolAside)
    <3>1. Tail(s.todo) \in Seq(PoolAside)
      BY <2>1
    <3>. QED BY <1>1, <3>1, AccountTodosApart DEF AccountTodos
  <2>2. CASE s.todo \in DropTodos
    <3>1. "pool" \in DOMAIN s
      BY <2>2 DEF AccountLocal
    <3>2. r.todo \in DropTodos => r.todo # <<>>
      BY AccountHeads DEF DropTodos
    <3>. QED BY <1>3, <2>2, <3>1, <3>2
  <2>3. CASE s.todo \in AccountTodos \ DropTodos
    <3>1. Tail(s.todo) \in Seq(PoolAside) \cup SignTodos
      BY <2>3, AccountTails
    <3>. QED BY <1>1, <3>1, AccountTodosApart DEF AccountTodos, AddTodos
  <2>. QED BY <1>2, <2>1, <2>2, <2>3
<1>7. SignTodo \in AddTodos /\ SignTodo \in SignTodos
  BY DEF AddTodos, SignTodos
<1>. QED BY <1>1, <1>4, <1>5, <1>6, <1>7 DEF Adding, SigningIn

(* A thread goes on. *)
LEMMA AccountGoes ==
  ASSUME AccountShape, NEW t \in Workers, NEW s, Goes(t, s), NEW r, r = (IF s.todo = <<>> THEN Idle ELSE s),
         AccountLocal(r, t, begun), s.touches \subseteq local[t].touches,
         AccountsTyped(users', tokens', signedOut', begun),
         pools' = [p \in Pools |-> pools'[p]], clients' = [c \in Clients |-> clients'[c]]
  PROVE  /\ AccountShape' /\ disturbed' = disturbed
         /\ \A u \in Workers : local'[u] = IF u = t THEN r ELSE local[u]
<1>1. Threads' /\ Apart' /\ Only(t, r) /\ disturbed' = disturbed /\ begun' = begun
  BY GoesOnly, GoesApart DEF AccountShape, Goes
<1>2. \A u \in Workers : local'[u] = IF u = t THEN r ELSE local[u]
  BY <1>1 DEF Only
<1>3. \A u \in Workers : AccountLocal(local'[u], u, begun)
  BY <1>2 DEF AccountShape
<1>. QED BY <1>1, <1>2, <1>3 DEF AccountShape

LEMMA AccountDoes ==
  ASSUME AccountShape, NEW t \in Workers, Pool!Advance(t), local[t].todo # <<>>, NEW r, r = AfterStep(local[t]),
         AccountsTyped(users', tokens', signedOut', begun),
         pools' = [p \in Pools |-> pools'[p]], clients' = [c \in Clients |-> clients'[c]]
  PROVE  /\ AccountShape' /\ disturbed' = disturbed
         /\ \A u \in Workers : local'[u] = IF u = t THEN r ELSE local[u]
<1>. PICK q : q = Rest(local[t])
  OBVIOUS
<1>1. AccountLocal(local[t], t, begun)
  BY DEF AccountShape
<1>2. Goes(t, q) /\ q.touches \subseteq local[t].touches /\ q.todo = Tail(local[t].todo)
  BY <1>1, PoolThreads, AccountRest
<1>3. r = (IF q.todo = <<>> THEN Idle ELSE q)
  BY <1>2 DEF AfterStep
<1>4. AccountLocal(r, t, begun)
  BY <1>1, AccountAfter
<1>. QED BY <1>2, <1>3, <1>4, AccountGoes, ZenonT(30)

(* Steps that neither add to a pool nor go on dropping one. *)
LEMMA EmptiedStays ==
  ASSUME AccountInv, disturbed \subseteq disturbed', tokens' \subseteq tokens,
         \A p \in Pools : /\ pools'[p] = "gone" => pools[p] = "gone"
                          /\ InUsers(p, users') => InUsers(p, users)
                          /\ InClients(p, clients') => InClients(p, clients),
         \A u \in Workers :
            \/ local'[u] = local[u]
            \/ /\ local[u].todo \in DropTodos => local[u].touches \subseteq disturbed'
               /\ \A p \in Pools : Adding(local'[u], p) => Adding(local[u], p)
  PROVE  \A p \in Pools : FreePool(p)' => Emptied(p, pools', users', clients', tokens', local')
<1>1. ASSUME NEW p \in Pools, FreePool(p)', pools'[p] = "gone"
      PROVE  Emptied(p, pools', users', clients', tokens', local')
  <2>1. Emptied(p, pools, users, clients, tokens, local) /\ pools[p] = "gone"
    BY <1>1 DEF AccountInv, FreePool
  <2>2. ASSUME NEW T, T \subseteq DropTodos, Holds(local, p, T) PROVE Holds(local', p, T)
    <3>1. PICK d \in Workers : local[d].todo \in T /\ local[d].pool = p
      BY <2>2 DEF Holds
    <3>2. <<p, d>> \in local[d].touches
      BY <2>2, <3>1 DEF AccountInv, AccountShape, AccountLocal, Pool!Exclusive
    <3>3. local'[d] = local[d]
      BY <1>1, <2>2, <3>1, <3>2 DEF FreePool
    <3>. QED BY <3>1, <3>3 DEF Holds
  <2>3. \A u \in Workers : ~Adding(local'[u], p)
    BY <2>1 DEF Emptied
  <2>4. InTokens(p, tokens') => InTokens(p, tokens)
    BY DEF InTokens
  <2>5. {UsersDrop} \subseteq DropTodos /\ {UsersDrop, ClientsDrop} \subseteq DropTodos /\ {UsersDrop, ClientsDrop, TokensDrop} \subseteq DropTodos
    BY DEF DropTodos
  <2>. QED BY <2>1, <2>2, <2>3, <2>4, <2>5 DEF Emptied
<1>. QED BY <1>1 DEF Emptied

(* ... and neither sign in nor sign out. *)
LEMMA AccountStays ==
  ASSUME AccountInv, AccountShape', disturbed \subseteq disturbed', signedOut' = signedOut, tokens' \subseteq tokens,
         \A p \in Pools : /\ pools'[p] = "gone" => pools[p] = "gone"
                          /\ InUsers(p, users') => InUsers(p, users)
                          /\ InClients(p, clients') => InClients(p, clients),
         \A u \in Workers :
            \/ local'[u] = local[u]
            \/ /\ local[u].todo \in DropTodos => local[u].touches \subseteq disturbed'
               /\ \A p \in Pools : Adding(local'[u], p) => Adding(local[u], p)
               /\ \A r : SigningIn(local'[u], r) => SigningIn(local[u], r) /\ local'[u].signin = local[u].signin
  PROVE  AccountInv'
<1>1. \A p \in Pools : FreePool(p)' => Emptied(p, pools', users', clients', tokens', local')
  BY EmptiedStays
<1>2. ASSUME NEW r \in Pool!Names, r \notin disturbed'
      PROVE  SignedIn(r, tokens', signedOut', local')
  <2>1. SignedIn(r, tokens, signedOut, local)
    BY <1>2 DEF AccountInv
  <2>2. ASSUME NEW u \in Workers, SigningIn(local'[u], r) PROVE local'[u].signin > signedOut[r]
    BY <2>1, <2>2 DEF SignedIn
  <2>. QED BY <2>1, <2>2 DEF SignedIn
<1>. QED BY <1>1, <1>2 DEF AccountInv

(* A request begins. *)
LEMMA AccountAsked ==
  ASSUME AccountInv, NEW t \in Workers, NEW s, Pool!Begin(t, s), AccountLocal(s, t, begun + 1),
         UNCHANGED <<pools, clients, users, tokens, signedOut>>,
         \A p \in Pools : Adding(s, p) => pools[p] # "gone" \/ InUsers(p, users) \/ InTokens(p, tokens),
         \A r \in Pool!Names : SigningIn(s, r) /\ r \notin disturbed => s.signin > signedOut[r]
  PROVE  AccountInv'
<1>1. /\ AccountShape' /\ disturbed \subseteq disturbed' /\ local[t] = Idle
      /\ \A u \in Workers : local'[u] = IF u = t THEN s ELSE local[u]
      /\ \A row \in s.touches : \A u \in Workers : row \in local[u].touches => row \in disturbed'
  BY AccountAsk DEF AccountInv
<1>2. Idle.todo = <<>> /\ <<>> \notin DropTodos
  BY AccountHeads DEF Idle, DropTodos
<1>3. ASSUME NEW p \in Pools, FreePool(p)', pools[p] = "gone"
      PROVE  Emptied(p, pools, users, clients, tokens, local')
  <2>1. Emptied(p, pools, users, clients, tokens, local)
    BY <1>1, <1>3 DEF AccountInv, FreePool
  <2>2. ASSUME NEW T, T \subseteq DropTodos, Holds(local, p, T) PROVE Holds(local', p, T)
    <3>1. PICK d \in Workers : local[d].todo \in T /\ local[d].pool = p
      BY <2>2 DEF Holds
    <3>2. d # t
      BY <1>1, <1>2, <2>2, <3>1
    <3>. QED BY <1>1, <3>1, <3>2 DEF Holds
  <2>3. {UsersDrop} \subseteq DropTodos /\ {UsersDrop, ClientsDrop} \subseteq DropTodos /\ {UsersDrop, ClientsDrop, TokensDrop} \subseteq DropTodos
    BY DEF DropTodos
  <2>4. ~Adding(s, p)
    <3>1. SUFFICES ASSUME Adding(s, p) PROVE FALSE
      OBVIOUS
    <3>2. <<p, t>> \in s.touches
      BY <3>1 DEF Adding, AccountLocal
    <3>3. InUsers(p, users) \/ InTokens(p, tokens)
      BY <1>3, <3>1
    <3>4. PICK d \in Workers : local[d].todo \in DropTodos /\ local[d].pool = p
      BY <1>3, <2>1, <2>3, <3>3 DEF Emptied, Holds
    <3>5. <<p, t>> \in local[d].touches
      BY <3>4 DEF AccountInv, AccountShape, AccountLocal, Pool!Exclusive
    <3>. QED BY <1>1, <1>3, <3>2, <3>5 DEF FreePool
  <2>5. \A u \in Workers : ~Adding(local'[u], p)
    BY <1>1, <1>3, <2>1, <2>4 DEF Emptied
  <2>. QED BY <1>3, <2>1, <2>2, <2>3, <2>5 DEF Emptied
<1>4. ASSUME NEW r \in Pool!Names, r \notin disturbed'
      PROVE  SignedIn(r, tokens, signedOut, local')
  <2>1. SignedIn(r, tokens, signedOut, local) /\ r \notin disturbed
    BY <1>1, <1>4 DEF AccountInv
  <2>2. ASSUME NEW u \in Workers, SigningIn(local'[u], r) PROVE local'[u].signin > signedOut[r]
    <3>1. CASE u = t
      BY <1>1, <2>1, <2>2, <3>1
    <3>2. CASE u # t
      BY <1>1, <2>1, <2>2, <3>2 DEF SignedIn
    <3>. QED BY <3>1, <3>2
  <2>. QED BY <2>1, <2>2 DEF SignedIn
<1>5. \A p \in Pools : FreePool(p)' => Emptied(p, pools, users, clients, tokens, local')
  BY <1>3 DEF Emptied
<1>. QED BY <1>1, <1>4, <1>5 DEF AccountInv

LEMMA AccountBreaks ==
  ASSUME AccountInv, Breaks, UNCHANGED <<pools, clients, users, tokens, signedOut>>
  PROVE  AccountInv'
<1>1. /\ Threads' /\ Apart' /\ disturbed \subseteq disturbed' /\ begun' = begun
      /\ \A u \in Workers : local'[u] = local[u] \/ (local'[u] = Idle /\ local[u].touches \subseteq disturbed')
  BY BreaksThreads, BreaksApart DEF AccountInv, AccountShape, Breaks
<1>2. \A u \in Workers : AccountLocal(local'[u], u, begun)
  BY <1>1, AccountIdle DEF AccountInv, AccountShape
<1>3. AccountShape'
  BY <1>1, <1>2 DEF AccountInv, AccountShape
<1>4. Idle.todo = <<>> /\ <<>> \notin AddTodos /\ <<>> \notin SignTodos
  BY AccountHeads DEF Idle, AddTodos, NewUserTodos, SignTodos
<1>5. \A p : ~Adding(Idle, p) /\ ~SigningIn(Idle, p)
  BY <1>4 DEF Adding, SigningIn
<1>. QED BY <1>1, <1>3, <1>5, AccountStays

(* A step of a request that is not dropping a pool, which makes no row of a pool that had none. *)
LEMMA AccountAsideDoes ==
  ASSUME AccountInv, NEW t \in Workers, Pool!Advance(t), local[t].todo # <<>>, local[t].todo \notin DropTodos,
         AccountsTyped(users', tokens', signedOut', begun),
         pools' = [p \in Pools |-> pools'[p]], clients' = [c \in Clients |-> clients'[c]],
         signedOut' = signedOut, tokens' \subseteq tokens,
         \A p \in Pools : /\ pools'[p] = "gone" => pools[p] = "gone"
                          /\ InUsers(p, users') => InUsers(p, users)
                          /\ InClients(p, clients') => InClients(p, clients)
  PROVE  AccountInv'
<1>. PICK r : r = AfterStep(local[t])
  OBVIOUS
<1>1. AccountLocal(local[t], t, begun)
  BY DEF AccountInv, AccountShape
<1>2. /\ AccountShape' /\ disturbed' = disturbed
      /\ \A u \in Workers : local'[u] = IF u = t THEN r ELSE local[u]
  BY AccountDoes DEF AccountInv
<1>3. /\ \A p : Adding(r, p) => Adding(local[t], p)
      /\ \A x : SigningIn(r, x) => SigningIn(local[t], x) /\ r.signin = local[t].signin
  BY <1>1, AccountAfter
<1>. QED BY <1>2, <1>3, AccountStays

(* A request that adds to a pool inserts its row. *)
LEMMA AccountInserts ==
  ASSUME AccountInv, NEW t \in Workers, Pool!Advance(t), local[t].todo # <<>>, NEW b, Adding(local[t], b),
         AccountsTyped(users', tokens', signedOut', begun),
         pools' = pools, clients' = [c \in Clients |-> clients'[c]], signedOut' = signedOut,
         \A p \in Pools : p # b => /\ InUsers(p, users') => InUsers(p, users)
                                   /\ InClients(p, clients') => InClients(p, clients)
                                   /\ InTokens(p, tokens') => InTokens(p, tokens),
         \A k \in tokens' : k \in tokens \/ (SigningIn(local[t], <<k.pool, k.name>>) /\ k.signin = local[t].signin)
  PROVE  AccountInv'
<1>. PICK s : s = local[t]
  OBVIOUS
<1>. PICK r : r = AfterStep(s)
  OBVIOUS
<1>1. AccountLocal(s, t, begun)
  BY DEF AccountInv, AccountShape
<1>2. /\ AccountShape' /\ disturbed' = disturbed
      /\ \A u \in Workers : local'[u] = IF u = t THEN r ELSE local[u]
  BY AccountDoes DEF AccountInv, AccountShape
<1>3. /\ \A p : Adding(r, p) => Adding(s, p)
      /\ \A x : SigningIn(r, x) => SigningIn(s, x) /\ r.signin = s.signin
  BY <1>1, AccountAfter
<1>4. ASSUME NEW p \in Pools, FreePool(p), pools[p] = "gone"
      PROVE  Emptied(p, pools, users', clients', tokens', local')
  <2>1. Emptied(p, pools, users, clients, tokens, local)
    BY <1>4 DEF AccountInv
  <2>2. p # b
    BY <1>4, <2>1 DEF Emptied
  <2>3. s.todo \notin DropTodos
    BY AccountTodosApart DEF Adding
  <2>4. ASSUME NEW T, T \subseteq DropTodos, Holds(local, p, T) PROVE Holds(local', p, T)
    <3>1. PICK d \in Workers : local[d].todo \in T /\ local[d].pool = p
      BY <2>4 DEF Holds
    <3>. QED BY <1>2, <2>3, <2>4, <3>1 DEF Holds
  <2>5. {UsersDrop} \subseteq DropTodos /\ {UsersDrop, ClientsDrop} \subseteq DropTodos /\ {UsersDrop, ClientsDrop, TokensDrop} \subseteq DropTodos
    BY DEF DropTodos
  <2>6. \A u \in Workers : ~Adding(local'[u], p)
    BY <1>2, <1>3, <1>4, <2>1 DEF Emptied
  <2>. QED BY <1>4, <2>1, <2>2, <2>4, <2>5, <2>6 DEF Emptied
<1>5. ASSUME NEW x \in Pool!Names, x \notin disturbed
      PROVE  SignedIn(x, tokens', signedOut, local')
  <2>1. SignedIn(x, tokens, signedOut, local)
    BY <1>5 DEF AccountInv
  <2>2. ASSUME NEW u \in Workers, SigningIn(local'[u], x) PROVE local'[u].signin > signedOut[x]
    BY <1>2, <1>3, <2>1, <2>2 DEF SignedIn
  <2>. QED BY <2>1, <2>2 DEF SignedIn
<1>6. \A p \in Pools : FreePool(p)' => Emptied(p, pools, users', clients', tokens', local')
  BY <1>2, <1>4 DEF Emptied, FreePool
<1>. QED BY <1>2, <1>5, <1>6 DEF AccountInv

(* A deletion of a pool goes on. *)
LEMMA HoldsOn ==
  ASSUME NEW t \in Workers, NEW s, NEW r, s = local[t], \A u \in Workers : local'[u] = IF u = t THEN r ELSE local[u],
         NEW p, NEW T, Holds(local, p, T),
         p # s.pool \/ s.todo \notin T \/ (r.todo \in T /\ r.pool = s.pool)
  PROVE  Holds(local', p, T)
<1>1. PICK d \in Workers : local[d].todo \in T /\ local[d].pool = p
  BY DEF Holds
<1>2. local'[d].todo \in T /\ local'[d].pool = p
  BY <1>1
<1>. QED BY <1>2 DEF Holds

LEMMA AccountDrops ==
  ASSUME AccountInv, NEW t \in Workers, Pool!Advance(t), NEW s, s = local[t], s.todo \in DropTodos,
         AccountsTyped(users', tokens', signedOut', begun),
         pools' = [p \in Pools |-> pools'[p]], clients' = [c \in Clients |-> clients'[c]],
         signedOut' = signedOut, tokens' \subseteq tokens,
         \A p \in Pools : /\ pools'[p] = "gone" => pools[p] = "gone" \/ (p = s.pool /\ s.todo = PoolDrop)
                          /\ InUsers(p, users') => InUsers(p, users) /\ (p = s.pool => s.todo # UsersDrop)
                          /\ InClients(p, clients') => InClients(p, clients) /\ (p = s.pool => s.todo # ClientsDrop)
                          /\ InTokens(p, tokens') => (p = s.pool => s.todo # TokensDrop)
  PROVE  AccountInv'
<1>. PICK r : r = AfterStep(s)
  OBVIOUS
<1>1. AccountLocal(s, t, begun) /\ s.todo # <<>>
  BY AccountHeads DEF AccountInv, AccountShape, DropTodos
<1>2. /\ AccountShape' /\ disturbed' = disturbed
      /\ \A u \in Workers : local'[u] = IF u = t THEN r ELSE local[u]
  BY <1>1, AccountDoes DEF AccountInv
<1>3. /\ r.todo = Tail(s.todo)
      /\ r.todo \in DropTodos => r.pool = s.pool
      /\ \A p : Adding(r, p) => Adding(s, p)
      /\ \A x : SigningIn(r, x) => SigningIn(s, x) /\ r.signin = s.signin
  BY <1>1, AccountAfter
<1>4. /\ s.todo = PoolDrop => r.todo = UsersDrop /\ r.pool = s.pool
      /\ s.todo = UsersDrop => r.todo = ClientsDrop /\ r.pool = s.pool
      /\ s.todo = ClientsDrop => r.todo = TokensDrop /\ r.pool = s.pool
  BY <1>3, AccountHeads DEF DropTodos
<1>5. \A p : ~Adding(s, p)
  BY AccountTodosApart DEF Adding
<1>6. ASSUME NEW p \in Pools, FreePool(p), pools'[p] = "gone"
      PROVE  Emptied(p, pools', users', clients', tokens', local')
  <2>1. CASE p = s.pool /\ s.todo = PoolDrop
    <3>1. local'[t].todo = UsersDrop /\ local'[t].pool = p
      BY <1>2, <1>4, <2>1
    <3>2. /\ Holds(local', p, {UsersDrop}) /\ Holds(local', p, {UsersDrop, ClientsDrop})
          /\ Holds(local', p, {UsersDrop, ClientsDrop, TokensDrop})
      BY <3>1 DEF Holds
    <3>3. ASSUME NEW u \in Workers, u # t, Adding(local[u], p) PROVE FALSE
      <4>1. <<p, u>> \in local[u].touches
        BY <3>3 DEF AccountInv, AccountShape, AccountLocal, Adding
      <4>2. <<p, u>> \in s.touches
        BY <1>1, <2>1 DEF AccountLocal, Pool!Exclusive
      <4>. QED BY <1>6, <3>3, <4>1, <4>2 DEF FreePool, AccountInv, AccountShape, Apart
    <3>4. \A u \in Workers : ~Adding(local'[u], p)
      BY <1>2, <1>3, <1>5, <3>3
    <3>. QED BY <3>2, <3>4 DEF Emptied
  <2>2. CASE ~(p = s.pool /\ s.todo = PoolDrop)
    <3>1. Emptied(p, pools, users, clients, tokens, local) /\ pools[p] = "gone"
      BY <1>6, <2>2 DEF AccountInv
    <3>2. \A u \in Workers : ~Adding(local'[u], p)
      BY <1>2, <1>3, <1>5, <3>1 DEF Emptied
    <3>3. InUsers(p, users') => Holds(local', p, {UsersDrop})
      BY <1>2, <3>1, HoldsOn DEF Emptied
    <3>4. InClients(p, clients') => Holds(local', p, {UsersDrop, ClientsDrop})
      BY <1>2, <1>4, <3>1, HoldsOn DEF Emptied
    <3>5. InTokens(p, tokens') => Holds(local', p, {UsersDrop, ClientsDrop, TokensDrop})
      <4>1. InTokens(p, tokens') => InTokens(p, tokens)
        BY DEF InTokens
      <4>. QED BY <1>2, <1>4, <3>1, <4>1, HoldsOn DEF Emptied
    <3>. QED BY <3>2, <3>3, <3>4, <3>5 DEF Emptied
  <2>. QED BY <2>1, <2>2
<1>7. ASSUME NEW x \in Pool!Names, x \notin disturbed
      PROVE  SignedIn(x, tokens', signedOut, local')
  <2>1. SignedIn(x, tokens, signedOut, local)
    BY <1>7 DEF AccountInv
  <2>2. ASSUME NEW u \in Workers, SigningIn(local'[u], x) PROVE local'[u].signin > signedOut[x]
    BY <1>2, <1>3, <2>1, <2>2 DEF SignedIn
  <2>. QED BY <2>1, <2>2 DEF SignedIn
<1>8. \A p \in Pools : FreePool(p)' => Emptied(p, pools', users', clients', tokens', local')
  BY <1>2, <1>6 DEF Emptied, FreePool
<1>. QED BY <1>2, <1>7, <1>8 DEF AccountInv

(* global_sign_out: nobody else is at work on the name, or it is disturbed. *)
LEMMA AccountSignsOut ==
  ASSUME AccountInv, NEW t \in Workers, Pool!SignOut(t)
  PROVE  AccountInv'
<1>. PICK s : s = local[t]
  OBVIOUS
<1>. PICK x : x = <<s.pool, s.name>>
  OBVIOUS
<1>. PICK r : r = AfterStep(s)
  OBVIOUS
<1>1. /\ Pool!At(t, "sign out") /\ Pool!Advance(t) /\ UNCHANGED <<pools, clients, users>>
      /\ tokens' = {k \in tokens : <<k.pool, k.name>> # x} /\ signedOut' = [signedOut EXCEPT ![x] = s.at]
  BY DEF Pool!SignOut, Pool!Does
<1>2. AccountLocal(s, t, begun) /\ s.todo = OutTodo /\ s.todo # <<>>
  BY <1>1, AccountAt DEF AccountInv
<1>3. x \in s.touches /\ s.at \in Nat /\ s.at <= begun
  BY <1>2 DEF AccountLocal
<1>4. \A y \in Pool!Names : signedOut'[y] = IF y = x THEN s.at ELSE signedOut[y]
  BY <1>1 DEF AccountInv, AccountShape, AccountsTyped
<1>5. AccountsTyped(users', tokens', signedOut', begun)
  <2>1. \A y \in Pool!Names : signedOut'[y] \in Int /\ signedOut'[y] <= begun
    BY <1>3, <1>4 DEF AccountInv, AccountShape, AccountsTyped
  <2>2. signedOut' = [y \in Pool!Names |-> signedOut'[y]]
    BY <1>1 DEF AccountInv, AccountShape, AccountsTyped
  <2>3. \A k \in tokens' : k \in tokens
    BY <1>1
  <2>. QED BY <1>1, <2>1, <2>2, <2>3 DEF AccountInv, AccountShape, AccountsTyped
<1>6. /\ AccountShape' /\ disturbed' = disturbed
      /\ \A u \in Workers : local'[u] = IF u = t THEN r ELSE local[u]
  BY <1>1, <1>2, <1>5, AccountDoes, ZenonT(30) DEF AccountInv, AccountShape
<1>7. /\ \A p : Adding(r, p) => Adding(s, p)
      /\ \A y : SigningIn(r, y) => SigningIn(s, y) /\ r.signin = s.signin
  BY <1>2, AccountAfter
<1>8. s.todo \notin DropTodos /\ s.todo \notin SignTodos
  BY <1>2, AccountTodosApart DEF AddTodos
<1>9. \A p \in Pools : FreePool(p)' => Emptied(p, pools', users', clients', tokens', local')
  <2>1. tokens' \subseteq tokens
    BY <1>1
  <2>. QED BY <1>1, <1>6, <1>7, <1>8, <2>1, EmptiedStays
<1>10. ASSUME NEW y \in Pool!Names, y \notin disturbed
       PROVE  SignedIn(y, tokens', signedOut', local')
  <2>1. SignedIn(y, tokens, signedOut, local)
    BY <1>10 DEF AccountInv
  <2>2. CASE y = x
    <3>1. ASSUME NEW u \in Workers, SigningIn(local'[u], x) PROVE FALSE
      <4>1. u # t /\ SigningIn(local[u], x)
        BY <1>6, <1>7, <1>8, <3>1 DEF SigningIn
      <4>2. x \in local[u].touches
        BY <4>1 DEF SigningIn, AccountInv, AccountShape, AccountLocal
      <4>. QED BY <1>3, <1>10, <2>2, <4>1, <4>2 DEF AccountInv, AccountShape, Apart
    <3>. QED BY <1>1, <2>2, <3>1 DEF SignedIn
  <2>3. CASE y # x
    <3>1. signedOut'[y] = signedOut[y]
      BY <1>4, <2>3
    <3>2. ASSUME NEW u \in Workers, SigningIn(local'[u], y) PROVE local'[u].signin > signedOut[y]
      BY <1>6, <1>7, <2>1, <3>2 DEF SignedIn
    <3>. QED BY <1>1, <2>1, <3>1, <3>2 DEF SignedIn
  <2>. QED BY <2>2, <2>3
<1>. QED BY <1>6, <1>9, <1>10 DEF AccountInv

LEMMA AccountAskSame ==
  ASSUME NEW t, NEW s, Pool!Ask(t, s)
  PROVE  Pool!Begin(t, s) /\ UNCHANGED <<pools, clients, users, tokens, signedOut>>
  BY DEF Pool!Ask, Pool!cognitovars, Pool!tables

(* What a request that is of one kind is not. *)
LEMMA AccountKinds ==
  ASSUME NEW s, NEW t, NEW b, {"todo", "touches"} \subseteq DOMAIN s
  PROVE  /\ s.todo \in Seq(PoolAside) => AccountLocal(s, t, b) /\ s.todo \notin AddTodos /\ s.todo \notin SignTodos
         /\ s.todo = UpdateTodo /\ "change" \in DOMAIN s /\ DOMAIN s.change \subseteq {"status", "code"}
            => AccountLocal(s, t, b) /\ s.todo \notin AddTodos /\ s.todo \notin SignTodos
         /\ /\ s.todo = OutTodo /\ {"pool", "name", "at"} \subseteq DOMAIN s
            /\ s.at \in Nat /\ s.at <= b /\ <<s.pool, s.name>> \in s.touches
            => AccountLocal(s, t, b) /\ s.todo \notin AddTodos /\ s.todo \notin SignTodos
         /\ s.todo \in DropTodos /\ "pool" \in DOMAIN s /\ Pool!Exclusive(s.pool) \subseteq s.touches
            => AccountLocal(s, t, b) /\ s.todo \notin AddTodos /\ s.todo \notin SignTodos
         /\ s.todo = ClientTodo /\ "pool" \in DOMAIN s /\ (s.pool \in Pools => <<s.pool, t>> \in s.touches)
            => AccountLocal(s, t, b) /\ s.todo \notin SignTodos
         /\ /\ s.todo \in NewUserTodos /\ {"pool", "name"} \subseteq DOMAIN s
            /\ s.pool \in Pools /\ s.name \in Usernames /\ <<s.pool, t>> \in s.touches
            => AccountLocal(s, t, b) /\ s.todo \notin SignTodos
         /\ /\ s.todo \in SignTodos /\ {"pool", "name", "signin"} \subseteq DOMAIN s
            /\ s.pool \in Pools /\ s.name \in Usernames /\ <<s.pool, t>> \in s.touches
            /\ s.signin \in Nat /\ <<s.pool, s.name>> \in s.touches
            => AccountLocal(s, t, b)
<1>1. /\ \A x \in Seq(PoolAside) : x \notin AccountTodos
      /\ UpdateTodo \notin AddTodos \cup DropTodos \cup {OutTodo}
      /\ OutTodo \notin AddTodos \cup DropTodos
      /\ \A x \in AddTodos : x \notin DropTodos
      /\ ClientTodo \notin NewUserTodos \cup SignTodos
      /\ \A x \in NewUserTodos : x \notin SignTodos
  BY AccountTodosApart
<1>2. /\ AddTodos \subseteq AccountTodos /\ DropTodos \subseteq AccountTodos
      /\ UpdateTodo \in AccountTodos /\ OutTodo \in AccountTodos
      /\ ClientTodo \in AddTodos /\ NewUserTodos \subseteq AddTodos /\ SignTodos \subseteq AddTodos
  BY DEF AccountTodos, AddTodos
<1>3. s.todo \in Seq(PoolAside) => AccountLocal(s, t, b) /\ s.todo \notin AddTodos /\ s.todo \notin SignTodos
  BY <1>1, <1>2 DEF AccountLocal
<1>4. s.todo = UpdateTodo /\ "change" \in DOMAIN s /\ DOMAIN s.change \subseteq {"status", "code"}
      => AccountLocal(s, t, b) /\ s.todo \notin AddTodos /\ s.todo \notin SignTodos
  BY <1>1, <1>2 DEF AccountLocal
<1>5. /\ s.todo = OutTodo /\ {"pool", "name", "at"} \subseteq DOMAIN s
      /\ s.at \in Nat /\ s.at <= b /\ <<s.pool, s.name>> \in s.touches
      => AccountLocal(s, t, b) /\ s.todo \notin AddTodos /\ s.todo \notin SignTodos
  BY <1>1, <1>2 DEF AccountLocal
<1>6. s.todo \in DropTodos /\ "pool" \in DOMAIN s /\ Pool!Exclusive(s.pool) \subseteq s.touches
      => AccountLocal(s, t, b) /\ s.todo \notin AddTodos /\ s.todo \notin SignTodos
  BY <1>1, <1>2 DEF AccountLocal
<1>7. s.todo = ClientTodo /\ "pool" \in DOMAIN s /\ (s.pool \in Pools => <<s.pool, t>> \in s.touches)
      => AccountLocal(s, t, b) /\ s.todo \notin SignTodos
  BY <1>1, <1>2 DEF AccountLocal
<1>8. /\ s.todo \in NewUserTodos /\ {"pool", "name"} \subseteq DOMAIN s
      /\ s.pool \in Pools /\ s.name \in Usernames /\ <<s.pool, t>> \in s.touches
      => AccountLocal(s, t, b) /\ s.todo \notin SignTodos
  BY <1>1, <1>2 DEF AccountLocal
<1>9. /\ s.todo \in SignTodos /\ {"pool", "name", "signin"} \subseteq DOMAIN s
      /\ s.pool \in Pools /\ s.name \in Usernames /\ <<s.pool, t>> \in s.touches
      /\ s.signin \in Nat /\ <<s.pool, s.name>> \in s.touches
      => AccountLocal(s, t, b)
  BY <1>1, <1>2 DEF AccountLocal
<1>. QED BY <1>3, <1>4, <1>5, <1>6, <1>7, <1>8, <1>9

LEMMA AccountAskedAside ==
  ASSUME AccountInv, NEW t \in Workers, NEW rows, NEW todo \in Seq(PoolAside), NEW q,
         Pool!Ask(t, Pool!On(rows, todo, q))
  PROVE  AccountInv'
<1>. PICK s : s = Pool!On(rows, todo, q)
  OBVIOUS
<1>1. {"todo", "touches"} \subseteq DOMAIN s /\ s.todo = todo
  BY DEF Pool!On, Pool!Also
<1>2. AccountLocal(s, t, begun + 1) /\ s.todo \notin AddTodos /\ s.todo \notin SignTodos
  BY <1>1, AccountKinds
<1>. QED BY <1>2, AccountAskSame, AccountAsked DEF Adding, SigningIn

LEMMA AccountVouched ==
  ASSUME AccountInv, NEW t \in Workers, NEW i, NEW change, DOMAIN change \subseteq {"status", "code"},
         Pool!Vouch(t, i, change)
  PROVE  AccountInv'
<1>. PICK q : q = [user |-> i, change |-> change]
  OBVIOUS
<1>. PICK s : s = Pool!On({}, <<"update">>, q)
  OBVIOUS
<1>1. DOMAIN q = {"user", "change"} /\ q.change = change
  OBVIOUS
<1>2. {"todo", "touches", "change"} \subseteq DOMAIN s /\ s.todo = UpdateTodo /\ s.change = change
  BY <1>1 DEF Pool!On, Pool!Also, UpdateTodo
<1>3. AccountLocal(s, t, begun + 1) /\ s.todo \notin AddTodos /\ s.todo \notin SignTodos
  BY <1>2, AccountKinds
<1>4. Pool!Begin(t, s) /\ UNCHANGED <<pools, clients, users, tokens, signedOut>>
  BY DEF Pool!Vouch, Pool!tables
<1>. QED BY <1>3, <1>4, AccountAsked DEF Adding, SigningIn

LEMMA NextNumber == \A b \in Nat : b + 1 \in Nat /\ b + 1 <= b + 1
  OBVIOUS

LEMMA AccountAskedOut ==
  ASSUME AccountInv, NEW t \in Workers, NEW p, NEW n, Pool!SignOutDecode(t, p, n)
  PROVE  AccountInv'
<1>. PICK q : q = [pool |-> p, name |-> n]
  OBVIOUS
<1>. PICK s : s = Pool!On({<<p, n>>}, <<"sign out">>, q)
  OBVIOUS
<1>1. DOMAIN q = {"pool", "name"} /\ q.pool = p /\ q.name = n
  OBVIOUS
<1>2. /\ {"todo", "touches", "at", "pool", "name"} \subseteq DOMAIN s /\ s.todo = OutTodo /\ s.pool = p /\ s.name = n
      /\ s.touches = {<<p, n>>} /\ s.at = begun + 1
  BY <1>1 DEF Pool!On, Pool!Also, OutTodo
<1>3. s.at \in Nat /\ s.at <= begun + 1
  <2>1. begun \in Nat
    BY DEF AccountInv, AccountShape, AccountsTyped
  <2>4. begun + 1 \in Nat /\ begun + 1 <= begun + 1
    BY <2>1, NextNumber, Zenon
  <2>3. s.at = begun + 1
    BY <1>2
  <2>. QED BY <2>3, <2>4
<1>4. AccountLocal(s, t, begun + 1) /\ s.todo \notin AddTodos /\ s.todo \notin SignTodos
  BY <1>2, <1>3, AccountKinds
<1>5. Pool!Ask(t, s)
  BY DEF Pool!SignOutDecode
<1>. QED BY <1>4, <1>5, AccountAskSame, AccountAsked DEF Adding, SigningIn

LEMMA AccountAskedDrop ==
  ASSUME AccountInv, NEW t \in Workers, NEW p, Pool!DeletePoolRequire(t, p)
  PROVE  AccountInv'
<1>. PICK q : q = [pool |-> p]
  OBVIOUS
<1>. PICK s : s = Pool!On(Pool!Exclusive(p), <<"drop pool", "drop users", "drop clients", "drop tokens">>, q)
  OBVIOUS
<1>1. DOMAIN q = {"pool"} /\ q.pool = p
  OBVIOUS
<1>2. /\ {"todo", "touches", "pool"} \subseteq DOMAIN s /\ s.todo = PoolDrop /\ s.pool = p
      /\ s.touches = Pool!Exclusive(p) /\ PoolDrop \in DropTodos
  BY <1>1 DEF Pool!On, Pool!Also, PoolDrop, DropTodos
<1>3. AccountLocal(s, t, begun + 1) /\ s.todo \notin AddTodos /\ s.todo \notin SignTodos
  BY <1>2, AccountKinds
<1>4. Pool!Ask(t, s)
  BY DEF Pool!DeletePoolRequire
<1>. QED BY <1>3, <1>4, AccountAskSame, AccountAsked DEF Adding, SigningIn

LEMMA AccountAskedClient ==
  ASSUME AccountInv, NEW t \in Workers, NEW rows, NEW c, NEW p, p \in Pools => <<p, t>> \in rows /\ pools[p] = "live",
         Pool!Ask(t, Pool!On(rows, <<"client">>, [client |-> c, pool |-> p]))
  PROVE  AccountInv'
<1>. PICK q : q = [client |-> c, pool |-> p]
  OBVIOUS
<1>. PICK s : s = Pool!On(rows, <<"client">>, q)
  OBVIOUS
<1>1. DOMAIN q = {"client", "pool"} /\ q.pool = p
  OBVIOUS
<1>2. {"todo", "touches", "pool"} \subseteq DOMAIN s /\ s.todo = ClientTodo /\ s.pool = p /\ s.touches = rows
  BY <1>1 DEF Pool!On, Pool!Also, ClientTodo
<1>3. AccountLocal(s, t, begun + 1) /\ s.todo \notin SignTodos
  BY <1>2, AccountKinds
<1>4. \A y \in Pools : Adding(s, y) => pools[y] # "gone"
  BY <1>2 DEF Adding
<1>. QED BY <1>3, <1>4, AccountAskSame, AccountAsked DEF SigningIn

LEMMA AccountAskedUser ==
  ASSUME AccountInv, NEW t \in Workers, NEW todo \in NewUserTodos, NEW p \in Pools, NEW n \in Usernames, NEW status,
         pools[p] = "live",
         Pool!Ask(t, Pool!On(Pool!Shared(p, t), todo, [pool |-> p, name |-> n, status |-> status]))
  PROVE  AccountInv'
<1>. PICK q : q = [pool |-> p, name |-> n, status |-> status]
  OBVIOUS
<1>. PICK s : s = Pool!On(Pool!Shared(p, t), todo, q)
  OBVIOUS
<1>1. DOMAIN q = {"pool", "name", "status"} /\ q.pool = p /\ q.name = n
  OBVIOUS
<1>2. /\ {"todo", "touches", "pool", "name"} \subseteq DOMAIN s /\ s.todo = todo /\ s.pool = p /\ s.name = n
      /\ <<p, t>> \in s.touches
  BY <1>1 DEF Pool!On, Pool!Also, Pool!Shared
<1>3. AccountLocal(s, t, begun + 1) /\ s.todo \notin SignTodos
  BY <1>2, AccountKinds
<1>4. \A y \in Pools : Adding(s, y) => pools[y] # "gone"
  BY <1>2 DEF Adding
<1>. QED BY <1>3, <1>4, AccountAskSame, AccountAsked DEF SigningIn

LEMMA AccountAskedSign ==
  ASSUME AccountInv, NEW t \in Workers, NEW p \in Pools, NEW n \in Usernames, NEW c, NEW signin \in Nat,
         InUsers(p, users) \/ InTokens(p, tokens),
         <<p, n>> \notin disturbed => signin > signedOut[<<p, n>>],
         Pool!Sign(t, p, n, c, signin)
  PROVE  AccountInv'
<1>. PICK q : q = [pool |-> p, name |-> n, client |-> c, signin |-> signin]
  OBVIOUS
<1>. PICK s : s = Pool!On({<<p, n>>} \cup Pool!Shared(p, t), <<"require pool", "token">>, q)
  OBVIOUS
<1>1. DOMAIN q = {"pool", "name", "client", "signin"} /\ q.pool = p /\ q.name = n /\ q.signin = signin
  OBVIOUS
<1>2. /\ {"todo", "touches", "pool", "name", "signin"} \subseteq DOMAIN s /\ s.todo = SignTodo
      /\ s.pool = p /\ s.name = n /\ s.signin = signin
      /\ s.touches = {<<p, n>>} \cup Pool!Shared(p, t) /\ SignTodo \in SignTodos
  BY <1>1 DEF Pool!On, Pool!Also, SignTodo, SignTodos
<1>3. <<p, t>> \in s.touches /\ <<p, n>> \in s.touches
  BY <1>2 DEF Pool!Shared
<1>4. AccountLocal(s, t, begun + 1)
  BY <1>2, <1>3, AccountKinds
<1>5. \A y \in Pools : Adding(s, y) => InUsers(y, users) \/ InTokens(y, tokens)
  BY <1>2 DEF Adding
<1>6. \A r : SigningIn(s, r) => r = <<p, n>>
  BY <1>2 DEF SigningIn
<1>7. Pool!Ask(t, s)
  BY DEF Pool!Sign
<1>. QED BY <1>2, <1>4, <1>5, <1>6, <1>7, AccountAskSame, AccountAsked

(* Steps of requests. *)
LEMMA AccountUpdated ==
  ASSUME AccountShape, NEW ids, NEW change, DOMAIN change \subseteq {"status", "code"}, users' = Pool!Update(ids, change)
  PROVE  /\ AccountsTyped(users', tokens, signedOut, begun)
         /\ \A p : InUsers(p, users') => InUsers(p, users)
<1>1. users' = [i \in Pool!Ids |-> users'[i]]
  BY DEF Pool!Update
<1>2. ASSUME NEW i \in Pool!Ids, users'[i] # NoUser
      PROVE  /\ users[i] # NoUser /\ {"pool", "name"} \subseteq DOMAIN users'[i]
             /\ users'[i].pool = users[i].pool /\ users'[i].name = users[i].name
  <2>1. CASE ~(i \in ids /\ users[i] # NoUser)
    <3>1. users'[i] = users[i]
      BY <2>1 DEF Pool!Update
    <3>. QED BY <1>2, <3>1 DEF AccountShape, AccountsTyped
  <2>2. CASE i \in ids /\ users[i] # NoUser
    <3>1. users'[i] = Pool!Also(change, users[i])
      BY <2>2 DEF Pool!Update
    <3>2. {"pool", "name"} \subseteq DOMAIN users[i] /\ "pool" \notin DOMAIN change /\ "name" \notin DOMAIN change
      BY <2>2 DEF AccountShape, AccountsTyped
    <3>. QED BY <2>2, <3>1, <3>2 DEF Pool!Also
  <2>. QED BY <2>1, <2>2
<1>3. AccountsTyped(users', tokens, signedOut, begun)
  BY <1>1, <1>2 DEF AccountShape, AccountsTyped
<1>. QED BY <1>2, <1>3 DEF InUsers

LEMMA AccountRemoved ==
  ASSUME AccountShape, NEW G, users' = [i \in Pool!Ids |-> IF i \in G THEN NoUser ELSE users[i]]
  PROVE  /\ AccountsTyped(users', tokens, signedOut, begun)
         /\ \A p : InUsers(p, users') => InUsers(p, users)
<1>1. \A i \in Pool!Ids : users'[i] # NoUser => users'[i] = users[i]
  OBVIOUS
<1>2. users' = [i \in Pool!Ids |-> users'[i]]
  OBVIOUS
<1>3. AccountsTyped(users', tokens, signedOut, begun)
  BY <1>1, <1>2 DEF AccountShape, AccountsTyped
<1>. QED BY <1>1, <1>3 DEF InUsers

(* create_user_pool, and the UPDATEs and the DELETE of a user.             *)
LEMMA AccountUserSteps ==
  ASSUME AccountInv, NEW t \in Workers,
         \/ Pool!CreatePoolInsert(t) \/ Pool!SetCode(t) \/ Pool!Forgot(t) \/ Pool!UpdateUser(t) \/ Pool!DeleteUser(t)
  PROVE  AccountInv'
<1>. PICK s : s = local[t]
  OBVIOUS
<1>1. /\ Pool!Advance(t) /\ UNCHANGED <<clients, tokens, signedOut>>
      /\ \E step \in PoolAside \cup {"update"} : Pool!At(t, step)
  BY DEF Pool!CreatePoolInsert, Pool!SetCode, Pool!Forgot, Pool!UpdateUser, Pool!DeleteUser, Pool!Does, PoolAside
<1>2. AccountLocal(s, t, begun) /\ s.todo # <<>> /\ s.todo \in Seq(PoolAside) \cup {UpdateTodo}
  BY <1>1, AccountAt DEF AccountInv
<1>3. s.todo \notin DropTodos
  BY <1>2, AccountTodosApart DEF AccountTodos
<1>4. AccountsTyped(users', tokens', signedOut', begun) /\ \A p : InUsers(p, users') => InUsers(p, users)
  <2>1. CASE users' = users
    BY <1>1, <2>1 DEF AccountInv, AccountShape
  <2>2. CASE Pool!SetCode(t) \/ Pool!Forgot(t)
    <3>1. PICK ids, change : users' = Pool!Update(ids, change) /\ DOMAIN change \subseteq {"status", "code"}
      <4>1. \A c : DOMAIN [code |-> c] \subseteq {"status", "code"}
        OBVIOUS
      <4>. QED BY <2>2, <4>1 DEF Pool!SetCode, Pool!Forgot
    <3>. QED BY <1>1, <3>1, AccountUpdated DEF AccountInv
  <2>3. CASE Pool!UpdateUser(t)
    <3>1. s.todo = UpdateTodo
      BY <2>3, AccountAt DEF Pool!UpdateUser, Pool!Does, AccountInv
    <3>2. DOMAIN s.change \subseteq {"status", "code"} /\ users' = Pool!Update({s.user}, s.change)
      BY <1>2, <2>3, <3>1 DEF AccountLocal, Pool!UpdateUser
    <3>. QED BY <1>1, <3>2, AccountUpdated DEF AccountInv
  <2>4. CASE Pool!DeleteUser(t)
    <3>1. users' = [i \in Pool!Ids |-> IF i \in Pool!Found(s.pool, s.name) THEN NoUser ELSE users[i]]
      BY <2>4 DEF Pool!DeleteUser
    <3>. QED BY <1>1, <3>1, AccountRemoved DEF AccountInv
  <2>. QED BY <2>1, <2>2, <2>3, <2>4 DEF Pool!CreatePoolInsert
<1>5. pools' = [p \in Pools |-> pools'[p]] /\ \A p \in Pools : pools'[p] = "gone" => pools[p] = "gone"
  BY DEF AccountInv, AccountShape, Pool!CreatePoolInsert, Pool!SetCode, Pool!Forgot, Pool!UpdateUser, Pool!DeleteUser
<1>. QED BY <1>1, <1>2, <1>3, <1>4, <1>5, AccountAsideDoes DEF AccountInv, AccountShape

(* An early return. *)
LEMMA AccountEnds ==
  ASSUME AccountInv, NEW t \in Workers, Pool!Ends(t), local[t].todo \notin DropTodos,
         UNCHANGED <<pools, clients, users, tokens, signedOut>>
  PROVE  AccountInv'
<1>1. Goes(t, Idle) /\ Idle.todo = <<>> /\ Idle.touches = {}
  BY PoolThreads DEF Idle
<1>2. \A p : ~Adding(Idle, p) /\ ~SigningIn(Idle, p)
  BY <1>1, AccountHeads DEF Adding, SigningIn, AddTodos, NewUserTodos, SignTodos
<1>3. /\ AccountShape' /\ disturbed' = disturbed
      /\ \A u \in Workers : local'[u] = IF u = t THEN Idle ELSE local[u]
  BY <1>1, AccountGoes, AccountIdle DEF AccountInv, AccountShape
<1>. QED BY <1>2, <1>3, AccountStays

LEMMA AccountRequires ==
  ASSUME AccountInv, NEW t \in Workers, Pool!RequirePool(t)
  PROVE  AccountInv'
<1>1. /\ Pool!At(t, "require pool")
      /\ Pool!Advance(t) \/ Pool!Ends(t)
      /\ UNCHANGED <<pools, clients, users, tokens, signedOut>>
  BY DEF Pool!RequirePool, Pool!cognitovars, Pool!tables
<1>2. local[t].todo = SignTodo /\ local[t].todo # <<>>
  BY <1>1, AccountAt DEF AccountInv
<1>3. local[t].todo \notin DropTodos
  BY <1>2, AccountTodosApart DEF AddTodos, SignTodos
<1>4. CASE Pool!Advance(t)
  BY <1>1, <1>2, <1>3, <1>4, AccountAsideDoes DEF AccountInv, AccountShape
<1>. QED BY <1>1, <1>3, <1>4, AccountEnds

LEMMA AccountSetsClient ==
  ASSUME AccountInv, NEW t \in Workers, Pool!SetClient(t)
  PROVE  AccountInv'
<1>. PICK s : s = local[t]
  OBVIOUS
<1>1. /\ Pool!At(t, "client") /\ Pool!Advance(t) /\ UNCHANGED <<pools, users, tokens, signedOut>>
      /\ clients' = [clients EXCEPT ![s.client] = s.pool]
  BY DEF Pool!SetClient, Pool!Does
<1>2. s.todo = ClientTodo /\ s.todo # <<>>
  BY <1>1, AccountAt DEF AccountInv
<1>3. Adding(s, s.pool)
  BY <1>2 DEF Adding, AddTodos
<1>4. /\ clients' = [c \in Clients |-> clients'[c]]
      /\ \A c \in Clients : clients'[c] = clients[c] \/ clients'[c] = s.pool
  <2>1. DOMAIN clients = Clients
    BY DEF AccountInv, AccountShape
  <2>. QED BY <1>1, <2>1
<1>5. \A p \in Pools : p # s.pool => (InClients(p, clients') => InClients(p, clients))
  BY <1>4 DEF InClients
<1>. QED BY <1>1, <1>2, <1>3, <1>4, <1>5, AccountInserts DEF AccountInv, AccountShape

LEMMA AccountInsertsUser ==
  ASSUME AccountInv, NEW t \in Workers, Pool!InsertUser(t)
  PROVE  AccountInv'
<1>. PICK s : s = local[t]
  OBVIOUS
<1>. PICK new : new = [pool |-> s.pool, name |-> s.name, status |-> s.status, code |-> Pool!NoCode]
  OBVIOUS
<1>1. /\ Pool!At(t, "user") /\ UNCHANGED <<pools, clients, tokens, signedOut>>
      /\ \/ users' = users /\ Pool!Ends(t)
         \/ users' = [users EXCEPT ![s.at] = new] /\ Pool!Advance(t)
  BY DEF Pool!InsertUser
<1>2. AccountLocal(s, t, begun) /\ s.todo \in NewUserTodos /\ s.todo # <<>>
  BY <1>1, AccountAt DEF AccountInv
<1>3. s.pool \in Pools /\ s.name \in Usernames /\ Adding(s, s.pool)
  BY <1>2 DEF AccountLocal, Adding, AddTodos
<1>4. s.todo \notin DropTodos
  BY <1>3, AccountTodosApart DEF Adding
<1>5. CASE users' = users /\ Pool!Ends(t)
  BY <1>1, <1>4, <1>5, AccountEnds
<1>6. CASE users' = [users EXCEPT ![s.at] = new] /\ Pool!Advance(t)
  <2>1. DOMAIN new = {"pool", "name", "status", "code"} /\ new.pool = s.pool /\ new.name = s.name
    OBVIOUS
  <2>2. users' = [i \in Pool!Ids |-> users'[i]] /\ \A i \in Pool!Ids : users'[i] = users[i] \/ users'[i] = new
    <3>1. DOMAIN users = Pool!Ids
      BY DEF AccountInv, AccountShape, AccountsTyped
    <3>. QED BY <1>6, <3>1
  <2>3. AccountsTyped(users', tokens', signedOut', begun)
    <3>1. \A i \in Pool!Ids : users'[i] # NoUser =>
             {"pool", "name"} \subseteq DOMAIN users'[i] /\ users'[i].pool \in Pools /\ users'[i].name \in Usernames
      BY <1>3, <2>1, <2>2 DEF AccountInv, AccountShape, AccountsTyped
    <3>. QED BY <1>1, <2>2, <3>1 DEF AccountInv, AccountShape, AccountsTyped
  <2>4. \A p \in Pools : p # s.pool => (InUsers(p, users') => InUsers(p, users))
    BY <2>1, <2>2 DEF InUsers
  <2>. QED BY <1>1, <1>2, <1>3, <1>6, <2>3, <2>4, AccountInserts DEF AccountInv, AccountShape
<1>. QED BY <1>1, <1>5, <1>6

LEMMA AccountInsertsToken ==
  ASSUME AccountInv, NEW t \in Workers, Pool!InsertToken(t)
  PROVE  AccountInv'
<1>. PICK s : s = local[t]
  OBVIOUS
<1>. PICK new : new = [id |-> s.at, pool |-> s.pool, name |-> s.name, client |-> s.client, signin |-> s.signin]
  OBVIOUS
<1>1. /\ Pool!At(t, "token") /\ Pool!Advance(t) /\ UNCHANGED <<pools, clients, users, signedOut>>
      /\ tokens' = tokens \cup {new}
  BY DEF Pool!InsertToken, Pool!Does
<1>2. AccountLocal(s, t, begun) /\ s.todo = TokenTodo /\ s.todo # <<>>
  BY <1>1, AccountAt DEF AccountInv
<1>3. TokenTodo \in SignTodos /\ TokenTodo \in AddTodos
  BY DEF SignTodos, AddTodos
<1>4. /\ s.pool \in Pools /\ s.name \in Usernames /\ s.signin \in Nat
      /\ Adding(s, s.pool) /\ SigningIn(s, <<s.pool, s.name>>)
  BY <1>2, <1>3 DEF AccountLocal, Adding, SigningIn
<1>5. new.pool = s.pool /\ new.name = s.name /\ new.signin = s.signin
  OBVIOUS
<1>6. AccountsTyped(users', tokens', signedOut', begun)
  BY <1>1, <1>4, <1>5 DEF AccountInv, AccountShape, AccountsTyped
<1>7. \A p \in Pools : p # s.pool => (InTokens(p, tokens') => InTokens(p, tokens))
  BY <1>1, <1>5 DEF InTokens
<1>8. \A k \in tokens' : k \in tokens \/ (SigningIn(s, <<k.pool, k.name>>) /\ k.signin = s.signin)
  BY <1>1, <1>4, <1>5
<1>. QED BY <1>1, <1>2, <1>4, <1>6, <1>7, <1>8, AccountInserts DEF AccountInv, AccountShape

LEMMA AccountDropSteps ==
  ASSUME AccountInv, NEW t \in Workers,
         Pool!DropPool(t) \/ Pool!DropUsers(t) \/ Pool!DropClients(t) \/ Pool!DropTokens(t)
  PROVE  AccountInv'
<1>. PICK s : s = local[t]
  OBVIOUS
<1>1. CASE Pool!DropPool(t)
  <2>1. /\ Pool!At(t, "drop pool") /\ Pool!Advance(t) /\ UNCHANGED <<clients, users, tokens, signedOut>>
        /\ pools' = [pools EXCEPT ![s.pool] = "gone"]
    BY <1>1 DEF Pool!DropPool, Pool!Does
  <2>2. s.todo = PoolDrop /\ PoolDrop \in DropTodos
    BY <2>1, AccountAt DEF AccountInv, DropTodos
  <2>3. UsersDrop # PoolDrop /\ ClientsDrop # PoolDrop /\ TokensDrop # PoolDrop
    BY AccountTodosApart
  <2>4. pools' = [p \in Pools |-> pools'[p]] /\ \A p \in Pools : pools'[p] = "gone" => pools[p] = "gone" \/ p = s.pool
    <3>1. DOMAIN pools = Pools
      BY DEF AccountInv, AccountShape
    <3>. QED BY <2>1, <3>1
  <2>. QED BY <2>1, <2>2, <2>3, <2>4, AccountDrops DEF AccountInv, AccountShape
<1>2. CASE Pool!DropUsers(t)
  <2>1. /\ Pool!At(t, "drop users") /\ Pool!Advance(t) /\ UNCHANGED <<pools, clients, tokens, signedOut>>
        /\ users' = [i \in Pool!Ids |-> IF users[i] # NoUser /\ users[i].pool = s.pool THEN NoUser ELSE users[i]]
    BY <1>2 DEF Pool!DropUsers, Pool!Does
  <2>2. s.todo = UsersDrop /\ UsersDrop \in DropTodos
    BY <2>1, AccountAt DEF AccountInv, DropTodos
  <2>3. ClientsDrop # UsersDrop /\ TokensDrop # UsersDrop
    BY AccountTodosApart
  <2>4. users' = [i \in Pool!Ids |-> IF i \in {j \in Pool!Ids : users[j] # NoUser /\ users[j].pool = s.pool}
                                     THEN NoUser ELSE users[i]]
    BY <2>1
  <2>5. AccountsTyped(users', tokens', signedOut', begun) /\ \A p : InUsers(p, users') => InUsers(p, users)
    BY <2>1, <2>4, AccountRemoved DEF AccountInv
  <2>6. ~InUsers(s.pool, users')
    BY <2>1 DEF InUsers
  <2>. QED BY <2>1, <2>2, <2>3, <2>5, <2>6, AccountDrops DEF AccountInv, AccountShape
<1>3. CASE Pool!DropClients(t)
  <2>1. /\ Pool!At(t, "drop clients") /\ Pool!Advance(t) /\ UNCHANGED <<pools, users, tokens, signedOut>>
        /\ clients' = [c \in Clients |-> IF clients[c] = s.pool THEN NoPool ELSE clients[c]]
    BY <1>3 DEF Pool!DropClients, Pool!Does
  <2>2. s.todo = ClientsDrop /\ ClientsDrop \in DropTodos
    BY <2>1, AccountAt DEF AccountInv, DropTodos
  <2>3. ClientsDrop # UsersDrop /\ TokensDrop # ClientsDrop
    BY AccountTodosApart
  <2>4. \A p \in Pools : InClients(p, clients') => InClients(p, clients) /\ p # s.pool
    BY <2>1, PoolAssumption DEF InClients
  <2>5. clients' = [c \in Clients |-> clients'[c]]
    BY <2>1
  <2>. QED BY <2>1, <2>2, <2>3, <2>4, <2>5, AccountDrops DEF AccountInv, AccountShape
<1>4. CASE Pool!DropTokens(t)
  <2>1. /\ Pool!At(t, "drop tokens") /\ Pool!Advance(t) /\ UNCHANGED <<pools, users, clients, signedOut>>
        /\ tokens' = {k \in tokens : k.pool # s.pool}
    BY <1>4 DEF Pool!DropTokens, Pool!Does
  <2>2. s.todo = TokensDrop /\ TokensDrop \in DropTodos
    BY <2>1, AccountAt DEF AccountInv, DropTodos
  <2>3. TokensDrop # UsersDrop /\ TokensDrop # ClientsDrop
    BY AccountTodosApart
  <2>4. ~InTokens(s.pool, tokens') /\ tokens' \subseteq tokens
    BY <2>1 DEF InTokens
  <2>5. AccountsTyped(users', tokens', signedOut', begun)
    BY <2>1 DEF AccountInv, AccountShape, AccountsTyped
  <2>. QED BY <2>1, <2>2, <2>3, <2>4, <2>5, AccountDrops DEF AccountInv, AccountShape
<1>. QED BY <1>1, <1>2, <1>3, <1>4

LEMMA AccountNext ==
  ASSUME AccountInv, [Pool!Next]_(Pool!vars)
  PROVE  AccountInv'
<1>1. CASE UNCHANGED Pool!vars
  <2>1. UNCHANGED <<local, begun, disturbed, pools, clients, users, tokens, signedOut>>
    BY <1>1 DEF Pool!vars, Pool!requests, Pool!cognitovars, Pool!tables
  <2>. QED BY <2>1 DEF AccountInv, AccountShape, Threads, Apart, FreePool
<1>2. CASE (Pool!Crash \/ \E t \in Workers : Pool!Fails(t)) /\ UNCHANGED Pool!cognitovars
  <2>1. UNCHANGED <<pools, clients, users, tokens, signedOut>>
    BY <1>2 DEF Pool!cognitovars, Pool!tables
  <2>2. Breaks
    BY <1>2, PoolThreads DEF AccountInv, AccountShape
  <2>. QED BY <2>1, <2>2, AccountBreaks
<1>3. ASSUME NEW t \in Workers, Pool!PoolStep(t) PROVE AccountInv'
  <2>1. CASE \E p \in Pools : Pool!CreatePool(t, p)
    BY <2>1, AccountAskedAside, AsideTodos DEF Pool!CreatePool
  <2>2. CASE \E p \in Pools, c \in Clients : Pool!CreateClientRequire(t, p, c)
    BY <2>2, AccountAskedClient DEF Pool!CreateClientRequire, Pool!Shared
  <2>3. CASE \E c \in Clients : Pool!DeleteClientRequire(t, c)
    BY <2>3, PoolAssumption, AccountAskedClient DEF Pool!DeleteClientRequire
  <2>. QED BY <1>3, <2>1, <2>2, <2>3, AccountAskedDrop, AccountDropSteps, AccountUserSteps, AccountSetsClient
           DEF Pool!PoolStep
<1>4. ASSUME NEW t \in Workers, Pool!UserStep(t) PROVE AccountInv'
  <2>0. UserTodo \in NewUserTodos /\ SignUpTodo \in NewUserTodos
    BY DEF NewUserTodos
  <2>1. CASE \E p \in Pools, n \in Usernames : Pool!AdminCreateCheck(t, p, n)
    BY <2>0, <2>1, AccountAskedUser DEF Pool!AdminCreateCheck, UserTodo
  <2>2. CASE \E p \in Pools, n \in Usernames, c \in Clients : Pool!SignUpCheck(t, p, n, c)
    BY <2>0, <2>2, AccountAskedUser DEF Pool!SignUpCheck, SignUpTodo
  <2>3. CASE \E p \in Pools, n \in Usernames : Pool!ForgotCheck(t, p, n)
    BY <2>3, AccountAskedAside, AsideTodos DEF Pool!ForgotCheck
  <2>4. CASE \E i \in Pool!Ids : \/ Pool!AdminSelect(t, i)
                                \/ \E code \in Pool!Ids \cup {Pool!NoCode} : Pool!WithCodeSelect(t, i, code)
    <3>1. DOMAIN Pool!Confirmed \subseteq {"status", "code"}
      BY DEF Pool!Confirmed
    <3>2. \A x \in Pool!NewPassword : DOMAIN x \subseteq {"status", "code"}
      BY DEF Pool!NewPassword
    <3>. QED BY <2>4, <3>1, <3>2, AccountVouched DEF Pool!WithCodeSelect, Pool!AdminSelect
  <2>5. CASE \E i \in Pool!Ids : Pool!DeleteUserSelect(t, i)
    BY <2>5, AccountAskedAside, AsideTodos DEF Pool!DeleteUserSelect
  <2>. QED BY <1>4, <2>1, <2>2, <2>3, <2>4, <2>5, AccountInsertsUser, AccountUserSteps DEF Pool!UserStep
<1>5. ASSUME NEW t \in Workers, Pool!TokenStep(t) PROVE AccountInv'
  <2>1. CASE \E i \in Pool!Ids, c \in Clients : Pool!AuthSelect(t, i, c)
    <3>1. PICK i \in Pool!Ids, c \in Clients : Pool!AuthSelect(t, i, c)
      BY <2>1
    <3>. PICK p, n, b : p = users[i].pool /\ n = users[i].name /\ b = begun + 1
      OBVIOUS
    <3>2. users[i] # NoUser /\ Pool!Sign(t, p, n, c, b)
      BY <3>1 DEF Pool!AuthSelect
    <3>3. p \in Pools /\ n \in Usernames /\ InUsers(p, users)
      BY <3>2 DEF AccountInv, AccountShape, AccountsTyped, InUsers
    <3>4. <<p, n>> \in Pool!Names
      BY <3>3 DEF Pool!Names
    <3>5. b \in Nat /\ b > signedOut[<<p, n>>]
      <4>1. begun \in Nat /\ signedOut[<<p, n>>] \in Int /\ signedOut[<<p, n>>] <= begun
        BY <3>4 DEF AccountInv, AccountShape, AccountsTyped
      <4>. QED BY <4>1
    <3>. QED BY <3>2, <3>3, <3>5, AccountAskedSign
  <2>2. CASE \E k \in tokens : Pool!RefreshSelect(t, k)
    <3>1. PICK k \in tokens : Pool!Sign(t, k.pool, k.name, k.client, k.signin)
      BY <2>2 DEF Pool!RefreshSelect
    <3>2. k.pool \in Pools /\ k.name \in Usernames /\ k.signin \in Nat /\ InTokens(k.pool, tokens)
      BY DEF AccountInv, AccountShape, AccountsTyped, InTokens
    <3>3. <<k.pool, k.name>> \in Pool!Names
      BY <3>2 DEF Pool!Names
    <3>4. <<k.pool, k.name>> \notin disturbed => k.signin > signedOut[<<k.pool, k.name>>]
      BY <3>3 DEF AccountInv, SignedIn
    <3>. QED BY <3>1, <3>2, <3>4, AccountAskedSign
  <2>. QED BY <1>5, <2>1, <2>2, AccountAskedOut, AccountRequires, AccountInsertsToken, AccountSignsOut DEF Pool!TokenStep
<1>. QED BY <1>1, <1>2, <1>3, <1>4, <1>5 DEF Pool!Next

LEMMA AccountInit ==
  ASSUME InitRequests, Pool!InitTables
  PROVE  AccountInv
<1>1. \A t \in Workers : local[t] = Idle /\ Idle.touches = {} /\ Idle.todo = <<>>
  BY DEF InitRequests, Idle
<1>2. Threads /\ Apart /\ begun = 0
  BY <1>1 DEF InitRequests, Threads, Apart
<1>3. \A p : ~Adding(Idle, p) /\ ~SigningIn(Idle, p)
  BY <1>1, AccountHeads DEF Adding, SigningIn, AddTodos, NewUserTodos, SignTodos, Idle
<1>4. PICK status \in Pool!Status, live \in BOOLEAN, code \in {0, Pool!NoCode} :
        /\ pools = [p \in Pools |-> IF live THEN "live" ELSE "new"]
        /\ clients \in [Clients -> IF live THEN Pools ELSE {"new"}]
        /\ \E p \in Pools, n \in Usernames, c \in Clients :
              /\ users = [i \in Pool!Ids |-> IF i = 0 /\ live
                            THEN [pool |-> p, name |-> n, status |-> status, code |-> code]
                            ELSE NoUser]
              /\ tokens = IF live /\ status # "UNCONFIRMED"
                          THEN {[id |-> 0, pool |-> p, name |-> n, client |-> c, signin |-> 0]} ELSE {}
        /\ signedOut = [p \in Pool!Names |-> -1]
  BY ZenonT(60) DEF Pool!InitTables
<1>5. /\ pools = [p \in Pools |-> pools[p]] /\ \A p \in Pools : pools[p] # "gone"
      /\ clients = [c \in Clients |-> clients[c]]
      /\ signedOut = [r \in Pool!Names |-> signedOut[r]] /\ \A r \in Pool!Names : signedOut[r] = -1
  BY <1>4
<1>6. PICK p \in Pools, n \in Usernames, c \in Clients :
        /\ users = [i \in Pool!Ids |-> IF i = 0 /\ live
                      THEN [pool |-> p, name |-> n, status |-> status, code |-> code]
                      ELSE NoUser]
        /\ tokens = IF live /\ status # "UNCONFIRMED"
                    THEN {[id |-> 0, pool |-> p, name |-> n, client |-> c, signin |-> 0]} ELSE {}
  BY <1>4
<1>7. AccountsTyped(users, tokens, signedOut, begun)
  <2>1. users = [i \in Pool!Ids |-> users[i]]
    BY <1>6
  <2>2. \A i \in Pool!Ids : users[i] # NoUser =>
           {"pool", "name"} \subseteq DOMAIN users[i] /\ users[i].pool \in Pools /\ users[i].name \in Usernames
    BY <1>6
  <2>3. \A k \in tokens : k.pool \in Pools /\ k.name \in Usernames /\ k.signin = 0
    BY <1>6
  <2>4. \A r \in Pool!Names : signedOut[r] \in Int /\ signedOut[r] <= begun
    BY <1>2, <1>5
  <2>. QED BY <1>2, <1>5, <2>1, <2>2, <2>3, <2>4 DEF AccountsTyped
<1>8. AccountShape
  BY <1>1, <1>2, <1>5, <1>7, AccountIdle DEF AccountShape
<1>9. ASSUME NEW r \in Pool!Names PROVE SignedIn(r, tokens, signedOut, local)
  <2>1. \A k \in tokens : k.signin = 0
    BY <1>6
  <2>2. \A k \in tokens : k.signin > signedOut[r]
    BY <1>5, <2>1
  <2>. QED BY <1>1, <1>3, <2>2 DEF SignedIn
<1>. QED BY <1>5, <1>8, <1>9 DEF AccountInv, Emptied

LEMMA AccountSignOut == AccountInv => Pool!SignOutReachesAll
<1> SUFFICES ASSUME AccountInv, NEW k \in tokens, Pool!Quiet(<<k.pool, k.name>>)
             PROVE  k.signin > signedOut[<<k.pool, k.name>>]
  BY DEF Pool!SignOutReachesAll
<1>1. <<k.pool, k.name>> \in Pool!Names
  BY DEF AccountInv, AccountShape, AccountsTyped, Pool!Names
<1>. QED BY <1>1 DEF Pool!Quiet, AccountInv, SignedIn

LEMMA AccountPools == AccountInv => Pool!PoolGoneWithAll
<1> SUFFICES ASSUME AccountInv, NEW p \in Pools, pools[p] = "gone", \A t \in Workers : Pool!Quiet(<<p, t>>)
             PROVE  ~InUsers(p, users) /\ ~InClients(p, clients) /\ ~InTokens(p, tokens)
  BY DEF Pool!PoolGoneWithAll, InUsers, InClients, InTokens
<1>1. Emptied(p, pools, users, clients, tokens, local)
  BY DEF AccountInv, FreePool, Pool!Quiet
<1>2. ASSUME NEW T, T \subseteq DropTodos PROVE ~Holds(local, p, T)
  <2>1. SUFFICES ASSUME NEW d \in Workers, local[d].todo \in T, local[d].pool = p PROVE FALSE
    BY DEF Holds
  <2>2. <<p, d>> \in local[d].touches
    BY <1>2, <2>1 DEF AccountInv, AccountShape, AccountLocal, Pool!Exclusive
  <2>. QED BY <2>2 DEF Pool!Quiet
<1>3. {UsersDrop} \subseteq DropTodos /\ {UsersDrop, ClientsDrop} \subseteq DropTodos /\ {UsersDrop, ClientsDrop, TokensDrop} \subseteq DropTodos
  BY DEF DropTodos
<1>. QED BY <1>1, <1>2, <1>3 DEF Emptied

-----------------------------------------------------------------------------
(* cognito.py:438-446: global_sign_out deletes the refresh tokens there    *)
(* are.  Whatever else the threads do, crash or fail at, and however often *)
(* tokens are refreshed, a token that a name has is of a sign-in after its *)
(* last sign-out, unless requests for the name overlapped or one broke     *)
(* off.                                                                    *)
THEOREM SignOutIsFinal == Spec => []SignOutReachesAll
<1> DEFINE Inv == service = "cognito" => AccountInv
<1>1. Init => Inv
  BY AccountInit DEF Init
<1>2. Inv /\ [Next]_vars => Inv'
  <2> SUFFICES ASSUME Inv, [Next]_vars, service' = "cognito" PROVE AccountInv'
    OBVIOUS
  <2>. QED BY ServiceStep, AccountNext
<1>3. Inv => SignOutReachesAll
  BY AccountSignOut DEF SignOutReachesAll
<1>. QED BY <1>1, <1>2, <1>3, PTL DEF Spec

-----------------------------------------------------------------------------
(* What requests other than a simulation have still to do.                 *)
Pending(s, step) == ~Collecting(s) /\ \E i \in 1 .. Len(s.todo) : s.todo[i] = step

Owes(s, x, step) == Pending(s, step) /\ s.name = x

(* It is about to write a row that names the principal x, or the policy n. *)
Joining(s, x) ==
    \/ Pending(s, "key") /\ s.user # NoUser /\ s.user = x
    \/ Pending(s, "add") /\ x \in {s.member[1], s.member[2]}
Attaching(s, n) == Pending(s, "attach") /\ s.attached[2] = n

Clearing == {"drop", "drop keys", "drop memberships", "drop policy", "drop attachments"}

NameLocal(s) ==
    /\ {"todo", "touches"} \subseteq DOMAIN s
    /\ \A i \in 1 .. Len(s.todo) : s.todo[i] \in {"drop", "drop policy"} => i = 1
    /\ \A step \in Clearing : Pending(s, step) => "name" \in DOMAIN s /\ s.name \in s.touches
    /\ Pending(s, "drop") => /\ s.name \in Users => Pending(s, "drop keys")
                             /\ s.name \in Users \cup Groups => Pending(s, "drop memberships")
                             /\ ~Pending(s, "key") /\ ~Pending(s, "add")
                             /\ Pending(s, "drop inline") /\ Pending(s, "drop attachments")
    /\ Pending(s, "drop policy") => Pending(s, "drop attachments") /\ ~Pending(s, "attach")
    /\ Pending(s, "key") => /\ {"key", "user"} \subseteq DOMAIN s
                            /\ s.user # NoUser => s.user \in Users /\ s.user \in s.touches
    /\ Pending(s, "add") => /\ "member" \in DOMAIN s /\ s.member \in Users \X Groups
                            /\ s.member[1] \in s.touches /\ s.member[2] \in s.touches
    /\ Pending(s, "attach") => /\ "attached" \in DOMAIN s /\ s.attached \in Identity!Principals \X Policies
                               /\ s.attached[2] \in s.touches

NamesTyped(K, M, P, A) ==
    /\ K = [k \in Identity!Ids |-> K[k]]
    /\ \A k \in Identity!Ids : K[k] \in Users \cup {NoUser}
    /\ M \subseteq Users \X Groups
    /\ P = [n \in Policies |-> P[n]]
    /\ A \subseteq Identity!Principals \X Policies

NameShape ==
    /\ Threads /\ Apart
    /\ NamesTyped(accessKeys, memberships, policies, attachments)
    /\ \A t \in Workers : NameLocal(local[t])

InKeys(x, K) == \E k \in Identity!Ids : K[k] # NoUser /\ K[k] = x
InMembers(x, M) == \E m \in M : x \in {m[1], m[2]}
InAttached(n, A) == \E a \in A : a[2] = n

Owed(L, x, step) == \E d \in Workers : Owes(L[d], x, step)

(* What is left of a principal that is gone is still to be dropped, and    *)
(* nobody adds to it; and so with a policy.                                *)
Left(x, R, K, M, L) ==
    x \notin R =>
      /\ \A t \in Workers : ~Joining(L[t], x)
      /\ InKeys(x, K) => Owed(L, x, "drop keys")
      /\ InMembers(x, M) => Owed(L, x, "drop memberships")

Loose(n, P, A, L) ==
    P[n] = NoDocument =>
      /\ \A t \in Workers : ~Attaching(L[t], n)
      /\ InAttached(n, A) => Owed(L, n, "drop attachments")

NameInv ==
    /\ NameShape
    /\ \A x \in Identity!Principals : x \notin disturbed => Left(x, principals, accessKeys, memberships, local)
    /\ \A n \in Policies : n \notin disturbed => Loose(n, policies, attachments, local)

LEMMA PendingIdle == \A step : ~Pending(Idle, step)
<1>1. Idle.todo = <<>>
  BY DEF Idle
<1>. QED BY <1>1 DEF Pending

LEMMA NameIdle == NameLocal(Idle)
<1>1. Idle.todo = <<>> /\ DOMAIN Idle = {"todo", "touches"}
  BY DEF Idle
<1>2. 1 .. Len(Idle.todo) = {}
  <2>1. Len(<<>>) = 0 /\ 1 .. 0 = {}
    OBVIOUS
  <2>. QED BY <1>1, <2>1
<1>. QED BY <1>1, <1>2, PendingIdle DEF NameLocal

IdentitySteps == IdentityPlain \cup SimSteps

LEMMA PendingTail ==
  ASSUME NEW todo \in Seq(IdentitySteps), todo # <<>>
  PROVE  /\ \A step : (\E i \in 1 .. Len(Tail(todo)) : Tail(todo)[i] = step) => \E i \in 1 .. Len(todo) : i # 1 /\ todo[i] = step
         /\ \A step : (\E i \in 1 .. Len(todo) : todo[i] = step) /\ step # Head(todo)
                      => \E i \in 1 .. Len(Tail(todo)) : Tail(todo)[i] = step
         /\ \A i \in 1 .. Len(Tail(todo)) : i + 1 \in 1 .. Len(todo) /\ Tail(todo)[i] = todo[i + 1] /\ i + 1 # 1
<1> HIDE DEF IdentitySteps
<1>0. Len(todo) \in Nat /\ Len(todo) > 0 /\ Len(Tail(todo)) = Len(todo) - 1 /\ Head(todo) = todo[1]
  OBVIOUS
<1>1. \A i \in 1 .. Len(Tail(todo)) : i + 1 \in 1 .. Len(todo) /\ Tail(todo)[i] = todo[i + 1] /\ i + 1 # 1
  OBVIOUS
<1>2. \A step : (\E i \in 1 .. Len(Tail(todo)) : Tail(todo)[i] = step) => \E i \in 1 .. Len(todo) : i # 1 /\ todo[i] = step
  BY <1>1
<1>3. ASSUME NEW step, NEW i \in 1 .. Len(todo), todo[i] = step, step # Head(todo)
      PROVE  \E j \in 1 .. Len(Tail(todo)) : Tail(todo)[j] = step
  <2>1. i # 1
    BY <1>0, <1>3
  <2>2. i - 1 \in 1 .. Len(Tail(todo)) /\ (i - 1) + 1 = i
    BY <1>0, <2>1
  <2>3. Tail(todo)[i - 1] = todo[i]
    BY <1>1, <2>2
  <2>. QED BY <1>3, <2>2, <2>3
<1>. QED BY <1>1, <1>2, <1>3

(* What becomes of a request with its first step. *)
LEMMA NameAfter ==
  ASSUME NEW s, NameLocal(s), SimLocal(s), ~Collecting(s), s.todo # <<>>, NEW r, r = AfterStep(s)
  PROVE  /\ NameLocal(r) /\ ~Collecting(r) /\ r.touches \subseteq s.touches
         /\ \A x : Joining(r, x) => Joining(s, x)
         /\ \A n : Attaching(r, n) => Attaching(s, n)
         /\ \A x : \A step \in Clearing : Owes(s, x, step) /\ step # Head(s.todo) => Owes(r, x, step)
<1>1. s.todo \in Seq(IdentityPlain)
  BY DEF SimLocal
<1>2. s.todo \in Seq(IdentitySteps)
  BY <1>1 DEF IdentitySteps
<1>3. CASE Tail(s.todo) = <<>>
  <2>1. r = Idle
    BY <1>3 DEF AfterStep
  <2>2. \A step : Pending(s, step) => step = Head(s.todo)
    <3>1. Len(<<>>) = 0 /\ 1 .. 0 = {}
      OBVIOUS
    <3>2. 1 .. Len(Tail(s.todo)) = {}
      BY <1>3, <3>1
    <3>. QED BY <1>2, <3>2, PendingTail, ZenonT(30) DEF Pending
  <2>3. Idle.touches = {}
    BY DEF Idle
  <2>. QED BY <2>1, <2>2, <2>3, PendingIdle, NameIdle, SimIdle DEF Owes, Joining, Attaching
<1>4. CASE Tail(s.todo) # <<>>
  <2>1. r = Rest(s)
    BY <1>4 DEF AfterStep
  <2>2. /\ DOMAIN r = DOMAIN s /\ r.todo = Tail(s.todo)
        /\ \A x \in DOMAIN s : x # "todo" => r[x] = s[x]
    BY <2>1, RestFields DEF NameLocal
  <2>3. ~Collecting(r) /\ r.touches = s.touches
    BY <2>2 DEF Collecting, NameLocal
  <2>4. \A step : Pending(r, step) => Pending(s, step)
    BY <1>2, <2>2, PendingTail DEF Pending
  <2>5. \A step : Pending(s, step) /\ step # Head(s.todo) => Pending(r, step)
    BY <1>2, <2>2, <2>3, PendingTail DEF Pending
  <2>6. ~Pending(r, "drop") /\ ~Pending(r, "drop policy")
    <3>1. \A i \in 1 .. Len(s.todo) : s.todo[i] \in {"drop", "drop policy"} => i = 1
      BY DEF NameLocal
    <3>2. ASSUME NEW step \in {"drop", "drop policy"}, Pending(r, step) PROVE FALSE
      <4>0. \E i \in 1 .. Len(Tail(s.todo)) : Tail(s.todo)[i] = step
        BY <2>2, <3>2 DEF Pending
      <4>2. s.todo # <<>>
        OBVIOUS
      <4>1. \E i \in 1 .. Len(s.todo) : i # 1 /\ s.todo[i] = step
        BY <1>2, <4>0, <4>2, PendingTail
      <4>. QED BY <3>1, <3>2, <4>1
    <3>. QED BY <3>2
  <2>7. \A i \in 1 .. Len(r.todo) : r.todo[i] \in {"drop", "drop policy"} => i = 1
    BY <2>3, <2>6 DEF Pending
  <2>8. /\ \A step \in Clearing : Pending(s, step) => r.name = s.name
        /\ Pending(s, "key") => r.key = s.key /\ r.user = s.user
        /\ Pending(s, "add") => r.member = s.member
        /\ Pending(s, "attach") => r.attached = s.attached
    BY <2>2 DEF NameLocal
  <2>9. NameLocal(r)
    <3>1. \A step \in Clearing : Pending(r, step) => "name" \in DOMAIN r /\ r.name \in r.touches
      BY <2>2, <2>3, <2>4, <2>8 DEF NameLocal
    <3>3. Pending(r, "key") => /\ {"key", "user"} \subseteq DOMAIN r
                               /\ r.user # NoUser => r.user \in Users /\ r.user \in r.touches
      BY <2>2, <2>3, <2>4, <2>8 DEF NameLocal
    <3>4. Pending(r, "add") => /\ "member" \in DOMAIN r /\ r.member \in Users \X Groups
                               /\ r.member[1] \in r.touches /\ r.member[2] \in r.touches
      BY <2>2, <2>3, <2>4, <2>8 DEF NameLocal
    <3>5. Pending(r, "attach") => /\ "attached" \in DOMAIN r /\ r.attached \in Identity!Principals \X Policies
                                  /\ r.attached[2] \in r.touches
      BY <2>2, <2>3, <2>4, <2>8 DEF NameLocal
    <3>6. {"todo", "touches"} \subseteq DOMAIN r
      BY <2>2 DEF NameLocal
    <3>. QED BY <2>6, <2>7, <3>1, <3>3, <3>4, <3>5, <3>6 DEF NameLocal
  <2>10. \A x : Joining(r, x) => Joining(s, x)
    BY <2>4, <2>8 DEF Joining
  <2>11. \A n : Attaching(r, n) => Attaching(s, n)
    BY <2>4, <2>8 DEF Attaching
  <2>12. \A x : \A step \in Clearing : Owes(s, x, step) /\ step # Head(s.todo) => Owes(r, x, step)
    BY <2>5, <2>8 DEF Owes
  <2>. QED BY <2>3, <2>9, <2>10, <2>11, <2>12
<1>. QED BY <1>3, <1>4

LEMMA LeftStep ==
  ASSUME NEW x, Left(x, principals, accessKeys, memberships, local),
         NEW t \in Workers, NEW r, Only(t, r), x \notin principals' => x \notin principals,
         Joining(r, x) => Joining(local[t], x),
         InKeys(x, accessKeys') =>
            InKeys(x, accessKeys) /\ (Owes(local[t], x, "drop keys") => Owes(r, x, "drop keys")),
         InMembers(x, memberships') =>
            InMembers(x, memberships) /\ (Owes(local[t], x, "drop memberships") => Owes(r, x, "drop memberships"))
  PROVE  Left(x, principals', accessKeys', memberships', local')
<1> SUFFICES ASSUME x \notin principals' PROVE Left(x, principals', accessKeys', memberships', local')
  BY DEF Left
<1>1. \A u \in Workers : local'[u] = IF u = t THEN r ELSE local[u]
  BY DEF Only
<1>2. \A u \in Workers : ~Joining(local'[u], x)
  BY <1>1 DEF Left
<1>3. ASSUME NEW step, Owed(local, x, step), Owes(local[t], x, step) => Owes(r, x, step)
      PROVE  Owed(local', x, step)
  BY <1>1, <1>3 DEF Owed
<1>. QED BY <1>2, <1>3 DEF Left

LEMMA LooseStep ==
  ASSUME NEW n, Loose(n, policies, attachments, local),
         NEW t \in Workers, NEW r, Only(t, r), policies'[n] = NoDocument => policies[n] = NoDocument,
         Attaching(r, n) => Attaching(local[t], n),
         InAttached(n, attachments') =>
            InAttached(n, attachments) /\ (Owes(local[t], n, "drop attachments") => Owes(r, n, "drop attachments"))
  PROVE  Loose(n, policies', attachments', local')
<1> SUFFICES ASSUME policies'[n] = NoDocument PROVE Loose(n, policies', attachments', local')
  BY DEF Loose
<1>1. \A u \in Workers : local'[u] = IF u = t THEN r ELSE local[u]
  BY DEF Only
<1>2. \A u \in Workers : ~Attaching(local'[u], n)
  BY <1>1 DEF Loose
<1>3. ASSUME Owed(local, n, "drop attachments"), Owes(local[t], n, "drop attachments") => Owes(r, n, "drop attachments")
      PROVE  Owed(local', n, "drop attachments")
  BY <1>1, <1>3 DEF Owed
<1>. QED BY <1>2, <1>3 DEF Loose

LEMMA LeftNow ==
  ASSUME NameInv, NEW t \in Workers, NEW x, Joining(local[t], x), x \notin disturbed
  PROVE  x \in principals
<1>1. NameLocal(local[t])
  BY DEF NameInv, NameShape
<1>2. x \in Users \cup Groups
  BY <1>1 DEF Joining, NameLocal
<1>3. x \in Identity!Principals
  BY <1>2 DEF Identity!Principals
<1>. QED BY <1>3 DEF NameInv, Left

LEMMA LooseNow ==
  ASSUME NameInv, NEW t \in Workers, NEW n, Attaching(local[t], n), n \notin disturbed
  PROVE  n \in Policies /\ policies[n] # NoDocument
<1>1. NameLocal(local[t])
  BY DEF NameInv, NameShape
<1>2. n \in Policies
  BY <1>1 DEF Attaching, NameLocal
<1>. QED BY <1>2 DEF NameInv, Loose

(* A request begins, and changes no table. *)
LEMMA NameAsk ==
  ASSUME SimInv, NameInv, NEW t \in Workers, NEW s, Identity!Ask(t, s), NameLocal(s),
         \A x : Joining(s, x) => x \in principals,
         \A n : Attaching(s, n) => policies[n] # NoDocument
  PROVE  NameInv'
<1>1. Begins(t, s) /\ UNCHANGED <<principals, accessKeys, memberships, policies, attachments>>
  BY IdentityThreads DEF Identity!Ask, Identity!tables, Identity!identities, Identity!permissions
<1>2. Threads' /\ Apart' /\ Only(t, s) /\ disturbed \subseteq disturbed' /\ local[t] = Idle
  BY <1>1, BeginsOnly, BeginsApart DEF NameInv, NameShape, Begins
<1>3. NameShape'
  BY <1>1, <1>2 DEF NameInv, NameShape, Only
<1>4. \A x, step : ~Owes(local[t], x, step)
  BY <1>2, PendingIdle DEF Owes
<1>5. ASSUME NEW x \in Identity!Principals, x \notin disturbed'
      PROVE  Left(x, principals', accessKeys', memberships', local')
  <2>1. Left(x, principals, accessKeys, memberships, local)
    BY <1>2, <1>5 DEF NameInv
  <2>2. CASE Joining(s, x)
    <3>1. x \in principals'
      BY <1>1, <2>2
    <3>. QED BY <3>1 DEF Left
  <2>3. CASE ~Joining(s, x)
    BY <1>1, <1>2, <1>4, <2>1, <2>3, LeftStep
  <2>. QED BY <2>2, <2>3
<1>6. ASSUME NEW n \in Policies, n \notin disturbed'
      PROVE  Loose(n, policies', attachments', local')
  <2>1. Loose(n, policies, attachments, local)
    BY <1>2, <1>6 DEF NameInv
  <2>2. CASE Attaching(s, n)
    <3>1. policies'[n] # NoDocument
      BY <1>1, <2>2
    <3>. QED BY <3>1 DEF Loose
  <2>3. CASE ~Attaching(s, n)
    BY <1>1, <1>2, <1>4, <2>1, <2>3, LooseStep
  <2>. QED BY <2>2, <2>3
<1>. QED BY <1>3, <1>5, <1>6 DEF NameInv

(* A request does its next step. *)
LEMMA NameDoes ==
  ASSUME SimInv, NameInv, NEW t \in Workers, NEW step \in IdentityPlain, Identity!Does(t, step),
         NamesTyped(accessKeys', memberships', policies', attachments'), NEW s, s = local[t], NEW r, r = AfterStep(s)
  PROVE  /\ NameShape' /\ disturbed' = disturbed /\ Only(t, r) /\ NameLocal(s) /\ Pending(s, step)
         /\ \A x : Joining(r, x) => Joining(s, x)
         /\ \A n : Attaching(r, n) => Attaching(s, n)
         /\ \A x : \A other \in Clearing : Owes(s, x, other) /\ other # step => Owes(r, x, other)
<1>. PICK q : q = Rest(s)
  OBVIOUS
<1>1. s.todo # <<>> /\ Head(s.todo) = step /\ Goes(t, q)
  BY IdentityThreads DEF Identity!Does, Identity!At
<1>2. SimLocal(s) /\ NameLocal(s)
  BY DEF SimInv, NameInv, NameShape
<1>3. ~Collecting(s) /\ s.todo \in Seq(IdentityPlain)
  BY <1>1, <1>2, SimTodos, SimNotPlain DEF SimLocal
<1>4. DOMAIN q = DOMAIN s /\ q.todo = Tail(s.todo) /\ q.touches = s.touches
  BY <1>2, RestFields DEF NameLocal
<1>5. r = (IF q.todo = <<>> THEN Idle ELSE q)
  BY <1>4 DEF AfterStep
<1>6. Threads' /\ Only(t, r) /\ Apart' /\ disturbed' = disturbed
  BY <1>1, <1>4, <1>5, GoesOnly, GoesApart DEF NameInv, NameShape, Goes
<1>7. /\ NameLocal(r)
      /\ \A x : Joining(r, x) => Joining(s, x)
      /\ \A n : Attaching(r, n) => Attaching(s, n)
      /\ \A x : \A other \in Clearing : Owes(s, x, other) /\ other # step => Owes(r, x, other)
  BY <1>1, <1>2, <1>3, NameAfter
<1>8. Pending(s, step)
  <2>1. Len(s.todo) \in Nat /\ 1 \in 1 .. Len(s.todo) /\ s.todo[1] = step
    BY <1>1, <1>3
  <2>. QED BY <1>3, <2>1 DEF Pending
<1>9. NameShape'
  BY <1>6, <1>7 DEF NameInv, NameShape, Only
<1>. QED BY <1>2, <1>6, <1>7, <1>8, <1>9

LEMMA NameGoesOn ==
  ASSUME SimInv, NameInv, NEW t \in Workers, NEW step \in IdentityPlain, Identity!Does(t, step),
         NamesTyped(accessKeys', memberships', policies', attachments'), NEW s, s = local[t],
         \A x \in Identity!Principals : x \notin disturbed /\ x \notin principals' =>
            \/ Left(x, principals', accessKeys', memberships', local')
            \/ /\ x \notin principals
               /\ InKeys(x, accessKeys') => InKeys(x, accessKeys) /\ ~(step = "drop keys" /\ s.name = x)
               /\ InMembers(x, memberships') => InMembers(x, memberships) /\ ~(step = "drop memberships" /\ s.name = x),
         \A n \in Policies : n \notin disturbed /\ policies'[n] = NoDocument =>
            \/ Loose(n, policies', attachments', local')
            \/ /\ policies[n] = NoDocument
               /\ InAttached(n, attachments') => InAttached(n, attachments) /\ ~(step = "drop attachments" /\ s.name = n)
  PROVE  NameInv'
<1>. PICK r : r = AfterStep(s)
  OBVIOUS
<1>1. /\ NameShape' /\ disturbed' = disturbed /\ Only(t, r)
      /\ \A x : Joining(r, x) => Joining(s, x)
      /\ \A n : Attaching(r, n) => Attaching(s, n)
      /\ \A x : \A other \in Clearing : Owes(s, x, other) /\ other # step => Owes(r, x, other)
  BY NameDoes
<1>2. "drop keys" \in Clearing /\ "drop memberships" \in Clearing /\ "drop attachments" \in Clearing
  BY DEF Clearing
<1>3. ASSUME NEW x \in Identity!Principals, x \notin disturbed'
      PROVE  Left(x, principals', accessKeys', memberships', local')
  <2>1. SUFFICES ASSUME x \notin principals',
                 x \notin principals,
                 InKeys(x, accessKeys') => InKeys(x, accessKeys) /\ ~(step = "drop keys" /\ s.name = x),
                 InMembers(x, memberships') => InMembers(x, memberships) /\ ~(step = "drop memberships" /\ s.name = x)
                 PROVE  Left(x, principals', accessKeys', memberships', local')
    BY <1>1, <1>3 DEF Left
  <2>2. Left(x, principals, accessKeys, memberships, local)
    BY <1>1, <1>3 DEF NameInv
  <2>3. Owes(s, x, "drop keys") /\ ~(step = "drop keys" /\ s.name = x) => Owes(r, x, "drop keys")
    BY <1>1, <1>2 DEF Owes
  <2>4. Owes(s, x, "drop memberships") /\ ~(step = "drop memberships" /\ s.name = x) => Owes(r, x, "drop memberships")
    BY <1>1, <1>2 DEF Owes
  <2>. QED BY <1>1, <2>1, <2>2, <2>3, <2>4, LeftStep
<1>4. ASSUME NEW n \in Policies, n \notin disturbed'
      PROVE  Loose(n, policies', attachments', local')
  <2>1. SUFFICES ASSUME policies[n] = NoDocument,
                 InAttached(n, attachments') => InAttached(n, attachments) /\ ~(step = "drop attachments" /\ s.name = n)
                 PROVE  Loose(n, policies', attachments', local')
    BY <1>1, <1>4 DEF Loose
  <2>2. Loose(n, policies, attachments, local)
    BY <1>1, <1>4 DEF NameInv
  <2>3. Owes(s, n, "drop attachments") /\ ~(step = "drop attachments" /\ s.name = n) => Owes(r, n, "drop attachments")
    BY <1>1, <1>2 DEF Owes
  <2>. QED BY <1>1, <2>1, <2>2, <2>3, LooseStep
<1>. QED BY <1>1, <1>3, <1>4 DEF NameInv

LEMMA NameHas ==
  ASSUME SimInv, NameInv, NEW t \in Workers, NEW step \in IdentityPlain, Identity!Does(t, step)
  PROVE  NameLocal(local[t]) /\ Pending(local[t], step)
<1>1. local[t].todo # <<>> /\ Head(local[t].todo) = step
  BY DEF Identity!Does, Identity!At
<1>2. SimLocal(local[t]) /\ NameLocal(local[t])
  BY DEF SimInv, NameInv, NameShape
<1>3. ~Collecting(local[t]) /\ local[t].todo \in Seq(IdentityPlain)
  BY <1>1, <1>2, SimTodos, SimNotPlain DEF SimLocal
<1>4. Len(local[t].todo) \in Nat /\ 1 \in 1 .. Len(local[t].todo) /\ local[t].todo[1] = step
  BY <1>1, <1>3
<1>. QED BY <1>2, <1>3, <1>4 DEF Pending

(* Statements that neither drop a row nor add one that names another.      *)
LEMMA NameAside ==
  ASSUME SimInv, NameInv, NEW t \in Workers, NEW step \in IdentityPlain \ Clearing, Identity!Does(t, step),
         principals \subseteq principals', accessKeys' = accessKeys, memberships' \subseteq memberships,
         \A n \in Policies : policies'[n] = NoDocument => policies[n] = NoDocument,
         policies' = [n \in Policies |-> policies'[n]], attachments' \subseteq attachments
  PROVE  NameInv'
<1>1. NamesTyped(accessKeys', memberships', policies', attachments')
  BY DEF NameInv, NameShape, NamesTyped
<1>2. /\ \A x : InMembers(x, memberships') => InMembers(x, memberships)
      /\ \A n : InAttached(n, attachments') => InAttached(n, attachments)
  BY DEF InMembers, InAttached
<1>3. step # "drop keys" /\ step # "drop memberships" /\ step # "drop attachments"
  BY DEF Clearing
<1>. QED BY <1>1, <1>2, <1>3, NameGoesOn

LEMMA NameKey ==
  ASSUME SimInv, NameInv, NEW t \in Workers, Identity!SetKey(t)
  PROVE  NameInv'
<1>. PICK s : s = local[t]
  OBVIOUS
<1>1. /\ Identity!Does(t, "key") /\ accessKeys' = [accessKeys EXCEPT ![s.key] = s.user]
      /\ UNCHANGED <<principals, memberships, policies, attachments>> /\ "key" \in IdentityPlain
  BY DEF Identity!SetKey, Identity!permissions, IdentityPlain
<1>2. NameLocal(s) /\ Pending(s, "key")
  BY <1>1, NameHas
<1>3. s.user # NoUser => s.user \in Users
  BY <1>2 DEF NameLocal
<1>4. /\ accessKeys = [k \in Identity!Ids |-> accessKeys[k]]
      /\ \A k \in Identity!Ids : accessKeys[k] \in Users \cup {NoUser}
  BY DEF NameInv, NameShape, NamesTyped
<1>5. /\ accessKeys' = [k \in Identity!Ids |-> accessKeys'[k]]
      /\ \A k \in Identity!Ids : accessKeys'[k] = IF k = s.key THEN s.user ELSE accessKeys[k]
  BY <1>1, <1>4
<1>6. \A k \in Identity!Ids : accessKeys'[k] \in Users \cup {NoUser}
  BY <1>3, <1>4, <1>5
<1>7. NamesTyped(accessKeys', memberships', policies', attachments')
  BY <1>1, <1>5, <1>6 DEF NameInv, NameShape, NamesTyped
<1>8. ASSUME NEW x \in Identity!Principals, x \notin disturbed, x \notin principals', InKeys(x, accessKeys')
      PROVE  InKeys(x, accessKeys)
  <2>1. ~Joining(s, x)
    BY <1>1, <1>8, LeftNow
  <2>2. ~(s.user # NoUser /\ s.user = x)
    BY <1>2, <2>1 DEF Joining
  <2>. QED BY <1>5, <1>8, <2>2 DEF InKeys
<1>. QED BY <1>1, <1>7, <1>8, NameGoesOn

LEMMA NameAdd ==
  ASSUME SimInv, NameInv, NEW t \in Workers, Identity!Add(t)
  PROVE  NameInv'
<1>. PICK s : s = local[t]
  OBVIOUS
<1>1. /\ Identity!Does(t, "add") /\ memberships' = memberships \cup {s.member}
      /\ UNCHANGED <<principals, accessKeys, policies, attachments>> /\ "add" \in IdentityPlain
  BY DEF Identity!Add, Identity!permissions, IdentityPlain
<1>2. NameLocal(s) /\ Pending(s, "add")
  BY <1>1, NameHas
<1>3. s.member \in Users \X Groups
  BY <1>2 DEF NameLocal
<1>7. NamesTyped(accessKeys', memberships', policies', attachments')
  BY <1>1, <1>3 DEF NameInv, NameShape, NamesTyped
<1>8. ASSUME NEW x \in Identity!Principals, x \notin disturbed, x \notin principals', InMembers(x, memberships')
      PROVE  InMembers(x, memberships)
  <2>1. ~Joining(s, x)
    BY <1>1, <1>8, LeftNow
  <2>2. x \notin {s.member[1], s.member[2]}
    BY <1>2, <2>1 DEF Joining
  <2>. QED BY <1>1, <1>8, <2>2 DEF InMembers
<1>. QED BY <1>1, <1>7, <1>8, NameGoesOn

LEMMA NameAttach ==
  ASSUME SimInv, NameInv, NEW t \in Workers, Identity!Attach(t)
  PROVE  NameInv'
<1>. PICK s : s = local[t]
  OBVIOUS
<1>1. /\ Identity!Does(t, "attach") /\ attachments' = attachments \cup {s.attached}
      /\ UNCHANGED <<principals, accessKeys, memberships, policies>> /\ "attach" \in IdentityPlain
  BY DEF Identity!Attach, Identity!identities, IdentityPlain
<1>2. NameLocal(s) /\ Pending(s, "attach")
  BY <1>1, NameHas
<1>3. s.attached \in Identity!Principals \X Policies
  BY <1>2 DEF NameLocal
<1>7. NamesTyped(accessKeys', memberships', policies', attachments')
  BY <1>1, <1>3 DEF NameInv, NameShape, NamesTyped
<1>8. ASSUME NEW n \in Policies, n \notin disturbed, policies'[n] = NoDocument, InAttached(n, attachments')
      PROVE  InAttached(n, attachments)
  <2>1. ~Attaching(s, n)
    BY <1>1, <1>8, LooseNow
  <2>2. s.attached[2] # n
    BY <1>2, <2>1 DEF Attaching
  <2>. QED BY <1>1, <1>8, <2>2 DEF InAttached
<1>. QED BY <1>1, <1>7, <1>8, NameGoesOn

LEMMA NameDrop ==
  ASSUME SimInv, NameInv, NEW t \in Workers, Identity!Drop(t)
  PROVE  NameInv'
<1>. PICK s, r : s = local[t] /\ r = AfterStep(s)
  OBVIOUS
<1>1. /\ Identity!Does(t, "drop") /\ principals' = principals \ {s.name} /\ "drop" \in IdentityPlain
      /\ UNCHANGED <<accessKeys, memberships, policies, attachments>>
  BY DEF Identity!Drop, Identity!permissions, IdentityPlain
<1>2. NamesTyped(accessKeys', memberships', policies', attachments')
  BY <1>1 DEF NameInv, NameShape, NamesTyped
<1>3. /\ Only(t, r) /\ NameLocal(s) /\ Pending(s, "drop")
      /\ \A x : Joining(r, x) => Joining(s, x)
      /\ \A x : \A other \in Clearing : Owes(s, x, other) /\ other # "drop" => Owes(r, x, other)
  BY <1>1, <1>2, NameDoes
<1>4. \A u \in Workers : local'[u] = IF u = t THEN r ELSE local[u]
  BY <1>3 DEF Only
<1>5. /\ s.name \in s.touches /\ ~Pending(s, "key") /\ ~Pending(s, "add")
      /\ s.name \in Users => Pending(s, "drop keys")
      /\ s.name \in Users \cup Groups => Pending(s, "drop memberships")
  BY <1>3 DEF NameLocal, Clearing
<1>6. ASSUME s.name \notin disturbed
      PROVE  Left(s.name, principals', accessKeys', memberships', local')
  <2>1. ASSUME NEW u \in Workers, Joining(local'[u], s.name) PROVE FALSE
    <3>1. CASE u = t
      BY <1>3, <1>4, <1>5, <2>1, <3>1 DEF Joining
    <3>2. CASE u # t
      <4>1. NameLocal(local[u]) /\ Joining(local[u], s.name)
        BY <1>4, <2>1, <3>2 DEF NameInv, NameShape
      <4>2. s.name \in local[u].touches
        BY <4>1 DEF NameLocal, Joining
      <4>. QED BY <1>5, <1>6, <3>2, <4>2 DEF NameInv, NameShape, Apart
    <3>. QED BY <3>1, <3>2
  <2>2. ASSUME NEW step \in Clearing, step # "drop", Pending(s, step) PROVE Owed(local', s.name, step)
    <3>1. Owes(r, s.name, step)
      BY <1>3, <2>2 DEF Owes
    <3>. QED BY <1>4, <3>1 DEF Owed
  <2>3. InKeys(s.name, accessKeys') => Owed(local', s.name, "drop keys")
    <3>1. InKeys(s.name, accessKeys') => s.name \in Users
      BY <1>2 DEF NamesTyped, InKeys
    <3>. QED BY <1>5, <2>2, <3>1 DEF Clearing
  <2>4. InMembers(s.name, memberships') => Owed(local', s.name, "drop memberships")
    <3>1. InMembers(s.name, memberships') => s.name \in Users \cup Groups
      BY <1>2 DEF NamesTyped, InMembers
    <3>. QED BY <1>5, <2>2, <3>1 DEF Clearing
  <2>. QED BY <2>1, <2>3, <2>4 DEF Left
<1>. QED BY <1>1, <1>2, <1>6, NameGoesOn

LEMMA NameDropPolicy ==
  ASSUME SimInv, NameInv, NEW t \in Workers, Identity!DropPolicy(t)
  PROVE  NameInv'
<1>. PICK s, r : s = local[t] /\ r = AfterStep(s)
  OBVIOUS
<1>1. /\ Identity!Does(t, "drop policy") /\ policies' = [policies EXCEPT ![s.name] = NoDocument]
      /\ UNCHANGED <<principals, accessKeys, memberships, attachments>> /\ "drop policy" \in IdentityPlain
  BY DEF Identity!DropPolicy, Identity!identities, IdentityPlain
<1>0. policies = [n \in Policies |-> policies[n]]
  BY DEF NameInv, NameShape, NamesTyped
<1>9. /\ policies' = [n \in Policies |-> policies'[n]]
      /\ \A n \in Policies : n # s.name => policies'[n] = policies[n]
  BY <1>0, <1>1
<1>2. NamesTyped(accessKeys', memberships', policies', attachments')
  BY <1>1, <1>9 DEF NameInv, NameShape, NamesTyped
<1>3. /\ Only(t, r) /\ NameLocal(s) /\ Pending(s, "drop policy")
      /\ \A n : Attaching(r, n) => Attaching(s, n)
      /\ \A x : \A other \in Clearing : Owes(s, x, other) /\ other # "drop policy" => Owes(r, x, other)
  BY <1>1, <1>2, NameDoes
<1>4. \A u \in Workers : local'[u] = IF u = t THEN r ELSE local[u]
  BY <1>3 DEF Only
<1>5. s.name \in s.touches /\ ~Pending(s, "attach") /\ Pending(s, "drop attachments")
  BY <1>3 DEF NameLocal, Clearing
<1>6. ASSUME s.name \notin disturbed
      PROVE  Loose(s.name, policies', attachments', local')
  <2>1. ASSUME NEW u \in Workers, Attaching(local'[u], s.name) PROVE FALSE
    <3>1. CASE u = t
      BY <1>3, <1>4, <1>5, <2>1, <3>1 DEF Attaching
    <3>2. CASE u # t
      <4>1. NameLocal(local[u]) /\ Attaching(local[u], s.name)
        BY <1>4, <2>1, <3>2 DEF NameInv, NameShape
      <4>2. s.name \in local[u].touches
        BY <4>1 DEF NameLocal, Attaching
      <4>. QED BY <1>5, <1>6, <3>2, <4>2 DEF NameInv, NameShape, Apart
    <3>. QED BY <3>1, <3>2
  <2>2. Owes(s, s.name, "drop attachments") /\ "drop attachments" \in Clearing /\ "drop attachments" # "drop policy"
    BY <1>5 DEF Owes, Clearing
  <2>3. Owes(r, s.name, "drop attachments")
    BY <1>3, <2>2
  <2>. QED BY <1>4, <2>1, <2>3 DEF Loose, Owed
<1>7. ASSUME NEW n \in Policies, n \notin disturbed, policies'[n] = NoDocument
      PROVE  \/ Loose(n, policies', attachments', local')
             \/ policies[n] = NoDocument /\ (InAttached(n, attachments') => InAttached(n, attachments))
  BY <1>1, <1>6, <1>7, <1>9
<1>8. "drop policy" # "drop keys" /\ "drop policy" # "drop memberships" /\ "drop policy" # "drop attachments"
  OBVIOUS
<1>10. \A x : /\ InKeys(x, accessKeys') => InKeys(x, accessKeys)
             /\ InMembers(x, memberships') => InMembers(x, memberships)
  BY <1>1
<1>. QED BY <1>1, <1>2, <1>7, <1>8, <1>10, NameGoesOn

LEMMA NameDropKeys ==
  ASSUME SimInv, NameInv, NEW t \in Workers, Identity!DropKeys(t)
  PROVE  NameInv'
<1>. PICK s : s = local[t]
  OBVIOUS
<1>1. /\ Identity!Does(t, "drop keys") /\ "drop keys" \in IdentityPlain
      /\ accessKeys' = [k \in Identity!Ids |-> IF accessKeys[k] = s.name THEN NoUser ELSE accessKeys[k]]
      /\ UNCHANGED <<principals, memberships, policies, attachments>>
  BY DEF Identity!DropKeys, Identity!permissions, IdentityPlain
<1>2. /\ accessKeys' = [k \in Identity!Ids |-> accessKeys'[k]]
      /\ \A k \in Identity!Ids : accessKeys'[k] = IF accessKeys[k] = s.name THEN NoUser ELSE accessKeys[k]
  BY <1>1
<1>3. NamesTyped(accessKeys', memberships', policies', attachments')
  BY <1>1, <1>2 DEF NameInv, NameShape, NamesTyped
<1>4. \A x : InKeys(x, accessKeys') => InKeys(x, accessKeys) /\ s.name # x
  BY <1>2 DEF InKeys
<1>5. "drop keys" # "drop memberships" /\ "drop keys" # "drop attachments"
  OBVIOUS
<1>6. /\ \A x : InMembers(x, memberships') => InMembers(x, memberships)
      /\ \A n \in Policies : InAttached(n, attachments') => InAttached(n, attachments)
  BY <1>1
<1>. QED BY <1>1, <1>3, <1>4, <1>5, <1>6, NameGoesOn, ZenonT(30)

LEMMA NameDropMemberships ==
  ASSUME SimInv, NameInv, NEW t \in Workers, Identity!DropMemberships(t)
  PROVE  NameInv'
<1>. PICK s : s = local[t]
  OBVIOUS
<1>1. /\ Identity!Does(t, "drop memberships") /\ "drop memberships" \in IdentityPlain
      /\ memberships' = {m \in memberships : s.name \notin {m[1], m[2]}}
      /\ UNCHANGED <<principals, accessKeys, policies, attachments>>
  BY DEF Identity!DropMemberships, Identity!permissions, IdentityPlain
<1>3. NamesTyped(accessKeys', memberships', policies', attachments')
  BY <1>1 DEF NameInv, NameShape, NamesTyped
<1>4. \A x : InMembers(x, memberships') => InMembers(x, memberships) /\ s.name # x
  BY <1>1 DEF InMembers
<1>5. "drop memberships" # "drop keys" /\ "drop memberships" # "drop attachments"
  OBVIOUS
<1>6. /\ \A x : InKeys(x, accessKeys') => InKeys(x, accessKeys)
      /\ \A n \in Policies : InAttached(n, attachments') => InAttached(n, attachments)
  BY <1>1
<1>. QED BY <1>1, <1>3, <1>4, <1>5, <1>6, NameGoesOn, ZenonT(30)

LEMMA NameDropAttachments ==
  ASSUME SimInv, NameInv, NEW t \in Workers, Identity!DropAttachments(t)
  PROVE  NameInv'
<1>. PICK s : s = local[t]
  OBVIOUS
<1>1. /\ Identity!Does(t, "drop attachments") /\ "drop attachments" \in IdentityPlain
      /\ attachments' = {a \in attachments : s.name \notin {a[1], a[2]}}
      /\ UNCHANGED <<principals, accessKeys, memberships, policies>>
  BY DEF Identity!DropAttachments, Identity!identities, IdentityPlain
<1>3. NamesTyped(accessKeys', memberships', policies', attachments')
  BY <1>1 DEF NameInv, NameShape, NamesTyped
<1>4. \A n : InAttached(n, attachments') => InAttached(n, attachments) /\ s.name # n
  BY <1>1 DEF InAttached
<1>5. "drop attachments" # "drop keys" /\ "drop attachments" # "drop memberships"
  OBVIOUS
<1>6. /\ \A x : InKeys(x, accessKeys') => InKeys(x, accessKeys)
      /\ \A x : InMembers(x, memberships') => InMembers(x, memberships)
  BY <1>1
<1>7. \A x \in Identity!Principals : x \notin principals' => x \notin principals
  BY <1>1
<1>8. ASSUME NEW n \in Policies, policies'[n] = NoDocument
      PROVE  /\ policies[n] = NoDocument
             /\ InAttached(n, attachments') => InAttached(n, attachments) /\ ~(s.name = n)
  BY <1>1, <1>4, <1>8
<1>9. Identity!Does(t, "drop attachments") /\ "drop attachments" \in IdentityPlain
  BY <1>1
<1>. QED BY <1>3, <1>5, <1>6, <1>7, <1>8, <1>9, NameGoesOn, ZenonT(30)

(* What the requests ask for first. *)
LEMMA PendingOne ==
  ASSUME NEW s, NEW a, s.todo = <<a>>, NEW step, Pending(s, step)
  PROVE  step = a
<1>1. Len(<<a>>) = 1 /\ <<a>>[1] = a /\ 1 .. 1 = {1}
  OBVIOUS
<1>2. PICK i \in 1 .. Len(s.todo) : s.todo[i] = step
  BY DEF Pending
<1>3. i = 1
  BY <1>1, <1>2
<1>. QED BY <1>1, <1>2, <1>3

LEMMA NameAskOne ==
  ASSUME SimInv, NameInv, NEW t \in Workers, NEW rows, NEW a, NEW q, NEW s, s = Identity!On(rows, <<a>>, q),
         Identity!Ask(t, s), a \notin Clearing \cup {"key", "add", "attach"}
  PROVE  NameInv'
<1>1. s.todo = <<a>> /\ {"todo", "touches"} \subseteq DOMAIN s
  BY DEF Identity!On, Identity!Also
<1>2. \A step : Pending(s, step) => step = a
  BY <1>1, PendingOne
<1>3. \A i \in 1 .. Len(s.todo) : i = 1
  <2>1. Len(<<a>>) = 1 /\ 1 .. 1 = {1}
    OBVIOUS
  <2>. QED BY <1>1, <2>1
<1>4. NameLocal(s) /\ \A x : ~Joining(s, x) /\ ~Attaching(s, x)
  BY <1>1, <1>2, <1>3 DEF NameLocal, Clearing, Joining, Attaching
<1>. QED BY <1>4, NameAsk

LEMMA JoinedTwo ==
  ASSUME NEW S, NEW s \in Seq(S), NEW d \in S, NEW e \in S, NEW r \in Seq(S),
         Len(r) = Len(s) + 2, \A i \in 1 .. Len(s) : r[i] = s[i], r[Len(s) + 1] = d, r[Len(s) + 2] = e
  PROVE  s \o <<d, e>> = r
<1>0. <<d, e>> \in Seq(S) /\ Len(<<d, e>>) = 2 /\ <<d, e>>[1] = d /\ <<d, e>>[2] = e
  OBVIOUS
<1>. PICK p : p = <<d, e>>
  OBVIOUS
<1>1. s \o p \in Seq(S) /\ Len(s \o p) = Len(s) + 2
  BY <1>0
<1>2. ASSUME NEW i \in 1 .. Len(s) PROVE (s \o p)[i] = r[i]
  BY <1>0
<1>3. (s \o p)[Len(s) + 1] = d /\ (s \o p)[Len(s) + 2] = e
  BY <1>0
<1>4. \A i \in 1 .. Len(s) + 2 : i \in 1 .. Len(s) \/ i = Len(s) + 1 \/ i = Len(s) + 2
  OBVIOUS
<1>5. \A i \in 1 .. Len(s) + 2 : (s \o p)[i] = r[i]
  BY <1>2, <1>3, <1>4
<1>6. s \o p = r
  <2>. PICK u : u = s \o p
    OBVIOUS
  <2>1. u \in Seq(S) /\ Len(u) = Len(r) /\ \A i \in 1 .. Len(r) : u[i] = r[i]
    BY <1>1, <1>5
  <2>. QED BY <2>1
<1>. QED BY <1>6

LEMMA PairJoins ==
  ASSUME NEW a, NEW d, NEW e
  PROVE  <<a>> \o <<d, e>> = <<a, d, e>>
<1> DEFINE S == {a, d, e}
<1>1. <<a>> \in Seq(S) /\ <<a, d, e>> \in Seq(S)
  OBVIOUS
<1>2. d \in S /\ e \in S
  OBVIOUS
<1> DEFINE s == <<a>>  r == <<a, d, e>>
<1>3. Len(s) = 1 /\ Len(r) = 3 /\ r[2] = d /\ r[3] = e
  OBVIOUS
<1>4. s[1] = a /\ r[1] = a
  OBVIOUS
<1>5. s \in Seq(S) /\ r \in Seq(S)
  BY <1>1
<1> HIDE DEF S, s, r
<1>6. Len(r) = Len(s) + 2 /\ (\A i \in 1 .. Len(s) : r[i] = s[i]) /\ r[Len(s) + 1] = d /\ r[Len(s) + 2] = e
  BY <1>3, <1>4
<1>7. s \o <<d, e>> = r
  BY <1>2, <1>5, <1>6, JoinedTwo
<1>. QED BY <1>7 DEF s, r

LEMMA PairJoinsTwo ==
  ASSUME NEW a, NEW b, NEW d, NEW e
  PROVE  <<a, b>> \o <<d, e>> = <<a, b, d, e>>
<1> DEFINE S == {a, b, d, e}
<1>1. <<a, b>> \in Seq(S) /\ <<a, b, d, e>> \in Seq(S)
  OBVIOUS
<1>2. d \in S /\ e \in S
  OBVIOUS
<1> DEFINE s == <<a, b>>  r == <<a, b, d, e>>
<1>3. Len(s) = 2 /\ Len(r) = 4 /\ r[3] = d /\ r[4] = e
  OBVIOUS
<1>4. s[1] = a /\ r[1] = a /\ s[2] = b /\ r[2] = b
  OBVIOUS
<1>5. s \in Seq(S) /\ r \in Seq(S)
  BY <1>1
<1> HIDE DEF S, s, r
<1>6. Len(r) = Len(s) + 2 /\ (\A i \in 1 .. Len(s) : r[i] = s[i]) /\ r[Len(s) + 1] = d /\ r[Len(s) + 2] = e
  BY <1>3, <1>4
<1>7. s \o <<d, e>> = r
  BY <1>2, <1>5, <1>6, JoinedTwo
<1>. QED BY <1>7 DEF s, r

LEMMA PairJoinsThree ==
  ASSUME NEW a, NEW b, NEW c, NEW d, NEW e
  PROVE  <<a, b, c>> \o <<d, e>> = <<a, b, c, d, e>>
<1> DEFINE S == {a, b, c, d, e}
<1>1. <<a, b, c>> \in Seq(S) /\ <<a, b, c, d, e>> \in Seq(S)
  OBVIOUS
<1>2. d \in S /\ e \in S
  OBVIOUS
<1> DEFINE s == <<a, b, c>>  r == <<a, b, c, d, e>>
<1>3. Len(s) = 3 /\ Len(r) = 5 /\ r[4] = d /\ r[5] = e
  OBVIOUS
<1>4. s[1] = a /\ r[1] = a /\ s[2] = b /\ r[2] = b /\ s[3] = c /\ r[3] = c
  OBVIOUS
<1>5. s \in Seq(S) /\ r \in Seq(S)
  BY <1>1
<1> HIDE DEF S, s, r
<1>6. Len(r) = Len(s) + 2 /\ (\A i \in 1 .. Len(s) : r[i] = s[i]) /\ r[Len(s) + 1] = d /\ r[Len(s) + 2] = e
  BY <1>3, <1>4
<1>7. s \o <<d, e>> = r
  BY <1>2, <1>5, <1>6, JoinedTwo
<1>. QED BY <1>7 DEF s, r

LEMMA DropLists ==
  /\ \A a, b, c, d, e : <<a>> \o <<b>> \o <<c>> \o <<d, e>> = <<a, b, c, d, e>>
  /\ \A a, c, d, e : <<a>> \o <<>> \o <<c>> \o <<d, e>> = <<a, c, d, e>>
  /\ \A a, d, e : <<a>> \o <<>> \o <<>> \o <<d, e>> = <<a, d, e>>
<1>1. \A a : <<a>> \o <<>> = <<a>>
  OBVIOUS
<1>2. ASSUME NEW a, NEW b, NEW c, NEW d, NEW e
      PROVE  <<a>> \o <<b>> \o <<c>> \o <<d, e>> = <<a, b, c, d, e>>
  <2>1. <<a>> \o <<b>> = <<a, b>>
    BY Joins
  <2>2. <<a, b>> \o <<c>> = <<a, b, c>>
    BY Joins
  <2>3. <<a, b, c>> \o <<d, e>> = <<a, b, c, d, e>>
    BY PairJoinsThree
  <2>. QED BY <2>1, <2>2, <2>3
<1>3. ASSUME NEW a, NEW c, NEW d, NEW e
      PROVE  <<a>> \o <<>> \o <<c>> \o <<d, e>> = <<a, c, d, e>>
  <2>1. <<a>> \o <<c>> = <<a, c>>
    BY Joins
  <2>2. <<a, c>> \o <<d, e>> = <<a, c, d, e>>
    BY PairJoinsTwo
  <2>. QED BY <1>1, <2>1, <2>2
<1>4. ASSUME NEW a, NEW d, NEW e
      PROVE  <<a>> \o <<>> \o <<>> \o <<d, e>> = <<a, d, e>>
  <2>1. <<a>> \o <<d, e>> = <<a, d, e>>
    BY PairJoins
  <2>. QED BY <1>1, <2>1
<1>. QED BY <1>2, <1>3, <1>4

Written == Clearing \cup {"key", "add", "attach"}

LEMMA NotWritten ==
  /\ "create" \notin Written /\ "remove" \notin Written /\ "policy" \notin Written /\ "detach" \notin Written
  /\ "inline" \notin Written /\ "drop inline" \notin Written /\ "session" \notin Written /\ "revoke" \notin Written
  BY DEF Written, Clearing

LEMMA NameAskPlain ==
  ASSUME SimInv, NameInv, NEW t \in Workers, NEW rows, NEW a, NEW q,
         Identity!Ask(t, Identity!On(rows, <<a>>, q)), a \notin Written
  PROVE  NameInv'
  BY NameAskOne DEF Written

UserDrop == <<"drop", "drop keys", "drop memberships", "drop inline", "drop attachments">>
GroupDrop == <<"drop", "drop memberships", "drop inline", "drop attachments">>
RoleDrop == <<"drop", "drop inline", "drop attachments">>
PolicyDrop == <<"drop policy", "drop attachments">>

UserSteps == {"drop", "drop keys", "drop memberships", "drop inline", "drop attachments"}
GroupSteps == {"drop", "drop memberships", "drop inline", "drop attachments"}
RoleSteps == {"drop", "drop inline", "drop attachments"}
PolicySteps == {"drop policy", "drop attachments"}

LEMMA Upto ==
  /\ 1 .. 2 = {1, 2}
  /\ 1 .. 3 = {1, 2, 3}
  /\ 1 .. 4 = {1, 2, 3, 4}
  /\ 1 .. 5 = {1, 2, 3, 4, 5}
<1>1. 1 .. 2 = {1, 2}
  OBVIOUS
<1>2. 1 .. 3 = {1, 2, 3}
  OBVIOUS
<1>3. 1 .. 4 = {1, 2, 3, 4}
  OBVIOUS
<1>4. 1 .. 5 = {1, 2, 3, 4, 5}
  OBVIOUS
<1>. QED BY <1>1, <1>2, <1>3, <1>4

LEMMA UserDropPending ==
  ASSUME NEW s, ~Collecting(s), s.todo = UserDrop
  PROVE  /\ \A step : Pending(s, step) <=> step \in UserSteps
         /\ \A i \in 1 .. Len(s.todo) : s.todo[i] \in {"drop", "drop policy"} => i = 1
<1>. PICK a, b, c, d, e : a = "drop" /\ b = "drop keys" /\ c = "drop memberships" /\ d = "drop inline" /\ e = "drop attachments"
  OBVIOUS
<1>1. Len(<<a, b, c, d, e>>) = 5 /\ 1 .. 5 = {1, 2, 3, 4, 5}
  <2>1. 1 .. 5 = {1, 2, 3, 4, 5}
    BY Upto
  <2>2. Len(<<a, b, c, d, e>>) = 5
    OBVIOUS
  <2>. QED BY <2>1, <2>2
<1>2. <<a, b, c, d, e>>[1] = a /\ <<a, b, c, d, e>>[2] = b /\ <<a, b, c, d, e>>[3] = c /\ <<a, b, c, d, e>>[4] = d /\ <<a, b, c, d, e>>[5] = e
  OBVIOUS
<1>3. UserDrop = <<a, b, c, d, e>>
  BY DEF UserDrop
<1>. PICK w : w = s.todo
  OBVIOUS
<1>4. 1 .. Len(w) = {1, 2, 3, 4, 5} /\ w[1] = a /\ w[2] = b /\ w[3] = c /\ w[4] = d /\ w[5] = e
  BY <1>1, <1>2, <1>3
<1>5. \A step : Pending(s, step) <=> step \in {a, b, c, d, e}
  BY <1>4 DEF Pending
<1>6. \A i \in 1 .. Len(w) : w[i] \in {"drop", "drop policy"} => i = 1
  BY <1>4
<1>. QED BY <1>5, <1>6 DEF UserSteps

LEMMA GroupDropPending ==
  ASSUME NEW s, ~Collecting(s), s.todo = GroupDrop
  PROVE  /\ \A step : Pending(s, step) <=> step \in GroupSteps
         /\ \A i \in 1 .. Len(s.todo) : s.todo[i] \in {"drop", "drop policy"} => i = 1
<1>. PICK a, b, c, d : a = "drop" /\ b = "drop memberships" /\ c = "drop inline" /\ d = "drop attachments"
  OBVIOUS
<1>1. Len(<<a, b, c, d>>) = 4 /\ 1 .. 4 = {1, 2, 3, 4}
  <2>1. 1 .. 4 = {1, 2, 3, 4}
    BY Upto
  <2>2. Len(<<a, b, c, d>>) = 4
    OBVIOUS
  <2>. QED BY <2>1, <2>2
<1>2. <<a, b, c, d>>[1] = a /\ <<a, b, c, d>>[2] = b /\ <<a, b, c, d>>[3] = c /\ <<a, b, c, d>>[4] = d
  OBVIOUS
<1>3. GroupDrop = <<a, b, c, d>>
  BY DEF GroupDrop
<1>. PICK w : w = s.todo
  OBVIOUS
<1>4. 1 .. Len(w) = {1, 2, 3, 4} /\ w[1] = a /\ w[2] = b /\ w[3] = c /\ w[4] = d
  BY <1>1, <1>2, <1>3
<1>5. \A step : Pending(s, step) <=> step \in {a, b, c, d}
  BY <1>4 DEF Pending
<1>6. \A i \in 1 .. Len(w) : w[i] \in {"drop", "drop policy"} => i = 1
  BY <1>4
<1>. QED BY <1>5, <1>6 DEF GroupSteps

LEMMA RoleDropPending ==
  ASSUME NEW s, ~Collecting(s), s.todo = RoleDrop
  PROVE  /\ \A step : Pending(s, step) <=> step \in RoleSteps
         /\ \A i \in 1 .. Len(s.todo) : s.todo[i] \in {"drop", "drop policy"} => i = 1
<1>. PICK a, b, c : a = "drop" /\ b = "drop inline" /\ c = "drop attachments"
  OBVIOUS
<1>1. Len(<<a, b, c>>) = 3 /\ 1 .. 3 = {1, 2, 3}
  <2>1. 1 .. 3 = {1, 2, 3}
    BY Upto
  <2>2. Len(<<a, b, c>>) = 3
    OBVIOUS
  <2>. QED BY <2>1, <2>2
<1>2. <<a, b, c>>[1] = a /\ <<a, b, c>>[2] = b /\ <<a, b, c>>[3] = c
  OBVIOUS
<1>3. RoleDrop = <<a, b, c>>
  BY DEF RoleDrop
<1>. PICK w : w = s.todo
  OBVIOUS
<1>4. 1 .. Len(w) = {1, 2, 3} /\ w[1] = a /\ w[2] = b /\ w[3] = c
  BY <1>1, <1>2, <1>3
<1>5. \A step : Pending(s, step) <=> step \in {a, b, c}
  BY <1>4 DEF Pending
<1>6. \A i \in 1 .. Len(w) : w[i] \in {"drop", "drop policy"} => i = 1
  BY <1>4
<1>. QED BY <1>5, <1>6 DEF RoleSteps

LEMMA PolicyDropPending ==
  ASSUME NEW s, ~Collecting(s), s.todo = PolicyDrop
  PROVE  /\ \A step : Pending(s, step) <=> step \in PolicySteps
         /\ \A i \in 1 .. Len(s.todo) : s.todo[i] \in {"drop", "drop policy"} => i = 1
<1>. PICK a, b : a = "drop policy" /\ b = "drop attachments"
  OBVIOUS
<1>1. Len(<<a, b>>) = 2 /\ 1 .. 2 = {1, 2}
  <2>1. 1 .. 2 = {1, 2}
    BY Upto
  <2>2. Len(<<a, b>>) = 2
    OBVIOUS
  <2>. QED BY <2>1, <2>2
<1>2. <<a, b>>[1] = a /\ <<a, b>>[2] = b
  OBVIOUS
<1>3. PolicyDrop = <<a, b>>
  BY DEF PolicyDrop
<1>. PICK w : w = s.todo
  OBVIOUS
<1>4. 1 .. Len(w) = {1, 2} /\ w[1] = a /\ w[2] = b
  BY <1>1, <1>2, <1>3
<1>5. \A step : Pending(s, step) <=> step \in {a, b}
  BY <1>4 DEF Pending
<1>6. \A i \in 1 .. Len(w) : w[i] \in {"drop", "drop policy"} => i = 1
  BY <1>4
<1>. QED BY <1>5, <1>6 DEF PolicySteps

LEMMA NameAskDrop ==
  ASSUME SimInv, NameInv, NEW t \in Workers, NEW x, NEW todo, NEW q, q = [name |-> x],
         NEW s, s = Identity!On({x}, todo, q), Identity!Ask(t, s),
         \/ x \in Users /\ todo = UserDrop
         \/ x \in Groups /\ x \notin Users /\ todo = GroupDrop
         \/ x \notin Users /\ x \notin Groups /\ todo \in {RoleDrop, PolicyDrop}
  PROVE  NameInv'
<1>0. DOMAIN q = {"name"} /\ q.name = x
  OBVIOUS
<1>1. s.todo = todo /\ DOMAIN s = {"todo", "touches", "name"} /\ s.name = x /\ s.touches = {x}
  BY <1>0 DEF Identity!On, Identity!Also
<1>2. ~Collecting(s)
  BY <1>1 DEF Collecting
<1>3. todo = UserDrop \/ todo = GroupDrop \/ todo = RoleDrop \/ todo = PolicyDrop
  OBVIOUS
<1>5. ~Pending(s, "key") /\ ~Pending(s, "add") /\ ~Pending(s, "attach")
  <2>1. CASE todo = UserDrop
    <3>1. \A step : Pending(s, step) <=> step \in UserSteps
      BY <1>1, <1>2, <2>1, UserDropPending
    <3>2. "key" \notin UserSteps /\ "add" \notin UserSteps /\ "attach" \notin UserSteps
      BY DEF UserSteps
    <3>. QED BY <3>1, <3>2
  <2>2. CASE todo = GroupDrop
    <3>1. \A step : Pending(s, step) <=> step \in GroupSteps
      BY <1>1, <1>2, <2>2, GroupDropPending
    <3>2. "key" \notin GroupSteps /\ "add" \notin GroupSteps /\ "attach" \notin GroupSteps
      BY DEF GroupSteps
    <3>. QED BY <3>1, <3>2
  <2>3. CASE todo = RoleDrop
    <3>1. \A step : Pending(s, step) <=> step \in RoleSteps
      BY <1>1, <1>2, <2>3, RoleDropPending
    <3>2. "key" \notin RoleSteps /\ "add" \notin RoleSteps /\ "attach" \notin RoleSteps
      BY DEF RoleSteps
    <3>. QED BY <3>1, <3>2
  <2>4. CASE todo = PolicyDrop
    <3>1. \A step : Pending(s, step) <=> step \in PolicySteps
      BY <1>1, <1>2, <2>4, PolicyDropPending
    <3>2. "key" \notin PolicySteps /\ "add" \notin PolicySteps /\ "attach" \notin PolicySteps
      BY DEF PolicySteps
    <3>. QED BY <3>1, <3>2
  <2>. QED BY <1>3, <2>1, <2>2, <2>3, <2>4
<1>6. \A y : ~Joining(s, y) /\ ~Attaching(s, y)
  BY <1>5 DEF Joining, Attaching
<1>7. \A i \in 1 .. Len(s.todo) : s.todo[i] \in {"drop", "drop policy"} => i = 1
  BY <1>1, <1>2, <1>3, UserDropPending, GroupDropPending, RoleDropPending, PolicyDropPending
<1>8. Pending(s, "drop policy") => Pending(s, "drop attachments")
  BY <1>1, <1>2, <1>3, UserDropPending, GroupDropPending, RoleDropPending, PolicyDropPending
     DEF UserSteps, GroupSteps, RoleSteps, PolicySteps
<1>9. Pending(s, "drop") => /\ x \in Users => Pending(s, "drop keys")
                            /\ x \in Users \cup Groups => Pending(s, "drop memberships")
  <2>1. todo = UserDrop => Pending(s, "drop keys") /\ Pending(s, "drop memberships")
    BY <1>1, <1>2, UserDropPending DEF UserSteps
  <2>2. todo = GroupDrop => Pending(s, "drop memberships")
    BY <1>1, <1>2, GroupDropPending DEF GroupSteps
  <2>. QED BY <2>1, <2>2
<1>11. Pending(s, "drop") => Pending(s, "drop inline") /\ Pending(s, "drop attachments")
  <2>1. CASE todo = UserDrop
    BY <1>1, <1>2, <2>1, UserDropPending DEF UserSteps
  <2>2. CASE todo = GroupDrop
    BY <1>1, <1>2, <2>2, GroupDropPending DEF GroupSteps
  <2>3. CASE todo = RoleDrop
    BY <1>1, <1>2, <2>3, RoleDropPending DEF RoleSteps
  <2>4. CASE todo = PolicyDrop
    <3>1. \A step : Pending(s, step) <=> step \in PolicySteps
      BY <1>1, <1>2, <2>4, PolicyDropPending
    <3>2. "drop" \notin PolicySteps
      BY DEF PolicySteps
    <3>. QED BY <3>1, <3>2
  <2>. QED BY <1>3, <2>1, <2>2, <2>3, <2>4
<1>10. NameLocal(s)
  BY <1>1, <1>5, <1>7, <1>8, <1>9, <1>11 DEF NameLocal
<1>. QED BY <1>6, <1>10, NameAsk

LEMMA NameAskKey ==
  ASSUME SimInv, NameInv, NEW t \in Workers,
         \/ \E u \in Users : Identity!CreateKeyRequire(t, u)
         \/ \E k \in Identity!Ids : Identity!DeleteKeyRequire(t, k)
  PROVE  NameInv'
<1>1. PICK rows, k, u : /\ Identity!Ask(t, Identity!On(rows, <<"key">>, [key |-> k, user |-> u]))
                        /\ u # NoUser => u \in Users /\ u \in rows /\ u \in principals
  BY DEF Identity!CreateKeyRequire, Identity!DeleteKeyRequire
<1>. PICK q : q = [key |-> k, user |-> u]
  OBVIOUS
<1>. PICK s : s = Identity!On(rows, <<"key">>, q)
  OBVIOUS
<1>2. DOMAIN q = {"key", "user"} /\ q.user = u
  OBVIOUS
<1>3. s.todo = <<"key">> /\ DOMAIN s = {"todo", "touches", "key", "user"} /\ s.user = u /\ s.touches = rows
  BY <1>2 DEF Identity!On, Identity!Also
<1>4. \A step : Pending(s, step) => step = "key"
  BY <1>3, PendingOne
<1>5. \A i \in 1 .. Len(s.todo) : s.todo[i] \in {"drop", "drop policy"} => i = 1
  <2>1. Len(<<"key">>) = 1 /\ 1 .. 1 = {1}
    OBVIOUS
  <2>. QED BY <1>3, <2>1
<1>6. NameLocal(s)
  BY <1>1, <1>3, <1>4, <1>5 DEF NameLocal, Clearing
<1>7. \A x : /\ Joining(s, x) => x \in principals
             /\ ~Attaching(s, x)
  BY <1>1, <1>3, <1>4 DEF Joining, Attaching
<1>. QED BY <1>1, <1>6, <1>7, NameAsk

LEMMA NameAskAdd ==
  ASSUME SimInv, NameInv, NEW t \in Workers, NEW u \in Users, NEW g \in Groups, Identity!AddCheck(t, u, g)
  PROVE  NameInv'
<1>. PICK m : m = <<u, g>>
  OBVIOUS
<1>. PICK q : q = [member |-> m]
  OBVIOUS
<1>. PICK s : s = Identity!On({u, g}, <<"add">>, q)
  OBVIOUS
<1>1. Identity!Ask(t, s) /\ u \in principals /\ g \in principals
  BY DEF Identity!AddCheck
<1>2. DOMAIN q = {"member"} /\ q.member = m /\ m \in Users \X Groups /\ m[1] = u /\ m[2] = g
  OBVIOUS
<1>3. s.todo = <<"add">> /\ DOMAIN s = {"todo", "touches", "member"} /\ s.member = m /\ s.touches = {u, g}
  BY <1>2 DEF Identity!On, Identity!Also
<1>4. \A step : Pending(s, step) => step = "add"
  BY <1>3, PendingOne
<1>5. \A i \in 1 .. Len(s.todo) : s.todo[i] \in {"drop", "drop policy"} => i = 1
  <2>1. Len(<<"add">>) = 1 /\ 1 .. 1 = {1}
    OBVIOUS
  <2>. QED BY <1>3, <2>1
<1>6. NameLocal(s)
  BY <1>2, <1>3, <1>4, <1>5 DEF NameLocal, Clearing
<1>7. \A x : /\ Joining(s, x) => x \in principals
             /\ ~Attaching(s, x)
  BY <1>1, <1>2, <1>3, <1>4 DEF Joining, Attaching
<1>. QED BY <1>1, <1>6, <1>7, NameAsk

LEMMA NameAskAttach ==
  ASSUME SimInv, NameInv, NEW t \in Workers, NEW x \in Identity!Principals, NEW n \in Policies, Identity!AttachCheck(t, x, n)
  PROVE  NameInv'
<1>. PICK m : m = <<x, n>>
  OBVIOUS
<1>. PICK q : q = [attached |-> m]
  OBVIOUS
<1>. PICK s : s = Identity!On({n}, <<"attach">>, q)
  OBVIOUS
<1>1. Identity!Ask(t, s) /\ policies[n] # NoDocument
  BY DEF Identity!AttachCheck
<1>2. DOMAIN q = {"attached"} /\ q.attached = m /\ m \in Identity!Principals \X Policies /\ m[2] = n
  OBVIOUS
<1>3. s.todo = <<"attach">> /\ DOMAIN s = {"todo", "touches", "attached"} /\ s.attached = m /\ s.touches = {n}
  BY <1>2 DEF Identity!On, Identity!Also
<1>4. \A step : Pending(s, step) => step = "attach"
  BY <1>3, PendingOne
<1>5. \A i \in 1 .. Len(s.todo) : s.todo[i] \in {"drop", "drop policy"} => i = 1
  <2>1. Len(<<"attach">>) = 1 /\ 1 .. 1 = {1}
    OBVIOUS
  <2>. QED BY <1>3, <2>1
<1>6. NameLocal(s)
  BY <1>2, <1>3, <1>4, <1>5 DEF NameLocal, Clearing
<1>7. \A y : /\ ~Joining(s, y)
             /\ Attaching(s, y) => policies[y] # NoDocument
  BY <1>1, <1>2, <1>3, <1>4 DEF Joining, Attaching
<1>. QED BY <1>1, <1>6, <1>7, NameAsk

LEMMA NameIdentity ==
  ASSUME SimInv, NameInv, NEW t \in Workers, Identity!Identity(t)
  PROVE  NameInv'
<1>1. CASE \E x \in Identity!Principals : Identity!CreateCheck(t, x)
  BY <1>1, NameAskPlain, NotWritten DEF Identity!CreateCheck
<1>2. CASE \E x \in Identity!Principals : Identity!DeleteRequire(t, x)
  <2>1. PICK x \in Identity!Principals : Identity!DeleteRequire(t, x)
    BY <1>2
  <2>2. x \in Users \cup Groups \cup Roles
    BY DEF Identity!Principals
  <2>. PICK todo : todo = <<"drop">> \o (IF x \in Users THEN <<"drop keys">> ELSE <<>>)
                          \o (IF x \in Roles THEN <<>> ELSE <<"drop memberships">>)
                          \o <<"drop inline", "drop attachments">>
    OBVIOUS
  <2>3. Identity!Ask(t, Identity!On({x}, todo, [name |-> x]))
    BY <2>1 DEF Identity!DeleteRequire
  <2>4. CASE x \in Users
    <3>1. x \notin Groups /\ x \notin Roles
      BY <2>4, IdentityAssumption
    <3>2. todo = UserDrop
      <4>1. todo = <<"drop">> \o <<"drop keys">> \o <<"drop memberships">> \o <<"drop inline", "drop attachments">>
        BY <2>4, <3>1
      <4>2. \A a, b, c, d, e : <<a>> \o <<b>> \o <<c>> \o <<d, e>> = <<a, b, c, d, e>>
        BY DropLists
      <4>. QED BY <4>1, <4>2 DEF UserDrop
    <3>. QED BY <2>3, <2>4, <3>1, <3>2, NameAskDrop
  <2>5. CASE x \in Groups
    <3>1. x \notin Users /\ x \notin Roles
      BY <2>5, IdentityAssumption
    <3>2. todo = GroupDrop
      <4>1. todo = <<"drop">> \o <<>> \o <<"drop memberships">> \o <<"drop inline", "drop attachments">>
        BY <3>1
      <4>. QED BY <4>1, DropLists DEF GroupDrop
    <3>. QED BY <2>3, <2>5, <3>1, <3>2, NameAskDrop
  <2>6. CASE x \in Roles
    <3>1. x \notin Users /\ x \notin Groups
      BY <2>6, IdentityAssumption
    <3>2. todo = RoleDrop
      <4>1. todo = <<"drop">> \o <<>> \o <<>> \o <<"drop inline", "drop attachments">>
        BY <2>6, <3>1
      <4>. QED BY <4>1, DropLists DEF RoleDrop
    <3>. QED BY <2>3, <2>6, <3>1, <3>2, NameAskDrop
  <2>. QED BY <2>2, <2>4, <2>5, <2>6
<1>3. CASE \/ \E u \in Users : Identity!CreateKeyRequire(t, u)
           \/ \E k \in Identity!Ids : Identity!DeleteKeyRequire(t, k)
  BY <1>3, NameAskKey
<1>4. CASE \E u \in Users, g \in Groups : Identity!AddCheck(t, u, g)
  BY <1>4, NameAskAdd
<1>5. CASE \E u \in Users, g \in Groups : Identity!Remove(t, u, g)
  BY <1>5, NameAskPlain, NotWritten DEF Identity!Remove
<1>6. CASE Identity!Create(t)
  <2>1. /\ Identity!Does(t, "create") /\ principals \subseteq principals'
        /\ UNCHANGED <<accessKeys, memberships, policies, attachments>>
    BY <1>6 DEF Identity!Create, Identity!permissions
  <2>2. "create" \in IdentityPlain \ Clearing
    BY DEF IdentityPlain, Clearing
  <2>3. policies' = [n \in Policies |-> policies'[n]]
    BY <2>1 DEF NameInv, NameShape, NamesTyped
  <2>. QED BY <2>1, <2>2, <2>3, NameAside
<1>7. CASE Identity!DropInline(t)
  <2>1. /\ Identity!Does(t, "drop inline")
        /\ UNCHANGED <<principals, accessKeys, memberships, policies, attachments>>
    BY <1>7 DEF Identity!DropInline, Identity!identities
  <2>2. "drop inline" \in IdentityPlain \ Clearing
    BY DEF IdentityPlain, Clearing
  <2>3. policies' = [n \in Policies |-> policies'[n]]
    BY <2>1 DEF NameInv, NameShape, NamesTyped
  <2>. QED BY <2>1, <2>2, <2>3, NameAside
<1>8. CASE Identity!RemoveDelete(t)
  <2>1. /\ Identity!Does(t, "remove") /\ memberships' \subseteq memberships
        /\ UNCHANGED <<principals, accessKeys, policies, attachments>>
    BY <1>8 DEF Identity!RemoveDelete, Identity!permissions
  <2>2. "remove" \in IdentityPlain \ Clearing
    BY DEF IdentityPlain, Clearing
  <2>3. policies' = [n \in Policies |-> policies'[n]]
    BY <2>1 DEF NameInv, NameShape, NamesTyped
  <2>. QED BY <2>1, <2>2, <2>3, NameAside
<1>. QED BY <1>1, <1>2, <1>3, <1>4, <1>5, <1>6, <1>7, <1>8, NameDrop, NameDropKeys, NameDropMemberships,
           NameDropAttachments, NameKey, NameAdd DEF Identity!Identity

LEMMA NamePermission ==
  ASSUME SimInv, NameInv, NEW t \in Workers, Identity!Permission(t)
  PROVE  NameInv'
<1>0. policies = [n \in Policies |-> policies[n]]
  BY DEF NameInv, NameShape, NamesTyped
<1>1. CASE \E n \in Policies : Identity!DeletePolicyRequire(t, n)
  <2>1. PICK n \in Policies : Identity!DeletePolicyRequire(t, n)
    BY <1>1
  <2>2. Identity!Ask(t, Identity!On({n}, PolicyDrop, [name |-> n]))
    BY <2>1 DEF Identity!DeletePolicyRequire, PolicyDrop
  <2>3. n \notin Users /\ n \notin Groups
    BY IdentityAssumption
  <2>. QED BY <2>2, <2>3, NameAskDrop
<1>2. CASE \E n \in Policies, d \in Documents : Identity!CreatePolicyCheck(t, n, d)
  BY <1>2, NameAskPlain, NotWritten DEF Identity!CreatePolicyCheck
<1>3. CASE \E n \in Policies, x \in Identity!Principals : Identity!AttachCheck(t, x, n)
  BY <1>3, NameAskAttach
<1>4. CASE \E n \in Policies, x \in Identity!Principals : Identity!Detach(t, x, n)
  BY <1>4, NameAskPlain, NotWritten DEF Identity!Detach
<1>5. CASE \E x \in Identity!Principals : Identity!DeleteInline(t, x)
  BY <1>5, NameAskPlain, NotWritten DEF Identity!DeleteInline
<1>6. CASE \E x \in Identity!Principals, d \in Documents : Identity!PutInlineSelect(t, x, d)
  BY <1>6, NameAskPlain, NotWritten DEF Identity!PutInlineSelect
<1>7. CASE Identity!CreatePolicy(t)
  <2>. PICK s : s = local[t]
    OBVIOUS
  <2>1. /\ Identity!Does(t, "policy") /\ UNCHANGED <<principals, accessKeys, memberships, attachments>>
        /\ policies' = [policies EXCEPT ![s.name] = IF @ = NoDocument THEN s.document ELSE @]
    BY <1>7 DEF Identity!CreatePolicy, Identity!identities
  <2>2. "policy" \in IdentityPlain \ Clearing
    BY DEF IdentityPlain, Clearing
  <2>3. /\ policies' = [n \in Policies |-> policies'[n]]
        /\ \A n \in Policies : policies'[n] = NoDocument => policies[n] = NoDocument
    BY <1>0, <2>1
  <2>. QED BY <2>1, <2>2, <2>3, NameAside
<1>8. CASE Identity!DetachDelete(t)
  <2>1. /\ Identity!Does(t, "detach") /\ attachments' \subseteq attachments
        /\ UNCHANGED <<principals, accessKeys, memberships, policies>>
    BY <1>8 DEF Identity!DetachDelete, Identity!identities
  <2>2. "detach" \in IdentityPlain \ Clearing
    BY DEF IdentityPlain, Clearing
  <2>. QED BY <1>0, <2>1, <2>2, NameAside
<1>9. CASE Identity!PutInline(t)
  <2>1. /\ Identity!Does(t, "inline")
        /\ UNCHANGED <<principals, accessKeys, memberships, policies, attachments>>
    BY <1>9 DEF Identity!PutInline, Identity!identities
  <2>2. "inline" \in IdentityPlain \ Clearing
    BY DEF IdentityPlain, Clearing
  <2>. QED BY <1>0, <2>1, <2>2, NameAside
<1>. QED BY <1>1, <1>2, <1>3, <1>4, <1>5, <1>6, <1>7, <1>8, <1>9, NameDropPolicy, NameAttach DEF Identity!Permission

LEMMA NameSession ==
  ASSUME SimInv, NameInv, NEW t \in Workers, Identity!Session(t)
  PROVE  NameInv'
<1>0. policies = [n \in Policies |-> policies[n]]
  BY DEF NameInv, NameShape, NamesTyped
<1>1. CASE \E r \in Roles : Identity!AssumeRoleSelect(t, r)
  BY <1>1, NameAskPlain, NotWritten DEF Identity!AssumeRoleSelect
<1>2. CASE Identity!SessionToken(t)
  BY <1>2, NameAskPlain, NotWritten DEF Identity!SessionToken
<1>3. CASE \E s \in sessions : Identity!Revoke(t, s)
  BY <1>3, NameAskPlain, NotWritten DEF Identity!Revoke
<1>4. CASE Identity!AddSession(t) \/ Identity!RevokeDelete(t)
  <2>1. PICK step \in {"session", "revoke"} :
           Identity!Does(t, step) /\ UNCHANGED <<principals, accessKeys, memberships, policies, attachments>>
    BY <1>4 DEF Identity!AddSession, Identity!RevokeDelete, Identity!identities, Identity!permissions
  <2>2. step \in IdentityPlain \ Clearing
    BY DEF IdentityPlain, Clearing
  <2>. QED BY <1>0, <2>1, <2>2, NameAside
<1>. QED BY <1>1, <1>2, <1>3, <1>4 DEF Identity!Session

(* A simulation touches nothing, and has nothing to write.                 *)
LEMMA NameMute ==
  ASSUME NEW s, Collecting(s), {"todo", "touches"} \subseteq DOMAIN s,
         s.todo \in {SimInline, SimAttached, SimDocuments, SimAnswer}
  PROVE  NameLocal(s) /\ \A x : ~Joining(s, x) /\ ~Attaching(s, x) /\ \A step : ~Owes(s, x, step)
<1>1. \A step : ~Pending(s, step)
  BY DEF Pending
<1>2. ASSUME NEW i \in 1 .. Len(s.todo), s.todo[i] \in {"drop", "drop policy"} PROVE FALSE
  <2>1. s.todo \in Seq(SimSteps)
    <3>0. /\ "inline policies" \in SimSteps /\ "attached" \in SimSteps /\ "documents" \in SimSteps
          /\ "answer" \in SimSteps
      BY DEF SimSteps
    <3>1. SimInline \in Seq(SimSteps)
      <4>1. \A S : \A a, b, c, d \in S : <<a, b, c, d>> \in Seq(S)
        OBVIOUS
      <4>. QED BY <3>0, <4>1 DEF SimInline
    <3>3. SimAttached \in Seq(SimSteps)
      <4>1. \A S : \A a, b, c \in S : <<a, b, c>> \in Seq(S)
        OBVIOUS
      <4>. QED BY <3>0, <4>1 DEF SimAttached
    <3>2. SimDocuments \in Seq(SimSteps) /\ SimAnswer \in Seq(SimSteps)
      BY DEF SimDocuments, SimAnswer, SimSteps
    <3>. QED BY <3>1, <3>2, <3>3
  <2>2. s.todo[i] \in SimSteps
    BY <2>1
  <2>. QED BY <1>2, <2>2 DEF SimSteps
<1>. QED BY <1>1, <1>2 DEF NameLocal, Joining, Attaching, Owes

(* A statement of a simulation, which writes nothing.                      *)
LEMMA NameSimulates ==
  ASSUME SimInv, NameInv, SimInv', NEW t \in Workers, NEW r, Goes(t, r), r.todo # <<>>, r.touches \subseteq local[t].touches,
         Collecting(local[t]), Collecting(r),
         UNCHANGED <<principals, accessKeys, memberships, policies, attachments>>
  PROVE  NameInv'
<1>1. Threads' /\ Apart' /\ Only(t, r) /\ disturbed' = disturbed
  BY GoesOnly, GoesApart DEF NameInv, NameShape, Goes
<1>2. SimLocal(r) /\ SimLocal(local[t])
  BY <1>1 DEF SimInv, Only
<1>3. NameLocal(r) /\ \A x : ~Joining(r, x) /\ ~Attaching(r, x) /\ \A step : ~Owes(r, x, step)
  BY <1>2, NameMute DEF SimLocal
<1>4. \A x, step : ~Owes(local[t], x, step)
  BY <1>2, NameMute DEF SimLocal
<1>5. NameShape'
  BY <1>1, <1>3 DEF NameInv, NameShape, Only
<1>6. ASSUME NEW x \in Identity!Principals, x \notin disturbed'
      PROVE  Left(x, principals', accessKeys', memberships', local')
  <2>1. Left(x, principals, accessKeys, memberships, local)
    BY <1>1, <1>6 DEF NameInv
  <2>. QED BY <1>1, <1>3, <1>4, <2>1, LeftStep
<1>7. ASSUME NEW n \in Policies, n \notin disturbed'
      PROVE  Loose(n, policies', attachments', local')
  <2>1. Loose(n, policies, attachments, local)
    BY <1>1, <1>7 DEF NameInv
  <2>. QED BY <1>1, <1>3, <1>4, <2>1, LooseStep
<1>. QED BY <1>5, <1>6, <1>7 DEF NameInv

LEMMA NameAnswers ==
  ASSUME SimInv, NameInv, NEW t \in Workers, Only(t, Idle), Threads', Apart', disturbed' = disturbed, Collecting(local[t]),
         UNCHANGED <<principals, accessKeys, memberships, policies, attachments>>
  PROVE  NameInv'
<1>3. NameLocal(Idle) /\ \A x : ~Joining(Idle, x) /\ ~Attaching(Idle, x)
  BY NameIdle, PendingIdle DEF Joining, Attaching
<1>4. \A x, step : ~Owes(local[t], x, step)
  BY DEF Owes, Pending
<1>5. NameShape'
  BY <1>3 DEF NameInv, NameShape, Only
<1>6. ASSUME NEW x \in Identity!Principals, x \notin disturbed'
      PROVE  Left(x, principals', accessKeys', memberships', local')
  <2>1. Left(x, principals, accessKeys, memberships, local)
    BY <1>6 DEF NameInv
  <2>. QED BY <1>3, <1>4, <2>1, LeftStep
<1>7. ASSUME NEW n \in Policies, n \notin disturbed'
      PROVE  Loose(n, policies', attachments', local')
  <2>1. Loose(n, policies, attachments, local)
    BY <1>7 DEF NameInv
  <2>. QED BY <1>3, <1>4, <2>1, LooseStep
<1>. QED BY <1>5, <1>6, <1>7 DEF NameInv

LEMMA NameSimulation ==
  ASSUME SimInv, NameInv, SimInv', NEW t \in Workers, Identity!Simulation(t)
  PROVE  NameInv'
<1>0. ASSUME UNCHANGED Identity!tables
      PROVE  UNCHANGED <<principals, accessKeys, memberships, policies, attachments>>
  BY <1>0 DEF Identity!tables, Identity!identities, Identity!permissions
<1>1. CASE \E x \in Identity!Principals : Identity!Simulate(t, x)
  <2>1. PICK x \in Identity!Principals : Identity!Simulate(t, x)
    BY <1>1
  <2>. PICK q : q = [simulated |-> x]
    OBVIOUS
  <2>. PICK s : s = Identity!On({}, SimInline, q)
    OBVIOUS
  <2>2. Identity!Ask(t, s)
    BY <2>1 DEF Identity!Simulate, SimInline
  <2>3. DOMAIN q = {"simulated"}
    OBVIOUS
  <2>4. s.todo = SimInline /\ DOMAIN s = {"todo", "touches", "simulated"}
    BY <2>3 DEF Identity!On, Identity!Also
  <2>5. NameLocal(s) /\ \A y : ~Joining(s, y) /\ ~Attaching(s, y)
    BY <2>4, NameMute DEF Collecting
  <2>. QED BY <2>2, <2>5, NameAsk
<1>2. CASE Identity!SimulateInline(t) \/ Identity!SimulateAttached(t)
  <2>. PICK s : s = local[t]
    OBVIOUS
  <2>1. PICK q \in {[docs |-> {inline[s.simulated]} \ {NoDocument}],
                    [names |-> {n \in Policies : <<s.simulated, n>> \in attachments}]} :
          Identity!Continue(t, Identity!Also(Rest(s), q))
    BY <1>2 DEF Identity!SimulateInline, Identity!SimulateAttached, Rest
  <2>2. UNCHANGED Identity!tables /\ \E step \in {"inline policies", "attached"} : Identity!At(t, step)
    BY <1>2 DEF Identity!SimulateInline, Identity!SimulateAttached
  <2>. PICK r : r = Identity!Also(Rest(s), q)
    OBVIOUS
  <2>3. SimLocal(s) /\ Collecting(s) /\ (s.todo = SimInline \/ s.todo = SimAttached)
    BY <2>2, SimAt DEF SimSteps
  <2>4. /\ DOMAIN Rest(s) = DOMAIN s /\ Rest(s).todo = Tail(s.todo) /\ Rest(s).touches = s.touches
        /\ {"todo", "touches", "simulated"} \subseteq DOMAIN s
    BY <2>3, RestFields DEF SimLocal, Collecting
  <2>5. r.todo = Tail(s.todo) /\ r.touches = s.touches /\ "simulated" \in DOMAIN r
    BY <2>4 DEF Identity!Also
  <2>6. r.todo # <<>> /\ Collecting(r) /\ Goes(t, r)
    BY <2>1, <2>3, <2>5, SimTodos, IdentityThreads DEF Collecting
  <2>. QED BY <1>0, <2>2, <2>3, <2>5, <2>6, NameSimulates
<1>3. CASE Identity!SimulateDocument(t)
  <2>. PICK s : s = local[t]
    OBVIOUS
  <2>1. /\ Identity!At(t, "documents") /\ UNCHANGED Identity!tables
        /\ \/ Identity!Advance(t)
           \/ \E n \in s.names : Identity!Continue(t, [s EXCEPT !.names = @ \ {n},
                                                       !.docs = @ \cup ({policies[n]} \ {NoDocument})])
    BY <1>3 DEF Identity!SimulateDocument
  <2>2. SimLocal(s) /\ Collecting(s) /\ s.todo = SimDocuments /\ {"todo", "touches", "simulated"} \subseteq DOMAIN s
    BY <2>1, SimAt DEF SimSteps, SimLocal, Collecting
  <2>3. PICK r : Goes(t, r) /\ r.touches = s.touches /\ "simulated" \in DOMAIN r /\ r.todo \in {SimDocuments, SimAnswer}
    <3>1. CASE Identity!Advance(t)
      <4>1. Goes(t, Rest(s))
        BY <3>1, IdentityThreads
      <4>2. DOMAIN Rest(s) = DOMAIN s /\ Rest(s).todo = Tail(s.todo) /\ Rest(s).touches = s.touches
        BY <2>2, RestFields
      <4>. QED BY <2>2, <4>1, <4>2, SimTodos
    <3>2. CASE \E n \in s.names : Identity!Continue(t, [s EXCEPT !.names = @ \ {n},
                                                        !.docs = @ \cup ({policies[n]} \ {NoDocument})])
      <4>1. PICK n \in s.names : Identity!Continue(t, [s EXCEPT !.names = @ \ {n},
                                                       !.docs = @ \cup ({policies[n]} \ {NoDocument})])
        BY <3>2
      <4>. PICK r : r = [s EXCEPT !.names = @ \ {n}, !.docs = @ \cup ({policies[n]} \ {NoDocument})]
        OBVIOUS
      <4>2. DOMAIN r = DOMAIN s /\ r.todo = s.todo /\ r.touches = s.touches
        BY <2>2
      <4>. QED BY <2>2, <4>1, <4>2, IdentityThreads
    <3>. QED BY <2>1, <3>1, <3>2
  <2>4. r.todo # <<>> /\ Collecting(r)
    BY <2>3, SimTodos DEF Collecting
  <2>. QED BY <1>0, <2>1, <2>2, <2>3, <2>4, NameSimulates
<1>4. CASE Identity!SimulateAnswer(t)
  <2>1. Goes(t, Rest(local[t])) /\ Identity!At(t, "answer") /\ UNCHANGED Identity!tables
    BY <1>4, IdentityThreads DEF Identity!SimulateAnswer, Identity!Does
  <2>2. local[t].todo = SimAnswer /\ {"todo", "touches"} \subseteq DOMAIN local[t] /\ Collecting(local[t])
    BY <2>1, SimAt DEF SimSteps, SimLocal
  <2>3. Rest(local[t]).todo = <<>> /\ Rest(local[t]).touches = local[t].touches
    BY <2>2, RestFields, SimTodos
  <2>4. Threads' /\ Only(t, Idle) /\ Apart' /\ disturbed' = disturbed
    BY <2>1, <2>3, GoesOnly, GoesApart DEF NameInv, NameShape, Goes
  <2>. QED BY <1>0, <2>1, <2>2, <2>4, NameAnswers
<1>. QED BY <1>1, <1>2, <1>3, <1>4 DEF Identity!Simulation

LEMMA NameBreaks ==
  ASSUME NameInv, Breaks, UNCHANGED <<principals, accessKeys, memberships, policies, attachments>>
  PROVE  NameInv'
<1>1. Threads' /\ Apart' /\ disturbed \subseteq disturbed'
  BY BreaksThreads, BreaksApart DEF Breaks, NameInv, NameShape
<1>2. \A u \in Workers : \/ local'[u] = local[u]
                         \/ local'[u] = Idle /\ local[u].touches \subseteq disturbed'
  BY DEF Breaks
<1>3. \A u \in Workers : NameLocal(local'[u])
  BY <1>2, NameIdle DEF NameInv, NameShape
<1>4. NameShape'
  BY <1>1, <1>3 DEF NameInv, NameShape
<1>5. \A x : \A u \in Workers : (Joining(local'[u], x) => Joining(local[u], x)) /\ (Attaching(local'[u], x) => Attaching(local[u], x))
  BY <1>2, PendingIdle DEF Joining, Attaching
<1>6. ASSUME NEW x, x \notin disturbed', NEW step \in Clearing, Owed(local, x, step) PROVE Owed(local', x, step)
  <2>1. PICK d \in Workers : Owes(local[d], x, step)
    BY <1>6 DEF Owed
  <2>2. x \in local[d].touches
    BY <1>6, <2>1 DEF Owes, NameInv, NameShape, NameLocal
  <2>3. local'[d] = local[d]
    BY <1>2, <1>6, <2>2
  <2>. QED BY <2>1, <2>3 DEF Owed
<1>7. "drop keys" \in Clearing /\ "drop memberships" \in Clearing /\ "drop attachments" \in Clearing
  BY DEF Clearing
<1>8. ASSUME NEW x \in Identity!Principals, x \notin disturbed'
      PROVE  Left(x, principals', accessKeys', memberships', local')
  <2>1. Left(x, principals, accessKeys, memberships, local)
    BY <1>1, <1>8 DEF NameInv
  <2>. QED BY <1>5, <1>6, <1>7, <1>8, <2>1 DEF Left
<1>9. ASSUME NEW n \in Policies, n \notin disturbed'
      PROVE  Loose(n, policies', attachments', local')
  <2>1. Loose(n, policies, attachments, local)
    BY <1>1, <1>9 DEF NameInv
  <2>. QED BY <1>5, <1>6, <1>7, <1>9, <2>1 DEF Loose
<1>. QED BY <1>4, <1>8, <1>9 DEF NameInv

LEMMA NameNext ==
  ASSUME SimInv, NameInv, [Identity!Next]_(Identity!vars)
  PROVE  SimInv' /\ NameInv'
<1>0. SimInv'
  BY SimNext
<1>1. CASE UNCHANGED Identity!vars
  <2>1. UNCHANGED <<local, begun, disturbed, principals, accessKeys, memberships, policies, attachments>>
    BY <1>1 DEF Identity!vars, Identity!requests, Identity!iamvars, Identity!tables, Identity!identities, Identity!permissions
  <2>2. NameShape'
    BY <2>1 DEF NameInv, NameShape, Threads, Apart
  <2>. QED BY <1>0, <2>1, <2>2 DEF NameInv
<1>2. CASE \E t \in Workers : Identity!Identity(t) \/ Identity!Permission(t) \/ Identity!Session(t)
  BY <1>0, <1>2, NameIdentity, NamePermission, NameSession
<1>3. CASE \E t \in Workers : Identity!Simulation(t)
  BY <1>0, <1>3, NameSimulation
<1>4. CASE (Identity!Crash \/ \E t \in Workers : Identity!Fails(t)) /\ UNCHANGED Identity!tables
  <2>1. Breaks
    BY <1>4, IdentityThreads DEF SimInv
  <2>2. UNCHANGED <<principals, accessKeys, memberships, policies, attachments>>
    BY <1>4 DEF Identity!tables, Identity!identities, Identity!permissions
  <2>. QED BY <1>0, <2>1, <2>2, NameBreaks
<1>. QED BY <1>1, <1>2, <1>3, <1>4 DEF Identity!Next

LEMMA NameInit ==
  ASSUME InitRequests, Identity!InitTables
  PROVE  NameInv
<1>1. \A t \in Workers : local[t] = Idle /\ Idle.touches = {}
  BY DEF InitRequests, Idle
<1>2. Threads /\ Apart
  BY <1>1 DEF InitRequests, Threads, Apart
<1>3. /\ principals \in {{}, Identity!Principals}
      /\ accessKeys = [k \in Identity!Ids |-> NoUser]
      /\ memberships \in {{}, (Users \X Groups) \cap (principals \X principals)}
      /\ policies \in [Policies -> Documents \cup {NoDocument}]
      /\ attachments \in {{}, principals \X {n \in Policies : policies[n] # NoDocument}}
  BY DEF Identity!InitTables
<1>4. /\ accessKeys = [k \in Identity!Ids |-> accessKeys[k]] /\ \A k \in Identity!Ids : accessKeys[k] = NoUser
  BY <1>3
<1>5. \A m \in memberships : m \in Users \X Groups /\ m[1] \in principals /\ m[2] \in principals
  BY <1>3
<1>6. \A a \in attachments : a \in Identity!Principals \X Policies /\ policies[a[2]] # NoDocument
  BY <1>3
<1>7. policies = [n \in Policies |-> policies[n]]
  BY <1>3
<1>8. NamesTyped(accessKeys, memberships, policies, attachments)
  BY <1>4, <1>5, <1>6, <1>7 DEF NamesTyped
<1>9. NameShape
  BY <1>1, <1>2, <1>8, NameIdle DEF NameShape
<1>10. \A x : ~Joining(Idle, x) /\ ~Attaching(Idle, x)
  BY PendingIdle DEF Joining, Attaching
<1>11. \A x : x \notin principals => ~InKeys(x, accessKeys) /\ ~InMembers(x, memberships)
  BY <1>4, <1>5 DEF InKeys, InMembers
<1>12. \A n : policies[n] = NoDocument => ~InAttached(n, attachments)
  BY <1>6 DEF InAttached
<1>. QED BY <1>1, <1>9, <1>10, <1>11, <1>12 DEF NameInv, Left, Loose

(* The policies of a principal, which the request that drops it empties    *)
(* while it touches him.                                                   *)
Strips(s, x, step) == Owes(s, x, step) /\ "name" \in DOMAIN s /\ x \in s.touches
Wiping(L, x, step) == \E d \in Workers : Strips(L[d], x, step)

HasAttached(x, A) == \E n \in Policies : <<x, n>> \in A

Remaining(x, R, U, I, A, L) ==
    x \notin R /\ x \notin U =>
      /\ I[x] # NoDocument => Wiping(L, x, "drop inline")
      /\ HasAttached(x, A) => Wiping(L, x, "drop attachments")

RemainInv ==
    /\ inline = [x \in Identity!Principals |-> inline[x]]
    /\ \A x \in Identity!Principals :
          x \notin disturbed => Remaining(x, principals, unasked, inline, attachments, local)

(* A step of the dropping of x has been done, or is still to do.           *)
Wiped(x, step) ==
    \/ Wiping(local', x, step)
    \/ step = "drop inline" /\ inline'[x] = NoDocument
    \/ step = "drop attachments" /\ ~HasAttached(x, attachments')

LEMMA RemainKeeps ==
  ASSUME RemainInv, Identity!Note, disturbed \subseteq disturbed',
         inline' = [x \in Identity!Principals |-> inline'[x]],
         \A x \in Identity!Principals : x \notin disturbed' /\ x \in principals /\ x \notin principals' =>
            Wiped(x, "drop inline") /\ Wiped(x, "drop attachments"),
         \A x \in Identity!Principals : \A step \in {"drop inline", "drop attachments"} :
            x \notin disturbed' /\ Wiping(local, x, step) => Wiped(x, step)
  PROVE  RemainInv'
<1>. SUFFICES ASSUME NEW x \in Identity!Principals, x \notin disturbed', x \notin principals', x \notin unasked'
              PROVE  /\ inline'[x] # NoDocument => Wiping(local', x, "drop inline")
                     /\ HasAttached(x, attachments') => Wiping(local', x, "drop attachments")
  BY DEF RemainInv, Remaining
<1>0. "drop inline" # "drop attachments"
  OBVIOUS
<1>1. CASE x \in principals
  BY <1>0, <1>1 DEF Wiped
<1>2. CASE x \notin principals
  <2>1. x \notin unasked
    BY <1>2 DEF Identity!Note
  <2>2. inline'[x] \in {inline[x], NoDocument} /\ ~\E n \in Policies : <<x, n>> \in attachments' \ attachments
    BY <1>2 DEF Identity!Note
  <2>3. HasAttached(x, attachments') => HasAttached(x, attachments)
    BY <2>2 DEF HasAttached
  <2>4. Remaining(x, principals, unasked, inline, attachments, local)
    BY DEF RemainInv
  <2>. QED BY <1>0, <1>2, <2>1, <2>2, <2>3, <2>4 DEF Remaining, Wiped
<1>. QED BY <1>1, <1>2

(* A step of a thread whose request has nothing to empty.                  *)
LEMMA RemainAside ==
  ASSUME RemainInv, Identity!Note, disturbed \subseteq disturbed', NEW t \in Workers, NEW r, Only(t, r),
         \A x, step : ~Owes(local[t], x, step), UNCHANGED <<principals, inline, attachments>>
  PROVE  RemainInv'
<1>1. ASSUME NEW x, NEW step, Wiping(local, x, step) PROVE Wiped(x, step)
  <2>1. PICK d \in Workers : Strips(local[d], x, step)
    BY <1>1 DEF Wiping
  <2>2. local'[d] = local[d]
    BY <2>1 DEF Only, Strips
  <2>. QED BY <2>1, <2>2 DEF Wiped, Wiping
<1>2. inline' = [x \in Identity!Principals |-> inline'[x]]
  BY DEF RemainInv
<1>. QED BY <1>1, <1>2, RemainKeeps

(* What the statements do to the principals and their policies.            *)
Wipes(t, step) ==
    /\ inline' = [x \in Identity!Principals |-> inline'[x]]
    /\ step = "drop inline" => inline'[local[t].name] = NoDocument \/ local[t].name \notin Identity!Principals
    /\ step = "drop attachments" => ~HasAttached(local[t].name, attachments')
    /\ step = "drop" => principals' = principals \ {local[t].name}
    /\ step # "drop" => principals \subseteq principals'

Acts(t) == \E step \in IdentityPlain : Identity!Does(t, step) /\ Wipes(t, step)
Asks(t) == \E s : Identity!Ask(t, s)

LEMMA WipesNothing ==
  ASSUME NameInv, RemainInv, NEW t \in Workers, NEW step, step \notin {"drop", "drop inline", "drop attachments"},
         principals \subseteq principals', UNCHANGED inline
  PROVE  Wipes(t, step)
  BY DEF Wipes, RemainInv

LEMMA RemainIdentity ==
  ASSUME SimInv, NameInv, RemainInv, NEW t \in Workers, Identity!Identity(t)
  PROVE  Asks(t) \/ Acts(t)
<1>1. CASE \E x \in Identity!Principals : Identity!CreateCheck(t, x)
  BY <1>1 DEF Identity!CreateCheck, Asks
<1>2. CASE \E x \in Identity!Principals : Identity!DeleteRequire(t, x)
  BY <1>2 DEF Identity!DeleteRequire, Asks
<1>3. CASE \E u \in Users : Identity!CreateKeyRequire(t, u)
  BY <1>3 DEF Identity!CreateKeyRequire, Asks
<1>4. CASE \E u \in Users, g \in Groups : Identity!AddCheck(t, u, g) \/ Identity!Remove(t, u, g)
  BY <1>4 DEF Identity!AddCheck, Identity!Remove, Asks
<1>5. CASE \E k \in Identity!Ids : Identity!DeleteKeyRequire(t, k)
  BY <1>5 DEF Identity!DeleteKeyRequire, Asks
<1>6. CASE Identity!Create(t) \/ Identity!SetKey(t) \/ Identity!Add(t) \/ Identity!RemoveDelete(t)
           \/ Identity!DropKeys(t) \/ Identity!DropMemberships(t)
  <2>1. PICK step \in {"create", "key", "add", "remove", "drop keys", "drop memberships"} :
           Identity!Does(t, step) /\ principals \subseteq principals' /\ UNCHANGED inline
    BY <1>6 DEF Identity!Create, Identity!SetKey, Identity!Add, Identity!RemoveDelete, Identity!DropKeys,
                Identity!DropMemberships, Identity!permissions
  <2>2. step \in IdentityPlain /\ step \notin {"drop", "drop inline", "drop attachments"}
    BY DEF IdentityPlain
  <2>. QED BY <2>1, <2>2, WipesNothing DEF Acts
<1>7. CASE Identity!Drop(t)
  <2>1. Identity!Does(t, "drop") /\ principals' = principals \ {local[t].name} /\ UNCHANGED inline
    BY <1>7 DEF Identity!Drop, Identity!permissions
  <2>2. "drop" \in IdentityPlain /\ "drop" # "drop inline" /\ "drop" # "drop attachments"
    BY DEF IdentityPlain
  <2>3. Wipes(t, "drop")
    BY <2>1, <2>2 DEF Wipes, RemainInv
  <2>. QED BY <2>1, <2>2, <2>3 DEF Acts
<1>8. CASE Identity!DropInline(t)
  <2>. PICK x : x = local[t].name
    OBVIOUS
  <2>1. /\ Identity!Does(t, "drop inline") /\ principals' = principals
        /\ inline' = [inline EXCEPT ![x] = NoDocument]
    BY <1>8 DEF Identity!DropInline, Identity!identities
  <2>2. "drop inline" \in IdentityPlain /\ "drop inline" # "drop" /\ "drop inline" # "drop attachments"
    BY DEF IdentityPlain
  <2>3. inline = [y \in Identity!Principals |-> inline[y]]
    BY DEF RemainInv
  <2>4. /\ inline' = [y \in Identity!Principals |-> inline'[y]]
        /\ x \in Identity!Principals => inline'[x] = NoDocument
    BY <2>1, <2>3
  <2>5. Wipes(t, "drop inline")
    BY <2>1, <2>2, <2>4 DEF Wipes
  <2>. QED BY <2>1, <2>2, <2>5 DEF Acts
<1>9. CASE Identity!DropAttachments(t)
  <2>. PICK x : x = local[t].name
    OBVIOUS
  <2>1. /\ Identity!Does(t, "drop attachments") /\ principals' = principals /\ UNCHANGED inline
        /\ attachments' = {a \in attachments : x \notin {a[1], a[2]}}
    BY <1>9 DEF Identity!DropAttachments, Identity!identities
  <2>2. /\ "drop attachments" \in IdentityPlain /\ "drop attachments" # "drop"
        /\ "drop attachments" # "drop inline"
    BY DEF IdentityPlain
  <2>3. ~HasAttached(x, attachments')
    BY <2>1 DEF HasAttached
  <2>5. Wipes(t, "drop attachments")
    BY <2>1, <2>2, <2>3 DEF Wipes, RemainInv
  <2>. QED BY <2>1, <2>2, <2>5 DEF Acts
<1>. QED BY <1>1, <1>2, <1>3, <1>4, <1>5, <1>6, <1>7, <1>8, <1>9 DEF Identity!Identity

LEMMA RemainPermission ==
  ASSUME SimInv, NameInv, RemainInv, NEW t \in Workers, Identity!Permission(t)
  PROVE  Asks(t) \/ Acts(t)
<1>1. CASE \E n \in Policies : Identity!DeletePolicyRequire(t, n)
  BY <1>1 DEF Identity!DeletePolicyRequire, Asks
<1>2. CASE \E n \in Policies, d \in Documents : Identity!CreatePolicyCheck(t, n, d)
  BY <1>2 DEF Identity!CreatePolicyCheck, Asks
<1>3. CASE \E n \in Policies, x \in Identity!Principals : Identity!AttachCheck(t, x, n) \/ Identity!Detach(t, x, n)
  BY <1>3 DEF Identity!AttachCheck, Identity!Detach, Asks
<1>4. CASE \E x \in Identity!Principals : Identity!DeleteInline(t, x)
  BY <1>4 DEF Identity!DeleteInline, Asks
<1>5. CASE \E x \in Identity!Principals, d \in Documents : Identity!PutInlineSelect(t, x, d)
  BY <1>5 DEF Identity!PutInlineSelect, Asks
<1>6. CASE Identity!CreatePolicy(t) \/ Identity!DropPolicy(t) \/ Identity!Attach(t) \/ Identity!DetachDelete(t)
  <2>1. PICK step \in {"policy", "drop policy", "attach", "detach"} :
           Identity!Does(t, step) /\ principals' = principals /\ UNCHANGED inline
    BY <1>6 DEF Identity!CreatePolicy, Identity!DropPolicy, Identity!Attach, Identity!DetachDelete,
                Identity!identities
  <2>2. step \in IdentityPlain /\ step \notin {"drop", "drop inline", "drop attachments"}
    BY DEF IdentityPlain
  <2>. QED BY <2>1, <2>2, WipesNothing DEF Acts
<1>7. CASE Identity!PutInline(t)
  <2>. PICK s : s = local[t]
    OBVIOUS
  <2>1. /\ Identity!Does(t, "inline") /\ principals' = principals
        /\ inline' = [inline EXCEPT ![s.name] = IF (@ # NoDocument) = s.found THEN s.document ELSE @]
    BY <1>7 DEF Identity!PutInline, Identity!identities
  <2>2. "inline" \in IdentityPlain /\ "inline" # "drop" /\ "inline" # "drop inline" /\ "inline" # "drop attachments"
    BY DEF IdentityPlain
  <2>3. inline = [y \in Identity!Principals |-> inline[y]]
    BY DEF RemainInv
  <2>4. inline' = [y \in Identity!Principals |-> inline'[y]]
    BY <2>1, <2>3
  <2>5. Wipes(t, "inline")
    BY <2>1, <2>2, <2>4 DEF Wipes
  <2>. QED BY <2>1, <2>2, <2>5 DEF Acts
<1>. QED BY <1>1, <1>2, <1>3, <1>4, <1>5, <1>6, <1>7 DEF Identity!Permission

LEMMA RemainSession ==
  ASSUME SimInv, NameInv, RemainInv, NEW t \in Workers, Identity!Session(t)
  PROVE  Asks(t) \/ Acts(t)
<1>1. CASE \E r \in Roles : Identity!AssumeRoleSelect(t, r)
  BY <1>1 DEF Identity!AssumeRoleSelect, Asks
<1>2. CASE Identity!SessionToken(t)
  BY <1>2 DEF Identity!SessionToken, Asks
<1>3. CASE \E s \in sessions : Identity!Revoke(t, s)
  BY <1>3 DEF Identity!Revoke, Asks
<1>4. CASE Identity!AddSession(t) \/ Identity!RevokeDelete(t)
  <2>1. PICK step \in {"session", "revoke"} : Identity!Does(t, step) /\ principals' = principals /\ UNCHANGED inline
    BY <1>4 DEF Identity!AddSession, Identity!RevokeDelete, Identity!identities, Identity!permissions
  <2>2. step \in IdentityPlain /\ step \notin {"drop", "drop inline", "drop attachments"}
    BY DEF IdentityPlain
  <2>. QED BY <2>1, <2>2, WipesNothing DEF Acts
<1>. QED BY <1>1, <1>2, <1>3, <1>4 DEF Identity!Session

LEMMA RemainAsks ==
  ASSUME SimInv, NameInv, RemainInv, Identity!Note, NEW t \in Workers, Asks(t)
  PROVE  RemainInv'
<1>1. PICK s : Begins(t, s) /\ UNCHANGED <<principals, inline, attachments>>
  BY IdentityThreads DEF Asks, Identity!Ask, Identity!tables, Identity!identities, Identity!permissions
<1>2. Only(t, s) /\ disturbed \subseteq disturbed' /\ local[t] = Idle
  BY <1>1, BeginsOnly DEF NameInv, NameShape, Begins
<1>3. \A x, step : ~Owes(local[t], x, step)
  BY <1>2, PendingIdle DEF Owes
<1>. QED BY <1>1, <1>2, <1>3, RemainAside

(* What a request has still to do after its next step.                     *)
LEMMA RemainsPending ==
  ASSUME SimInv, NameInv, NEW t \in Workers, NEW step \in IdentityPlain, Identity!Does(t, step),
         NEW x, NEW other, Strips(local[t], x, other), other # step
  PROVE  Strips(AfterStep(local[t]), x, other)
<1>. PICK s : s = local[t]
  OBVIOUS
<1>. PICK r : r = AfterStep(s)
  OBVIOUS
<1>1. s.todo # <<>> /\ Head(s.todo) = step
  BY DEF Identity!Does, Identity!At
<1>2. SimLocal(s) /\ NameLocal(s) /\ Pending(s, other) /\ ~Collecting(s)
  BY DEF SimInv, NameInv, NameShape, Strips, Owes, Pending
<1>3. s.todo \in Seq(IdentitySteps)
  BY <1>2 DEF SimLocal, IdentitySteps
<1>4. \E i \in 1 .. Len(Tail(s.todo)) : Tail(s.todo)[i] = other
  BY <1>1, <1>2, <1>3, PendingTail DEF Pending
<1>5. Tail(s.todo) # <<>>
  <2>1. Len(<<>>) = 0 /\ 1 .. 0 = {}
    OBVIOUS
  <2>. QED BY <1>4, <2>1
<1>6. r = Rest(s)
  BY <1>5 DEF AfterStep
<1>7. /\ DOMAIN r = DOMAIN s /\ r.todo = Tail(s.todo)
      /\ \A y \in DOMAIN s : y # "todo" => r[y] = s[y]
  <2>1. "todo" \in DOMAIN s
    BY <1>2 DEF NameLocal
  <2>. QED BY <1>6, <2>1, RestFields
<1>8. Pending(r, other)
  BY <1>2, <1>4, <1>7 DEF Pending, Collecting
<1>9. r.name = s.name /\ r.touches = s.touches /\ "name" \in DOMAIN r
  BY <1>2, <1>7 DEF NameLocal, Strips
<1>. QED BY <1>8, <1>9 DEF Strips, Owes

LEMMA RemainActs ==
  ASSUME SimInv, NameInv, NameInv', RemainInv, Identity!Note, NEW t \in Workers, Acts(t)
  PROVE  RemainInv'
<1>1. PICK step \in IdentityPlain : Identity!Does(t, step) /\ Wipes(t, step)
  BY DEF Acts
<1>. PICK s : s = local[t]
  OBVIOUS
<1>. PICK r : r = AfterStep(s)
  OBVIOUS
<1>2. NamesTyped(accessKeys', memberships', policies', attachments')
  BY DEF NameInv, NameShape
<1>3. disturbed' = disturbed /\ Only(t, r) /\ NameLocal(s) /\ Pending(s, step)
  BY <1>1, <1>2, NameDoes
<1>6. ASSUME NEW x, NEW other, Strips(s, x, other), other # step PROVE Wiping(local', x, other)
  <2>1. Strips(r, x, other)
    BY <1>1, <1>6, RemainsPending
  <2>2. local'[t] = r
    BY <1>3 DEF Only
  <2>. QED BY <2>1, <2>2 DEF Wiping
<1>7. ASSUME NEW x \in Identity!Principals, x \in principals, x \notin principals'
      PROVE  Wiped(x, "drop inline") /\ Wiped(x, "drop attachments")
  <2>1. step = "drop" /\ s.name = x
    BY <1>1, <1>7 DEF Wipes
  <2>2. /\ Pending(s, "drop inline") /\ Pending(s, "drop attachments")
        /\ "name" \in DOMAIN s /\ x \in s.touches
    BY <1>3, <2>1 DEF NameLocal, Clearing
  <2>3. Strips(s, x, "drop inline") /\ Strips(s, x, "drop attachments")
    BY <2>1, <2>2 DEF Strips, Owes
  <2>4. step # "drop inline" /\ step # "drop attachments"
    BY <2>1
  <2>. QED BY <1>6, <2>3, <2>4 DEF Wiped
<1>8. ASSUME NEW x \in Identity!Principals, NEW other \in {"drop inline", "drop attachments"}, Wiping(local, x, other)
      PROVE  Wiped(x, other)
  <2>1. PICK d \in Workers : Strips(local[d], x, other)
    BY <1>8 DEF Wiping
  <2>2. CASE d # t
    <3>1. local'[d] = local[d]
      BY <1>3, <2>2 DEF Only
    <3>. QED BY <2>1, <3>1 DEF Wiped, Wiping
  <2>3. CASE d = t /\ other = step
    <3>1. s.name = x
      BY <2>1, <2>3 DEF Strips, Owes
    <3>. QED BY <1>1, <2>3, <3>1 DEF Wipes, Wiped
  <2>4. CASE d = t /\ other # step
    BY <1>6, <2>1, <2>4 DEF Wiped
  <2>. QED BY <2>2, <2>3, <2>4
<1>9. inline' = [x \in Identity!Principals |-> inline'[x]]
  BY <1>1 DEF Wipes
<1>. QED BY <1>3, <1>7, <1>8, <1>9, RemainKeeps

LEMMA RemainSimulation ==
  ASSUME SimInv, NameInv, RemainInv, Identity!Note, NEW t \in Workers, Identity!Simulation(t)
  PROVE  RemainInv'
<1>1. CASE \E x \in Identity!Principals : Identity!Simulate(t, x)
  <2>1. Asks(t)
    BY <1>1 DEF Identity!Simulate, Asks
  <2>. QED BY <2>1, RemainAsks
<1>2. CASE \/ Identity!SimulateInline(t) \/ Identity!SimulateAttached(t)
           \/ Identity!SimulateDocument(t) \/ Identity!SimulateAnswer(t)
  <2>1. \E step \in SimSteps : Identity!At(t, step)
    BY <1>2 DEF Identity!SimulateInline, Identity!SimulateAttached, Identity!SimulateDocument,
                Identity!SimulateAnswer, Identity!Does, SimSteps
  <2>2. \E q : Goes(t, q)
    BY <1>2, IdentityThreads DEF Identity!SimulateInline, Identity!SimulateAttached, Identity!SimulateDocument,
                Identity!SimulateAnswer, Identity!Does
  <2>3. UNCHANGED Identity!tables
    BY <1>2 DEF Identity!SimulateInline, Identity!SimulateAttached, Identity!SimulateDocument,
                Identity!SimulateAnswer
  <2>4. PICK q : Goes(t, q)
    BY <2>2
  <2>5. PICK r : Only(t, r)
    BY <2>4, GoesOnly DEF SimInv
  <2>6. Collecting(local[t])
    BY <2>1, SimAt
  <2>7. \A x, step : ~Owes(local[t], x, step)
    BY <2>6 DEF Owes, Pending
  <2>8. disturbed' = disturbed
    BY <2>4 DEF Goes
  <2>9. UNCHANGED <<principals, inline, attachments>>
    BY <2>3 DEF Identity!tables, Identity!identities, Identity!permissions
  <2>. QED BY <2>5, <2>7, <2>8, <2>9, RemainAside
<1>. QED BY <1>1, <1>2 DEF Identity!Simulation

LEMMA RemainBreaks ==
  ASSUME NameInv, RemainInv, Identity!Note, Breaks, UNCHANGED <<principals, inline, attachments>>
  PROVE  RemainInv'
<1>1. \A u \in Workers : \/ local'[u] = local[u]
                         \/ local'[u] = Idle /\ local[u].touches \subseteq disturbed'
  BY DEF Breaks
<1>2. ASSUME NEW x, NEW step, x \notin disturbed', Wiping(local, x, step) PROVE Wiped(x, step)
  <2>1. PICK d \in Workers : Strips(local[d], x, step)
    BY <1>2 DEF Wiping
  <2>2. local'[d] = local[d]
    BY <1>1, <1>2, <2>1 DEF Strips
  <2>. QED BY <2>1, <2>2 DEF Wiped, Wiping
<1>3. inline' = [x \in Identity!Principals |-> inline'[x]]
  BY DEF RemainInv
<1>4. disturbed \subseteq disturbed'
  BY DEF Breaks
<1>. QED BY <1>2, <1>3, <1>4, RemainKeeps

LEMMA RemainNext ==
  ASSUME SimInv, NameInv, RemainInv, [Identity!Next]_(Identity!vars)
  PROVE  SimInv' /\ NameInv' /\ RemainInv'
<1>0. SimInv' /\ NameInv'
  BY NameNext
<1>1. CASE UNCHANGED Identity!vars
  <2>1. UNCHANGED <<local, disturbed, principals, inline, attachments, unasked>>
    BY <1>1 DEF Identity!vars, Identity!requests, Identity!iamvars, Identity!tables, Identity!identities, Identity!permissions
  <2>. QED BY <1>0, <2>1 DEF RemainInv
<1>2. CASE Identity!Next
  <2>1. Identity!Note
    BY <1>2 DEF Identity!Next
  <2>2. CASE \E t \in Workers : Identity!Identity(t) \/ Identity!Permission(t) \/ Identity!Session(t)
    <3>1. PICK t \in Workers : Identity!Identity(t) \/ Identity!Permission(t) \/ Identity!Session(t)
      BY <2>2
    <3>2. Asks(t) \/ Acts(t)
      BY <3>1, RemainIdentity, RemainPermission, RemainSession
    <3>. QED BY <1>0, <2>1, <3>2, RemainAsks, RemainActs
  <2>3. CASE \E t \in Workers : Identity!Simulation(t)
    BY <1>0, <2>1, <2>3, RemainSimulation
  <2>4. CASE (Identity!Crash \/ \E t \in Workers : Identity!Fails(t)) /\ UNCHANGED Identity!tables
    <3>1. Breaks
      BY <2>4, IdentityThreads DEF SimInv
    <3>2. UNCHANGED <<principals, inline, attachments>>
      BY <2>4 DEF Identity!tables, Identity!identities, Identity!permissions
    <3>. QED BY <1>0, <2>1, <3>1, <3>2, RemainBreaks
  <2>. QED BY <1>2, <2>2, <2>3, <2>4 DEF Identity!Next
<1>. QED BY <1>1, <1>2

LEMMA RemainInit ==
  ASSUME InitRequests, Identity!InitTables
  PROVE  RemainInv
<1>1. /\ principals \in {{}, Identity!Principals}
      /\ inline = [x \in Identity!Principals |-> NoDocument]
      /\ attachments \in {{}, principals \X {n \in Policies : policies[n] # NoDocument}}
  BY DEF Identity!InitTables
<1>2. inline = [x \in Identity!Principals |-> inline[x]] /\ \A x \in Identity!Principals : inline[x] = NoDocument
  BY <1>1
<1>3. \A x : x \notin principals => ~HasAttached(x, attachments)
  <2>1. \A a \in attachments : a[1] \in principals
    BY <1>1
  <2>. QED BY <2>1 DEF HasAttached
<1>. QED BY <1>2, <1>3 DEF RemainInv, Remaining

LEMMA NamesStand == NameInv /\ RemainInv => Identity!NothingDangling
<1> SUFFICES ASSUME NameInv, RemainInv PROVE Identity!NothingDangling
  OBVIOUS
<1>1. ASSUME NEW x, Identity!Quiet(x), NEW step \in Clearing PROVE ~Owed(local, x, step)
  <2>1. SUFFICES ASSUME NEW d \in Workers, Owes(local[d], x, step) PROVE FALSE
    BY DEF Owed
  <2>2. x \in local[d].touches
    BY <2>1 DEF Owes, NameInv, NameShape, NameLocal
  <2>. QED BY <1>1, <2>2 DEF Identity!Quiet
<1>2. "drop keys" \in Clearing /\ "drop memberships" \in Clearing /\ "drop attachments" \in Clearing
  BY DEF Clearing
<1>3. ASSUME NEW x \in Identity!Principals, Identity!Quiet(x), x \notin principals
      PROVE  ~InKeys(x, accessKeys) /\ ~InMembers(x, memberships)
  <2>1. Left(x, principals, accessKeys, memberships, local)
    BY <1>3 DEF NameInv, Identity!Quiet
  <2>. QED BY <1>1, <1>2, <1>3, <2>1 DEF Left
<1>4. ASSUME NEW n \in Policies, Identity!Quiet(n), policies[n] = NoDocument
      PROVE  ~InAttached(n, attachments)
  <2>1. Loose(n, policies, attachments, local)
    BY <1>4 DEF NameInv, Identity!Quiet
  <2>. QED BY <1>1, <1>2, <1>4, <2>1 DEF Loose
<1>5. ASSUME NEW k \in Identity!Ids, accessKeys[k] # NoUser, Identity!Quiet(accessKeys[k])
      PROVE  accessKeys[k] \in principals
  <2>1. accessKeys[k] \in Identity!Principals
    BY <1>5 DEF NameInv, NameShape, NamesTyped, Identity!Principals
  <2>2. InKeys(accessKeys[k], accessKeys)
    BY <1>5 DEF InKeys
  <2>. QED BY <1>3, <1>5, <2>1, <2>2
<1>6. ASSUME NEW m \in memberships, NEW x \in {m[1], m[2]}, Identity!Quiet(x) PROVE x \in principals
  <2>1. x \in Identity!Principals
    BY <1>6 DEF NameInv, NameShape, NamesTyped, Identity!Principals
  <2>2. InMembers(x, memberships)
    BY <1>6 DEF InMembers
  <2>. QED BY <1>3, <1>6, <2>1, <2>2
<1>7. ASSUME NEW a \in attachments, Identity!Quiet(a[2]) PROVE policies[a[2]] # NoDocument
  <2>1. a[2] \in Policies
    BY <1>7 DEF NameInv, NameShape, NamesTyped
  <2>2. InAttached(a[2], attachments)
    BY <1>7 DEF InAttached
  <2>. QED BY <1>4, <1>7, <2>1, <2>2
<1>8. ASSUME NEW x \in Identity!Principals, x \notin principals \cup unasked, Identity!Quiet(x)
      PROVE  inline[x] = NoDocument /\ \A n \in Policies : <<x, n>> \notin attachments
  <2>1. \A step : ~Wiping(local, x, step)
    BY <1>8 DEF Wiping, Strips, Identity!Quiet
  <2>. QED BY <1>8, <2>1 DEF RemainInv, Remaining, HasAttached, Identity!Quiet
<1>. QED BY <1>5, <1>6, <1>7, <1>8 DEF Identity!NothingDangling

-----------------------------------------------------------------------------
(* iam.py:56-63, 127-132, 192-198, 224-229, cognito.py:118-123: unless    *)
(* requests for it overlapped or one broke off, nothing is left that names *)
(* a principal, a policy or a pool that is gone, but the policies given to *)
(* a principal while it was not there.                                     *)
THEOREM NothingIsLeft == Spec => []NothingDangling
<1> DEFINE Inv == /\ service = "iam" => SimInv /\ NameInv /\ RemainInv
                  /\ service = "cognito" => AccountInv
<1>1. Init => Inv
  BY SimInit, NameInit, RemainInit, AccountInit DEF Init
<1>2. Inv /\ [Next]_vars => Inv'
  <2> SUFFICES ASSUME Inv, [Next]_vars PROVE Inv'
    OBVIOUS
  <2>1. service' = "iam" => SimInv' /\ NameInv' /\ RemainInv'
    BY ServiceStep, NameNext, RemainNext
  <2>2. service' = "cognito" => AccountInv'
    BY ServiceStep, AccountNext
  <2>. QED BY <2>1, <2>2
<1>3. Inv => NothingDangling
  BY NamesStand, AccountPools DEF NothingDangling
<1>. QED BY <1>1, <1>2, <1>3, PTL DEF Spec
=============================================================================
