----------------------------- MODULE APIGateway -----------------------------
(***************************************************************************)
(* REST APIs, their resources and the routing of invocations to them,      *)
(* src/openaws/apigateway.py.  A route is its method followed by the       *)
(* segments of its path.  APIs and resources have the number of the        *)
(* request that made them (0: there from the start); neither table has a   *)
(* key but that.  What the integrated function does is left to Lambda.     *)
(***************************************************************************)
EXTENDS Requests

CONSTANTS
    ApiNames,
    Routes,     \* those of resources, some with parameters
    Requested,  \* those of invocations
    Parameter,  \* a segment {...}
    NoRow

Ids == 0 .. MaxRequests

Resource == [api : Ids, route : Routes, set : Ids]

VARIABLES
    apis,       \* table apigw_apis: the name
    resources,  \* table apigw_resources; set: the request that integrated it last
    matching    \* history: resources that matched since an invocation began

agvars == <<apis, resources, matching>>
vars == <<requests, agvars>>

TypeOK ==
    /\ RequestsTypeOK(ApiNames \cup (Ids \X (Workers \cup Routes)))
    /\ apis \in [Ids -> ApiNames \cup {NoRow}]
    /\ resources \in [Ids -> Resource \cup {NoRow}]
    /\ matching \in [Workers -> SUBSET Ids]

-----------------------------------------------------------------------------
Rows(f) == {i \in Ids : f[i] # NoRow}

On(rows, todo, r) == Also([todo |-> todo, touches |-> rows, at |-> begun + 1], r)

Ask(t, s) == Begin(t, s) /\ UNCHANGED <<apis, resources>>

(* create_rest_api: the name is looked for, and not a key. *)
CreateApiCheck(t, n) ==
    (\A a \in Ids : apis[a] # n) /\ Ask(t, On({n}, <<"create api">>, [name |-> n]))

CreateApi(t) ==
    /\ Does(t, "create api")
    /\ apis' = [apis EXCEPT ![local[t].at] = local[t].name]
    /\ UNCHANGED resources

DeleteApiRequire(t, a) ==
    apis[a] # NoRow /\ Ask(t, On({a} \X Workers, <<"drop resources", "drop api">>, [api |-> a]))

DropResources(t) ==
    /\ Does(t, "drop resources")
    /\ resources' = [i \in Ids |-> IF i \in Rows(resources) /\ resources[i].api = local[t].api
                                   THEN NoRow ELSE resources[i]]
    /\ UNCHANGED apis

DropApi(t) ==
    /\ Does(t, "drop api")
    /\ apis' = [apis EXCEPT ![local[t].api] = NoRow]
    /\ UNCHANGED resources

(* create_resource looks for the API, then for the route: an UPDATE of the *)
(* row it found, or an INSERT.                                             *)
CreateResourceRequire(t, a, r) ==
    /\ apis[a] # NoRow
    /\ Ask(t, On({<<a, t>>, <<a, r>>}, <<"find", "resource">>, [api |-> a, route |-> r, row |-> begun + 1]))

OnRoute(a, r) == {i \in Rows(resources) : resources[i].api = a /\ resources[i].route = r}

CreateResourceSelect(t) ==
    LET s == local[t]
        found == OnRoute(s.api, s.route)
    IN  /\ At(t, "find")
        /\ \E i \in IF found = {} THEN {s.at} ELSE found :
              Continue(t, [s EXCEPT !.todo = Tail(@), !.row = i])
        /\ UNCHANGED <<apis, resources>>

CreateResource(t) ==
    LET s == local[t] IN
    /\ Does(t, "resource")
    /\ resources' = [resources EXCEPT ![s.row] =
                       IF s.row = s.at THEN [api |-> s.api, route |-> s.route, set |-> s.at]
                       ELSE IF @ = NoRow THEN @ ELSE [@ EXCEPT !.set = s.at]]
    /\ UNCHANGED apis

DeleteResourceSelect(t, i) ==
    resources[i] # NoRow /\ Ask(t, On({}, <<"drop resource">>, [row |-> i]))

DeleteResource(t) ==
    /\ Does(t, "drop resource")
    /\ resources' = [resources EXCEPT ![local[t].row] = NoRow]
    /\ UNCHANGED apis

-----------------------------------------------------------------------------
(* invoke: _require_api, the exact route, then _match_path_template.       *)

MatchesTemplate(template, r) ==
    /\ Len(template) = Len(r)
    /\ \A k \in 1 .. Len(r) : template[k] \in {Parameter, r[k]}

Invoke(t, a, r) ==
    /\ apis[a] # NoRow
    /\ Ask(t, On({}, <<"exact", "answer">>, [invoked |-> <<a, r>>, found |-> <<>>]))

Chosen(t, rows) ==
    LET s == local[t] IN
    \E i \in rows : Continue(t, [s EXCEPT !.todo = <<"answer">>, !.found = resources[i].route])

InvokeExact(t) ==
    LET s == local[t]
        exact == OnRoute(s.invoked[1], s.invoked[2])
    IN  /\ At(t, "exact")
        /\ \/ Chosen(t, exact)
           \/ exact = {} /\ Continue(t, [s EXCEPT !.todo = <<"template", "answer">>])
        /\ UNCHANGED <<apis, resources>>

(* Mutant: the first template decides. *)
InvokeTemplateFirst(t) ==
    LET s == local[t]
        mine == {i \in Rows(resources) : resources[i].api = s.invoked[1]}
    IN  /\ At(t, "template")
        /\ \/ Chosen(t, {i \in mine : MatchesTemplate(resources[i].route, s.invoked[2])})
           \/ (\E i \in mine : ~MatchesTemplate(resources[i].route, s.invoked[2])) /\ Advance(t)
           \/ mine = {} /\ Advance(t)
        /\ UNCHANGED <<apis, resources>>

(* The first of those that match, in no order that was asked for.          *)
InvokeTemplate(t) ==
    LET s == local[t]
        match == {i \in Rows(resources) : /\ resources[i].api = s.invoked[1]
                                          /\ MatchesTemplate(resources[i].route, s.invoked[2])}
    IN  /\ At(t, "template")
        /\ Chosen(t, match) \/ (match = {} /\ Advance(t))
        /\ UNCHANGED <<apis, resources>>

InvokeAnswer(t) == Does(t, "answer") /\ UNCHANGED <<apis, resources>>

-----------------------------------------------------------------------------
Invoking(t) == "invoked" \in DOMAIN local[t]

RoutesTo(t) == {i \in Rows(resources) : /\ resources[i].api = local[t].invoked[1]
                                        /\ MatchesTemplate(resources[i].route, local[t].invoked[2])}

(* Bookkeeping of every step: the resources that matched all along.        *)
Watch ==
    matching' = [t \in Workers |->
        IF ~Invoking(t)' THEN {} ELSE (IF Invoking(t) THEN matching[t] ELSE Ids) \cap RoutesTo(t)']

(* A data directory of earlier requests: an API with one resource or none. *)
InitTables ==
    /\ apis \in [Ids -> {NoRow}] \cup {[a \in Ids |-> IF a = 0 THEN n ELSE NoRow] : n \in ApiNames}
    /\ resources \in [Ids -> {NoRow}] \cup
                       {[i \in Ids |-> IF i = 0 THEN [api |-> 0, route |-> r, set |-> 0] ELSE NoRow] : r \in Routes}
    /\ apis[0] = NoRow => resources[0] = NoRow
    /\ matching = [t \in Workers |-> {}]

Init == InitRequests /\ InitTables

Administer(t) ==
    \/ \E n \in ApiNames : CreateApiCheck(t, n)
    \/ \E a \in Ids : DeleteApiRequire(t, a) \/ \E r \in Routes : CreateResourceRequire(t, a, r)
    \/ \E i \in Ids : DeleteResourceSelect(t, i)
    \/ CreateApi(t) \/ DropResources(t) \/ DropApi(t)
    \/ CreateResourceSelect(t) \/ CreateResource(t) \/ DeleteResource(t)

Serve(t) ==
    \/ \E a \in Ids, r \in Requested : Invoke(t, a, r)
    \/ InvokeExact(t) \/ InvokeTemplate(t) \/ InvokeAnswer(t)

Next ==
    /\ \/ \E t \in Workers : Administer(t) \/ Serve(t)
       \/ (Crash \/ \E t \in Workers : Fails(t)) /\ UNCHANGED <<apis, resources>>
    /\ Watch

Spec == Init /\ [][Next]_vars

-----------------------------------------------------------------------------
(* Properties *)

(* apigateway.py:141-156: a path that a resource has matched all along is  *)
(* routed, and to a resource of just that path if there was one, whatever  *)
(* is created, changed or deleted around it meanwhile.                     *)
StandingRouteFound ==
    \A t \in Workers : At(t, "answer") =>
        LET r == local[t].invoked[2] IN
        /\ matching[t] # {} => local[t].found # <<>>
        /\ (\E i \in matching[t] : resources[i].route = r) => local[t].found = r

(* apigateway.py:38-57, 78-103: there is one API of a name and one         *)
(* resource of a route, which no key ensures, and a resource has an API,   *)
(* unless requests for them overlapped or one broke off.                   *)
RoutesHaveApis ==
    /\ \A a, b \in Rows(apis) : a # b /\ apis[a] = apis[b] => ~Quiet(apis[a])
    /\ \A i \in Rows(resources) :
          LET a == resources[i].api IN
          /\ (\A t \in Workers : Quiet(<<a, t>>)) => apis[a] # NoRow
          /\ Quiet(<<a, resources[i].route>>) => OnRoute(a, resources[i].route) = {i}
=============================================================================
