----------------------------- MODULE Services -------------------------------
(***************************************************************************)
(* The services that call, or tell, others: Lambda, SNS, EventBridge,      *)
(* CloudWatch and API Gateway.  As in module Stores, a behaviour is about  *)
(* one of them.                                                            *)
(***************************************************************************)
EXTENDS Requests

CONSTANTS
    BusRequests, WatchRequests, GatewayRequests,  \* bounds: their MaxRequests
    Functions, AliasNames, Layers, NoFunction,
    Topics, NoSubscription,
    Buses, Default, Rules, TargetIds, Patterns, Events, NoPattern, NoRule, Missing,
    Timestamps, Batches, Nameless, Periods, LogGroups, LogStreams, Alarms, NoAlarm,
    ApiNames, Routes, Requested, Parameter, NoRow

ASSUME BoundsAssumption == BusRequests \in Nat /\ WatchRequests \in Nat /\ GatewayRequests \in Nat

(* A route is its method and the segments of its path: never empty.        *)
ASSUME RouteAssumption == <<>> \notin Routes

(* Data points are dated, a request puts one at least, and a period lasts. *)
ASSUME MetricsAssumption ==
    /\ Timestamps \subseteq Nat /\ Periods \subseteq Nat \ {0}
    /\ Batches \subseteq Seq(Timestamps \cup {Nameless}) \ {<<>>}

VARIABLES
    service,
    callables, functions, published, lambdaAliases, layers, invocations, runs,
    topics, subscriptions, deliveries, subscribed,
    buses, rules, targets, emptied, routed,
    metrics, logGroups, logStreams, logEvents, alarms, alarmHistory,
    apis, resources, matching

lambdavars == <<callables, functions, published, lambdaAliases, layers, invocations, runs>>
snsvars == <<topics, subscriptions, deliveries, subscribed>>
ebvars == <<buses, rules, targets, emptied, routed>>
cwvars == <<metrics, logGroups, logStreams, logEvents, alarms, alarmHistory>>
agvars == <<apis, resources, matching>>
vars == <<service, requests, lambdavars, snsvars, ebvars, cwvars, agvars>>

Function == INSTANCE Lambda
Topic == INSTANCE SNS
Bus == INSTANCE EventBridge WITH MaxRequests <- BusRequests
Watching == INSTANCE CloudWatch WITH MaxRequests <- WatchRequests
Gateway == INSTANCE APIGateway WITH MaxRequests <- GatewayRequests

(* No row is not a row, nor a name. *)
ASSUME RowAssumption == NoRule \notin Bus!Rule /\ NoRow \notin ApiNames

Init ==
    /\ service \in {"lambda", "sns", "eventbridge", "cloudwatch", "apigateway"}
    /\ InitRequests
    /\ Function!InitTables /\ Topic!InitTables /\ Bus!InitTables
    /\ Watching!InitTables /\ Gateway!InitTables
    /\ service # "sns" => topics = {}
    /\ service # "eventbridge" => \A r \in DOMAIN rules : rules[r] = NoRule
    /\ service # "cloudwatch" => logGroups = {}
    /\ service # "apigateway" => \A a \in DOMAIN apis : apis[a] = NoRow

Next ==
    \/ service = "lambda" /\ Function!Next /\ UNCHANGED <<service, snsvars, ebvars, cwvars, agvars>>
    \/ service = "sns" /\ Topic!Next /\ UNCHANGED <<service, lambdavars, ebvars, cwvars, agvars>>
    \/ service = "eventbridge" /\ Bus!Next /\ UNCHANGED <<service, lambdavars, snsvars, cwvars, agvars>>
    \/ service = "cloudwatch" /\ Watching!Next
       /\ UNCHANGED <<service, lambdavars, snsvars, ebvars, agvars>>
    \/ service = "apigateway" /\ Gateway!Next
       /\ UNCHANGED <<service, lambdavars, snsvars, ebvars, cwvars>>

Spec == Init /\ [][Next]_vars

(* Every table holds rows of its schema (storage.py:132-273, 428-483),     *)
(* keys and references within it included.                                 *)
ServicesTypeOK ==
    /\ service = "lambda" => Function!TypeOK
    /\ service = "sns" => Topic!TypeOK
    /\ service = "eventbridge" => Bus!TypeOK
    /\ service = "cloudwatch" => Watching!TypeOK
    /\ service = "apigateway" => Gateway!TypeOK

(* lambdas.py:199-215: what a number names never changes while the         *)
(* function is there.                                                      *)
VersionsImmutable == Function!VersionsImmutable

(* lambdas.py:320-351: an invocation that no two requests processed, or    *)
(* half processed, ran once if its status says so and otherwise not yet.   *)
RunsOnce == service = "lambda" => Function!RunsOnce

(* sns.py:134-158, eventbridge.py:273-307: a publish, or an event, has     *)
(* tried every subscriber, or target, that was there all along, whatever   *)
(* the others did.                                                         *)
FanOutComplete ==
    /\ service = "sns" => Topic!StandingSubscribersTried
    /\ service = "eventbridge" => Bus!StandingTargetsTried

(* apigateway.py:141-156: a path that a resource has matched all along is  *)
(* routed, and to a resource of just that path if there was one.           *)
StandingRouteFound == service = "apigateway" => Gateway!StandingRouteFound

(* sns.py:50-53, eventbridge.py:145-150, 208-215, cloudwatch.py:126-140,   *)
(* apigateway.py:54-57: no foreign key, only the deletions see to it that  *)
(* a row has the row it names: without overlaps and broken requests it     *)
(* has.                                                                    *)
RowsHaveOwners ==
    /\ service = "sns" => Topic!SubscriptionsHaveTopics
    /\ service = "eventbridge" => Bus!RowsHaveOwners
    /\ service = "cloudwatch" => Watching!LogsHaveOwners
    /\ service = "apigateway" => Gateway!RoutesHaveApis

(* cloudwatch.py:66-102: who reads statistics window by window, as long as *)
(* the windows begin with a period, sees every data point once.            *)
WindowsAddUp == service = "cloudwatch" => Watching!WindowsAddUp

(* cloudwatch.py:305-368, 401-417: the state of an alarm is the last one   *)
(* its history has since the alarm was made.                               *)
HistoryTellsState == service = "cloudwatch" => Watching!HistoryTellsState
=============================================================================
