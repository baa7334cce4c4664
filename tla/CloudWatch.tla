----------------------------- MODULE CloudWatch -----------------------------
(***************************************************************************)
(* Metrics, logs and alarms, src/openaws/cloudwatch.py.  A data point is   *)
(* its timestamp: values, units and dimensions are left out, and so is     *)
(* what an alarm compares, for nothing evaluates it: states are set.  Rows *)
(* have the number of the request that wrote them.                         *)
(***************************************************************************)
EXTENDS Requests

CONSTANTS
    Timestamps,  \* of data points, natural numbers
    Batches,     \* what put_metric_data is given: sequences of them and Nameless
    Nameless,    \* a datum without MetricName
    Periods,     \* those statistics are asked for
    LogGroups, LogStreams,
    Alarms, NoAlarm

Ids == 1 .. MaxRequests

States == {"OK", "ALARM", "INSUFFICIENT_DATA"}

VARIABLES
    metrics,       \* table cw_metrics: [request, place in the batch, ts]
    logGroups,     \* table cw_log_groups
    logStreams,    \* table cw_log_streams: [group, stream]
    logEvents,     \* table cw_log_events: [group, stream, request]
    alarms,        \* table cw_alarms: the state, and the INSERT it is from
    alarmHistory   \* table cw_alarm_history

logtables == <<logGroups, logStreams, logEvents>>
cwvars == <<metrics, logtables, alarms, alarmHistory>>
vars == <<requests, cwvars>>

TypeOK ==
    /\ RequestsTypeOK(Alarms \cup (LogGroups \X Workers))
    /\ metrics \subseteq Ids \X Nat \X Timestamps
    /\ logGroups \subseteq LogGroups
    /\ logStreams \subseteq LogGroups \X LogStreams
    /\ logEvents \subseteq LogGroups \X LogStreams \X Ids
    /\ alarms \in [Alarms -> [state : States, at : Ids] \cup {NoAlarm}]
    /\ alarmHistory \subseteq [alarm : Alarms, state : States, at : Ids]

-----------------------------------------------------------------------------
On(rows, todo, r) == Also([todo |-> todo, touches |-> rows, at |-> begun + 1], r)

Ask(t, s) == Begin(t, s) /\ UNCHANGED cwvars

(* put_metric_data: an INSERT per datum, until one has no name.            *)
PutMetrics(t, batch) == Ask(t, On({}, <<"datum">>, [data |-> batch]))

PutDatum(t) ==
    LET s == local[t]
        left == Len(s.data) - 1
    IN  /\ At(t, "datum")
        /\ IF Head(s.data) = Nameless
           THEN Ends(t) /\ UNCHANGED metrics
           ELSE /\ metrics' = metrics \cup {<<s.at, left, Head(s.data)>>}
                /\ IF left = 0 THEN Ends(t) ELSE Continue(t, [s EXCEPT !.data = Tail(@)])
        /\ UNCHANGED <<logtables, alarms, alarmHistory>>

(* get_metric_statistics: the rows from start to before end, by period.    *)
InWindowClosed(from, to) == {m \in metrics : from <= m[3] /\ m[3] <= to}  \* mutant

InWindow(from, to) == {m \in metrics : from <= m[3] /\ m[3] < to}

Bucket(m, period) == (m[3] \div period) * period

Statistics(from, to, period) ==
    [b \in {Bucket(m, period) : m \in InWindow(from, to)} |->
        Cardinality({m \in InWindow(from, to) : Bucket(m, period) = b})]

-----------------------------------------------------------------------------
Shared(g, t) == {<<g, t>>}
Exclusive(g) == {g} \X Workers

CreateGroupCheck(t, g) ==
    g \notin logGroups /\ Ask(t, On(Exclusive(g), <<"create group">>, [group |-> g]))

CreateGroup(t) ==
    /\ Does(t, "create group")
    /\ logGroups' = logGroups \cup {local[t].group}
    /\ UNCHANGED <<metrics, logStreams, logEvents, alarms, alarmHistory>>

DeleteGroupRequire(t, g) ==
    /\ g \in logGroups
    /\ Ask(t, On(Exclusive(g), <<"drop streams", "drop events", "drop group">>,
                 [group |-> g, streams |-> LogStreams]))

(* delete_log_stream: the events first. *)
DeleteStreamRequire(t, g, s) ==
    /\ <<g, s>> \in logStreams
    /\ Ask(t, On(Exclusive(g), <<"drop events", "drop streams">>, [group |-> g, streams |-> {s}]))

DropStreams(t) ==
    /\ Does(t, "drop streams")
    /\ logStreams' = logStreams \ ({local[t].group} \X local[t].streams)
    /\ UNCHANGED <<metrics, logGroups, logEvents, alarms, alarmHistory>>

DropEvents(t) ==
    /\ Does(t, "drop events")
    /\ logEvents' = {e \in logEvents : ~(e[1] = local[t].group /\ e[2] \in local[t].streams)}
    /\ UNCHANGED <<metrics, logGroups, logStreams, alarms, alarmHistory>>

DropGroup(t) ==
    /\ Does(t, "drop group")
    /\ logGroups' = logGroups \ {local[t].group}
    /\ UNCHANGED <<metrics, logStreams, logEvents, alarms, alarmHistory>>

(* create_log_stream: both names are the primary key. *)
CreateStreamCheck(t, g, s) ==
    /\ g \in logGroups /\ <<g, s>> \notin logStreams
    /\ Ask(t, On(Shared(g, t), <<"create stream">>, [stream |-> <<g, s>>]))

CreateStream(t) ==
    /\ Does(t, "create stream")
    /\ logStreams' = logStreams \cup {local[t].stream}
    /\ UNCHANGED <<metrics, logGroups, logEvents, alarms, alarmHistory>>

(* put_log_events, of one event: a batch is one after another. *)
PutEventsRequire(t, g, s) ==
    <<g, s>> \in logStreams /\ Ask(t, On(Shared(g, t), <<"event">>, [event |-> <<g, s, begun + 1>>]))

PutEvent(t) ==
    /\ Does(t, "event")
    /\ logEvents' = logEvents \cup {local[t].event}
    /\ UNCHANGED <<metrics, logGroups, logStreams, alarms, alarmHistory>>

-----------------------------------------------------------------------------
(* put_metric_alarm: an UPDATE of the row it found, which leaves the state *)
(* alone, or an INSERT.                                                    *)
PutAlarmSelect(t, a) == Ask(t, On({a}, <<"alarm">>, [alarm |-> a, found |-> alarms[a] # NoAlarm]))

(* Mutant: an UPDATE of every column of the payload. *)
PutAlarmWhole(t) ==
    LET s == local[t] IN
    /\ Does(t, "alarm")
    /\ alarms' = [alarms EXCEPT ![s.alarm] =
                    IF s.found /\ @ # NoAlarm THEN [@ EXCEPT !.state = "INSUFFICIENT_DATA"]
                    ELSE IF ~s.found /\ @ = NoAlarm THEN [state |-> "INSUFFICIENT_DATA", at |-> s.at] ELSE @]
    /\ UNCHANGED <<metrics, logtables, alarmHistory>>

PutAlarm(t) ==
    LET s == local[t] IN
    /\ Does(t, "alarm")
    /\ alarms' = [alarms EXCEPT ![s.alarm] = IF ~s.found /\ @ = NoAlarm
                                             THEN [state |-> "INSUFFICIENT_DATA", at |-> s.at] ELSE @]
    /\ UNCHANGED <<metrics, logtables, alarmHistory>>

(* delete_alarm: the history stays. *)
DeleteAlarmRequire(t, a) == alarms[a] # NoAlarm /\ Ask(t, On({a}, <<"delete">>, [alarm |-> a]))

DeleteAlarm(t) ==
    /\ Does(t, "delete")
    /\ alarms' = [alarms EXCEPT ![local[t].alarm] = NoAlarm]
    /\ UNCHANGED <<metrics, logtables, alarmHistory>>

(* set_alarm_state: the UPDATE, of nothing if the alarm has gone, and an   *)
(* INSERT all the same.                                                    *)
SetStateRequire(t, a, state) ==
    /\ alarms[a] # NoAlarm
    /\ Ask(t, On({a}, <<"state", "history">>, [alarm |-> a, state |-> state]))

SetState(t) ==
    LET s == local[t] IN
    /\ Does(t, "state")
    /\ alarms' = [alarms EXCEPT ![s.alarm] = IF @ = NoAlarm THEN @ ELSE [@ EXCEPT !.state = s.state]]
    /\ UNCHANGED <<metrics, logtables, alarmHistory>>

AddHistory(t) ==
    LET s == local[t] IN
    /\ Does(t, "history")
    /\ alarmHistory' = alarmHistory \cup {[alarm |-> s.alarm, state |-> s.state, at |-> s.at]}
    /\ UNCHANGED <<metrics, logtables, alarms>>

-----------------------------------------------------------------------------
(* A data directory in which the groups may be there. *)
InitTables ==
    /\ metrics = {}
    /\ logGroups \in {{}, LogGroups}
    /\ logStreams \in {{}, logGroups \X LogStreams}
    /\ logEvents = {}
    /\ alarms = [a \in Alarms |-> NoAlarm]
    /\ alarmHistory = {}

Init == InitRequests /\ InitTables

Serve(t) ==
    \/ \E batch \in Batches : PutMetrics(t, batch)
    \/ \E g \in LogGroups : \/ CreateGroupCheck(t, g) \/ DeleteGroupRequire(t, g)
                            \/ \E s \in LogStreams : \/ CreateStreamCheck(t, g, s) \/ DeleteStreamRequire(t, g, s)
                                                     \/ PutEventsRequire(t, g, s)
    \/ \E a \in Alarms : \/ PutAlarmSelect(t, a) \/ DeleteAlarmRequire(t, a)
                         \/ \E state \in States : SetStateRequire(t, a, state)
    \/ PutDatum(t) \/ CreateGroup(t) \/ DropStreams(t) \/ DropEvents(t) \/ DropGroup(t)
    \/ CreateStream(t) \/ PutEvent(t) \/ PutAlarm(t) \/ DeleteAlarm(t) \/ SetState(t) \/ AddHistory(t)

Next ==
    \/ \E t \in Workers : Serve(t)
    \/ (Crash \/ \E t \in Workers : Fails(t)) /\ UNCHANGED cwvars

Spec == Init /\ [][Next]_vars

-----------------------------------------------------------------------------
(* Properties *)

(* cloudwatch.py:66-102: who reads statistics window by window, as long as *)
(* the windows begin with a period, sees every data point once.            *)
WindowsAddUp ==
    \A p \in Periods, from \in Timestamps, k \in 1 .. 2, to \in Timestamps :
        LET middle == from + k * p IN
        from % p = 0 /\ middle <= to =>
            LET whole == Statistics(from, to, p)
                first == Statistics(from, middle, p)
                second == Statistics(middle, to, p)
            IN  /\ DOMAIN first \cap DOMAIN second = {}
                /\ whole = Also(first, second)

(* cloudwatch.py:126-140, 189-203: an event has a stream and a stream its  *)
(* group, unless a deletion overlapped another request for the group, or a *)
(* request broke off.                                                      *)
LogsHaveOwners ==
    \A g \in LogGroups : (\A t \in Workers : Quiet(<<g, t>>)) =>
        /\ \A s \in LogStreams : <<g, s>> \in logStreams => g \in logGroups
        /\ \A e \in logEvents : e[1] = g => <<g, e[2]>> \in logStreams

(* cloudwatch.py:305-368, 401-417: the state of an alarm is the last one   *)
(* its history has since the alarm was made, through every change of its   *)
(* definition, unless requests for it overlapped or one broke off.         *)
HistoryTellsState ==
    \A a \in Alarms : alarms[a] # NoAlarm /\ Quiet(a) =>
        LET set == {h \in alarmHistory : h.alarm = a /\ h.at > alarms[a].at} IN
        alarms[a].state \in IF set = {} THEN {"INSUFFICIENT_DATA"}
                            ELSE {h.state : h \in {x \in set : \A y \in set : y.at <= x.at}}
=============================================================================
