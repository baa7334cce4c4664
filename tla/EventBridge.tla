---------------------------- MODULE EventBridge ----------------------------
(***************************************************************************)
(* Event buses, their rules and the routing of events to the targets of    *)
(* the rules that match, src/openaws/eventbridge.py.  A call of put_events *)
(* has one event; what a target does with it is left to SQS and Lambda,    *)
(* and whatever it raises is passed over.                                  *)
(***************************************************************************)
EXTENDS Requests

CONSTANTS
    Buses, Default,   \* names of buses; the one that is always there
    Rules, TargetIds,
    Patterns, Events, \* those clients use
    NoPattern,        \* of a rule with only a schedule_expression
    NoRule, Missing   \* no row; no value of a field

VARIABLES
    buses,    \* table eb_buses
    rules,    \* table eb_rules, by bus and name
    targets,  \* table eb_targets: <<bus, rule, id>>
    emptied,  \* history: buses whose rules delete_event_bus deleted
    routed    \* history: targets there since a put_events began

ebvars == <<buses, rules, targets, emptied, routed>>
vars == <<requests, ebvars>>

RuleNames == Buses \X Rules

Rule == [pattern : Patterns \cup {NoPattern}, enabled : BOOLEAN]

Targets == Buses \X Rules \X TargetIds

TypeOK ==
    /\ RequestsTypeOK((Buses \cup Rules) \X Workers)
    /\ buses \subseteq Buses \ {Default}
    /\ rules \in [RuleNames -> Rule \cup {NoRule}]
    /\ targets \subseteq Targets
    /\ emptied \subseteq Buses
    /\ routed \in [Workers -> SUBSET Targets]

-----------------------------------------------------------------------------
(* _match_pattern on a flat pattern.  A condition is one of some values,   *)
(* given or by their prefix; none of some; a range; or presence.           *)

InRange(c, v) ==
    \A i \in 1 .. Len(c.ops) :
        LET n == c.ops[i].n IN
        CASE c.ops[i].op = "<"  -> v < n
          [] c.ops[i].op = "<=" -> v <= n
          [] c.ops[i].op = "="  -> v = n
          [] c.ops[i].op = ">=" -> v >= n
          [] c.ops[i].op = ">"  -> v > n

MatchesOne(c, v) ==
    \/ c.kind = "one of" /\ v # Missing /\ v \in c.values
    \/ c.kind = "anything-but" /\ v \notin c.values
    \/ c.kind = "numeric" /\ v \in Int /\ InRange(c, v)
    \/ c.kind = "exists" /\ (v # Missing) = c.exists

Matches(pattern, event) ==
    \A field \in DOMAIN pattern : \E c \in pattern[field] :
        MatchesOne(c, IF field \in DOMAIN event THEN event[field] ELSE Missing)

Fires(r, event) ==
    /\ rules[r] # NoRule /\ rules[r].enabled
    /\ rules[r].pattern # NoPattern => Matches(rules[r].pattern, event)

-----------------------------------------------------------------------------
On(rows, todo, r) == Also([todo |-> todo, touches |-> rows], r)

Ask(t, s) == Begin(t, s) /\ UNCHANGED <<buses, rules, targets, emptied>>

(* Mutant: only the table is looked at. *)
CreateBusCheckTable(t, b) ==
    b \notin buses /\ Ask(t, On({b} \X Workers, <<"create bus">>, [bus |-> b]))

CreateBusCheck(t, b) ==
    b \notin buses \cup {Default} /\ Ask(t, On({b} \X Workers, <<"create bus">>, [bus |-> b]))

CreateBus(t) ==
    /\ Does(t, "create bus")
    /\ buses' = buses \cup {local[t].bus}
    /\ UNCHANGED <<rules, targets, emptied>>

(* delete_event_bus does not touch the targets. *)
DeleteBusRequire(t, b) ==
    b \in buses /\ Ask(t, On({b} \X Workers, <<"drop rules", "drop bus">>, [bus |-> b]))

DropRules(t) ==
    LET b == local[t].bus IN
    /\ Does(t, "drop rules")
    /\ rules' = [r \in RuleNames |-> IF r[1] = b THEN NoRule ELSE rules[r]]
    /\ emptied' = emptied \cup {b}
    /\ UNCHANGED <<buses, targets>>

DropBus(t) ==
    /\ Does(t, "drop bus")
    /\ buses' = buses \ {local[t].bus}
    /\ UNCHANGED <<rules, targets, emptied>>

(* put_rule: an UPDATE of the row it found, or an INSERT.                  *)
PutRuleSelect(t, r, new) ==
    /\ r[1] \in buses \cup {Default}
    /\ Ask(t, On({<<r[1], t>>}, <<"rule">>, [rule |-> r, new |-> new, found |-> rules[r] # NoRule]))

PutRule(t) ==
    LET s == local[t] IN
    /\ Does(t, "rule")
    /\ rules' = [rules EXCEPT ![s.rule] = IF (@ # NoRule) = s.found THEN s.new ELSE @]
    /\ UNCHANGED <<buses, targets, emptied>>

DeleteRuleSelect(t, r) ==
    rules[r] # NoRule /\ Ask(t, On({r[2]} \X Workers, <<"drop targets", "drop rule">>, [rule |-> r]))

(* Mutant: the targets of that rule on another bus. *)
DropTargetsOfDefault(t) ==
    /\ Does(t, "drop targets")
    /\ targets' = {x \in targets : <<x[1], x[2]>> # <<Default, local[t].rule[2]>>}
    /\ UNCHANGED <<buses, rules, emptied>>

DropTargets(t) ==
    /\ Does(t, "drop targets")
    /\ targets' = {x \in targets : <<x[1], x[2]>> # local[t].rule}
    /\ UNCHANGED <<buses, rules, emptied>>

DropRule(t) ==
    /\ Does(t, "drop rule")
    /\ rules' = [rules EXCEPT ![local[t].rule] = NoRule]
    /\ UNCHANGED <<buses, targets, emptied>>

(* put_targets, of one target: an UPDATE of the row it found, of nothing   *)
(* if that has gone, or an INSERT, which raises if there is one by then;   *)
(* and remove_targets, which asks for nothing first.                       *)
PutTargetRequire(t, x) ==
    /\ rules[<<x[1], x[2]>>] # NoRule
    /\ Ask(t, On({<<x[2], t>>}, <<"target">>, [target |-> x, found |-> x \in targets]))

PutTarget(t) ==
    /\ Does(t, "target")
    /\ targets' = targets \cup (IF local[t].found THEN {} ELSE {local[t].target})
    /\ UNCHANGED <<buses, rules, emptied>>

RemoveTarget(t, x) == Ask(t, On({}, <<"remove">>, [target |-> x]))

RemoveTargetDelete(t) ==
    /\ Does(t, "remove")
    /\ targets' = targets \ {local[t].target}
    /\ UNCHANGED <<buses, rules, emptied>>

-----------------------------------------------------------------------------
(* put_events: the rules that fire, the targets of the next one, those     *)
(* targets one after another.                                              *)
PutEvent(t, b, event) ==
    Ask(t, On({}, <<"rules", "targets", "answer">>, [event |-> event, on |-> b]))

SelectRules(t) ==
    /\ At(t, "rules")
    /\ Continue(t, Also([local[t] EXCEPT !.todo = Tail(@)],
                        [firing |-> {r \in RuleNames : r[1] = local[t].on /\ Fires(r, local[t].event)},
                         tried |-> {}]))
    /\ UNCHANGED <<buses, rules, targets, emptied>>

InvokeTargetsOf(t, r) == {x \in targets : <<x[1], x[2]>> = r}

(* _invoke_target writes nothing here, so the loop over the rows is a step *)
(* with their SELECT.                                                      *)
SelectTargets(t) ==
    LET s == local[t] IN
    /\ At(t, "targets")
    /\ IF s.firing = {} THEN Advance(t)
       ELSE \E r \in s.firing : Continue(t, [s EXCEPT !.firing = @ \ {r}, !.tried = @ \cup InvokeTargetsOf(t, r)])
    /\ UNCHANGED <<buses, rules, targets, emptied>>

EventsAnswer(t) == Does(t, "answer") /\ UNCHANGED <<buses, rules, targets, emptied>>

-----------------------------------------------------------------------------
Routing(t) == "event" \in DOMAIN local[t]

(* Where the event of the request goes now. *)
RoutesTo(t) == {x \in targets : x[1] = local[t].on /\ Fires(<<x[1], x[2]>>, local[t].event)}

(* Bookkeeping of every step: the targets that were there all along.       *)
Watch ==
    routed' = [t \in Workers |->
        IF ~Routing(t)' THEN {} ELSE (IF Routing(t) THEN routed[t] ELSE Targets) \cap RoutesTo(t)']

(* A data directory of earlier requests. *)
InitTables ==
    /\ buses = Buses \ {Default}
    /\ rules \in [RuleNames -> [pattern : Patterns, enabled : {TRUE}] \cup {NoRule}]
    /\ targets \in {{}, {x \in Targets : rules[<<x[1], x[2]>>] # NoRule}}
    /\ emptied = {}
    /\ routed = [t \in Workers |-> {}]

Init == InitRequests /\ InitTables

Administer(t) ==
    \/ \E b \in Buses : CreateBusCheck(t, b) \/ DeleteBusRequire(t, b)
    \/ \E r \in RuleNames : DeleteRuleSelect(t, r) \/ \E new \in Rule : PutRuleSelect(t, r, new)
    \/ \E x \in Targets : PutTargetRequire(t, x) \/ RemoveTarget(t, x)
    \/ CreateBus(t) \/ DropRules(t) \/ DropBus(t) \/ PutRule(t)
    \/ DropTargets(t) \/ DropRule(t) \/ PutTarget(t) \/ RemoveTargetDelete(t)

Route(t) ==
    \/ \E b \in Buses, event \in Events : PutEvent(t, b, event)
    \/ SelectRules(t) \/ SelectTargets(t) \/ EventsAnswer(t)

(* put_events writes nothing that could raise. *)
Raises(t) == ~Routing(t) /\ Fails(t)

Next ==
    /\ \/ \E t \in Workers : Administer(t) \/ Route(t)
       \/ (Crash \/ \E t \in Workers : Raises(t)) /\ UNCHANGED <<buses, rules, targets, emptied>>
    /\ Watch

Spec == Init /\ [][Next]_vars

-----------------------------------------------------------------------------
(* Properties *)

(* eventbridge.py:273-307 "Route events to matching rule targets": a       *)
(* target that a matching, enabled rule had all along is given the event,  *)
(* whatever is put, removed or deleted around it meanwhile.                *)
StandingTargetsTried ==
    \A t \in Workers : At(t, "answer") => routed[t] \subseteq local[t].tried

(* eventbridge.py:145-150, 208-215: a target belongs to a rule and a rule  *)
(* to a bus, but for the targets a deleted bus leaves, as long as no       *)
(* requests for them overlapped or broke off.                              *)
RowsHaveOwners ==
    /\ \A r \in RuleNames : rules[r] # NoRule /\ (\A t \in Workers : Quiet(<<r[1], t>>)) =>
          r[1] \in buses \cup {Default}
    /\ \A x \in targets : (\A t \in Workers : Quiet(<<x[2], t>>)) =>
          rules[<<x[1], x[2]>>] # NoRule \/ x[1] \in emptied
=============================================================================
