---------------------------- MODULE AtomicTable ----------------------------
(***************************************************************************)
(* What DynamoDB promises: a write takes effect in one step, on the item   *)
(* its condition was checked against, and a request that answers "ok" has  *)
(* applied all its operations, in order.  A transaction checks all its     *)
(* conditions before it applies anything.  Any request may stop early.     *)
(*                                                                         *)
(* The promise is to requests nobody interferes with.  A request is        *)
(* disturbed once another one, or the deletion of a table, has written to  *)
(* one of its items while it is under way: then its checks, and what its   *)
(* updates start from, may be out of date.                                 *)
(***************************************************************************)
EXTENDS Items

CONSTANTS Workers, Requests

VARIABLES
    items,      \* what is stored at each place
    todo,       \* the operations a request has yet to apply
    checking,   \* requests that have yet to check their conditions together
    disturbed,  \* requests whose items another one wrote to meanwhile
    answer      \* of the last request of each worker

vars == <<items, todo, checking, disturbed, answer>>

Places(ops) == {PlaceOf(ops[k]) : k \in DOMAIN ops}

(* An item request t may have read. *)
Seen(t, p) == IF t \in disturbed THEN Stored ELSE {items[p]}

Unconditional(ops) == [k \in DOMAIN ops |-> [ops[k] EXCEPT !.cond = NoCond]]

Init ==
    /\ items = [p \in Place |-> NoItem]
    /\ todo = [t \in Workers |-> <<>>]
    /\ checking = {}
    /\ disturbed = {}
    /\ answer = [t \in Workers |-> "none"]

Begin(t, r) ==
    /\ todo[t] = <<>>
    /\ todo' = [todo EXCEPT ![t] = r.ops]
    /\ checking' = IF r.kind = "transact" THEN checking \cup {t} ELSE checking
    /\ disturbed' = disturbed \ {t}
    /\ answer' = [answer EXCEPT ![t] = "none"]
    /\ UNCHANGED items

Check(t) ==
    /\ t \in checking
    /\ \A k \in DOMAIN todo[t] :
          \E old \in Seen(t, PlaceOf(todo[t][k])) : Holds(todo[t][k].cond, old)
    /\ checking' = checking \ {t}
    /\ todo' = [todo EXCEPT ![t] = Unconditional(@)]
    /\ UNCHANGED <<items, disturbed, answer>>

Apply(t) ==
    /\ t \notin checking
    /\ todo[t] # <<>>
    /\ LET op == Head(todo[t])
           p == PlaceOf(op)
       IN  /\ \E old \in Seen(t, p) : /\ Holds(op.cond, old)
                                      /\ Valid(op, old)
                                      /\ items' = [items EXCEPT ![p] = Effect(op, old)]
           /\ disturbed' = disturbed \cup {u \in Workers \ {t} : p \in Places(todo[u])}
    /\ todo' = [todo EXCEPT ![t] = Tail(@)]
    /\ answer' = [answer EXCEPT ![t] = IF Len(todo[t]) = 1 THEN "ok" ELSE @]
    /\ UNCHANGED checking

(* A condition fails, an operation is not valid, a table has gone or a     *)
(* write is refused.                                                       *)
Stop(t) ==
    /\ todo[t] # <<>>
    /\ todo' = [todo EXCEPT ![t] = <<>>]
    /\ checking' = checking \ {t}
    /\ answer' = [answer EXCEPT ![t] = "error"]
    /\ UNCHANGED <<items, disturbed>>

(* A table is deleted. *)
Purge(n) ==
    /\ items' = [p \in Place |-> IF p[1] = n THEN NoItem ELSE items[p]]
    /\ disturbed' = disturbed \cup {u \in Workers : \E p \in Places(todo[u]) : p[1] = n}
    /\ UNCHANGED <<todo, checking, answer>>

Crash ==
    /\ todo' = [t \in Workers |-> <<>>]
    /\ checking' = {}
    /\ UNCHANGED <<items, disturbed, answer>>

Next ==
    \/ \E t \in Workers : \/ \E r \in Requests : Begin(t, r)
                          \/ Check(t)
                          \/ Apply(t)
                          \/ Stop(t)
    \/ \E n \in Tables : Purge(n)
    \/ Crash

Spec == Init /\ [][Next]_vars
=============================================================================
