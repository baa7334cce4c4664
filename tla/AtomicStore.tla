---------------------------- MODULE AtomicStore ----------------------------
(***************************************************************************)
(* What Storage promises the services: a call of execute takes effect in   *)
(* one step between its call and its return, or not at all, and a query    *)
(* answers out of one committed version of the database.                   *)
(*                                                                         *)
(* The version a query answers from is the newest one, unless a write of   *)
(* its process was refused because another process was writing; even then  *)
(* it is never older than what its process has seen or written.            *)
(***************************************************************************)
EXTENDS Naturals, Sequences

CONSTANTS Processes, Threads, Home

VARIABLES
    log,      \* the writes committed, in order
    call,     \* what each thread is at
    view,     \* the newest version each process has seen or written
    refused   \* processes whose last write was refused for another's sake

vars == <<log, call, view, refused>>

Init ==
    /\ log = <<>>
    /\ call = [t \in Threads |-> "idle"]
    /\ view = [p \in Processes |-> 0]
    /\ refused = {}

Invoke(t, op) ==
    /\ call[t] = "idle"
    /\ call' = [call EXCEPT ![t] = op]
    /\ UNCHANGED <<log, view, refused>>

Write(t) ==
    /\ call[t] = "write"
    /\ call' = [call EXCEPT ![t] = "done"]
    /\ log' = Append(log, t)
    /\ view' = [view EXCEPT ![Home[t]] = Len(log')]
    /\ refused' = refused \ {Home[t]}

(* The statement violates a constraint. *)
Reject(t) ==
    /\ call[t] = "write"
    /\ call' = [call EXCEPT ![t] = "done"]
    /\ UNCHANGED <<log, view, refused>>

(* "database is locked": only ever because of another process. *)
Refuse(t) ==
    /\ Processes # {Home[t]}
    /\ call[t] = "write"
    /\ call' = [call EXCEPT ![t] = "done"]
    /\ refused' = refused \cup {Home[t]}
    /\ UNCHANGED <<log, view>>

Query(t) ==
    /\ call[t] = "query"
    /\ call' = [call EXCEPT ![t] = "done"]
    /\ \E v \in view[Home[t]] .. Len(log) :
          /\ v < Len(log) => Home[t] \in refused
          /\ view' = [view EXCEPT ![Home[t]] = v]
    /\ UNCHANGED <<log, refused>>

Return(t) ==
    /\ call[t] = "done"
    /\ call' = [call EXCEPT ![t] = "idle"]
    /\ UNCHANGED <<log, view, refused>>

(* Calls under way are forgotten; what was committed stays. *)
Crash(p) ==
    /\ call' = [t \in Threads |-> IF Home[t] = p THEN "idle" ELSE call[t]]
    /\ refused' = refused \ {p}
    /\ UNCHANGED <<log, view>>

Next ==
    \/ \E t \in Threads : \/ \E op \in {"write", "query"} : Invoke(t, op)
                          \/ Write(t)
                          \/ Reject(t)
                          \/ Refuse(t)
                          \/ Query(t)
                          \/ Return(t)
    \/ \E p \in Processes : Crash(p)

Spec == Init /\ [][Next]_vars
=============================================================================
