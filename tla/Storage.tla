------------------------------ MODULE Storage ------------------------------
(***************************************************************************)
(* The store every service shares, src/openaws/storage.py: one sqlite      *)
(* connection per process, used by all its threads under a lock, on a      *)
(* database file that other processes (the command line beside the server) *)
(* may have open too.                                                      *)
(*                                                                         *)
(* Of the statements only their kind counts: a write (execute) or a read   *)
(* (query, query_one).  Python's sqlite3 opens a transaction before a      *)
(* write unless one is open; execute commits it, and on an exception       *)
(* leaves it open.  The database is the sequence of committed writes, and  *)
(* a version of it is the length of a prefix.                              *)
(***************************************************************************)
EXTENDS Naturals, Sequences

CONSTANTS
    Processes,   \* the processes that have the data directory open
    Threads,     \* their threads
    Home,        \* the process of a thread
    MaxWrites,   \* bound: writes ever committed
    MayCrash,    \* whether processes are killed and started again
    Free         \* no thread

ASSUME StorageAssumption ==
    /\ Home \in [Threads -> Processes]
    /\ MaxWrites \in Nat
    /\ MayCrash \in BOOLEAN
    /\ Free \notin Threads

VARIABLES
    log,      \* the writes committed, in order
    pc,       \* where each thread is in a call
    op,       \* the kind of statement it was called with, if in a call
    lock,     \* who holds _lock, per process
    tx,       \* the transaction of each process's connection
    base,     \* the version a transaction has as its snapshot, 0 if none
    pending,  \* writes executed in the transaction, to be committed
    \* history variables
    view,     \* the newest version each process has seen or written
    refused   \* processes whose last write was refused for another's sake

vars == <<log, pc, op, lock, tx, base, pending, view, refused>>
sqlite == <<log, tx, base, pending>>
history == <<view, refused>>

TypeOK ==
    /\ log \in Seq(Threads)
    /\ pc \in [Threads -> {"idle", "waiting", "holding", "executed", "leaving"}]
    /\ op \in [Threads -> {"none", "write", "query"}]
    /\ lock \in [Processes -> Threads \cup {Free}]
    /\ tx \in [Processes -> {"none", "begun", "read", "write"}]
    /\ base \in [Processes -> Nat]
    /\ pending \in [Processes -> Seq(Threads)]
    /\ view \in [Processes -> Nat]
    /\ refused \subseteq Processes

Goto(t, step) == pc' = [pc EXCEPT ![t] = step]

-----------------------------------------------------------------------------
(* A service calls execute, or query or query_one. *)
Call(t, kind) ==
    /\ pc[t] = "idle"
    /\ Goto(t, "waiting")
    /\ op' = [op EXCEPT ![t] = kind]
    /\ UNCHANGED <<sqlite, lock, history>>

(* Mutant: the connection is used without the lock. *)
AcquireNothing(t) ==
    /\ pc[t] = "waiting"
    /\ Goto(t, "holding")
    /\ UNCHANGED <<sqlite, op, lock, history>>

(* with self._lock *)
Acquire(t) ==
    /\ pc[t] = "waiting"
    /\ lock[Home[t]] = Free
    /\ lock' = [lock EXCEPT ![Home[t]] = t]
    /\ Goto(t, "holding")
    /\ UNCHANGED <<sqlite, op, history>>

(* sqlite lets p write if no other connection is writing and p's snapshot, *)
(* if its transaction has one, is of the newest version.                   *)
MayWrite(p) ==
    /\ \A q \in Processes : q # p => tx[q] # "write"
    /\ tx[p] = "read" => base[p] = Len(log)

StartWrite(p) ==
    /\ tx' = [tx EXCEPT ![p] = "write"]
    /\ base' = [base EXCEPT ![p] = Len(log)]

(* execute: the statement succeeds. *)
ExecWrite(t) ==
    /\ pc[t] = "holding"
    /\ op[t] = "write"
    /\ Len(log) < MaxWrites
    /\ MayWrite(Home[t])
    /\ StartWrite(Home[t])
    /\ pending' = [pending EXCEPT ![Home[t]] = Append(@, t)]
    /\ Goto(t, "executed")
    /\ UNCHANGED <<log, op, lock, history>>

(* execute: the statement violates a constraint and raises.  The           *)
(* transaction begun for it stays open, and the file locked for writing.   *)
ExecReject(t) ==
    /\ pc[t] = "holding"
    /\ op[t] = "write"
    /\ MayWrite(Home[t])
    /\ StartWrite(Home[t])
    /\ Goto(t, "leaving")
    /\ UNCHANGED <<log, pending, op, lock, history>>

(* execute: "database is locked". *)
ExecBusy(t) ==
    /\ pc[t] = "holding"
    /\ op[t] = "write"
    /\ ~MayWrite(Home[t])
    /\ tx' = [tx EXCEPT ![Home[t]] = IF @ = "none" THEN "begun" ELSE @]
    /\ refused' = refused \cup {Home[t]}
    /\ Goto(t, "leaving")
    /\ UNCHANGED <<log, base, pending, op, lock, view>>

(* The version a SELECT of p reads; a transaction keeps it as its snapshot. *)
Snapshot(p) == IF tx[p] \in {"read", "write"} THEN base[p] ELSE Len(log)

(* query and query_one; rows are fetched before the lock is given back.    *)
ExecQuery(t) ==
    LET p == Home[t]
    IN  /\ pc[t] = "holding"
        /\ op[t] = "query"
        /\ base' = IF tx[p] = "begun" THEN [base EXCEPT ![p] = Len(log)] ELSE base
        /\ tx' = [tx EXCEPT ![p] = IF @ = "begun" THEN "read" ELSE @]
        /\ view' = [view EXCEPT ![p] = Snapshot(p)]
        /\ Goto(t, "leaving")
        /\ UNCHANGED <<log, pending, op, lock, refused>>

(* self._conn.commit() of execute. *)
Commit(t) ==
    LET p == Home[t]
    IN  /\ pc[t] = "executed"
        /\ log' = log \o pending[p]
        /\ pending' = [pending EXCEPT ![p] = <<>>]
        /\ tx' = [tx EXCEPT ![p] = "none"]
        /\ base' = [base EXCEPT ![p] = 0]
        /\ view' = [view EXCEPT ![p] = Len(log')]
        /\ refused' = refused \ {p}
        /\ Goto(t, "leaving")
        /\ UNCHANGED <<op, lock>>

(* Mutant: a write that raises keeps the lock. *)
ReleaseAfterSuccess(t) ==
    /\ pc[t] = "leaving"
    /\ lock' = IF op[t] = "write" /\ tx[Home[t]] # "none" THEN lock
               ELSE [lock EXCEPT ![Home[t]] = Free]
    /\ Goto(t, "idle")
    /\ op' = [op EXCEPT ![t] = "none"]
    /\ UNCHANGED <<sqlite, history>>

(* The end of the with block, by return or exception. *)
Release(t) ==
    /\ pc[t] = "leaving"
    /\ lock' = [lock EXCEPT ![Home[t]] = Free]
    /\ Goto(t, "idle")
    /\ op' = [op EXCEPT ![t] = "none"]
    /\ UNCHANGED <<sqlite, history>>

(* Process p dies, or is closed, and starts again: sqlite rolls its        *)
(* transaction back.                                                       *)
Crash(p) ==
    /\ MayCrash
    /\ pc' = [t \in Threads |-> IF Home[t] = p THEN "idle" ELSE pc[t]]
    /\ op' = [t \in Threads |-> IF Home[t] = p THEN "none" ELSE op[t]]
    /\ lock' = [lock EXCEPT ![p] = Free]
    /\ tx' = [tx EXCEPT ![p] = "none"]
    /\ base' = [base EXCEPT ![p] = 0]
    /\ pending' = [pending EXCEPT ![p] = <<>>]
    /\ refused' = refused \ {p}
    /\ UNCHANGED <<log, view>>

-----------------------------------------------------------------------------
Init ==
    /\ log = <<>>
    /\ pc = [t \in Threads |-> "idle"]
    /\ op = [t \in Threads |-> "none"]
    /\ lock = [p \in Processes |-> Free]
    /\ tx = [p \in Processes |-> "none"]
    /\ base = [p \in Processes |-> 0]
    /\ pending = [p \in Processes |-> <<>>]
    /\ view = [p \in Processes |-> 0]
    /\ refused = {}

(* The steps of a thread that holds the lock. *)
Work(t) == \/ ExecWrite(t)
           \/ ExecReject(t)
           \/ ExecBusy(t)
           \/ ExecQuery(t)
           \/ Commit(t)
           \/ Release(t)

Next ==
    \/ \E t \in Threads : \/ \E kind \in {"write", "query"} : Call(t, kind)
                          \/ Acquire(t)
                          \/ Work(t)
    \/ \E p \in Processes : Crash(p)

Spec == Init /\ [][Next]_vars

(* A thread that holds the lock goes on; one that waits for it, while it   *)
(* is free again and again, gets it.                                       *)
Fairness == \A t \in Threads : WF_vars(Work(t)) /\ SF_vars(Acquire(t))

FairSpec == Spec /\ Fairness

-----------------------------------------------------------------------------
(* Properties *)

(* The calls are atomic, in the sense of AtomicStore: this is what makes   *)
(* one action per SQL statement the right grain for the models of the      *)
(* services (storage.py:571-585).  A write shows at its commit.            *)
Calls == [t \in Threads |-> CASE pc[t] = "idle" -> "idle"
                              [] pc[t] = "leaving" -> "done"
                              [] OTHER -> op[t]]

Atomic == INSTANCE AtomicStore WITH call <- Calls

ImplementsAtomicStore == Atomic!Spec

(* The lock is held by whoever is in a call past its acquisition.          *)
LockHeld == \A t \in Threads :
    /\ lock[Home[t]] = t <=> pc[t] \in {"holding", "executed", "leaving"}
    /\ op[t] = "none" <=> pc[t] = "idle"
    /\ pc[t] = "executed" => op[t] = "write"

(* A commit publishes the one write of the thread that makes it.           *)
OwnWritePending == \A p \in Processes :
    /\ pending[p] # <<>> => \E t \in Threads : Home[t] = p /\ pc[t] = "executed"
    /\ \A t \in Threads : Home[t] = p /\ pc[t] = "executed" =>
          pending[p] = <<t>> /\ tx[p] = "write"

(* One process writes at a time, and none on top of an old version.        *)
OneWriter == \A p \in Processes : tx[p] = "write" =>
    base[p] = Len(log) /\ \A q \in Processes : q # p => tx[q] # "write"

(* A process may come to read an old version for ever, for a transaction   *)
(* left open is only ended by a write that succeeds: but not one older     *)
(* than it has read or written, not without a refused write, and not if    *)
(* it has the data directory to itself.                                    *)
StaleOnlyAfterRefusal == \A p \in Processes :
    /\ view[p] <= Len(log)
    /\ tx[p] \in {"begun", "read"} => p \in refused
    /\ tx[p] = "read" => view[p] <= base[p] /\ base[p] <= Len(log)
    /\ p \in refused => Processes # {p}

(* What execute, query and the connection keep true at every step          *)
(* (storage.py:571-585): the inductive invariant of the refinement.        *)
StoreInv == /\ TypeOK
            /\ LockHeld
            /\ OwnWritePending
            /\ OneWriter
            /\ StaleOnlyAfterRefusal

(* Whatever a call raises, the lock comes back: every call of execute and  *)
(* query returns (storage.py:572, 578, 583).                               *)
CallsReturn == \A t \in Threads : pc[t] # "idle" ~> pc[t] = "idle"

(* README.md:44-59 has the command line write to the data directory of the *)
(* running server.  So a process keeps the others from writing only while  *)
(* one of its own calls is under way.                                      *)
LockedOutOnlyByWriters == \A p \in Processes : tx[p] = "write" => lock[p] # Free
=============================================================================
