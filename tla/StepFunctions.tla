--------------------------- MODULE StepFunctions ---------------------------
(***************************************************************************)
(* State machines and their executions, src/openaws/stepfunctions.py.  An  *)
(* execution runs within its request: an interpreter goes from state to    *)
(* state, and for a Parallel state starts an interpreter per branch in a   *)
(* thread of its own, which may do the same, and joins them.               *)
(*                                                                         *)
(* A definition is [start, states]; a state is [type, next, branches],     *)
(* next being the states it may go to, with "end" for none, and branches a *)
(* sequence of definitions.  Which state a Choice takes depends on data,   *)
(* which is left out: any; one without a Default has "none" among them.    *)
(***************************************************************************)
EXTENDS Requests

CONSTANTS
    Machines,    \* names
    Definitions, \* names of definitions, of machines and of branches
    Program,     \* what each of them says
    Created,     \* those clients create machines with
    Executions,  \* execution names
    MaxVisits,   \* 1000 in _run_state
    NoMachine, NoExecution

ASSUME StepFunctionsAssumption ==
    /\ Created \subseteq Definitions
    /\ \A d \in Definitions : \A s \in DOMAIN Program[d].states :
          Program[d].states[s].branches \in Seq(Definitions)
    /\ NoMachine \notin Created
    /\ \A n \in Machines, status \in {"SUCCEEDED", "FAILED"} :
          NoExecution # [machine |-> n, status |-> status]

VARIABLES
    machines,   \* table sf_state_machines: the definition
    executions  \* table sf_executions, by exec_id: the machine and the status

sfvars == <<machines, executions>>
vars == <<requests, sfvars>>

Execution == [machine : Machines, status : {"SUCCEEDED", "FAILED"}]

TypeOK ==
    /\ RequestsTypeOK(Machines)
    /\ machines \in [Machines -> Created \cup {NoMachine}]
    /\ executions \in [Executions -> Execution \cup {NoExecution}]

-----------------------------------------------------------------------------
On(n, todo, r) == Also([todo |-> todo, touches |-> {n}, machine |-> n], r)

Ask(t, s) == Begin(t, s) /\ UNCHANGED sfvars

(* create_state_machine: the name is the primary key. *)
CreateCheck(t, n, d) == machines[n] = NoMachine /\ Ask(t, On(n, <<"create">>, [definition |-> d]))

Create(t) ==
    /\ Does(t, "create")
    /\ machines' = [machines EXCEPT ![local[t].machine] = IF @ = NoMachine THEN local[t].definition ELSE @]
    /\ UNCHANGED executions

DeleteRequire(t, n) == machines[n] # NoMachine /\ Ask(t, On(n, <<"drop executions", "drop machine">>, <<>>))

(* Mutant: executions stay on record. *)
KeepExecutions(t) == Does(t, "drop executions") /\ UNCHANGED sfvars

DropExecutions(t) ==
    /\ Does(t, "drop executions")
    /\ executions' = [e \in Executions |-> IF executions[e] # NoExecution /\ executions[e].machine = local[t].machine
                                           THEN NoExecution ELSE executions[e]]
    /\ UNCHANGED machines

DropMachine(t) ==
    /\ Does(t, "drop machine")
    /\ machines' = [machines EXCEPT ![local[t].machine] = NoMachine]
    /\ UNCHANGED executions

-----------------------------------------------------------------------------
(* Interpreters.  One is known by its path: <<>> for that of the request,  *)
(* p \o <<i>> for branch i of the Parallel state that p is in.             *)

Interpreter(d) == [definition |-> d, at |-> Program[d].start, visited |-> 0, status |-> "running"]

Start(t, n, e) ==
    /\ machines[n] # NoMachine
    /\ Ask(t, On(n, <<"run", "record">>,
                 [execution |-> e, raised |-> {},
                  interpreters |-> [p \in {<<>>} |-> Interpreter(machines[n])]]))

States(i) == Program[i.definition].states

Running(t, p) == At(t, "run") /\ p \in DOMAIN local[t].interpreters /\ local[t].interpreters[p].status = "running"

(* The top of the loop, for a state of one of these types. *)
Visits(t, p, types) ==
    LET i == local[t].interpreters[p] IN
    /\ Running(t, p)
    /\ i.visited < MaxVisits
    /\ i.at \in DOMAIN States(i)
    /\ States(i)[i.at].type \in types

Becomes(t, p, i) ==
    /\ Continue(t, [local[t] EXCEPT !.interpreters[p] = i])
    /\ UNCHANGED sfvars

(* On to the next state, or back to the caller after the last. *)
GoOn(t, p) ==
    LET i == local[t].interpreters[p] IN
    \E next \in States(i)[i.at].next \ {"none"} :
        Becomes(t, p, [i EXCEPT !.visited = @ + 1,
                                !.at = IF next = "end" THEN @ ELSE next,
                                !.status = IF next = "end" THEN "returned" ELSE "running"])

Raise(t, p) ==
    /\ Continue(t, [local[t] EXCEPT !.interpreters[p].status = "raised", !.raised = @ \cup {p}])
    /\ UNCHANGED sfvars

(* More visits than the limit, or a name that is no state: no StartAt is   *)
(* one too.                                                                *)
Stray(t, p) ==
    LET i == local[t].interpreters[p] IN
    Running(t, p) /\ (i.visited >= MaxVisits \/ i.at \notin DOMAIN States(i)) /\ Raise(t, p)

Task(t, p) == Visits(t, p, {"Task"}) /\ (GoOn(t, p) \/ Raise(t, p))

PassOrWait(t, p) == Visits(t, p, {"Pass", "Wait"}) /\ GoOn(t, p)

(* Mutant: a Choice is no visit. *)
ChoiceUncounted(t, p) ==
    LET i == local[t].interpreters[p] IN
    /\ Visits(t, p, {"Choice"})
    /\ \/ \E next \in States(i)[i.at].next \ {"none"} : Becomes(t, p, [i EXCEPT !.at = next])
       \/ "none" \in States(i)[i.at].next /\ Raise(t, p)

Choice(t, p) ==
    LET i == local[t].interpreters[p] IN
    Visits(t, p, {"Choice"}) /\ (GoOn(t, p) \/ ("none" \in States(i)[i.at].next /\ Raise(t, p)))

Succeed(t, p) ==
    Visits(t, p, {"Succeed"}) /\ Becomes(t, p, [local[t].interpreters[p] EXCEPT !.status = "returned"])

Fail(t, p) == Visits(t, p, {"Fail"}) /\ Raise(t, p)

(* _exec_parallel *)
Branches(t, p) == LET i == local[t].interpreters[p] IN States(i)[i.at].branches

Fork(t, p) ==
    LET branches == Branches(t, p) IN
    /\ Visits(t, p, {"Parallel"})
    /\ Continue(t, [local[t] EXCEPT !.interpreters =
                      Also([q \in {p \o <<b>> : b \in DOMAIN branches} |-> Interpreter(branches[q[Len(q)]])],
                           [@ EXCEPT ![p].status = "joining"])])
    /\ UNCHANGED sfvars

Children(t, p) == {q \in DOMAIN local[t].interpreters : Len(q) = Len(p) + 1 /\ SubSeq(q, 1, Len(p)) = p}

Ended(t, q) == local[t].interpreters[q].status \in {"returned", "raised"}

Failed(t, q) == local[t].interpreters[q].status = "raised"

(* Once every branch has ended; an error of any of them is raised again.   *)
Joining(t, p, ended, errors) ==
    LET i == local[t].interpreters[p]
        over == {q \in Children(t, p) : Ended(t, q)}
        rest == [q \in DOMAIN local[t].interpreters \ over |-> local[t].interpreters[q]]
    IN  /\ At(t, "run") /\ p \in DOMAIN local[t].interpreters /\ i.status = "joining"
        /\ ended
        /\ IF errors # {}
           THEN Continue(t, [local[t] EXCEPT !.interpreters = [rest EXCEPT ![p].status = "raised"],
                                             !.raised = @ \cup {p}])
           ELSE \E next \in States(i)[i.at].next :
                   Continue(t, [local[t] EXCEPT !.interpreters =
                       [rest EXCEPT ![p].visited = i.visited + 1,
                                    ![p].at = IF next = "end" THEN @ ELSE next,
                                    ![p].status = IF next = "end" THEN "returned" ELSE "running"]])
        /\ UNCHANGED sfvars

(* Mutant: the error of the last branch only. *)
JoinLast(t, p) ==
    Joining(t, p, \A q \in Children(t, p) : Ended(t, q),
            {q \in Children(t, p) : Failed(t, q) /\ \A r \in Children(t, p) : r[Len(r)] <= q[Len(q)]})

(* Mutant: only the last thread is joined. *)
JoinOne(t, p) ==
    Joining(t, p, \E q \in Children(t, p) : Ended(t, q) /\ \A r \in Children(t, p) : r[Len(r)] <= q[Len(q)],
            {q \in Children(t, p) : Failed(t, q)})

Join(t, p) ==
    Joining(t, p, \A q \in Children(t, p) : Ended(t, q), {q \in Children(t, p) : Failed(t, q)})

(* start_execution goes on: the status, and the INSERT, which raises if    *)
(* the name is taken.                                                      *)
Finish(t) ==
    LET root == local[t].interpreters[<<>>] IN
    /\ At(t, "run") /\ root.status \in {"returned", "raised"}
    /\ Continue(t, Also([local[t] EXCEPT !.todo = Tail(@)],
                        [status |-> IF root.status = "returned" THEN "SUCCEEDED" ELSE "FAILED"]))
    /\ UNCHANGED sfvars

Record(t) ==
    LET s == local[t] IN
    /\ Does(t, "record")
    /\ executions' = [executions EXCEPT ![s.execution] =
                        IF @ = NoExecution THEN [machine |-> s.machine, status |-> s.status] ELSE @]
    /\ UNCHANGED machines

-----------------------------------------------------------------------------
Init ==
    /\ InitRequests
    /\ machines \in [Machines -> Created \cup {NoMachine}]
    /\ executions = [e \in Executions |-> NoExecution]

Accept(t) ==
    \E n \in Machines : \/ \E d \in Created : CreateCheck(t, n, d)
                        \/ \E e \in Executions : Start(t, n, e)
                        \/ DeleteRequire(t, n)

Administer(t) == Create(t) \/ DropExecutions(t) \/ DropMachine(t)

Execute(t) ==
    \/ At(t, "run") /\ \E p \in DOMAIN local[t].interpreters :
          \/ Stray(t, p) \/ Task(t, p) \/ PassOrWait(t, p) \/ Choice(t, p)
          \/ Succeed(t, p) \/ Fail(t, p) \/ Fork(t, p) \/ Join(t, p)
    \/ Finish(t) \/ Record(t)

Next ==
    \/ \E t \in Workers : Accept(t) \/ Administer(t) \/ Execute(t)
    \/ (Crash \/ \E t \in Workers : ~At(t, "run") /\ Fails(t)) /\ UNCHANGED sfvars

(* Threads are scheduled fairly and the functions of a Task return.        *)
Spec == Init /\ [][Next]_vars /\ \A t \in Workers : WF_vars(Execute(t))

-----------------------------------------------------------------------------
(* Properties *)

(* stepfunctions.py:231-237: while a branch runs its parent waits, so that *)
(* nothing of an execution goes on once it is over.                        *)
ParentsWait ==
    \A t \in Workers : "interpreters" \in DOMAIN local[t] =>
        LET all == local[t].interpreters IN
        \A p \in DOMAIN all : \A q \in DOMAIN all :
            Len(p) < Len(q) /\ SubSeq(q, 1, Len(p)) = p => all[p].status = "joining"

(* stepfunctions.py:224-237 and 318-327: an execution FAILED exactly if an *)
(* interpreter raised, however deep and whichever branch ended last.       *)
FailedIfAnyRaised ==
    \A t \in Workers : At(t, "record") =>
        (local[t].status = "FAILED") = (local[t].raised # {})

(* stepfunctions.py:286-289: an execution of a machine that is gone means  *)
(* that it overlapped the deletion, or that one broke off.                 *)
ExecutionsHaveMachines ==
    \A e \in Executions : executions[e] # NoExecution /\ Quiet(executions[e].machine) =>
        machines[executions[e].machine] # NoMachine

(* The tables hold rows of their schema, and references within them.       *)
RecordsOK == TypeOK /\ ExecutionsHaveMachines

(* stepfunctions.py:150-152 "execution limit exceeded (cycle?)": every     *)
(* execution ends, whatever cycle its definition has.                      *)
ExecutionsEnd == \A t \in Workers : At(t, "run") ~> local[t] = Idle
=============================================================================
