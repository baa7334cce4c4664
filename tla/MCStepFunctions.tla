-------------------------- MODULE MCStepFunctions --------------------------
(* Small instances of StepFunctions for TLC. *)
EXTENDS StepFunctions

State(type, next) == [type |-> type, next |-> next, branches |-> <<>>]
Parallel(branches, next) == [type |-> "Parallel", next |-> next, branches |-> branches]

(* A circle of choices; a Parallel state in a branch of another; a branch  *)
(* that fails, and a state that is missing.                                *)
ProgramOf ==
    "loop"   :> [start |-> "again", states |-> [again |-> State("Choice", {"back", "end", "none"}),
                                                back |-> State("Choice", {"again"})]] @@
    "works"  :> [start |-> "work", states |-> [work |-> State("Task", {"done"}),
                                               done |-> State("Succeed", {"end"})]] @@
    "waits"  :> [start |-> "wait", states |-> [wait |-> State("Wait", {"end"})]] @@
    "fails"  :> [start |-> "stop", states |-> [stop |-> State("Fail", {"end"})]] @@
    "nested" :> [start |-> "both", states |-> [both |-> Parallel(<<"waits", "works">>, {"end"})]] @@
    "tree"   :> [start |-> "both", states |-> [both |-> Parallel(<<"loop", "nested">>, {"after"}),
                                               after |-> State("Pass", {"end"})]] @@
    "broken" :> [start |-> "both", states |-> [both |-> Parallel(<<"fails", "waits">>, {"end"})]] @@
    "astray" :> [start |-> "both", states |-> [both |-> Parallel(<<"waits", "waits">>, {"nowhere"})]]
=============================================================================
