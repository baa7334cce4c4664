----------------------------- MODULE MCStorage -----------------------------
(* Small instances of Storage for TLC. *)
EXTENDS Storage, TLC

CONSTANTS server, cli, w1, w2, c1

(* Two worker threads of the server, and a command beside it. *)
Processes2 == (w1 :> server) @@ (w2 :> server) @@ (c1 :> cli)
=============================================================================
