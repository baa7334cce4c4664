------------------------------ MODULE MCStores ------------------------------
(* A small instance for TLC of the services that keep records for others.  *)
EXTENDS Stores

Enabled == [b \in Buckets |-> "enabled"]
CurrentOrPending == {{"AWSCURRENT"}, {"AWSPENDING"}}
AllowOrDeny == {{"Allow"}, {"Deny"}}

Symmetry == Permutations(Workers) \cup Permutations(Policies) \cup Permutations(Clients)
=============================================================================
