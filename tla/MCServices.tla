----------------------------- MODULE MCServices -----------------------------
(* A small instance for TLC of the services that call, or tell, others.    *)
EXTENDS Services

OnePattern ==
    {[source |-> {[kind |-> "one of", values |-> {"app"}],
                  [kind |-> "anything-but", values |-> {"app", "db"}]},
      count |-> {[kind |-> "numeric", ops |-> <<[op |-> ">", n |-> 1], [op |-> "<=", n |-> 3]>>]},
      reason |-> {[kind |-> "exists", exists |-> FALSE]}]}
OneEvent == {[source |-> "app", count |-> 3]}
TwoBatches == {<<1, 2>>, <<3, Nameless>>}
ThreeRoutes == {<<"GET", "users", Parameter>>, <<"GET", "users", "me">>, <<"GET", Parameter>>}
OnePath == {<<"GET", "users", "me">>}

Symmetry == Permutations(Workers) \cup Permutations(Rules)
=============================================================================
