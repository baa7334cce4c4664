---------------------------- MODULE MCDynamoDB ----------------------------
(* Small instances of DynamoDB for TLC. *)
EXTENDS DynamoDB, TLC

CONSTANTS accounts, log, ann, bob, id, amount

Nobody == [a \in Attrs |-> Absent]
New(k) == [Nobody EXCEPT ![id] = k]
If(f, a, v) == [func |-> f, attr |-> a, value |-> v]
Change(set, remove, add) == [SET |-> set, REMOVE |-> remove, ADD |-> add]
AddOne == Change(Nobody, {}, [Nobody EXCEPT ![amount] = 1])
TakeOne == Change(Nobody, {}, [Nobody EXCEPT ![amount] = -1])
Put(t, k, c, i) == [kind |-> "put", table |-> t, key |-> k, cond |-> c, item |-> i]
Delete(t, k, c) == [kind |-> "delete", table |-> t, key |-> k, cond |-> c]
Upd(t, k, c, u) == [kind |-> "update", table |-> t, key |-> k, cond |-> c, update |-> u]
One(op) == [kind |-> "single", ops |-> <<op>>]

(* Creation of an account that must not exist; its deletion if nothing is  *)
(* on it; a payment; a name in the place of an amount; a transfer between  *)
(* two accounts; a batch over two tables.                                  *)
Writes ==
    { One(Put(accounts, ann, If("attribute_not_exists", id, Absent), [New(ann) EXCEPT ![amount] = 0])),
      One(Delete(accounts, ann, If("attribute_equals", amount, 0))),
      One(Upd(accounts, ann, NoCond, AddOne)),
      One(Upd(accounts, bob, If("attribute_exists", amount, Absent),
              Change([Nobody EXCEPT ![amount] = bob], {}, Nobody))),
      [kind |-> "transact",
       ops |-> <<Upd(accounts, ann, If("attribute_equals", amount, 1), TakeOne),
                 Upd(accounts, bob, If("attribute_exists", id, Absent), AddOne)>>],
      [kind |-> "batch", ops |-> <<Put(accounts, bob, NoCond, New(bob)),
                                   Delete(accounts, ann, NoCond),
                                   Put(log, ann, NoCond, New(ann))>>] }

(* A transaction whose second operation adds to a name. *)
HalfATransaction ==
    { One(Put(accounts, bob, NoCond, [New(bob) EXCEPT ![amount] = bob])),
      One(Put(accounts, bob, NoCond, New(bob))),
      [kind |-> "transact", ops |-> <<Put(accounts, ann, NoCond, New(ann)),
                                      Upd(accounts, bob, NoCond, AddOne)>>] }

BothTables == {accounts, log}
Threads == Permutations(Workers)
=============================================================================
