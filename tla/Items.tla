------------------------------- MODULE Items -------------------------------
(***************************************************************************)
(* Items of a table, what a condition says of one and what an operation    *)
(* makes of one (src/openaws/dynamodb.py), without any state.              *)
(***************************************************************************)
EXTENDS Integers, Sequences

CONSTANTS
    Tables,   \* table names
    Keys,     \* primary keys, as in the hash and range attributes
    KeyAttr,  \* the attribute that holds the key
    Attrs,    \* attribute names, KeyAttr among them
    Texts,    \* attribute values that are no numbers
    Numbers,  \* bound: the numbers attributes may have
    Absent, NoItem, NoCond

ASSUME ItemsAssumption ==
    /\ KeyAttr \in Attrs
    /\ Numbers \subseteq Int
    /\ Keys \subseteq Texts
    /\ Absent \notin Texts \cup Int
    /\ Texts \cap Int = {}

Values == Numbers \cup Texts

Item == [Attrs -> Values \cup {Absent}]

Stored == Item \cup {NoItem}

Condition == [func  : {"attribute_exists", "attribute_not_exists", "attribute_equals"},
              attr  : Attrs,
              value : Values \cup {Absent}]

(* SET and ADD give Absent to the attributes they do not name.             *)
Update == [SET : [Attrs -> Values \cup {Absent}], REMOVE : SUBSET Attrs,
           ADD : [Attrs -> Int \cup {Absent}]]

(* One write of one item; the condition of an operation may be missing.    *)
Operation ==
    [kind : {"put"}, table : Tables, key : Keys, cond : Condition \cup {NoCond}, item : Item]
    \cup [kind : {"delete"}, table : Tables, key : Keys, cond : Condition \cup {NoCond}]
    \cup [kind : {"update"}, table : Tables, key : Keys, cond : Condition \cup {NoCond},
          update : Update]

Place == Tables \X Keys

PlaceOf(op) == <<op.table, op.key>>

(* item.get(attr) *)
Get(old, attr) == IF old = NoItem THEN Absent ELSE old[attr]

(* _check_condition *)
Holds(cond, old) ==
    \/ cond = NoCond
    \/ cond.func = "attribute_exists" /\ Get(old, cond.attr) # Absent
    \/ cond.func = "attribute_not_exists" /\ Get(old, cond.attr) = Absent
    \/ cond.func = "attribute_equals" /\ Get(old, cond.attr) = cond.value

(* The item an update starts from: a new one has its key only.             *)
Base(op, old) ==
    IF old # NoItem THEN old
    ELSE [a \in Attrs |-> IF a = KeyAttr THEN op.key ELSE Absent]

(* After SET and REMOVE.                                                   *)
Assigned(op, old) ==
    [a \in Attrs |-> CASE a \in op.update.REMOVE -> Absent
                       [] a \notin op.update.REMOVE /\ op.update.SET[a] # Absent -> op.update.SET[a]
                       [] OTHER -> Base(op, old)[a]]

(* ADD to an attribute that is no number raises.                           *)
Valid(op, old) ==
    op.kind = "update" =>
        \A a \in Attrs : op.update.ADD[a] # Absent => Assigned(op, old)[a] \notin Texts

Added(op, old) ==
    LET item == Assigned(op, old)
    IN  [a \in Attrs |-> IF op.update.ADD[a] = Absent THEN item[a]
                         ELSE op.update.ADD[a] + (IF item[a] = Absent THEN 0 ELSE item[a])]

(* What is stored at the place of op after it.                             *)
Effect(op, old) == CASE op.kind = "put" -> op.item
                     [] op.kind = "delete" -> NoItem
                     [] op.kind = "update" -> Added(op, old)
=============================================================================
