-------------------------------- MODULE SSM --------------------------------
(***************************************************************************)
(* Parameters and their history, src/openaws/ssm.py, with the keys of KMS  *)
(* that SecureStrings are encrypted under.  A value is the number of the   *)
(* request that put it; what is stored also names the key it is encrypted  *)
(* under.                                                                  *)
(***************************************************************************)
EXTENDS KMS

CONSTANTS Parameters, NoParameter

Stored == [value : 1 .. MaxRequests, key : KeyIds \cup {NoKey}]

(* A row of ssm_parameters; key is kms_key_id.                             *)
Parameter == [stored : Stored, type : {"String", "SecureString"}, key : KeyIds \cup {NoKey},
              version : 1 .. MaxRequests]

(* A row of ssm_history; id is the number of its request.                  *)
Entry == [name : Parameters, id : 1 .. MaxRequests, stored : Stored, version : 1 .. MaxRequests]

VARIABLES
    parameters,  \* table ssm_parameters
    entries,     \* table ssm_history
    paramTags,   \* parameters with a row in table ssm_tags
    deleted,     \* history: parameters ever deleted
    retyped      \* history: parameters overwritten with another type

ssmvars == <<parameters, entries, paramTags, deleted, retyped>>
vars == <<requests, kmsvars, ssmvars>>

TypeOK ==
    /\ RequestsTypeOK(Parameters)
    /\ KMSTypeOK
    /\ parameters \in [Parameters -> Parameter \cup {NoParameter}]
    /\ entries \subseteq Entry
    /\ \A e, f \in entries : e.id = f.id => e = f
    /\ {paramTags, deleted, retyped} \subseteq SUBSET Parameters

-----------------------------------------------------------------------------
(* put_parameter *)

(* SELECT version; an existing parameter is only overwritten if the client *)
(* says so.                                                                *)
PutSelect(t, n, k, tag, overwrite) ==
    LET row == parameters[n]
        new == row = NoParameter
    IN  /\ new \/ overwrite
        /\ Begin(t, [todo |-> (IF k = NoKey THEN <<>> ELSE <<"encrypt">>)
                              \o (IF new THEN <<"insert">> ELSE <<"update">>) \o <<"history">>
                              \o (IF tag THEN <<"tag">> ELSE <<>>),
                     touches |-> {n}, name |-> n, value |-> begun + 1, key |-> k,
                     version |-> IF new THEN 1 ELSE row.version + 1])
        /\ UNCHANGED <<kmsvars, ssmvars>>

(* kms.encrypt, of a key that is there and enabled. *)
PutEncrypt(t) ==
    /\ At(t, "encrypt")
    /\ IF Usable(local[t].key) THEN Advance(t) ELSE Ends(t)
    /\ UNCHANGED <<kmsvars, ssmvars>>

(* What kms.encrypt, or nothing, has made of the value.                    *)
StoredValue(s) == [value |-> s.value, key |-> s.key]

TypeOf(k) == IF k = NoKey THEN "String" ELSE "SecureString"

(* The name is the primary key: a second INSERT of it raises. *)
PutInsert(t) ==
    LET s == local[t] IN
    /\ At(t, "insert")
    /\ IF parameters[s.name] = NoParameter
       THEN /\ parameters' = [parameters EXCEPT ![s.name] =
                                [stored |-> StoredValue(s), type |-> TypeOf(s.key),
                                 key |-> s.key, version |-> s.version]]
            /\ Advance(t)
       ELSE UNCHANGED parameters /\ Ends(t)
    /\ UNCHANGED <<kmsvars, entries, paramTags, deleted, retyped>>

(* Mutant: the key of the value is not stored. *)
PutUpdateValueOnly(t) ==
    LET s == local[t]
        row == parameters[s.name]
    IN  /\ Does(t, "update")
        /\ IF row = NoParameter THEN UNCHANGED <<parameters, retyped>>
           ELSE /\ parameters' = [parameters EXCEPT ![s.name].stored = StoredValue(s),
                                                    ![s.name].key = NoKey,
                                                    ![s.name].version = s.version]
                /\ retyped' = IF row.type = TypeOf(s.key) THEN retyped ELSE retyped \cup {s.name}
        /\ UNCHANGED <<kmsvars, entries, paramTags, deleted>>

(* It leaves the type column alone. *)
PutUpdate(t) ==
    LET s == local[t]
        row == parameters[s.name]
    IN  /\ Does(t, "update")
        /\ IF row = NoParameter THEN UNCHANGED <<parameters, retyped>>
           ELSE /\ parameters' = [parameters EXCEPT ![s.name].stored = StoredValue(s),
                                                    ![s.name].key = s.key,
                                                    ![s.name].version = s.version]
                /\ retyped' = IF row.type = TypeOf(s.key) THEN retyped ELSE retyped \cup {s.name}
        /\ UNCHANGED <<kmsvars, entries, paramTags, deleted>>

(* Mutant: the version there was is recorded. *)
PutHistoryBefore(t) ==
    LET s == local[t] IN
    /\ Does(t, "history")
    /\ entries' = entries \cup {[name |-> s.name, id |-> s.value, stored |-> StoredValue(s),
                                 version |-> IF s.version = 1 THEN 1 ELSE s.version - 1]}
    /\ UNCHANGED <<kmsvars, parameters, paramTags, deleted, retyped>>

PutHistory(t) ==
    LET s == local[t] IN
    /\ Does(t, "history")
    /\ entries' = entries \cup {[name |-> s.name, id |-> s.value, stored |-> StoredValue(s),
                                 version |-> s.version]}
    /\ UNCHANGED <<kmsvars, parameters, paramTags, deleted, retyped>>

(* _upsert_tag, as one step: both ways the key has the new value.          *)
PutTag(t) ==
    /\ Does(t, "tag")
    /\ paramTags' = paramTags \cup {local[t].name}
    /\ UNCHANGED <<kmsvars, parameters, entries, deleted, retyped>>

(* delete_parameter and, name by name, delete_parameters; history and tags *)
(* stay.                                                                   *)
DeleteSelect(t, n) ==
    /\ parameters[n] # NoParameter
    /\ Begin(t, [todo |-> <<"delete">>, touches |-> {n}, name |-> n])
    /\ UNCHANGED <<kmsvars, ssmvars>>

Delete(t) ==
    /\ Does(t, "delete")
    /\ parameters' = [parameters EXCEPT ![local[t].name] = NoParameter]
    /\ deleted' = deleted \cup {local[t].name}
    /\ UNCHANGED <<kmsvars, entries, paramTags, retyped>>

(* _format_param: the value get_parameter answers with.  A SecureString    *)
(* whose key is not usable comes as it is stored.                          *)
Answer(row) ==
    IF row.type = "SecureString" /\ row.key # NoKey /\ Usable(row.stored.key)
    THEN [row.stored EXCEPT !.key = NoKey]
    ELSE row.stored

-----------------------------------------------------------------------------
InitTables ==
    /\ KMSInit
    /\ parameters = [n \in Parameters |-> NoParameter]
    /\ entries = {} /\ paramTags = {} /\ deleted = {} /\ retyped = {}

Init == InitRequests /\ InitTables

Serve(t) ==
    \/ \E n \in Parameters :
          \/ DeleteSelect(t, n)
          \/ \E k \in KeyIds \cup {NoKey}, tag, overwrite \in BOOLEAN :
                (k # NoKey => keys[k] # "none") /\ PutSelect(t, n, k, tag, overwrite)
    \/ PutEncrypt(t) \/ PutInsert(t) \/ PutUpdate(t) \/ PutHistory(t) \/ PutTag(t) \/ Delete(t)

Next ==
    \/ \E t \in Workers : Serve(t)
    \/ \E t \in Workers : KMSServe(t) /\ UNCHANGED ssmvars
    \/ (Crash \/ \E t \in Workers : Fails(t)) /\ UNCHANGED <<kmsvars, ssmvars>>

Spec == Init /\ [][Next]_vars

-----------------------------------------------------------------------------
(* Properties *)

(* ssm.py:53-90: a parameter whose requests did not overlap, and that was  *)
(* not deleted in between, has every version from the first to its own in  *)
(* the history once, and the last is what it holds.                        *)
HistoryComplete ==
    \A n \in Parameters \ deleted :
        LET mine == {e \in entries : e.name = n}
        IN  Quiet(n) /\ parameters[n] # NoParameter =>
              /\ {e.version : e \in mine} = 1 .. parameters[n].version
              /\ Cardinality(mine) = parameters[n].version
              /\ \E e \in mine : /\ e.version = parameters[n].version
                                 /\ e.stored = parameters[n].stored

(* ssm.py:138-155: whatever requests overlap and wherever they break off,  *)
(* a parameter is answered in clear as long as its key is enabled and it   *)
(* was always put with one type.                                           *)
AnsweredInClear ==
    \A n \in Parameters \ retyped :
        LET row == parameters[n]
        IN  (row # NoParameter /\ (row.stored.key = NoKey \/ Usable(row.stored.key)))
              => Answer(row) = [value |-> row.stored.value, key |-> NoKey]
=============================================================================
