-------------------------------- MODULE KMS --------------------------------
(***************************************************************************)
(* Keys, src/openaws/kms.py.  Rows are never removed: a deletion is only   *)
(* scheduled, and enable_key takes it back.  Encryption writes nothing; it *)
(* reads the state of the key once (_key_bytes), and what it returns can   *)
(* be decrypted under the same key whenever that is enabled.  Module SSM   *)
(* uses it.                                                                *)
(***************************************************************************)
EXTENDS Requests

CONSTANTS
    KeyIds,    \* key ids (uuid4)
    Aliases,
    NoKey

KeyStates == {"Enabled", "Disabled", "PendingDeletion"}

VARIABLES
    keys,      \* table kms_keys: the state
    rotating,  \* table kms_keys: rotation_enabled
    aliases    \* table kms_aliases: the key

kmsvars == <<keys, rotating, aliases>>

KMSTypeOK ==
    /\ keys \in [KeyIds -> KeyStates \cup {"none"}]
    /\ rotating \subseteq {k \in KeyIds : keys[k] # "none"}
    /\ aliases \in [Aliases -> KeyIds \cup {NoKey}]
    /\ \A a \in Aliases : aliases[a] # NoKey => keys[aliases[a]] # "none"

(* _key_bytes *)
Usable(k) == keys[k] = "Enabled"

OnKey(k, step, arg) == [todo |-> <<step>>, touches |-> {}, key |-> k, arg |-> arg]

CreateKey(t, k) ==
    /\ keys[k] = "none"
    /\ Begin(t, Idle)
    /\ keys' = [keys EXCEPT ![k] = "Enabled"]
    /\ UNCHANGED <<rotating, aliases>>

(* schedule_key_deletion, disable_key, enable_key, enable_key_rotation and *)
(* disable_key_rotation begin with _require_key.                           *)
KeyRequire(t, k) ==
    /\ keys[k] # "none"
    /\ \/ \E state \in KeyStates : Begin(t, OnKey(k, "state", state))
       \/ \E on \in BOOLEAN : Begin(t, OnKey(k, "rotation", on))
    /\ UNCHANGED kmsvars

SetState(t) ==
    /\ Does(t, "state")
    /\ keys' = [keys EXCEPT ![local[t].key] = local[t].arg]
    /\ UNCHANGED <<rotating, aliases>>

SetRotation(t) ==
    /\ Does(t, "rotation")
    /\ rotating' = IF local[t].arg THEN rotating \cup {local[t].key} ELSE rotating \ {local[t].key}
    /\ UNCHANGED <<keys, aliases>>

(* _require_key and the look for an alias of that name. *)
CreateAliasCheck(t, a, k) ==
    /\ keys[k] # "none" /\ aliases[a] = NoKey
    /\ Begin(t, OnKey(k, "alias", a))
    /\ UNCHANGED kmsvars

(* The name is the primary key: a second INSERT of it raises. *)
CreateAlias(t) ==
    /\ Does(t, "alias")
    /\ aliases' = [aliases EXCEPT ![local[t].arg] = IF @ = NoKey THEN local[t].key ELSE @]
    /\ UNCHANGED <<keys, rotating>>

DeleteAlias(t, a) ==
    /\ Begin(t, Idle)
    /\ aliases' = [aliases EXCEPT ![a] = NoKey]
    /\ UNCHANGED <<keys, rotating>>

KMSInit ==
    /\ keys = [k \in KeyIds |-> "none"]
    /\ rotating = {}
    /\ aliases = [a \in Aliases |-> NoKey]

KMSServe(t) ==
    \/ \E k \in KeyIds : \/ CreateKey(t, k)
                         \/ KeyRequire(t, k)
                         \/ \E a \in Aliases : CreateAliasCheck(t, a, k)
    \/ \E a \in Aliases : DeleteAlias(t, a)
    \/ SetState(t) \/ SetRotation(t) \/ CreateAlias(t)
=============================================================================
