--------------------------- MODULE SecretsManager ---------------------------
(***************************************************************************)
(* Secrets and their versions, src/openaws/secretsmanager.py.  A version   *)
(* is a row of its own whose primary key is the version id alone; staging  *)
(* labels say which version is current.  Values, ARNs, descriptions and    *)
(* the rotation configuration are data that nothing here depends on;       *)
(* update_secret with a value is put_secret_value with an id of its own.   *)
(* created_at orders versions as the numbers of their requests do.         *)
(***************************************************************************)
EXTENDS Requests

CONSTANTS
    Secrets,    \* names
    Tokens,     \* client_request_tokens
    StageSets,  \* the version_stages clients ask for
    TagKeys,
    NoVersion

VersionIds == (1 .. MaxRequests) \cup Tokens  \* a number for uuid4

Labels == {"AWSCURRENT", "AWSPREVIOUS", "AWSPENDING"}

SecretVersion == [secret : Secrets, stages : SUBSET Labels, at : 1 .. MaxRequests]

VARIABLES
    secrets,         \* table sm_secrets: "none", "live" or "deleted" (deleted_at)
    secretVersions,  \* table sm_versions, by version_id
    secretTags,      \* table sm_tags
    currents,        \* history: the ids made current, per secret, in order
    reused           \* history: secrets that lost a row, or its labels, by a token used again

smvars == <<secrets, secretVersions, secretTags, currents, reused>>
vars == <<requests, smvars>>

TypeOK ==
    /\ RequestsTypeOK(Secrets)
    /\ secrets \in [Secrets -> {"none", "live", "deleted"}]
    /\ secretVersions \in [VersionIds -> SecretVersion \cup {NoVersion}]
    /\ secretTags \in [Secrets -> SUBSET TagKeys]
    /\ currents \in [Secrets -> Seq(VersionIds)]
    /\ reused \subseteq Secrets

-----------------------------------------------------------------------------
VersionsOf(n) == {v \in VersionIds : /\ secretVersions[v] # NoVersion
                                     /\ secretVersions[v].secret = n}

WithLabel(n, label) == {v \in VersionsOf(n) : label \in secretVersions[v].stages}

On(n, todo) == [todo |-> todo, touches |-> {n}, name |-> n]

Ask(t, s) == Begin(t, s) /\ UNCHANGED smvars

-----------------------------------------------------------------------------
(* create_secret; its number is the id of its first version.               *)
CreateCheck(t, n, new) ==
    /\ secrets[n] = "none"
    /\ Ask(t, Also(On(n, IF new = {} THEN <<"insert", "version">> ELSE <<"insert", "version", "tag">>),
                   [id |-> begun + 1, at |-> begun + 1, stages |-> {"AWSCURRENT"}, tags |-> new]))

(* The name is the primary key: a second INSERT of it raises. *)
CreateInsert(t) ==
    LET n == local[t].name IN
    /\ At(t, "insert")
    /\ secrets' = [secrets EXCEPT ![n] = IF @ = "none" THEN "live" ELSE @]
    /\ IF secrets[n] = "none" THEN Advance(t) ELSE Ends(t)
    /\ UNCHANGED <<secretVersions, secretTags, currents, reused>>

(* _upsert_tag, as one step: both ways the key has the new value.          *)
Tag(t) ==
    /\ At(t, "tag")
    /\ secretTags' = [secretTags EXCEPT ![local[t].name] = @ \cup local[t].tags]
    /\ Advance(t)
    /\ UNCHANGED <<secrets, secretVersions, currents, reused>>

TagRequire(t, n, new) ==
    secrets[n] # "none" /\ Ask(t, Also([On(n, <<"tag">>) EXCEPT !.touches = {}], [tags |-> new]))

UntagRequire(t, n, old) ==
    secrets[n] # "none" /\ Ask(t, Also([On(n, <<"untag">>) EXCEPT !.touches = {}], [tags |-> old]))

Untag(t) ==
    /\ Does(t, "untag")
    /\ secretTags' = [secretTags EXCEPT ![local[t].name] = @ \ local[t].tags]
    /\ UNCHANGED <<secrets, secretVersions, currents, reused>>

-----------------------------------------------------------------------------
(* delete_secret, with and without recovery, and restore_secret.           *)
DeleteRequire(t, n) ==
    /\ secrets[n] # "none"
    /\ \E todo \in {<<"delete versions", "delete tags", "delete">>, <<"mark">>} : Ask(t, On(n, todo))

DeleteVersions(t) ==
    /\ Does(t, "delete versions")
    /\ secretVersions' = [v \in VersionIds |->
                            IF v \in VersionsOf(local[t].name) THEN NoVersion ELSE secretVersions[v]]
    /\ currents' = [currents EXCEPT ![local[t].name] = <<>>]
    /\ UNCHANGED <<secrets, secretTags, reused>>

DeleteTags(t) ==
    /\ Does(t, "delete tags")
    /\ secretTags' = [secretTags EXCEPT ![local[t].name] = {}]
    /\ UNCHANGED <<secrets, secretVersions, currents, reused>>

Delete(t) ==
    /\ Does(t, "delete")
    /\ secrets' = [secrets EXCEPT ![local[t].name] = "none"]
    /\ UNCHANGED <<secretVersions, secretTags, currents, reused>>

RestoreRequire(t, n) == secrets[n] # "none" /\ Ask(t, On(n, <<"unmark">>))

(* UPDATE ... SET deleted_at *)
Mark(t) ==
    /\ At(t, "mark") \/ At(t, "unmark")
    /\ secrets' = [secrets EXCEPT ![local[t].name] =
                     IF @ = "none" THEN @ ELSE IF At(t, "mark") THEN "deleted" ELSE "live"]
    /\ Advance(t)
    /\ UNCHANGED <<secretVersions, secretTags, currents, reused>>

-----------------------------------------------------------------------------
(* put_secret_value *)

PutRequire(t, n, id, stages) ==
    /\ secrets[n] = "live"
    /\ Ask(t, Also(On(n, IF "AWSCURRENT" \in stages THEN <<"select", "version">> ELSE <<"version">>),
                   [id |-> id, at |-> begun + 1, stages |-> stages]))

(* Mutant: only the newest version is looked at. *)
PutSelectNewest(t) ==
    LET n == local[t].name
        newest == {v \in VersionsOf(n) : \A w \in VersionsOf(n) :
                                           secretVersions[w].at <= secretVersions[v].at}
    IN  /\ At(t, "select")
        /\ Continue(t, Also([local[t] EXCEPT !.todo = <<"demote", "version">>],
                            [old |-> [v \in newest \cap WithLabel(n, "AWSCURRENT") |->
                                        secretVersions[v].stages]]))
        /\ UNCHANGED smvars

(* The versions of the secret that are current, with the labels they have. *)
PutSelect(t) ==
    /\ At(t, "select")
    /\ Continue(t, Also([local[t] EXCEPT !.todo = <<"demote", "version">>],
                        [old |-> [v \in WithLabel(local[t].name, "AWSCURRENT") |->
                                    secretVersions[v].stages]]))
    /\ UNCHANGED smvars

(* UPDATE ... SET stages_json WHERE version_id, one after another; the     *)
(* labels are those SELECTed, whatever has become of the row, which may be *)
(* that of another secret by now.                                          *)
PutDemote(t) ==
    LET s == local[t] IN
    /\ At(t, "demote")
    /\ \E v \in DOMAIN s.old :
          /\ secretVersions' = IF secretVersions[v] = NoVersion THEN secretVersions
                               ELSE [secretVersions EXCEPT ![v].stages =
                                       (s.old[v] \ {"AWSCURRENT"}) \cup {"AWSPREVIOUS"}]
          /\ reused' = IF secretVersions[v] = NoVersion THEN reused
                       ELSE reused \cup ({secretVersions[v].secret} \ {s.name})
          /\ Continue(t, [s EXCEPT !.old = [w \in DOMAIN s.old \ {v} |-> s.old[w]]])
    /\ UNCHANGED <<secrets, secretTags, currents>>

PutDemoted(t) ==
    /\ At(t, "demote") /\ DOMAIN local[t].old = {}
    /\ Advance(t)
    /\ UNCHANGED smvars

(* INSERT OR REPLACE: a token used before takes the row it named, also     *)
(* that of another secret.                                                 *)
PutVersion(t) ==
    LET s == local[t]
        row == secretVersions[s.id]
    IN  /\ Does(t, "version")
        /\ secretVersions' = [secretVersions EXCEPT ![s.id] =
                                [secret |-> s.name, stages |-> s.stages, at |-> s.at]]
        /\ currents' = [currents EXCEPT ![s.name] =
                          IF "AWSCURRENT" \in s.stages THEN Append(@, s.id) ELSE @]
        /\ reused' = IF row = NoVersion THEN reused ELSE reused \cup {row.secret}
        /\ UNCHANGED <<secrets, secretTags>>

-----------------------------------------------------------------------------
InitTables ==
    /\ secrets = [n \in Secrets |-> "none"]
    /\ secretVersions = [v \in VersionIds |-> NoVersion]
    /\ secretTags = [n \in Secrets |-> {}]
    /\ currents = [n \in Secrets |-> <<>>]
    /\ reused = {}

Init == InitRequests /\ InitTables

Serve(t) ==
    \/ \E n \in Secrets :
          \/ \E g \in {{}, TagKeys} : CreateCheck(t, n, g)
          \/ DeleteRequire(t, n)
          \/ RestoreRequire(t, n)
          \/ TagRequire(t, n, TagKeys)
          \/ UntagRequire(t, n, TagKeys)
          \/ \E id \in Tokens \cup {begun + 1}, stages \in StageSets : PutRequire(t, n, id, stages)
    \/ CreateInsert(t) \/ Tag(t) \/ Untag(t)
    \/ DeleteVersions(t) \/ DeleteTags(t) \/ Delete(t) \/ Mark(t)
    \/ PutSelect(t) \/ PutDemote(t) \/ PutDemoted(t) \/ PutVersion(t)

Next ==
    \/ \E t \in Workers : Serve(t)
    \/ (Crash \/ \E t \in Workers : Fails(t)) /\ UNCHANGED smvars

Spec == Init /\ [][Next]_vars

-----------------------------------------------------------------------------
(* Properties *)

(* secretsmanager.py:144-161: as long as no two requests for a secret      *)
(* overlap and no token is used twice, exactly one version is current, the *)
(* one put last as such, and the newest version labelled AWSPREVIOUS is    *)
(* the one that was current before it, where no StageSets has that label:  *)
(* a client may ask for it, and put_secret_value gives it as it is asked.  *)
CurrentAndPrevious ==
    \A n \in Secrets :
        LET k == Len(currents[n])
            old == WithLabel(n, "AWSPREVIOUS")
        IN  Quiet(n) /\ n \notin reused /\ secrets[n] # "none" =>
              /\ WithLabel(n, "AWSCURRENT") = {currents[n][k]}
              /\ {v \in old : \A w \in old : secretVersions[w].at <= secretVersions[v].at}
                   = (IF k = 1 THEN {} ELSE {currents[n][k - 1]})
=============================================================================
