-------------------------------- MODULE IAM --------------------------------
(***************************************************************************)
(* Users, groups, roles and policies, src/openaws/iam.py, and the sessions *)
(* of src/openaws/sts.py.  A policy document is the set of the effects it  *)
(* has on the one action and resource that simulations here ask about;     *)
(* paths, ARNs, descriptions and secrets are left out, and a principal has *)
(* one inline policy.  Statements that only differ in the table of the     *)
(* principal's kind are one action.                                        *)
(***************************************************************************)
EXTENDS Requests

CONSTANTS
    Users, Groups, Roles,  \* the names of principals, disjoint
    Policies,              \* the names of managed policies
    Documents,             \* the documents clients store, sets of effects
    NoDocument, NoUser

Principals == Users \cup Groups \cup Roles

Effects == {"Allow", "Deny"}

Ids == 1 .. MaxRequests  \* of keys and sessions: the request that made them

VARIABLES
    principals,   \* tables iam_users, iam_groups and iam_roles
    accessKeys,   \* table iam_access_keys: the owner
    memberships,  \* table iam_user_group_memberships
    policies,     \* table iam_policies
    inline,       \* table iam_inline_policies
    attachments,  \* table iam_attachments
    sessions,     \* table sts_sessions: [id, the role or NoUser]
    standing,     \* history: what has had an effect ever since a simulation began
    unasked       \* history: names given a policy while there was no such principal

identities == <<principals, accessKeys, memberships>>
permissions == <<policies, inline, attachments>>
tables == <<identities, permissions, sessions>>
iamvars == <<tables, standing, unasked>>
vars == <<requests, iamvars>>

TypeOK ==
    /\ RequestsTypeOK(Principals \cup Policies)
    /\ principals \subseteq Principals
    /\ accessKeys \in [Ids -> Users \cup {NoUser}]
    /\ memberships \subseteq Users \X Groups
    /\ policies \in [Policies -> Documents \cup {NoDocument}]
    /\ inline \in [Principals -> Documents \cup {NoDocument}]
    /\ attachments \subseteq Principals \X Policies
    /\ sessions \subseteq Ids \X (Roles \cup {NoUser})
    /\ standing \in [Workers -> [Effects -> SUBSET (Principals \cup Policies)]]
    /\ unasked \subseteq Principals

-----------------------------------------------------------------------------
On(rows, todo, r) == Also([todo |-> todo, touches |-> rows], r)

Ask(t, s) == Begin(t, s) /\ UNCHANGED tables

(* create_user, create_group and create_role: the SELECT, and the INSERT   *)
(* into a table whose key is the name.                                     *)
CreateCheck(t, x) == x \notin principals /\ Ask(t, On({x}, <<"create">>, [name |-> x]))

Create(t) ==
    /\ Does(t, "create")
    /\ principals' = principals \cup {local[t].name}
    /\ UNCHANGED <<accessKeys, memberships, permissions, sessions>>

(* delete_user, delete_group and delete_role *)
DeleteRequire(t, x) ==
    /\ x \in principals
    /\ Ask(t, On({x}, <<"drop">> \o (IF x \in Users THEN <<"drop keys">> ELSE <<>>)
                      \o (IF x \in Roles THEN <<>> ELSE <<"drop memberships">>)
                      \o <<"drop inline", "drop attachments">>, [name |-> x]))

Drop(t) ==
    /\ Does(t, "drop")
    /\ principals' = principals \ {local[t].name}
    /\ UNCHANGED <<accessKeys, memberships, permissions, sessions>>

DropKeys(t) ==
    /\ Does(t, "drop keys")
    /\ accessKeys' = [k \in Ids |-> IF accessKeys[k] = local[t].name THEN NoUser ELSE accessKeys[k]]
    /\ UNCHANGED <<principals, memberships, permissions, sessions>>

(* Mutant: those of a group with the name of the user. *)
DropMembershipsOfGroup(t) ==
    /\ Does(t, "drop memberships")
    /\ memberships' = {m \in memberships : m[2] # local[t].name}
    /\ UNCHANGED <<principals, accessKeys, permissions, sessions>>

DropMemberships(t) ==
    /\ Does(t, "drop memberships")
    /\ memberships' = {m \in memberships : local[t].name \notin {m[1], m[2]}}
    /\ UNCHANGED <<principals, accessKeys, permissions, sessions>>

DropInline(t) ==
    /\ Does(t, "drop inline")
    /\ inline' = [inline EXCEPT ![local[t].name] = NoDocument]
    /\ UNCHANGED <<identities, policies, attachments, sessions>>

(* Of a principal, or of a managed policy. *)
DropAttachments(t) ==
    /\ Does(t, "drop attachments")
    /\ attachments' = {a \in attachments : local[t].name \notin {a[1], a[2]}}
    /\ UNCHANGED <<identities, policies, inline, sessions>>

-----------------------------------------------------------------------------
(* create_access_key and delete_access_key *)
CreateKeyRequire(t, u) ==
    u \in principals /\ Ask(t, On({u}, <<"key">>, [key |-> begun + 1, user |-> u]))

DeleteKeyRequire(t, k) ==
    accessKeys[k] # NoUser /\ Ask(t, On({}, <<"key">>, [key |-> k, user |-> NoUser]))

SetKey(t) ==
    /\ Does(t, "key")
    /\ accessKeys' = [accessKeys EXCEPT ![local[t].key] = local[t].user]
    /\ UNCHANGED <<principals, memberships, permissions, sessions>>

(* add_user_to_group, which has nothing to do for a member already, and    *)
(* remove_user_from_group, which looks at nothing first.                   *)
AddCheck(t, u, g) ==
    /\ {u, g} \subseteq principals /\ <<u, g>> \notin memberships
    /\ Ask(t, On({u, g}, <<"add">>, [member |-> <<u, g>>]))

Add(t) ==
    /\ Does(t, "add")
    /\ memberships' = memberships \cup {local[t].member}
    /\ UNCHANGED <<principals, accessKeys, permissions, sessions>>

Remove(t, u, g) == Ask(t, On({}, <<"remove">>, [member |-> <<u, g>>]))

RemoveDelete(t) ==
    /\ Does(t, "remove")
    /\ memberships' = memberships \ {local[t].member}
    /\ UNCHANGED <<principals, accessKeys, permissions, sessions>>

-----------------------------------------------------------------------------
(* create_policy and delete_policy *)
CreatePolicyCheck(t, n, d) ==
    policies[n] = NoDocument /\ Ask(t, On({n}, <<"policy">>, [name |-> n, document |-> d]))

CreatePolicy(t) ==
    /\ Does(t, "policy")
    /\ policies' = [policies EXCEPT ![local[t].name] = IF @ = NoDocument THEN local[t].document ELSE @]
    /\ UNCHANGED <<identities, inline, attachments, sessions>>

DeletePolicyRequire(t, n) ==
    policies[n] # NoDocument /\ Ask(t, On({n}, <<"drop policy", "drop attachments">>, [name |-> n]))

DropPolicy(t) ==
    /\ Does(t, "drop policy")
    /\ policies' = [policies EXCEPT ![local[t].name] = NoDocument]
    /\ UNCHANGED <<identities, inline, attachments, sessions>>

(* attach_policy, which does not ask for the principal, and detach_policy. *)
AttachCheck(t, x, n) ==
    /\ policies[n] # NoDocument /\ <<x, n>> \notin attachments
    /\ Ask(t, On({n}, <<"attach">>, [attached |-> <<x, n>>]))

Attach(t) ==
    /\ Does(t, "attach")
    /\ attachments' = attachments \cup {local[t].attached}
    /\ UNCHANGED <<identities, policies, inline, sessions>>

Detach(t, x, n) == Ask(t, On({}, <<"detach">>, [attached |-> <<x, n>>]))

DetachDelete(t) ==
    /\ Does(t, "detach")
    /\ attachments' = attachments \ {local[t].attached}
    /\ UNCHANGED <<identities, policies, inline, sessions>>

(* put_inline_policy: an UPDATE of the row it found, or an INSERT; and     *)
(* delete_inline_policy.                                                   *)
PutInlineSelect(t, x, d) ==
    Ask(t, On({}, <<"inline">>, [name |-> x, document |-> d, found |-> inline[x] # NoDocument]))

PutInline(t) ==
    LET s == local[t] IN
    /\ Does(t, "inline")
    /\ inline' = [inline EXCEPT ![s.name] = IF (@ # NoDocument) = s.found THEN s.document ELSE @]
    /\ UNCHANGED <<identities, policies, attachments, sessions>>

DeleteInline(t, x) == Ask(t, On({}, <<"drop inline">>, [name |-> x]))

-----------------------------------------------------------------------------
(* simulate_principal_policy: _collect_policies, one SELECT after another, *)
(* and _evaluate.  The groups of a user are not looked at.                 *)

Decision(docs) ==
    IF \E d \in docs : "Deny" \in d THEN "explicitDeny"
    ELSE IF \E d \in docs : "Allow" \in d THEN "allowed" ELSE "implicitDeny"

Simulate(t, x) == Ask(t, On({}, <<"inline policies", "attached", "documents", "answer">>, [simulated |-> x]))

SimulateInline(t) ==
    LET doc == inline[local[t].simulated] IN
    /\ At(t, "inline policies")
    /\ Continue(t, Also([local[t] EXCEPT !.todo = Tail(@)], [docs |-> {doc} \ {NoDocument}]))
    /\ UNCHANGED tables

SimulateAttached(t) ==
    LET names == {n \in Policies : <<local[t].simulated, n>> \in attachments} IN
    /\ At(t, "attached")
    /\ Continue(t, Also([local[t] EXCEPT !.todo = Tail(@)], [names |-> names]))
    /\ UNCHANGED tables

(* Mutant: a policy that has gone ends the collection. *)
SimulateDocumentStops(t) ==
    LET s == local[t] IN
    /\ At(t, "documents")
    /\ IF s.names = {}
       THEN Advance(t)
       ELSE \E n \in s.names :
              Continue(t, [s EXCEPT !.names = IF policies[n] = NoDocument THEN {} ELSE @ \ {n},
                                    !.docs = @ \cup ({policies[n]} \ {NoDocument})])
    /\ UNCHANGED tables

(* The next policy's document; one that has gone is passed over.           *)
SimulateDocument(t) ==
    LET s == local[t] IN
    /\ At(t, "documents")
    /\ IF s.names = {}
       THEN Advance(t)
       ELSE \E n \in s.names : Continue(t, [s EXCEPT !.names = @ \ {n},
                                                     !.docs = @ \cup ({policies[n]} \ {NoDocument})])
    /\ UNCHANGED tables

SimulateAnswer(t) ==
    /\ Does(t, "answer")
    /\ UNCHANGED tables

-----------------------------------------------------------------------------
(* sts.py: assume_role asks for the role; get_session_token has none;      *)
(* revoke_session.  Nothing reads expires_at.                              *)
AssumeRoleSelect(t, r) ==
    r \in principals /\ Ask(t, On({}, <<"session">>, [session |-> <<begun + 1, r>>]))

SessionToken(t) == Ask(t, On({}, <<"session">>, [session |-> <<begun + 1, NoUser>>]))

AddSession(t) ==
    /\ Does(t, "session")
    /\ sessions' = sessions \cup {local[t].session}
    /\ UNCHANGED <<identities, permissions>>

Revoke(t, s) == Ask(t, On({}, <<"revoke">>, [session |-> s]))

RevokeDelete(t) ==
    /\ Does(t, "revoke")
    /\ sessions' = sessions \ {local[t].session}
    /\ UNCHANGED <<identities, permissions>>

-----------------------------------------------------------------------------
(* What gives the principal an effect now. *)
Sources(x, e) ==
    {y \in {x} : inline[y] # NoDocument /\ e \in inline[y]} \cup
    {n \in Policies : /\ <<x, n>> \in attachments
                      /\ policies[n] # NoDocument /\ e \in policies[n]}

Simulating(t) == "simulated" \in DOMAIN local[t]

(* Bookkeeping of every step: the sources that were there all along.       *)
Watch ==
    standing' = [t \in Workers |-> [e \in Effects |->
        IF ~Simulating(t)' THEN {}
        ELSE (IF Simulating(t) THEN standing[t][e] ELSE Principals \cup Policies)
             \cap Sources(local[t].simulated, e)']]

(* And of the names that were given a policy while nobody had them, which  *)
(* attach_policy and put_inline_policy do not ask, until somebody has and  *)
(* is deleted.                                                             *)
Note ==
    LET gets(x) == \/ inline'[x] \notin {inline[x], NoDocument}
                   \/ \E n \in Policies : <<x, n>> \in attachments' \ attachments
    IN  unasked' = {x \in Principals : /\ x \in principals => x \in principals'
                                       /\ x \in unasked \/ (x \notin principals /\ gets(x))}

(* A data directory in which policies may be there and attached. *)
InitTables ==
    /\ principals \in {{}, Principals}
    /\ accessKeys = [k \in Ids |-> NoUser]
    /\ memberships \in {{}, (Users \X Groups) \cap (principals \X principals)}
    /\ policies \in [Policies -> Documents \cup {NoDocument}]
    /\ inline = [x \in Principals |-> NoDocument]
    /\ attachments \in {{}, principals \X {n \in Policies : policies[n] # NoDocument}}
    /\ sessions = {}
    /\ standing = [t \in Workers |-> [e \in Effects |-> {}]]
    /\ unasked = {}

Init == InitRequests /\ InitTables

Identity(t) ==
    \/ \E x \in Principals : CreateCheck(t, x) \/ DeleteRequire(t, x)
    \/ \E u \in Users : CreateKeyRequire(t, u) \/ \E g \in Groups : AddCheck(t, u, g) \/ Remove(t, u, g)
    \/ \E k \in Ids : DeleteKeyRequire(t, k)
    \/ Create(t) \/ Drop(t) \/ DropKeys(t) \/ DropMemberships(t) \/ DropInline(t) \/ DropAttachments(t)
    \/ SetKey(t) \/ Add(t) \/ RemoveDelete(t)

Permission(t) ==
    \/ \E n \in Policies : \/ DeletePolicyRequire(t, n)
                          \/ \E d \in Documents : CreatePolicyCheck(t, n, d)
                          \/ \E x \in Principals : AttachCheck(t, x, n) \/ Detach(t, x, n)
    \/ \E x \in Principals : DeleteInline(t, x) \/ \E d \in Documents : PutInlineSelect(t, x, d)
    \/ CreatePolicy(t) \/ DropPolicy(t) \/ Attach(t) \/ DetachDelete(t) \/ PutInline(t)

Simulation(t) ==
    \/ \E x \in Principals : Simulate(t, x)
    \/ SimulateInline(t) \/ SimulateAttached(t) \/ SimulateDocument(t) \/ SimulateAnswer(t)

Session(t) ==
    \/ \E r \in Roles : AssumeRoleSelect(t, r)
    \/ SessionToken(t)
    \/ \E s \in sessions : Revoke(t, s)
    \/ AddSession(t) \/ RevokeDelete(t)

Next ==
    /\ \/ \E t \in Workers : Identity(t) \/ Permission(t) \/ Simulation(t) \/ Session(t)
       \/ (Crash \/ \E t \in Workers : Fails(t)) /\ UNCHANGED tables
    /\ Watch /\ Note

Spec == Init /\ [][Next]_vars

-----------------------------------------------------------------------------
(* Properties *)

(* iam.py:56-63, 127-132, 192-198, 224-229: rows of one table name rows of *)
(* others, which the deletions see to and no foreign key: unless requests  *)
(* for it overlapped, or one broke off, the keys, memberships, inline and  *)
(* attached policies of a principal are gone with it, for none of the same *)
(* name to come into, and so is what attaches a policy that is gone.  The  *)
(* policies of a name given some while nobody had it are left to it.       *)
NothingDangling ==
    /\ \A k \in Ids : accessKeys[k] # NoUser /\ Quiet(accessKeys[k]) => accessKeys[k] \in principals
    /\ \A m \in memberships : \A x \in {m[1], m[2]} : Quiet(x) => x \in principals
    /\ \A x \in Principals \ (principals \cup unasked) : Quiet(x) =>
          inline[x] = NoDocument /\ \A n \in Policies : <<x, n>> \notin attachments
    /\ \A a \in attachments : Quiet(a[2]) => policies[a[2]] # NoDocument

(* iam.py:331-404 "Evaluate Allow/Deny ... against all inline + attached   *)
(* managed policies for the principal": whatever is changed meanwhile, a   *)
(* Deny that was there all along is obeyed, and an Allow never overlooked. *)
StandingPoliciesCount ==
    \A t \in Workers : At(t, "answer") =>
        LET decision == Decision(local[t].docs) IN
        /\ standing[t]["Deny"] # {} => decision = "explicitDeny"
        /\ standing[t]["Allow"] # {} => decision # "implicitDeny"
=============================================================================
