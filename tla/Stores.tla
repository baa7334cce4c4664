------------------------------ MODULE Stores --------------------------------
(***************************************************************************)
(* The services that keep records for others: S3, Secrets Manager, SSM     *)
(* with KMS, IAM with STS, and Cognito.  Their tables are disjoint and no  *)
(* request works on those of two, so a behaviour of the server is one of   *)
(* each of them; which one a behaviour is about is chosen at the start.    *)
(***************************************************************************)
EXTENDS Requests

CONSTANTS
    SecretRequests, IdentityRequests, PoolRequests,  \* bounds: their MaxRequests
    Buckets, Keys, Tags, Uploads, PartNumbers, Initial, Settings, NoUpload, NoPart,
    Secrets, Tokens, StageSets, TagKeys, NoVersion,
    Parameters, KeyIds, Aliases, NoKey, NoParameter,
    Users, Groups, Roles, Policies, Documents, NoDocument,
    Pools, Clients, Usernames, NoPool, NoUser

(* What stands for "no row" is not one. *)
ASSUME ParameterAssumption ==
    NoParameter \notin [stored : [value : Nat, key : KeyIds \cup {NoKey}],
                        type : {"String", "SecureString"}, key : KeyIds \cup {NoKey}, version : Nat]

(* A name says what it is a name of. *)
ASSUME IdentityAssumption ==
    /\ Users \cap Groups = {} /\ Users \cap Roles = {} /\ Groups \cap Roles = {}
    /\ (Users \cup Groups \cup Roles) \cap Policies = {}

(* The id of an upload is not the place of an object, and no upload is none. *)
ASSUME UploadAssumption == Uploads \cap (Buckets \X Keys) = {} /\ NoUpload \notin Uploads

ASSUME SecretAssumption ==
    /\ SecretRequests \in Nat
    /\ NoVersion \notin [secret : Secrets, at : Nat,
                         stages : SUBSET ((UNION StageSets) \cup {"AWSCURRENT", "AWSPREVIOUS"})]

(* A client of no pool is in none. *)
ASSUME PoolAssumption == NoPool \notin Pools

VARIABLES
    service,
    buckets, objects, versions, tags, uploads, parts, issued, clock, given, completed,
    secrets, secretVersions, secretTags, currents, reused,
    keys, rotating, aliases, parameters, entries, paramTags, deleted, retyped,
    principals, accessKeys, memberships, policies, inline, attachments, sessions, standing, unasked,
    pools, clients, users, tokens, vouched, signedOut

s3vars == <<buckets, objects, versions, tags, uploads, parts, issued, clock, given, completed>>
smvars == <<secrets, secretVersions, secretTags, currents, reused>>
ssmvars == <<keys, rotating, aliases, parameters, entries, paramTags, deleted, retyped>>
iamvars == <<principals, accessKeys, memberships, policies, inline, attachments, sessions, standing, unasked>>
cognitovars == <<pools, clients, users, tokens, vouched, signedOut>>
vars == <<service, requests, s3vars, smvars, ssmvars, iamvars, cognitovars>>

Store == INSTANCE S3
Secret == INSTANCE SecretsManager WITH MaxRequests <- SecretRequests
Param == INSTANCE SSM
Identity == INSTANCE IAM WITH MaxRequests <- IdentityRequests
Pool == INSTANCE Cognito WITH MaxRequests <- PoolRequests

(* The data directory is that of earlier requests only for the service the *)
(* behaviour is about.                                                     *)
Init ==
    /\ service \in {"s3", "secretsmanager", "ssm", "iam", "cognito"}
    /\ InitRequests
    /\ Store!InitTables /\ Secret!InitTables /\ Param!InitTables
    /\ Identity!InitTables /\ Pool!InitTables
    /\ service # "iam" => principals = {} /\ policies = [n \in Policies |-> NoDocument]
    /\ service # "cognito" => vouched = {} /\ pools = [p \in Pools |-> "new"]

Next ==
    \/ service = "s3" /\ Store!Next
       /\ UNCHANGED <<service, smvars, ssmvars, iamvars, cognitovars>>
    \/ service = "secretsmanager" /\ Secret!Next
       /\ UNCHANGED <<service, s3vars, ssmvars, iamvars, cognitovars>>
    \/ service = "ssm" /\ Param!Next
       /\ UNCHANGED <<service, s3vars, smvars, iamvars, cognitovars>>
    \/ service = "iam" /\ Identity!Next
       /\ UNCHANGED <<service, s3vars, smvars, ssmvars, cognitovars>>
    \/ service = "cognito" /\ Pool!Next
       /\ UNCHANGED <<service, s3vars, smvars, ssmvars, iamvars>>

Spec == Init /\ [][Next]_vars

(* Every table holds rows of its schema (storage.py:41-94, 291-425,        *)
(* 486-523), keys, UNIQUE constraints and references within it included.   *)
StoresTypeOK ==
    /\ service = "s3" => Store!TypeOK
    /\ service = "secretsmanager" => Secret!TypeOK
    /\ service = "ssm" => Param!TypeOK
    /\ service = "iam" => Identity!TypeOK
    /\ service = "cognito" => Pool!TypeOK

(* s3.py:113-140 and 254-286: where requests did not overlap, and none     *)
(* broke off, one version is the latest, it is the newest, and there is an *)
(* object as long as there is a version of it.                             *)
OneLatestVersion == service = "s3" => Store!OneLatestVersion

(* s3.py:396-450: an upload nobody else works on meanwhile is completed at *)
(* most once, and its object is the listed parts, in the order of their    *)
(* numbers, as they were last uploaded.                                    *)
MultipartWhole == service = "s3" => Store!MultipartWhole

(* secretsmanager.py:144-161: exactly one version of a secret is current,  *)
(* the one put last as such, and AWSPREVIOUS is the one before it.         *)
CurrentAndPrevious == service = "secretsmanager" => Secret!CurrentAndPrevious

(* ssm.py:53-90: the history of a parameter has every version once, and    *)
(* the last is what the parameter holds.                                   *)
HistoryComplete == service = "ssm" => Param!HistoryComplete

(* ssm.py:138-155: a parameter is answered in clear as long as its key is  *)
(* enabled and it was always put with one type.                            *)
AnsweredInClear == service = "ssm" => Param!AnsweredInClear

(* iam.py:331-404: whatever is changed while a policy is simulated, a Deny *)
(* that was there all along is obeyed and an Allow never overlooked.       *)
StandingPoliciesCount == service = "iam" => Identity!StandingPoliciesCount

(* cognito.py:219-246, 471-486: a user is CONFIRMED only if a request gave *)
(* what the code column of his own row held, NULL included, or an admin    *)
(* saw to him.                                                             *)
ConfirmedInPerson == service = "cognito" => Pool!ConfirmedInPerson

(* cognito.py:438-446: a global sign-out removes every refresh token of    *)
(* earlier sign-ins and their refreshes that did not overlap it.           *)
SignOutReachesAll == service = "cognito" => Pool!SignOutReachesAll

(* iam.py:56-63, 127-132, 192-198, 224-229, cognito.py:118-123: without    *)
(* overlaps and broken requests a deletion leaves nothing that names what  *)
(* is gone; a policy given to a principal that is not there stays.         *)
NothingDangling ==
    /\ service = "iam" => Identity!NothingDangling
    /\ service = "cognito" => Pool!PoolGoneWithAll
=============================================================================
