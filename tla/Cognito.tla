------------------------------ MODULE Cognito ------------------------------
(***************************************************************************)
(* User pools, src/openaws/cognito.py: pools, their clients, users and     *)
(* refresh tokens.  Ids, codes and tokens are the number of the request    *)
(* that made them (0: there from the start), NoCode is NULL, and a null in *)
(* a request; a client presents tokens that were issued.  Access and id    *)
(* tokens, which no table holds, passwords, attributes and signatures are  *)
(* left out.                                                               *)
(***************************************************************************)
EXTENDS Requests

CONSTANTS
    Pools, Clients,  \* the ids uuid4 returns
    Usernames,
    NoPool, NoUser

Ids == 0 .. MaxRequests
NoCode == -1

Status == {"UNCONFIRMED", "CONFIRMED", "FORCE_CHANGE_PASSWORD"}

User == [pool : Pools, name : Usernames, status : Status, code : Ids \cup {NoCode}]

Token == [id : Ids, pool : Pools, name : Usernames, client : Clients, signin : Ids]

VARIABLES
    pools,      \* table cognito_user_pools: "new", "live" or "gone"
    clients,    \* table cognito_pool_clients: "new", the pool or NoPool
    users,      \* table cognito_users, by user_id
    tokens,     \* table cognito_tokens: the refresh tokens
    vouched,    \* history: users whose own code column somebody gave, or an admin set
    signedOut   \* history: the last global_sign_out, by pool and name

tables == <<pools, clients, users, tokens>>
cognitovars == <<tables, vouched, signedOut>>
vars == <<requests, cognitovars>>

Names == Pools \X Usernames
Rows == Names \cup (Pools \X Workers)

TypeOK ==
    /\ RequestsTypeOK(Rows)
    /\ pools \in [Pools -> {"new", "live", "gone"}]
    /\ clients \in [Clients -> Pools \cup {NoPool, "new"}]
    /\ users \in [Ids -> User \cup {NoUser}]
    /\ \A i, j \in Ids : i # j /\ users[i] # NoUser /\ users[j] # NoUser =>
          <<users[i].pool, users[i].name>> # <<users[j].pool, users[j].name>>
    /\ tokens \subseteq Token
    /\ vouched \subseteq Ids
    /\ signedOut \in [Names -> Ids \cup {-1}]

-----------------------------------------------------------------------------
(* The row of a name, none or one. *)
Found(p, n) == {i \in Ids : users[i] # NoUser /\ users[i].pool = p /\ users[i].name = n}

(* A request that adds a row to a pool, and one that touches all of them. *)
Shared(p, t) == {<<p, t>>}
Exclusive(p) == {p} \X Workers

On(rows, todo, r) == Also([todo |-> todo, touches |-> rows, at |-> begun + 1], r)

Ask(t, s) == Begin(t, s) /\ UNCHANGED cognitovars

-----------------------------------------------------------------------------
(* create_user_pool, delete_user_pool *)
CreatePool(t, p) == pools[p] = "new" /\ Ask(t, On(Exclusive(p), <<"create pool">>, [pool |-> p]))

CreatePoolInsert(t) ==
    /\ Does(t, "create pool")
    /\ pools' = [pools EXCEPT ![local[t].pool] = "live"]
    /\ UNCHANGED <<clients, users, tokens, vouched, signedOut>>

DeletePoolRequire(t, p) ==
    /\ pools[p] = "live"
    /\ Ask(t, On(Exclusive(p), <<"drop pool", "drop users", "drop clients", "drop tokens">>, [pool |-> p]))

DropPool(t) ==
    /\ Does(t, "drop pool")
    /\ pools' = [pools EXCEPT ![local[t].pool] = "gone"]
    /\ UNCHANGED <<clients, users, tokens, vouched, signedOut>>

DropUsers(t) ==
    /\ Does(t, "drop users")
    /\ users' = [i \in Ids |-> IF users[i] # NoUser /\ users[i].pool = local[t].pool THEN NoUser ELSE users[i]]
    /\ UNCHANGED <<pools, clients, tokens, vouched, signedOut>>

DropClients(t) ==
    /\ Does(t, "drop clients")
    /\ clients' = [c \in Clients |-> IF clients[c] = local[t].pool THEN NoPool ELSE clients[c]]
    /\ UNCHANGED <<pools, users, tokens, vouched, signedOut>>

DropTokens(t) ==
    /\ Does(t, "drop tokens")
    /\ tokens' = {k \in tokens : k.pool # local[t].pool}
    /\ UNCHANGED <<pools, clients, users, vouched, signedOut>>

(* create_user_pool_client, delete_user_pool_client *)
CreateClientRequire(t, p, c) ==
    /\ pools[p] = "live" /\ clients[c] = "new"
    /\ Ask(t, On(Shared(p, t), <<"client">>, [client |-> c, pool |-> p]))

DeleteClientRequire(t, c) ==
    clients[c] \in Pools /\ Ask(t, On({}, <<"client">>, [client |-> c, pool |-> NoPool]))

SetClient(t) ==
    /\ Does(t, "client")
    /\ clients' = [clients EXCEPT ![local[t].client] = local[t].pool]
    /\ UNCHANGED <<pools, users, tokens, vouched, signedOut>>

-----------------------------------------------------------------------------
(* sign_up: the INSERT without the code, then the code.  admin_create_user *)
(* ends with the INSERT.                                                   *)
SignUpCheck(t, p, n, c) ==
    /\ pools[p] = "live" /\ clients[c] = p /\ Found(p, n) = {}
    /\ Ask(t, On(Shared(p, t), <<"user", "code">>, [pool |-> p, name |-> n, status |-> "UNCONFIRMED"]))

AdminCreateCheck(t, p, n) ==
    /\ pools[p] = "live" /\ Found(p, n) = {}
    /\ Ask(t, On(Shared(p, t), <<"user">>, [pool |-> p, name |-> n, status |-> "FORCE_CHANGE_PASSWORD"]))

(* UNIQUE (pool_id, username) *)
InsertUser(t) ==
    LET s == local[t]
        free == Found(s.pool, s.name) = {}
    IN  /\ At(t, "user")
        /\ users' = IF ~free THEN users
                    ELSE [users EXCEPT ![s.at] = [pool |-> s.pool, name |-> s.name,
                                                  status |-> s.status, code |-> NoCode]]
        /\ IF free THEN Advance(t) ELSE Ends(t)
        /\ UNCHANGED <<pools, clients, tokens, vouched, signedOut>>

(* UPDATE ... WHERE user_id: of nothing, once the user is gone.            *)
Update(ids, change) == [i \in Ids |-> IF i \in ids /\ users[i] # NoUser THEN Also(change, users[i]) ELSE users[i]]

SetCode(t) ==
    /\ Does(t, "code")
    /\ users' = Update({local[t].at}, [code |-> local[t].at])
    /\ UNCHANGED <<pools, clients, tokens, vouched, signedOut>>

(* forgot_password: the UPDATE is of whoever has the name by then.         *)
ForgotCheck(t, p, n) ==
    /\ pools[p] = "live" /\ Found(p, n) # {}
    /\ Ask(t, On({}, <<"reset">>, [pool |-> p, name |-> n]))

Forgot(t) ==
    /\ Does(t, "reset")
    /\ users' = Update(Found(local[t].pool, local[t].name), [code |-> local[t].at])
    /\ UNCHANGED <<pools, clients, tokens, vouched, signedOut>>

(* confirm_sign_up and confirm_forgot_password, which compare what they    *)
(* are given with the code of the row, a null with NULL too; and           *)
(* admin_confirm_sign_up and admin_set_user_password.                      *)
Vouch(t, i, change) ==
    /\ Begin(t, On({}, <<"update">>, [user |-> i, change |-> change]))
    /\ vouched' = vouched \cup {i}
    /\ UNCHANGED <<tables, signedOut>>

Confirmed == [status |-> "CONFIRMED", code |-> NoCode]
NewPassword == [status : {"CONFIRMED", "FORCE_CHANGE_PASSWORD"}]

WithCodeSelect(t, i, given) ==
    /\ users[i] # NoUser /\ users[i].code = given
    /\ Vouch(t, i, Confirmed)

AdminSelect(t, i) ==
    /\ users[i] # NoUser
    /\ \E change \in {Confirmed} \cup NewPassword : Vouch(t, i, change)

(* Mutant: UPDATE ... WHERE username. *)
UpdateByName(t) ==
    /\ Does(t, "update")
    /\ \E p \in Pools, n \in Usernames : users' = Update(Found(p, n), local[t].change)
    /\ UNCHANGED <<pools, clients, tokens, vouched, signedOut>>

UpdateUser(t) ==
    /\ Does(t, "update")
    /\ users' = Update({local[t].user}, local[t].change)
    /\ UNCHANGED <<pools, clients, tokens, vouched, signedOut>>

(* admin_delete_user: the tokens stay. *)
DeleteUserSelect(t, i) ==
    /\ users[i] # NoUser
    /\ Ask(t, On({}, <<"delete">>, [pool |-> users[i].pool, name |-> users[i].name]))

DeleteUser(t) ==
    /\ Does(t, "delete")
    /\ users' = [i \in Ids |-> IF i \in Found(local[t].pool, local[t].name) THEN NoUser ELSE users[i]]
    /\ UNCHANGED <<pools, clients, tokens, vouched, signedOut>>

-----------------------------------------------------------------------------
(* initiate_auth with the password, from any client, and with a refresh    *)
(* token, for the client of that one; _issue_tokens.                       *)
Sign(t, p, n, c, signin) ==
    Ask(t, On({<<p, n>>} \cup Shared(p, t), <<"require pool", "token">>,
              [pool |-> p, name |-> n, client |-> c, signin |-> signin]))

AuthSelect(t, i, c) ==
    /\ users[i] # NoUser /\ users[i].status # "UNCONFIRMED"
    /\ Sign(t, users[i].pool, users[i].name, c, begun + 1)

RefreshSelect(t, k) == Sign(t, k.pool, k.name, k.client, k.signin)

RequirePool(t) ==
    /\ At(t, "require pool")
    /\ IF pools[local[t].pool] = "live" THEN Advance(t) ELSE Ends(t)
    /\ UNCHANGED cognitovars

InsertToken(t) ==
    LET s == local[t] IN
    /\ Does(t, "token")
    /\ tokens' = tokens \cup {[id |-> s.at, pool |-> s.pool, name |-> s.name,
                               client |-> s.client, signin |-> s.signin]}
    /\ UNCHANGED <<pools, clients, users, vouched, signedOut>>

(* global_sign_out, with an access token: its pool and name.               *)
SignOutDecode(t, p, n) == Ask(t, On({<<p, n>>}, <<"sign out">>, [pool |-> p, name |-> n]))

(* Mutant: only what one client was given. *)
SignOutClient(t) ==
    LET s == local[t] IN
    /\ Does(t, "sign out")
    /\ \E c \in Clients : tokens' = {k \in tokens : <<k.pool, k.name, k.client>> # <<s.pool, s.name, c>>}
    /\ signedOut' = [signedOut EXCEPT ![<<s.pool, s.name>>] = s.at]
    /\ UNCHANGED <<pools, clients, users, vouched>>

SignOut(t) ==
    LET s == local[t] IN
    /\ Does(t, "sign out")
    /\ tokens' = {k \in tokens : <<k.pool, k.name>> # <<s.pool, s.name>>}
    /\ signedOut' = [signedOut EXCEPT ![<<s.pool, s.name>>] = s.at]
    /\ UNCHANGED <<pools, clients, users, vouched>>

-----------------------------------------------------------------------------
(* A data directory with pools or without; a user and a token of each name *)
(* may be there, of request 0.                                             *)
InitTables ==
    \E status \in Status, live \in BOOLEAN, code \in {0, NoCode} :
        /\ pools = [p \in Pools |-> IF live THEN "live" ELSE "new"]
        /\ clients \in [Clients -> IF live THEN Pools ELSE {"new"}]
        /\ \E p \in Pools, n \in Usernames, c \in Clients :
              /\ users = [i \in Ids |-> IF i = 0 /\ live
                            THEN [pool |-> p, name |-> n, status |-> status, code |-> code]
                            ELSE NoUser]
              /\ tokens = IF live /\ status # "UNCONFIRMED"
                          THEN {[id |-> 0, pool |-> p, name |-> n, client |-> c, signin |-> 0]} ELSE {}
        /\ vouched = IF status = "CONFIRMED" THEN {0} ELSE {}
        /\ signedOut = [p \in Names |-> -1]

Init == InitRequests /\ InitTables

PoolStep(t) ==
    \/ \E p \in Pools : \/ CreatePool(t, p) \/ DeletePoolRequire(t, p)
                        \/ \E c \in Clients : CreateClientRequire(t, p, c)
    \/ \E c \in Clients : DeleteClientRequire(t, c)
    \/ CreatePoolInsert(t) \/ DropPool(t) \/ DropUsers(t) \/ DropClients(t) \/ DropTokens(t) \/ SetClient(t)

UserStep(t) ==
    \/ \E p \in Pools, n \in Usernames : \/ AdminCreateCheck(t, p, n) \/ ForgotCheck(t, p, n)
                                         \/ \E c \in Clients : SignUpCheck(t, p, n, c)
    \/ \E i \in Ids : \/ AdminSelect(t, i) \/ DeleteUserSelect(t, i)
                      \/ \E given \in Ids \cup {NoCode} : WithCodeSelect(t, i, given)
    \/ InsertUser(t) \/ SetCode(t) \/ Forgot(t) \/ UpdateUser(t) \/ DeleteUser(t)

TokenStep(t) ==
    \/ \E i \in Ids, c \in Clients : AuthSelect(t, i, c)
    \/ \E k \in tokens : RefreshSelect(t, k)
    \/ \E p \in Pools, n \in Usernames : pools[p] # "new" /\ SignOutDecode(t, p, n)
    \/ RequirePool(t) \/ InsertToken(t) \/ SignOut(t)

Next ==
    \/ \E t \in Workers : PoolStep(t) \/ UserStep(t) \/ TokenStep(t)
    \/ (Crash \/ \E t \in Workers : Fails(t)) /\ UNCHANGED cognitovars

Spec == Init /\ [][Next]_vars

-----------------------------------------------------------------------------
(* Properties *)

(* cognito.py:219-246 and 471-486: a user is CONFIRMED only if a request   *)
(* gave what the code column of his own row held then, NULL included, or   *)
(* an admin saw to him: never for a code of somebody else, also when a     *)
(* user of the same name was deleted and created between the SELECT and    *)
(* the UPDATE.  That he was ever given a code is not claimed: nothing      *)
(* tells a NULL code from one to be asked for.                             *)
ConfirmedInPerson ==
    \A i \in Ids : users[i] # NoUser /\ users[i].status = "CONFIRMED" => i \in vouched

(* cognito.py:438-446: the refresh tokens of a sign-in before the last     *)
(* global sign-out, and of every refresh of it, are gone, from each of the *)
(* pool's clients, unless a sign-in or a refresh overlapped the sign-out.  *)
(* Access and id tokens are not claimed: no table has them, and get_user   *)
(* accepts them after the sign-out as before (cognito.py:296-307).         *)
SignOutReachesAll ==
    \A k \in tokens : Quiet(<<k.pool, k.name>>) => k.signin > signedOut[<<k.pool, k.name>>]

(* cognito.py:118-123: a pool that is gone has left nothing behind, unless *)
(* a request that adds to it overlapped the deletion or one broke off.     *)
PoolGoneWithAll ==
    \A p \in Pools : pools[p] = "gone" /\ (\A t \in Workers : Quiet(<<p, t>>)) =>
        /\ \A i \in Ids : users[i] # NoUser => users[i].pool # p
        /\ \A c \in Clients : clients[c] # p
        /\ \A k \in tokens : k.pool # p
=============================================================================
