-------------------------------- MODULE Access --------------------------------
(***************************************************************************)
(* Who may do what: access tokens, the roles the endpoints ask for         *)
(* (dependencies.py), the accounts and OAuth clients they belong to, and   *)
(* the endpoints that change those, cut at their database statements:      *)
(*                                                                         *)
(*   authorise   SELECT of the principal the token names; role check       *)
(*   load        SELECT of the account or client to change, if another     *)
(*   lock        UPDATE or DELETE, which waits for the row                 *)
(*   commit                                                                *)
(*                                                                         *)
(* Refresh tokens and passwords are in Sessions.tla, unique e-mails in     *)
(* Registry.tla.  The secret of a client is named by the request that drew *)
(* it; 0 is one drawn by scripts/seed.py.  No endpoint writes is_active of *)
(* a client, which is TRUE.                                                *)
(***************************************************************************)
EXTENDS Naturals, FiniteSets

CONSTANTS
    Users,        \* ids of accounts
    Clients,      \* ids of OAuth clients
    MaxRequests,  \* bound: requests there may ever be
    MaxOpen,      \* bound: requests in progress at a time
    MaxTokens,    \* bound: tokens about at a time
    AccessJobs,   \* what a request may ask for: [op, target, role]
    NoRow,        \* there is no row of that id
    NoJob         \* a request that has not begun

Requests == 1..MaxRequests

Roles == {"admin", "manager", "front_desk", "housekeeping"}

UserRow == [role : Roles, is_active : BOOLEAN]

\* Mutant of RolesFor: managers may change roles.
RolesForManagers(op) ==
    CASE op \in {"create_user", "deactivate_user",
                 "create_client", "rotate_secret", "delete_client"} -> {"admin"}
      [] op \in {"update_role", "manage_rooms"} -> {"admin", "manager"}
      [] op = "reserve" -> {"admin", "manager", "front_desk"}
      [] OTHER -> Roles

\* The roles an endpoint is open to, by what it is for: the users and clients
\* themselves, rooms and their types, reservations and billing, guests.
RolesFor(op) ==
    CASE op \in {"create_user", "update_role", "deactivate_user",
                 "create_client", "rotate_secret", "delete_client"} -> {"admin"}
      [] op = "manage_rooms" -> {"admin", "manager"}
      [] op = "reserve" -> {"admin", "manager", "front_desk"}
      [] OTHER -> Roles

OnUser == {"update_role", "deactivate_user", "update_user"}
OnClient == {"rotate_secret", "delete_client"}
Creates == {"create_user", "create_client"}
Elsewhere == {"manage_rooms", "reserve", "keep_guests"}

ASSUME AccessAssumption ==
    /\ MaxRequests \in Nat /\ MaxOpen \in Nat /\ MaxTokens \in Nat
    /\ Users \cap Clients = {}
    /\ NoRow \notin Users \cup Clients \cup UserRow \cup 0..MaxRequests
    /\ NoJob \notin AccessJobs
    /\ \A asked \in AccessJobs :
         /\ asked.op \in OnUser \cup OnClient \cup Creates \cup Elsewhere
         /\ asked.op \in OnUser \cup {"create_user"} => asked.target \in Users
         /\ asked.op \in OnClient \cup {"create_client"} => asked.target \in Clients
         /\ asked.op \in {"create_user", "update_role"} => asked.role \in Roles

VARIABLES
    users,     \* users table
    clients,   \* oauth_clients table: the request that drew the secret
    tokens,    \* access tokens that have not expired: whom they name, the role they claim
    job,       \* what a request asks for
    bearer,    \* the token it carries
    phase,     \* the statement it is at, or how it ended
    seen,      \* the account it is about, as its session has it
    lock,      \* the row it has locked
    entitled   \* history: since it began, its principal has had the right to it

accessVars == <<users, clients, tokens, job, bearer, phase, seen, lock, entitled>>

Waiting == {"authorise", "load", "lock", "commit"}
Ended == {"committed", "refused", "not_found", "stale_data", "failed"}

InProgress(r) == phase[r] \in Waiting

Token == [sub : Users \cup Clients, role : Roles \cup {"client"}]

NoToken == [sub |-> NoRow, role |-> "client"]

IsActive(u) == users[u] # NoRow /\ users[u].is_active

-----------------------------------------------------------------------------
\* What scripts/seed.py leaves: active accounts of each role, clients.
Staff == [Users -> [role : Roles, is_active : {TRUE}] \cup {NoRow}]
SeedClients == [Clients -> {0, NoRow}]

AccessInit ==
    /\ users \in Staff
    /\ clients \in SeedClients
    /\ tokens = {}
    /\ job = [r \in Requests |-> NoJob]
    /\ bearer = [r \in Requests |-> NoToken]
    /\ phase = [r \in Requests |-> "idle"]
    /\ seen = [r \in Requests |-> NoRow]
    /\ lock = [r \in Requests |-> NoRow]
    /\ entitled = [r \in Requests |-> FALSE]

requestVars == <<job, bearer, phase, seen, lock, entitled>>

Grant(token) ==
    /\ Cardinality(tokens) < MaxTokens
    /\ tokens' = tokens \cup {token}
    /\ UNCHANGED <<users, clients, requestVars>>

\* grant_type password, or a refresh
GrantUser(u) == IsActive(u) /\ Grant([sub |-> u, role |-> users[u].role])

\* grant_type client_credentials, with the secret that is the client's now
GrantClient(c) == clients[c] # NoRow /\ Grant([sub |-> c, role |-> "client"])

Expire(token) ==
    /\ token \in tokens
    /\ tokens' = tokens \ {token}
    /\ UNCHANGED <<users, clients, requestVars>>

\* By the rows and not by the token: a client may do whatever does not take a
\* user, a user what the role is for; and one's own account is one's own.
Entitled(token, asked) ==
    LET p == token.sub IN
    IF p \in Clients
    THEN clients[p] # NoRow /\ asked.op # "update_user"
    ELSE /\ IsActive(p)
         /\ users[p].role \in RolesFor(asked.op)
         /\ asked.op = "update_user" => p = asked.target \/ users[p].role = "admin"

\* Mutant of Authorised: the role is the one the token claims.
AuthorisedByClaim(r) ==
    LET p == bearer[r].sub IN
    IF p \in Clients
    THEN clients[p] # NoRow /\ job[r].op # "update_user"
    ELSE /\ IsActive(p)
         /\ bearer[r].role \in RolesFor(job[r].op)
         /\ job[r].op = "update_user" => p = job[r].target \/ bearer[r].role = "admin"

Authorised(r) == Entitled(bearer[r], job[r])

\* A new id is one that no request has been about.
Begin(r) ==
    /\ phase[r] = "idle"
    /\ \A q \in 1..(r - 1) : phase[q] # "idle"
    /\ Cardinality({q \in Requests : InProgress(q)}) < MaxOpen
    /\ \E token \in tokens, asked \in AccessJobs :
         /\ asked.op = "create_user" => users[asked.target] = NoRow
         /\ asked.op = "create_client" => clients[asked.target] = NoRow
         /\ asked.op \in Creates =>
              \A q \in Requests : job[q] # NoJob => job[q].target # asked.target
         /\ job' = [job EXCEPT ![r] = asked]
         /\ bearer' = [bearer EXCEPT ![r] = token]
         /\ entitled' = [entitled EXCEPT ![r] = Entitled(token, asked)]
    /\ phase' = [phase EXCEPT ![r] = "authorise"]
    /\ UNCHANGED <<users, clients, tokens, seen, lock>>

GoesTo(r, p) ==
    /\ phase' = [phase EXCEPT ![r] = p]
    /\ UNCHANGED <<users, clients, tokens, job, bearer, lock, entitled>>

EndsAs(r, p) ==
    /\ phase' = [phase EXCEPT ![r] = p]
    /\ lock' = [lock EXCEPT ![r] = NoRow]
    /\ seen' = [seen EXCEPT ![r] = NoRow]
    /\ UNCHANGED <<tokens, job, bearer>>

Refuses(r, p) == EndsAs(r, p) /\ UNCHANGED <<users, clients, entitled>>

\* What a session holds of an account it does not ask for twice.
Authorise(r) ==
    /\ phase[r] = "authorise"
    /\ \/ ~ Authorised(r) /\ Refuses(r, "refused")
       \/ /\ Authorised(r)
          /\ LET own == job[r].op \in OnUser /\ job[r].target = bearer[r].sub IN
             /\ seen' = IF own THEN [seen EXCEPT ![r] = users[job[r].target]] ELSE seen
             /\ GoesTo(r, CASE job[r].op \in OnClient -> "load"
                            [] job[r].op \in OnUser   -> IF own THEN "lock" ELSE "load"
                            [] OTHER                  -> "commit")

Load(r) ==
    LET target == job[r].target
        there == IF job[r].op \in OnUser THEN users[target] ELSE clients[target]
    IN
    /\ phase[r] = "load"
    /\ \/ there = NoRow /\ Refuses(r, "not_found")
       \/ /\ there # NoRow
          /\ seen' = IF job[r].op \in OnUser THEN [seen EXCEPT ![r] = there] ELSE seen
          /\ GoesTo(r, "lock")

\* The account in memory after the handler.
NewUser(r) ==
    CASE job[r].op = "update_role"     -> [seen[r] EXCEPT !.role = job[r].role]
      [] job[r].op = "deactivate_user" -> [seen[r] EXCEPT !.is_active = FALSE]
      [] OTHER                         -> seen[r]

\* Mutant of Changed: the whole account is saved.
WholeUser(r) == {"role", "is_active"}

\* The columns to write; name and e-mail matter to nobody's rights.
Changed(r) == {c \in {"role", "is_active"} : NewUser(r)[c] # seen[r][c]}

WritesRow(r) == job[r].op \in OnClient \cup {"update_user"} \/ Changed(r) # {}

\* The UPDATE of a client deleted meanwhile is an error, a second DELETE is not.
Lock(r) ==
    LET target == job[r].target
        gone == job[r].op \in OnClient /\ clients[target] = NoRow
    IN
    /\ phase[r] = "lock"
    /\ WritesRow(r) => \A q \in Requests \ {r} : lock[q] # target
    /\ \/ gone /\ job[r].op = "rotate_secret" /\ Refuses(r, "stale_data")
       \/ /\ ~ (gone /\ job[r].op = "rotate_secret")
          /\ lock' = IF WritesRow(r) THEN [lock EXCEPT ![r] = target] ELSE lock
          /\ phase' = [phase EXCEPT ![r] = "commit"]
          /\ UNCHANGED <<users, clients, tokens, job, bearer, seen, entitled>>

WriteUser(r) ==
    LET target == job[r].target IN
    users' = CASE job[r].op = "create_user" ->
                    [users EXCEPT ![target] = [role |-> job[r].role, is_active |-> TRUE]]
               [] job[r].op \in OnUser ->
                    [users EXCEPT ![target] =
                       [c \in DOMAIN @ |-> IF c \in Changed(r) THEN NewUser(r)[c] ELSE @[c]]]
               [] OTHER -> users

WriteClient(r) ==
    LET target == job[r].target IN
    clients' = CASE job[r].op \in {"create_client", "rotate_secret"} ->
                      [clients EXCEPT ![target] = r]
                 [] job[r].op = "delete_client" -> [clients EXCEPT ![target] = NoRow]
                 [] OTHER -> clients

\* A commit may give a principal the right to what it asks for at this moment.
Commit(r) ==
    /\ phase[r] = "commit"
    /\ WriteUser(r)
    /\ WriteClient(r)
    /\ EndsAs(r, "committed")
    /\ entitled' = [q \in Requests |->
         entitled[q] \/ (InProgress(q) /\ Entitled(bearer[q], job[q])')]

\* Mutant of Fail: the transaction stays open.
FailWithoutRollback(r) ==
    /\ InProgress(r)
    /\ phase' = [phase EXCEPT ![r] = "failed"]
    /\ UNCHANGED <<users, clients, tokens, job, bearer, seen, lock, entitled>>

Fail(r) == InProgress(r) /\ Refuses(r, "failed")

AccessNext ==
    \/ \E u \in Users : GrantUser(u)
    \/ \E c \in Clients : GrantClient(c)
    \/ \E token \in Token : Expire(token)
    \/ \E r \in Requests : Begin(r) \/ Authorise(r) \/ Load(r) \/ Lock(r) \/ Commit(r) \/ Fail(r)

AccessSpec == AccessInit /\ [][AccessNext]_accessVars

-----------------------------------------------------------------------------
(* Properties *)

\* Type invariant; a row is locked by one request at a time, one in progress.
AccessTypeOK ==
    /\ users \in [Users -> UserRow \cup {NoRow}]
    /\ clients \in [Clients -> 0..MaxRequests \cup {NoRow}]
    /\ tokens \subseteq Token
    /\ job \in [Requests -> AccessJobs \cup {NoJob}]
    /\ bearer \in [Requests -> Token \cup {NoToken}]
    /\ phase \in [Requests -> Waiting \cup Ended \cup {"idle"}]
    /\ seen \in [Requests -> UserRow \cup {NoRow}]
    /\ lock \in [Requests -> Users \cup Clients \cup {NoRow}]
    /\ entitled \in [Requests -> BOOLEAN]
    /\ \A r \in Requests : lock[r] # NoRow => phase[r] = "commit" /\ lock[r] = job[r].target
    /\ \A r, q \in Requests : r # q /\ lock[r] # NoRow => lock[r] # lock[q]

\* A demotion, a deactivation or the deletion of a client binds every request
\* that starts after it has committed, whatever the token it carries was issued
\* for (dependencies.py:39 loads the account each time; the role claim of
\* jwt.py:13 is never read): what a request has done, its principal had the
\* right to at some moment since the request began.
RightsEndWithTheRow == \A r \in Requests : phase[r] = "committed" => entitled[r]

\* Taken away for good: an account once deactivated never becomes active again,
\* though updates that loaded it before are written after (user_controller.py:61,
\* :67), and a deleted client does not come back, though a rotation of its secret
\* that loaded it before comes after (oauth_controller.py:72-75).
TakenAwayForGood ==
    [][/\ \A u \in Users : (users[u] # NoRow /\ ~ users[u].is_active) =>
             users'[u] # NoRow /\ ~ users'[u].is_active
       /\ \A r \in Requests : (phase[r] = "committed" /\ job[r].op = "delete_client") =>
             clients'[job[r].target] = NoRow]_accessVars

\* Nobody has the rights of an administrator, or is about to be given them by a
\* request already let in.
Powerless ==
    /\ \A u \in Users : IsActive(u) => users[u].role # "admin"
    /\ \A c \in Clients : clients[c] = NoRow
    /\ \A r \in Requests : phase[r] \in {"load", "lock", "commit"} =>
         job[r].op \in Elsewhere \cup {"update_user"}

\* Rights come only from those who have them: when the last administrator and
\* the last client are gone, managers, staff and old tokens cannot bring one
\* back through any sequence of requests.  Nothing keeps the last administrator
\* from deactivating the account (users.py:65).
PowerIsNotRegained == [][Powerless => Powerless']_accessVars
=============================================================================
