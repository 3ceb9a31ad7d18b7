----------------------------- MODULE AccessProofs -----------------------------
(***************************************************************************)
(* Proofs about Access.tla: that rights end with the row they come from    *)
(* and are not regained, for any accounts, clients and tokens and any      *)
(* number of requests at once, whatever they ask for.                      *)
(***************************************************************************)
EXTENDS Access, TLAPS

\* A request that has begun asks for something and carries a token.
RequestsKnown ==
    \A r \in Requests : phase[r] # "idle" => job[r] \in AccessJobs /\ bearer[r] \in Token

\* A request about to write an account has loaded it, and there it stays.
RowsSeen ==
    \A r \in Requests :
        /\ phase[r] \in {"load", "lock"} => job[r].op \in OnUser \cup OnClient
        /\ phase[r] \in {"lock", "commit"} /\ job[r].op \in OnUser =>
             seen[r] \in UserRow /\ users[job[r].target] \in UserRow

\* Past its role check, a request has had the right to what it does.
EntitledSince ==
    \A r \in Requests :
        /\ phase[r] \in {"load", "lock", "commit", "committed"} => entitled[r]
        /\ InProgress(r) /\ Entitled(bearer[r], job[r]) => entitled[r]

\* The id a request is going to create is nobody's, and no request that has
\* seen its row, or creates one too, is about it.
NewIdsApart ==
    \A q \in Requests : InProgress(q) /\ job[q].op \in Creates =>
        /\ job[q].op = "create_user" => users[job[q].target] = NoRow
        /\ job[q].op = "create_client" => clients[job[q].target] = NoRow
        /\ \A r \in Requests \ {q} :
             (\/ phase[r] \in {"lock", "commit", "committed"} /\ job[r].op \in OnUser \cup OnClient
              \/ phase[r] # "idle" /\ job[r].op \in Creates)
               => job[r].target # job[q].target

\* A request about to write a client holds its row; one that writes a new
\* secret found the row when it took the lock.
ClientsHeld ==
    \A r \in Requests : phase[r] = "commit" /\ job[r].op \in OnClient =>
        /\ lock[r] = job[r].target
        /\ job[r].op = "rotate_secret" => clients[job[r].target] # NoRow

DeletedForGood ==
    \A r \in Requests : phase[r] = "committed" /\ job[r].op = "delete_client" =>
        clients[job[r].target] = NoRow

\* The inductive invariant.  A request writes what it has loaded some statements
\* ago: what it may still count on at its commit is said by the last four parts.
AccessInv ==
    /\ AccessTypeOK
    /\ RequestsKnown
    /\ EntitledSince
    /\ RowsSeen
    /\ NewIdsApart
    /\ ClientsHeld
    /\ DeletedForGood

-----------------------------------------------------------------------------
(* What the invariant comes to *)

\* What a request that has begun is about.
LEMMA JobFields ==
    ASSUME NEW asked \in AccessJobs
    PROVE  /\ asked.op \in OnUser \cup OnClient \cup Creates \cup Elsewhere
           /\ asked.op \in OnUser \cup {"create_user"} =>
                asked.target \in Users /\ asked.target \notin Clients /\ asked.target # NoRow
           /\ asked.op \in OnClient \cup {"create_client"} =>
                asked.target \in Clients /\ asked.target \notin Users /\ asked.target # NoRow
           /\ asked.op \in {"create_user", "update_role"} => asked.role \in Roles
  BY AccessAssumption

LEMMA RightsFollow == AccessInv => RightsEndWithTheRow
  BY DEF AccessInv, EntitledSince, RightsEndWithTheRow

\* The account a request leaves is the one that is there, with the columns it
\* changes; a deactivated account is not activated.
LEMMA WriteIsAnAccount ==
    ASSUME AccessInv, NEW r \in Requests, phase[r] = "commit", job[r].op \in OnUser,
           NEW row,
           row = [c \in DOMAIN users[job[r].target] |->
                    IF c \in Changed(r) THEN NewUser(r)[c] ELSE users[job[r].target][c]]
    PROVE  /\ row \in UserRow
           /\ ~ users[job[r].target].is_active => ~ row.is_active
           /\ job[r].op = "update_user" => row = users[job[r].target]
<1>1. /\ seen[r] \in UserRow
      /\ users[job[r].target] \in UserRow
      /\ job[r].op = "update_role" => job[r].role \in Roles
  BY JobFields DEF AccessInv, RowsSeen, RequestsKnown
<1>2. /\ NewUser(r) \in UserRow
      /\ NewUser(r).is_active => seen[r].is_active
      /\ job[r].op = "update_user" => NewUser(r) = seen[r]
  BY <1>1 DEF NewUser, UserRow
<1>3. job[r].op = "update_user" => Changed(r) = {}
  BY <1>2 DEF Changed
<1>4. "is_active" \in Changed(r) => ~ NewUser(r).is_active
  BY <1>1, <1>2 DEF Changed, UserRow
<1>5. row \in UserRow
  BY <1>1, <1>2 DEF UserRow
<1>6. ~ users[job[r].target].is_active => ~ row.is_active
  BY <1>1, <1>4 DEF UserRow
<1>7. job[r].op = "update_user" => row = users[job[r].target]
  BY <1>1, <1>3 DEF UserRow
<1> QED
  BY <1>5, <1>6, <1>7

-----------------------------------------------------------------------------
(* The steps *)

LEMMA AccessInitInv == AccessInit => AccessInv
<1> SUFFICES ASSUME AccessInit PROVE AccessInv
  OBVIOUS
<1> USE DEF AccessInit
<1>1. AccessTypeOK
  <2>1. users \in [Users -> UserRow \cup {NoRow}]
    <3>1. [role : Roles, is_active : {TRUE}] \subseteq UserRow
      BY DEF UserRow
    <3> QED
      BY <3>1 DEF Staff
  <2>2. clients \in [Clients -> 0..MaxRequests \cup {NoRow}]
    BY AccessAssumption DEF SeedClients
  <2> QED
    BY <2>1, <2>2 DEF AccessTypeOK
<1>2. RequestsKnown /\ EntitledSince /\ RowsSeen /\ NewIdsApart /\ ClientsHeld /\ DeletedForGood
  BY DEF RequestsKnown, EntitledSince, RowsSeen, NewIdsApart, ClientsHeld, DeletedForGood,
     InProgress, Waiting
<1> QED
  BY <1>1, <1>2 DEF AccessInv

\* Tokens come and go; none of this speaks of them.
LEMMA TokensKeep ==
    ASSUME AccessInv, tokens' \subseteq Token, UNCHANGED <<users, clients, requestVars>>
    PROVE  AccessInv'
<1> USE DEF requestVars
<1>1. AccessTypeOK'
  BY DEF AccessInv, AccessTypeOK
<1>2. RequestsKnown' /\ RowsSeen' /\ ClientsHeld' /\ DeletedForGood'
  BY DEF AccessInv, RequestsKnown, RowsSeen, ClientsHeld, DeletedForGood
<1>3. EntitledSince'
  BY DEF AccessInv, EntitledSince, InProgress, Entitled, IsActive
<1>4. NewIdsApart'
  BY DEF AccessInv, NewIdsApart, InProgress
<1> QED
  BY <1>1, <1>2, <1>3, <1>4 DEF AccessInv

LEMMA GrantKeeps ==
    ASSUME AccessInv,
           \/ \E u \in Users : GrantUser(u)
           \/ \E c \in Clients : GrantClient(c)
           \/ \E token \in Token : Expire(token)
    PROVE  AccessInv'
<1>1. tokens \subseteq Token
  BY DEF AccessInv, AccessTypeOK
<1>2. ASSUME NEW u \in Users, GrantUser(u) PROVE AccessInv'
  <2>1. users[u] \in UserRow
    BY <1>2 DEF GrantUser, IsActive, AccessInv, AccessTypeOK
  <2>2. [sub |-> u, role |-> users[u].role] \in Token
    BY <2>1 DEF Token, UserRow
  <2> QED
    BY <1>1, <1>2, <2>2, TokensKeep DEF GrantUser, Grant
<1>3. ASSUME NEW c \in Clients, GrantClient(c) PROVE AccessInv'
  <2>1. [sub |-> c, role |-> "client"] \in Token
    BY DEF Token
  <2> QED
    BY <1>1, <1>3, <2>1, TokensKeep DEF GrantClient, Grant
<1>4. ASSUME NEW token \in Token, Expire(token) PROVE AccessInv'
  BY <1>1, <1>4, TokensKeep DEF Expire
<1> QED
  BY <1>2, <1>3, <1>4

LEMMA BeginKeeps ==
    ASSUME AccessInv, NEW r \in Requests, Begin(r)
    PROVE  AccessInv'
<1>1. PICK token \in tokens, asked \in AccessJobs :
         /\ asked.op = "create_user" => users[asked.target] = NoRow
         /\ asked.op = "create_client" => clients[asked.target] = NoRow
         /\ asked.op \in Creates =>
              \A q \in Requests : job[q] # NoJob => job[q].target # asked.target
         /\ job' = [job EXCEPT ![r] = asked]
         /\ bearer' = [bearer EXCEPT ![r] = token]
         /\ entitled' = [entitled EXCEPT ![r] = Entitled(token, asked)]
  BY DEF Begin
<1>2. /\ phase[r] = "idle"
      /\ phase' = [phase EXCEPT ![r] = "authorise"]
      /\ UNCHANGED <<users, clients, tokens, seen, lock>>
  BY DEF Begin
<1>3. token \in Token
  BY DEF AccessInv, AccessTypeOK
<1>4. Entitled(token, asked) \in BOOLEAN
  BY <1>3 DEF Entitled, IsActive, AccessInv, AccessTypeOK, UserRow, Token
<1> USE DEF AccessInv
<1>5. AccessTypeOK'
  BY <1>1, <1>2, <1>3, <1>4 DEF AccessTypeOK, Waiting
<1>6. RequestsKnown'
  BY <1>1, <1>2, <1>3 DEF RequestsKnown, AccessTypeOK
<1>7. EntitledSince'
  <2> SUFFICES ASSUME NEW q \in Requests
               PROVE  /\ phase'[q] \in {"load", "lock", "commit", "committed"} => entitled'[q]
                      /\ InProgress(q)' /\ Entitled(bearer[q], job[q])' => entitled'[q]
    BY DEF EntitledSince
  <2>1. Entitled(bearer[q], job[q])' <=> Entitled(bearer'[q], job'[q])
    BY <1>2 DEF Entitled, IsActive
  <2>2. CASE q = r
    BY <1>1, <1>2, <2>1, <2>2 DEF AccessTypeOK
  <2>3. CASE q # r
    BY <1>1, <1>2, <2>1, <2>3 DEF EntitledSince, InProgress, AccessTypeOK
  <2> QED
    BY <2>2, <2>3
<1>8. DeletedForGood' /\ ClientsHeld' /\ RowsSeen'
  BY <1>1, <1>2 DEF DeletedForGood, ClientsHeld, RowsSeen, AccessTypeOK
<1>9. NewIdsApart'
  <2>1. \A q \in Requests : phase[q] # "idle" => job[q] # NoJob
    BY AccessAssumption DEF RequestsKnown
  <2> QED
    BY <1>1, <1>2, <2>1 DEF NewIdsApart, InProgress, Waiting, AccessTypeOK
<1> QED
  BY <1>5, <1>6, <1>7, <1>8, <1>9

\* A request that goes on to a further statement and writes nothing.
LEMMA GoesOnKeeps ==
    ASSUME AccessInv, NEW r \in Requests, InProgress(r),
           NEW p \in {"load", "lock", "commit"}, NEW row \in UserRow \cup {NoRow},
           phase' = [phase EXCEPT ![r] = p],
           seen' = [seen EXCEPT ![r] = row],
           UNCHANGED <<users, clients, tokens, job, bearer, entitled>>,
           lock' \in [Requests -> Users \cup Clients \cup {NoRow}],
           \A q \in Requests \ {r} : lock'[q] = lock[q],
           lock'[r] # NoRow => p = "commit" /\ lock'[r] = job[r].target
                                            /\ \A q \in Requests \ {r} : lock[q] # lock'[r],
           phase[r] = "authorise" => Entitled(bearer[r], job[r]),
           p \in {"load", "lock"} => job[r].op \in OnUser \cup OnClient,
           p \in {"lock", "commit"} /\ job[r].op \in OnUser =>
               row \in UserRow /\ users[job[r].target] \in UserRow,
           p \in {"lock", "commit"} /\ job[r].op \in OnClient =>
               clients[job[r].target] # NoRow \/ phase[r] = "lock",
           p = "commit" /\ job[r].op \in OnClient => lock'[r] = job[r].target,
           p = "commit" /\ job[r].op = "rotate_secret" => clients[job[r].target] # NoRow
    PROVE  AccessInv'
<1> USE DEF AccessInv, InProgress, Waiting
<1>1. job[r] \in AccessJobs
  BY DEF RequestsKnown
<1>2. AccessTypeOK'
  <2>1. \A q \in Requests : lock'[q] # NoRow => phase'[q] = "commit" /\ lock'[q] = job'[q].target
    BY DEF AccessTypeOK
  <2>2. \A q, s \in Requests : q # s /\ lock'[q] # NoRow => lock'[q] # lock'[s]
    BY DEF AccessTypeOK
  <2> QED
    BY <2>1, <2>2 DEF AccessTypeOK
<1>3. RequestsKnown' /\ RowsSeen' /\ ClientsHeld' /\ DeletedForGood'
  <2>1. RequestsKnown' /\ RowsSeen'
    BY DEF RequestsKnown, RowsSeen, AccessTypeOK
  <2>2. ClientsHeld' /\ DeletedForGood'
    BY DEF ClientsHeld, DeletedForGood, AccessTypeOK
  <2> QED
    BY <2>1, <2>2
<1>4. EntitledSince'
  <2> SUFFICES ASSUME NEW q \in Requests
               PROVE  /\ phase'[q] \in {"load", "lock", "commit", "committed"} => entitled'[q]
                      /\ InProgress(q)' /\ Entitled(bearer[q], job[q])' => entitled'[q]
    BY DEF EntitledSince
  <2>1. Entitled(bearer[q], job[q])' <=> Entitled(bearer[q], job[q])
    BY DEF Entitled, IsActive
  <2> QED
    BY <2>1 DEF EntitledSince, AccessTypeOK
<1>5. NewIdsApart'
  <2> SUFFICES ASSUME NEW q \in Requests, InProgress(q)', job[q].op \in Creates,
                      NEW s \in Requests \ {q},
                      \/ phase'[s] \in {"lock", "commit", "committed"}
                           /\ job[s].op \in OnUser \cup OnClient
                      \/ phase'[s] # "idle" /\ job[s].op \in Creates
               PROVE  job[s].target # job[q].target
    BY DEF NewIdsApart, AccessTypeOK
  <2>1. InProgress(q)
    BY DEF AccessTypeOK
  <2>2. CASE s # r \/ job[s].op \in Creates \/ phase[s] \in {"lock", "commit"}
    <3>1. \/ phase[s] \in {"lock", "commit", "committed"} /\ job[s].op \in OnUser \cup OnClient
          \/ phase[s] # "idle" /\ job[s].op \in Creates
      BY <2>2 DEF AccessTypeOK
    <3> QED
      BY <2>1, <3>1 DEF NewIdsApart
  <2>3. CASE s = r /\ job[s].op \in OnUser \cup OnClient /\ phase[s] \in {"authorise", "load"}
    <3>1. p \in {"lock", "commit"}
      BY <2>3 DEF AccessTypeOK, OnUser, OnClient, Creates
    <3>2. job[q] \in AccessJobs
      BY <2>1 DEF RequestsKnown
    <3>3. IF job[r].op \in OnUser THEN users[job[r].target] # NoRow
                                  ELSE clients[job[r].target] # NoRow
      BY <2>3, <3>1, AccessAssumption
    <3>4. IF job[q].op = "create_user" THEN users[job[q].target] = NoRow
                                       ELSE clients[job[q].target] = NoRow
      BY <2>1 DEF NewIdsApart, Creates
    <3> QED
      BY <1>1, <2>3, <3>2, <3>3, <3>4, JobFields DEF OnUser, OnClient, Creates
  <2> QED
    BY <2>2, <2>3
<1> QED
  BY <1>2, <1>3, <1>4, <1>5

\* A request that ends without a commit leaves everything as it found it.
LEMMA RefusesKeeps ==
    ASSUME AccessInv, NEW r \in Requests, InProgress(r),
           NEW p \in Ended \ {"committed"}, Refuses(r, p)
    PROVE  AccessInv'
<1>1. /\ phase' = [phase EXCEPT ![r] = p]
      /\ lock' = [lock EXCEPT ![r] = NoRow]
      /\ seen' = [seen EXCEPT ![r] = NoRow]
      /\ UNCHANGED <<users, clients, tokens, job, bearer, entitled>>
      /\ p \notin Waiting /\ p # "idle" /\ p # "committed"
  BY DEF Refuses, EndsAs, Ended, Waiting
<1> USE DEF AccessInv, InProgress, Waiting
<1>2. AccessTypeOK'
  BY <1>1 DEF AccessTypeOK
<1>3. RequestsKnown' /\ RowsSeen' /\ ClientsHeld' /\ DeletedForGood'
  BY <1>1 DEF RequestsKnown, RowsSeen, ClientsHeld, DeletedForGood, AccessTypeOK
<1>4. EntitledSince'
  <2> SUFFICES ASSUME NEW q \in Requests
               PROVE  /\ phase'[q] \in {"load", "lock", "commit", "committed"} => entitled'[q]
                      /\ InProgress(q)' /\ Entitled(bearer[q], job[q])' => entitled'[q]
    BY DEF EntitledSince
  <2>1. Entitled(bearer[q], job[q])' <=> Entitled(bearer[q], job[q])
    BY <1>1 DEF Entitled, IsActive
  <2> QED
    BY <1>1, <2>1 DEF EntitledSince, AccessTypeOK
<1>5. NewIdsApart'
  BY <1>1 DEF NewIdsApart, AccessTypeOK
<1> QED
  BY <1>2, <1>3, <1>4, <1>5

LEMMA AuthoriseKeeps ==
    ASSUME AccessInv, NEW r \in Requests, Authorise(r)
    PROVE  AccessInv'
<1>1. phase[r] = "authorise" /\ InProgress(r)
  BY DEF Authorise, InProgress, Waiting
<1>2. CASE Refuses(r, "refused")
  BY <1>1, <1>2, RefusesKeeps DEF Ended
<1>3. CASE ~ Refuses(r, "refused")
  <2> DEFINE own == job[r].op \in OnUser /\ job[r].target = bearer[r].sub
             row == IF own THEN users[job[r].target] ELSE seen[r]
             p == CASE job[r].op \in OnClient -> "load"
                    [] job[r].op \in OnUser   -> IF own THEN "lock" ELSE "load"
                    [] OTHER                  -> "commit"
  <2>1. /\ Entitled(bearer[r], job[r])
        /\ seen' = [seen EXCEPT ![r] = row]
        /\ phase' = [phase EXCEPT ![r] = p]
        /\ UNCHANGED <<users, clients, tokens, job, bearer, lock, entitled>>
    BY <1>3 DEF Authorise, Authorised, GoesTo, AccessInv, AccessTypeOK
  <2>2. job[r] \in AccessJobs /\ bearer[r] \in Token
    BY <1>1 DEF AccessInv, RequestsKnown
  <2>3. own => users[job[r].target] \in UserRow
    BY <2>1, <2>2, JobFields DEF Entitled, IsActive, AccessInv, AccessTypeOK
  <2>4. row \in UserRow \cup {NoRow}
    BY <2>3 DEF AccessInv, AccessTypeOK
  <2>5. /\ p \in {"load", "lock", "commit"}
        /\ p \in {"load", "lock"} => job[r].op \in OnUser \cup OnClient
        /\ p \in {"lock", "commit"} /\ job[r].op \in OnUser => own
        /\ p \in {"lock", "commit"} => job[r].op \notin OnClient
    BY DEF OnUser, OnClient
  <2>6. lock[r] = NoRow /\ lock' \in [Requests -> Users \cup Clients \cup {NoRow}]
    BY <1>1, <2>1 DEF AccessInv, AccessTypeOK
  <2>7. own => row = users[job[r].target]
    OBVIOUS
  <2> HIDE DEF p, row, own
  <2>8. p \in {"lock", "commit"} /\ job[r].op \in OnUser =>
            row \in UserRow /\ users[job[r].target] \in UserRow
    BY <2>3, <2>5, <2>7
  <2>9. job[r].op = "rotate_secret" => job[r].op \in OnClient
    BY DEF OnClient
  <2> QED
    BY <1>1, <2>1, <2>4, <2>5, <2>6, <2>8, <2>9, GoesOnKeeps
<1> QED
  BY <1>2, <1>3

LEMMA LoadKeeps ==
    ASSUME AccessInv, NEW r \in Requests, Load(r)
    PROVE  AccessInv'
<1>1. phase[r] = "load" /\ InProgress(r)
  BY DEF Load, InProgress, Waiting
<1>2. CASE Refuses(r, "not_found")
  BY <1>1, <1>2, RefusesKeeps DEF Ended
<1>3. CASE ~ Refuses(r, "not_found")
  <2> DEFINE row == IF job[r].op \in OnUser THEN users[job[r].target] ELSE seen[r]
  <2>1. /\ job[r].op \in OnUser => users[job[r].target] # NoRow
        /\ job[r].op \notin OnUser => clients[job[r].target] # NoRow
        /\ seen' = [seen EXCEPT ![r] = row]
        /\ phase' = [phase EXCEPT ![r] = "lock"]
        /\ UNCHANGED <<users, clients, tokens, job, bearer, lock, entitled>>
    BY <1>3 DEF Load, GoesTo, AccessInv, AccessTypeOK
  <2>2. job[r] \in AccessJobs /\ job[r].op \in OnUser \cup OnClient
    BY <1>1 DEF AccessInv, RequestsKnown, RowsSeen
  <2>3. job[r].op \in OnUser => users[job[r].target] \in UserRow /\ row \in UserRow
    BY <2>1, <2>2, JobFields DEF AccessInv, AccessTypeOK
  <2>4. row \in UserRow \cup {NoRow}
    BY <2>3 DEF AccessInv, AccessTypeOK
  <2>5. lock[r] = NoRow /\ lock' \in [Requests -> Users \cup Clients \cup {NoRow}]
    BY <1>1, <2>1 DEF AccessInv, AccessTypeOK
  <2>6. job[r].op \in OnClient => clients[job[r].target] # NoRow
    BY <2>1 DEF OnUser, OnClient
  <2> HIDE DEF row
  <2> QED
    BY <1>1, <2>1, <2>2, <2>3, <2>4, <2>5, <2>6, GoesOnKeeps
<1> QED
  BY <1>2, <1>3

LEMMA LockKeeps ==
    ASSUME AccessInv, NEW r \in Requests, Lock(r)
    PROVE  AccessInv'
<1>1. phase[r] = "lock" /\ InProgress(r)
  BY DEF Lock, InProgress, Waiting
<1>2. CASE Refuses(r, "stale_data")
  BY <1>1, <1>2, RefusesKeeps DEF Ended
<1>3. CASE ~ Refuses(r, "stale_data")
  <2>1. /\ WritesRow(r) => \A q \in Requests \ {r} : lock[q] # job[r].target
        /\ job[r].op = "rotate_secret" => clients[job[r].target] # NoRow
        /\ lock' = IF WritesRow(r) THEN [lock EXCEPT ![r] = job[r].target] ELSE lock
        /\ phase' = [phase EXCEPT ![r] = "commit"]
        /\ UNCHANGED <<users, clients, tokens, job, bearer, seen, entitled>>
    BY <1>3 DEF Lock, OnClient
  <2>2. job[r] \in AccessJobs /\ job[r].op \in OnUser \cup OnClient
    BY <1>1 DEF AccessInv, RequestsKnown, RowsSeen
  <2>3. lock[r] = NoRow /\ job[r].target \in Users \cup Clients
    BY <1>1, <2>2, JobFields DEF AccessInv, AccessTypeOK
  <2>4. /\ lock' \in [Requests -> Users \cup Clients \cup {NoRow}]
        /\ \A q \in Requests \ {r} : lock'[q] = lock[q]
        /\ lock'[r] # NoRow => WritesRow(r) /\ lock'[r] = job[r].target
        /\ WritesRow(r) => lock'[r] = job[r].target
    BY <2>1, <2>3 DEF AccessInv, AccessTypeOK
  <2>5. job[r].op \in OnUser => seen[r] \in UserRow /\ users[job[r].target] \in UserRow
    BY <1>1 DEF AccessInv, RowsSeen
  <2>6. seen' = [seen EXCEPT ![r] = seen[r]] /\ seen[r] \in UserRow \cup {NoRow}
    BY <2>1 DEF AccessInv, AccessTypeOK
  <2>7. job[r].op \in OnClient => WritesRow(r)
    BY DEF WritesRow
  <2> QED
    BY <1>1, <2>1, <2>2, <2>4, <2>5, <2>6, <2>7, GoesOnKeeps
<1> QED
  BY <1>2, <1>3

\* What a commit writes.
LEMMA CommitWrites ==
    ASSUME AccessInv, NEW r \in Requests, Commit(r)
    PROVE  /\ users' \in [Users -> UserRow \cup {NoRow}]
           /\ \A u \in Users : users[u] # NoRow =>
                users'[u] # NoRow /\ (~ users[u].is_active => ~ users'[u].is_active)
           /\ \A u \in Users : users'[u] # users[u] =>
                u = job[r].target /\ job[r].op \in {"create_user", "update_role", "deactivate_user"}
           /\ clients' \in [Clients -> 0..MaxRequests \cup {NoRow}]
           /\ \A c \in Clients :
                clients'[c] = IF c # job[r].target THEN clients[c]
                              ELSE CASE job[r].op \in {"create_client", "rotate_secret"} -> r
                                     [] job[r].op = "delete_client" -> NoRow
                                     [] OTHER -> clients[c]
<1> DEFINE t == job[r].target
           row == [c \in DOMAIN users[t] |->
                     IF c \in Changed(r) THEN NewUser(r)[c] ELSE users[t][c]]
<1>1. phase[r] = "commit" /\ InProgress(r) /\ job[r] \in AccessJobs
  BY DEF Commit, InProgress, Waiting, AccessInv, RequestsKnown
<1>2. /\ users \in [Users -> UserRow \cup {NoRow}]
      /\ clients \in [Clients -> 0..MaxRequests \cup {NoRow}]
  BY DEF AccessInv, AccessTypeOK
<1>3. CASE job[r].op = "create_user"
  <2> DEFINE new == [role |-> job[r].role, is_active |-> TRUE]
  <2>1. new \in UserRow
    BY <1>1, <1>3, JobFields DEF UserRow
  <2>2. t \in Users /\ users[t] = NoRow
    BY <1>1, <1>3, JobFields DEF AccessInv, NewIdsApart, Creates
  <2>3. users' = [users EXCEPT ![t] = new]
    BY <1>3 DEF Commit, WriteUser, OnUser
  <2>4. clients' = clients
    BY <1>3 DEF Commit, WriteClient
  <2> HIDE DEF new
  <2>5. users'[t] = new /\ new # NoRow /\ \A u \in Users \ {t} : users'[u] = users[u]
    BY <1>2, <2>1, <2>2, <2>3, AccessAssumption
  <2> QED
    BY <1>2, <1>3, <2>1, <2>2, <2>3, <2>4, <2>5
<1>4. CASE job[r].op \in OnUser
  <2>1. /\ row \in UserRow
        /\ ~ users[t].is_active => ~ row.is_active
        /\ job[r].op = "update_user" => row = users[t]
    BY <1>1, <1>4, WriteIsAnAccount
  <2>2. t \in Users
    BY <1>1, <1>4, JobFields
  <2>3. users' = [users EXCEPT ![t] = row] /\ clients' = clients
    BY <1>4 DEF Commit, WriteUser, WriteClient, OnUser
  <2> HIDE DEF row
  <2>4. users'[t] = row /\ row # NoRow /\ \A u \in Users \ {t} : users'[u] = users[u]
    BY <1>2, <2>1, <2>2, <2>3, AccessAssumption
  <2> QED
    BY <1>2, <1>4, <2>1, <2>2, <2>3, <2>4 DEF OnUser
<1>5. CASE job[r].op \in OnClient \cup {"create_client"}
  <2>1. t \in Clients /\ r \in 0..MaxRequests
    BY <1>1, <1>5, JobFields, AccessAssumption DEF Requests
  <2>2. users' = users
    BY <1>5 DEF Commit, WriteUser, OnUser, OnClient
  <2>3. clients' = CASE job[r].op \in {"create_client", "rotate_secret"} ->
                            [clients EXCEPT ![t] = r]
                     [] job[r].op = "delete_client" -> [clients EXCEPT ![t] = NoRow]
                     [] OTHER -> clients
    BY DEF Commit, WriteClient
  <2> HIDE DEF t
  <2>4. CASE job[r].op \in {"create_client", "rotate_secret"}
    BY <1>2, <2>1, <2>2, <2>3, <2>4 DEF t
  <2>5. CASE job[r].op = "delete_client"
    BY <1>2, <2>1, <2>2, <2>3, <2>5 DEF t
  <2> QED
    BY <1>5, <2>4, <2>5 DEF OnClient
<1>6. CASE job[r].op \in Elsewhere
  <2>1. users' = users /\ clients' = clients
    BY <1>6 DEF Commit, WriteUser, WriteClient, OnUser, Elsewhere
  <2> QED
    BY <1>2, <1>6, <2>1 DEF Elsewhere
<1> QED
  BY <1>1, <1>3, <1>4, <1>5, <1>6, JobFields DEF Creates

LEMMA CommitKeeps ==
    ASSUME AccessInv, NEW r \in Requests, Commit(r)
    PROVE  AccessInv'
<1>1. /\ phase[r] = "commit"
      /\ phase' = [phase EXCEPT ![r] = "committed"]
      /\ lock' = [lock EXCEPT ![r] = NoRow]
      /\ seen' = [seen EXCEPT ![r] = NoRow]
      /\ UNCHANGED <<tokens, job, bearer>>
      /\ entitled' = [q \in Requests |->
            entitled[q] \/ (InProgress(q) /\ Entitled(bearer[q], job[q])')]
  BY DEF Commit, EndsAs
<1>2. job[r] \in AccessJobs
  BY <1>1 DEF AccessInv, RequestsKnown
<1>3. /\ users' \in [Users -> UserRow \cup {NoRow}]
      /\ \A u \in Users : users[u] # NoRow => users'[u] # NoRow
      /\ \A u \in Users : users'[u] # users[u] =>
           u = job[r].target /\ job[r].op \in OnUser \cup {"create_user"}
  BY CommitWrites DEF OnUser
<1>4. /\ clients' \in [Clients -> 0..MaxRequests \cup {NoRow}]
      /\ \A c \in Clients :
           clients'[c] = IF c # job[r].target THEN clients[c]
                         ELSE CASE job[r].op \in {"create_client", "rotate_secret"} -> r
                                [] job[r].op = "delete_client" -> NoRow
                                [] OTHER -> clients[c]
  BY CommitWrites
<1>5. AccessTypeOK'
  <2>1. entitled' \in [Requests -> BOOLEAN]
    BY <1>1 DEF AccessInv, AccessTypeOK
  <2> QED
    BY <1>1, <1>3, <1>4, <2>1 DEF AccessInv, AccessTypeOK, Ended
<1>6. RequestsKnown'
  BY <1>1 DEF AccessInv, AccessTypeOK, RequestsKnown
<1>7. EntitledSince'
  BY <1>1 DEF AccessInv, AccessTypeOK, EntitledSince, InProgress, Waiting
<1>8. RowsSeen'
  <2> SUFFICES ASSUME NEW q \in Requests, q # r, phase[q] \in {"lock", "commit"},
                      job[q].op \in OnUser
               PROVE  users'[job[q].target] \in UserRow
    BY <1>1 DEF AccessInv, AccessTypeOK, RowsSeen
  <2>1. job[q].target \in Users
    BY JobFields DEF AccessInv, RequestsKnown
  <2> QED
    BY <1>3, <2>1, AccessAssumption DEF AccessInv, RowsSeen
<1>9. \A q \in Requests \ {r} : InProgress(q) /\ job[q].op \in Creates =>
          job[r].target # job[q].target \/ job[r].op \in Elsewhere
  BY <1>1, <1>2, JobFields DEF AccessInv, NewIdsApart
<1>10. NewIdsApart'
  <2> SUFFICES ASSUME NEW q \in Requests, InProgress(q)', job[q].op \in Creates
               PROVE  /\ job[q].op = "create_user" => users'[job[q].target] = NoRow
                      /\ job[q].op = "create_client" => clients'[job[q].target] = NoRow
                      /\ \A s \in Requests \ {q} :
                           (\/ /\ phase'[s] \in {"lock", "commit", "committed"}
                               /\ job[s].op \in OnUser \cup OnClient
                            \/ phase'[s] # "idle" /\ job[s].op \in Creates)
                             => job[s].target # job[q].target
    BY <1>1 DEF NewIdsApart
  <2>1. q # r /\ InProgress(q) /\ job[q] \in AccessJobs
    BY <1>1 DEF AccessInv, AccessTypeOK, InProgress, Waiting, RequestsKnown
  <2>2. job[r].target # job[q].target \/ job[r].op \in Elsewhere
    BY <1>9, <2>1
  <2>3. job[q].op = "create_user" => users'[job[q].target] = NoRow
    BY <1>3, <2>1, <2>2, JobFields DEF AccessInv, NewIdsApart, Elsewhere, OnUser
  <2>4. job[q].op = "create_client" => clients'[job[q].target] = NoRow
    BY <1>4, <2>1, <2>2, JobFields DEF AccessInv, NewIdsApart, Elsewhere
  <2>5. ASSUME NEW s \in Requests \ {q},
               \/ /\ phase'[s] \in {"lock", "commit", "committed"}
                  /\ job[s].op \in OnUser \cup OnClient
               \/ phase'[s] # "idle" /\ job[s].op \in Creates
        PROVE  job[s].target # job[q].target
    <3>1. \/ /\ phase[s] \in {"lock", "commit", "committed"}
             /\ job[s].op \in OnUser \cup OnClient
          \/ phase[s] # "idle" /\ job[s].op \in Creates
      BY <1>1, <2>5 DEF AccessInv, AccessTypeOK
    <3> QED
      BY <2>1, <3>1 DEF AccessInv, NewIdsApart
  <2> QED
    BY <2>3, <2>4, <2>5
<1>11. \A q \in Requests \ {r} : phase[q] = "commit" /\ job[q].op \in OnClient =>
          job[q].target # job[r].target \/ job[r].op \notin OnClient \cup {"create_client"}
  <2> SUFFICES ASSUME NEW q \in Requests \ {r}, phase[q] = "commit", job[q].op \in OnClient,
                      job[r].op \in OnClient \cup {"create_client"}
               PROVE  job[q].target # job[r].target
    OBVIOUS
  <2>1. CASE job[r].op = "create_client"
    BY <1>1, <2>1 DEF AccessInv, NewIdsApart, InProgress, Waiting, Creates
  <2>2. CASE job[r].op \in OnClient
    <3>1. lock[q] = job[q].target /\ lock[r] = job[r].target /\ lock[q] # NoRow
      BY <1>1, <2>2, JobFields DEF AccessInv, ClientsHeld, RequestsKnown
    <3> QED
      BY <3>1 DEF AccessInv, AccessTypeOK
  <2> QED
    BY <2>1, <2>2
<1>12. ClientsHeld'
  <2> SUFFICES ASSUME NEW q \in Requests, q # r, phase[q] = "commit", job[q].op \in OnClient
               PROVE  /\ lock'[q] = job[q].target
                      /\ job[q].op = "rotate_secret" => clients'[job[q].target] # NoRow
    BY <1>1 DEF AccessInv, AccessTypeOK, ClientsHeld
  <2>1. job[q].target \in Clients
    BY JobFields DEF AccessInv, RequestsKnown
  <2>2. clients'[job[q].target] = clients[job[q].target]
    BY <1>4, <1>11, <2>1 DEF OnClient
  <2> QED
    BY <1>1, <2>2 DEF AccessInv, AccessTypeOK, ClientsHeld
<1>13. DeletedForGood'
  <2> SUFFICES ASSUME NEW q \in Requests, phase'[q] = "committed", job[q].op = "delete_client"
               PROVE  clients'[job[q].target] = NoRow
    BY <1>1 DEF DeletedForGood
  <2>1. q = r \/ phase[q] = "committed"
    BY <1>1 DEF AccessInv, AccessTypeOK
  <2>2. job[q].target \in Clients
    BY <1>1, <2>1, JobFields DEF AccessInv, RequestsKnown, OnClient
  <2>3. CASE q = r
    BY <1>4, <2>2, <2>3
  <2>4. CASE q # r
    <3>1. phase[q] = "committed" /\ clients[job[q].target] = NoRow
      BY <2>1, <2>4 DEF AccessInv, DeletedForGood
    <3>2. job[r].op \in {"create_client", "rotate_secret"} => job[r].target # job[q].target
      BY <1>1, <2>4, <3>1
         DEF AccessInv, NewIdsApart, ClientsHeld, InProgress, Waiting, Creates, OnClient
    <3> QED
      BY <1>4, <2>2, <3>1, <3>2
  <2> QED
    BY <2>3, <2>4
<1> QED
  BY <1>5, <1>6, <1>7, <1>8, <1>10, <1>12, <1>13 DEF AccessInv

LEMMA AccessStep == AccessInv /\ [AccessNext]_accessVars => AccessInv'
<1> SUFFICES ASSUME AccessInv, [AccessNext]_accessVars PROVE AccessInv'
  OBVIOUS
<1>1. CASE UNCHANGED accessVars
  <2>1. tokens' \subseteq Token
    BY <1>1 DEF AccessInv, AccessTypeOK, accessVars
  <2> QED
    BY <1>1, <2>1, TokensKeep DEF accessVars, requestVars
<1>2. ASSUME NEW r \in Requests, Fail(r) PROVE AccessInv'
  BY <1>2, RefusesKeeps DEF Fail, Ended
<1> QED
  BY <1>1, <1>2, GrantKeeps, BeginKeeps, AuthoriseKeeps, LoadKeeps, LockKeeps, CommitKeeps
     DEF AccessNext

LEMMA AccessInvariant == AccessSpec => []AccessInv
BY AccessInitInv, AccessStep, PTL DEF AccessSpec

-----------------------------------------------------------------------------
(* What no step does *)

\* Only a commit writes an account or a client.
LEMMA OnlyCommitsWrite ==
    ASSUME [AccessNext]_accessVars
    PROVE  \/ \E r \in Requests : Commit(r)
           \/ UNCHANGED <<users, clients>>
  BY DEF AccessNext, accessVars, requestVars, GrantUser, GrantClient, Grant, Expire, Begin,
     Authorise, Load, Lock, Fail, Refuses, GoesTo

LEMMA StepTakesAwayForGood ==
    ASSUME AccessInv, [AccessNext]_accessVars
    PROVE  /\ \A u \in Users : (users[u] # NoRow /\ ~ users[u].is_active) =>
                users'[u] # NoRow /\ ~ users'[u].is_active
           /\ \A r \in Requests : (phase[r] = "committed" /\ job[r].op = "delete_client") =>
                clients'[job[r].target] = NoRow
<1>1. CASE UNCHANGED <<users, clients>>
  BY <1>1 DEF AccessInv, DeletedForGood
<1>2. ASSUME NEW r \in Requests, Commit(r)
      PROVE  /\ \A u \in Users : (users[u] # NoRow /\ ~ users[u].is_active) =>
                   users'[u] # NoRow /\ ~ users'[u].is_active
             /\ \A q \in Requests : (phase[q] = "committed" /\ job[q].op = "delete_client") =>
                   phase'[q] = "committed" /\ job'[q] = job[q]
  BY <1>2, CommitWrites DEF Commit, EndsAs, AccessInv, AccessTypeOK
<1>3. DeletedForGood'
  BY AccessStep DEF AccessInv
<1> QED
  BY <1>1, <1>2, <1>3, OnlyCommitsWrite DEF DeletedForGood

\* Nobody who has no power is let into what takes power.
LEMMA NoPowerNoEntry ==
    ASSUME AccessInv, Powerless, NEW token \in Token, NEW asked \in AccessJobs,
           Entitled(token, asked)
    PROVE  asked.op \in Elsewhere \cup {"update_user"}
<1>1. CASE token.sub \in Clients
  BY <1>1 DEF Entitled, Powerless
<1>2. CASE token.sub \notin Clients
  <2>1. token.sub \in Users /\ IsActive(token.sub) /\ users[token.sub].role # "admin"
    BY <1>2 DEF Token, Entitled, Powerless
  <2>2. users[token.sub].role \in RolesFor(asked.op)
    BY <1>2 DEF Entitled
  <2>3. "admin" # users[token.sub].role => asked.op \notin
          {"create_user", "update_role", "deactivate_user",
           "create_client", "rotate_secret", "delete_client"}
    BY <2>2 DEF RolesFor
  <2> QED
    BY <2>1, <2>3, AccessAssumption DEF OnUser, OnClient, Creates, Elsewhere
<1> QED
  BY <1>1, <1>2

LEMMA StepGivesNoPower ==
    ASSUME AccessInv, [AccessNext]_accessVars, Powerless
    PROVE  Powerless'
<1> DEFINE Harmless(q) == job[q].op \in Elsewhere \cup {"update_user"}
           Past(q) == phase[q] \in {"load", "lock", "commit"}
<1>1. \A q \in Requests : Past(q)' => Harmless(q)'
  <2>1. \A q \in Requests : Past(q) => Harmless(q)
    BY DEF Powerless
  <2>2. CASE UNCHANGED <<phase, job>>
    BY <2>1, <2>2
  <2>3. ASSUME NEW r \in Requests,
               Begin(r) \/ Authorise(r) \/ Load(r) \/ Lock(r) \/ Commit(r) \/ Fail(r)
        PROVE  \A q \in Requests : Past(q)' => Harmless(q)'
    <3>1. phase \in [Requests -> Waiting \cup Ended \cup {"idle"}]
      BY DEF AccessInv, AccessTypeOK
    <3>2. job \in [Requests -> AccessJobs \cup {NoJob}]
      BY DEF AccessInv, AccessTypeOK
    <3>3. CASE Begin(r)
      BY <2>1, <3>1, <3>2, <3>3 DEF Begin
    <3>4. CASE Authorise(r)
      <4>1. CASE Refuses(r, "refused")
        BY <2>1, <3>1, <4>1 DEF Refuses, EndsAs
      <4>2. CASE ~ Refuses(r, "refused")
        <5>1. /\ phase[r] = "authorise"
              /\ Entitled(bearer[r], job[r])
              /\ job' = job
              /\ \A q \in Requests \ {r} : phase'[q] = phase[q]
          BY <3>1, <3>4, <4>2 DEF Authorise, Authorised, GoesTo
        <5>2. Harmless(r)
          BY <5>1, NoPowerNoEntry DEF AccessInv, RequestsKnown
        <5> QED
          BY <2>1, <5>1, <5>2
      <4> QED
        BY <4>1, <4>2
    <3>5. CASE Load(r)
      BY <2>1, <3>1, <3>5 DEF Load, Refuses, EndsAs, GoesTo
    <3>6. CASE Lock(r)
      BY <2>1, <3>1, <3>6 DEF Lock, Refuses, EndsAs
    <3>7. CASE Commit(r) \/ Fail(r)
      BY <2>1, <3>1, <3>7 DEF Commit, Fail, Refuses, EndsAs
    <3> QED
      BY <2>3, <3>3, <3>4, <3>5, <3>6, <3>7
  <2> HIDE DEF Past, Harmless
  <2> QED
    BY <2>2, <2>3 DEF AccessNext, accessVars, requestVars, GrantUser, GrantClient, Grant, Expire
<1>2. CASE UNCHANGED <<users, clients>>
  BY <1>1, <1>2 DEF Powerless, IsActive
<1>3. ASSUME NEW r \in Requests, Commit(r) PROVE Powerless'
  <2>1. job[r].op \in Elsewhere \cup {"update_user"}
    BY <1>3 DEF Powerless, Commit
  <2>2. \A u \in Users : users'[u] = users[u]
    BY <1>3, <2>1, CommitWrites DEF Elsewhere
  <2>3. \A c \in Clients : clients'[c] = clients[c]
    BY <1>3, <2>1, CommitWrites DEF Elsewhere
  <2> QED
    BY <1>1, <2>2, <2>3 DEF Powerless, IsActive
<1> QED
  BY <1>2, <1>3, OnlyCommitsWrite

-----------------------------------------------------------------------------
(* What is promised *)

\* The tables, the requests and their sessions stay of their types, and a row is
\* locked by one request at a time, one that is about to commit.
THEOREM AccessTypes == AccessSpec => []AccessTypeOK
<1>1. AccessInv => AccessTypeOK
  BY DEF AccessInv
<1> QED
  BY <1>1, AccessInvariant, PTL

\* get_current_user, get_current_principal and the role checks built on them
\* (dependencies.py): whatever the token of a request was issued for, what the
\* request does its principal had the right to, by the tables, since it began.
THEOREM RightsEnd == AccessSpec => []RightsEndWithTheRow
BY RightsFollow, AccessInvariant, PTL

\* deactivate_user and delete_client are final, whatever requests that loaded
\* the account or the client before write after them.
THEOREM TakenAway == AccessSpec => TakenAwayForGood
BY AccessInvariant, StepTakesAwayForGood, PTL DEF AccessSpec, TakenAwayForGood

\* Once no administrator and no client is left, and no request of one is under
\* way, the endpoints bring none back.
THEOREM PowerStaysGone == AccessSpec => PowerIsNotRegained
BY AccessInvariant, StepGivesNoPower, PTL DEF AccessSpec, PowerIsNotRegained
=============================================================================
