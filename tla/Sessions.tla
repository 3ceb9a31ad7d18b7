------------------------------- MODULE Sessions -------------------------------
(***************************************************************************)
(* Refresh tokens and the accounts they belong to: auth_controller.py and  *)
(* the operations of user_controller.py that revoke tokens, cut at their   *)
(* database statements as in BillingTxn.tla.                               *)
(*                                                                         *)
(*   login            the user, then INSERT of a token                     *)
(*   refresh          the token; UPDATE revoked; the user; INSERT          *)
(*   logout           the token; UPDATE revoked                            *)
(*   deactivate,      the user; the user's unrevoked tokens; UPDATE of the *)
(*   change_password  user and of each token, in the order of their keys   *)
(*                                                                         *)
(* An UPDATE waits for the lock of its row and keeps it to the end.  A     *)
(* token is named by the request that issues it (the code draws a random   *)
(* jti); token 0 is one issued before.  Access tokens are not stored: a    *)
(* request that carries one loads its user (dependencies.py:39-41).        *)
(***************************************************************************)
EXTENDS Integers, FiniteSets

CONSTANTS
    Users,       \* the accounts
    Passwords,   \* passwords an account may have
    FirstPassword, \* the one every account has at the start
    MaxRequests, \* bound: requests there may ever be
    MaxOpen,     \* bound: requests in progress at a time
    Nobody,      \* holder of a free lock
    NoToken,     \* row of a token not issued yet
    NoJob        \* what a request that has not started asks for

Requests == 1..MaxRequests
Tokens == 0..MaxRequests

VARIABLES
    users,      \* users table: [is_active, password] by user
    tokens,     \* refresh_tokens table
    job,        \* what a request asks for
    phase,      \* how far it is
    marked,     \* the tokens it is going to revoke, as it loaded them
    wants,      \* those whose row it has still to lock
    wantsUser,  \* it has still to lock the user's row
    lock,       \* holder of the lock of a token's row
    userLock,   \* holder of the lock of a user's row
    before      \* history: the requests that had committed when it started

tables == <<users, tokens>>
progress == <<job, phase, marked, wants, wantsUser, lock, userLock>>
sessionVars == <<users, tokens, job, phase, marked, wants, wantsUser, lock, userLock, before>>

UserRow == [is_active : BOOLEAN, password : Passwords]

\* expired: expires_at, and the exp claim of the token, have passed.
TokenRow == [user_id : Users, revoked : BOOLEAN, expired : BOOLEAN]

Login == [op : {"login"}, user : Users, password : Passwords]
Refresh == [op : {"refresh"}, token : Tokens]
Logout == [op : {"logout"}, token : Tokens]
Deactivate == [op : {"deactivate"}, user : Users]
ChangePassword == [op : {"change_password"}, user : Users, old : Passwords, new : Passwords]

Jobs == Login \cup Refresh \cup Logout \cup Deactivate \cup ChangePassword

ASSUME SessionAssumption ==
    /\ MaxRequests \in Nat
    /\ MaxOpen \in Nat
    /\ FirstPassword \in Passwords
    /\ NoToken \notin TokenRow

Phases == {"idle", "listing", "locking", "checking", "ready", "committed", "failed"}

InProgress(r) == phase[r] \in {"listing", "locking", "checking", "ready"}

Issued(t) == tokens[t] # NoToken

\* The user a started request is about.
UserOf(r) == IF job[r].op \in {"refresh", "logout"} THEN tokens[job[r].token].user_id
                                                   ELSE job[r].user

RevokesAll(r) == job[r].op \in {"deactivate", "change_password"}

IssuesToken(r) == job[r].op \in {"login", "refresh"}

-----------------------------------------------------------------------------
SessionInit ==
    /\ users = [u \in Users |-> [is_active |-> TRUE, password |-> FirstPassword]]
    /\ tokens \in {[t \in Tokens |-> IF t = 0 THEN row ELSE NoToken] :
                     row \in [user_id : Users, revoked : {FALSE}, expired : {FALSE}]}
    /\ job = [r \in Requests |-> NoJob]
    /\ phase = [r \in Requests |-> "idle"]
    /\ marked = [r \in Requests |-> {}]
    /\ wants = [r \in Requests |-> {}]
    /\ wantsUser = [r \in Requests |-> FALSE]
    /\ lock = [t \in Tokens |-> Nobody]
    /\ userLock = [u \in Users |-> Nobody]
    /\ before = [r \in Requests |-> {}]

\* Requests start in the order of their numbers, which are names and no more.
CanStart(r) ==
    /\ phase[r] = "idle"
    /\ \A q \in 1..(r - 1) : phase[q] # "idle"
    /\ Cardinality({q \in Requests : InProgress(q)}) < MaxOpen

Start(r, asked, next, revoking, userChanges) ==
    /\ CanStart(r)
    /\ job' = [job EXCEPT ![r] = asked]
    /\ phase' = [phase EXCEPT ![r] = next]
    /\ marked' = [marked EXCEPT ![r] = revoking]
    /\ wants' = [wants EXCEPT ![r] = revoking]
    /\ wantsUser' = [wantsUser EXCEPT ![r] = userChanges]
    /\ before' = [before EXCEPT ![r] = {q \in Requests : phase[q] = "committed"}]
    /\ UNCHANGED <<users, tokens, lock, userLock>>

\* authenticate_user
StartLogin(r, asked) ==
    /\ users[asked.user].password = asked.password
    /\ users[asked.user].is_active
    /\ Start(r, asked, "ready", {}, FALSE)

\* Mutant of StartRefresh: the token is trusted as long as its signature is.
StartRefreshUnchecked(r, asked) ==
    /\ Issued(asked.token)
    /\ ~ tokens[asked.token].expired
    /\ Start(r, asked, "locking", {asked.token}, FALSE)

\* decode_token refuses an expired token, the record a revoked one.
StartRefresh(r, asked) ==
    /\ Issued(asked.token)
    /\ ~ tokens[asked.token].revoked
    /\ ~ tokens[asked.token].expired
    /\ Start(r, asked, "locking", {asked.token}, FALSE)

\* A revoked token is left as it is, without an error.
StartLogout(r, asked) ==
    /\ Issued(asked.token)
    /\ IF tokens[asked.token].revoked THEN Start(r, asked, "ready", {}, FALSE)
                                      ELSE Start(r, asked, "locking", {asked.token}, FALSE)

\* The column is_active is written only if it changes.
StartDeactivate(r, asked) ==
    Start(r, asked, "listing", {}, users[asked.user].is_active)

\* The user is loaded once, to authenticate the request.
StartChangePassword(r, asked) ==
    /\ users[asked.user].is_active
    /\ users[asked.user].password = asked.old
    /\ Start(r, asked, "listing", {}, TRUE)

Begin(r) ==
    \/ \E asked \in Login : StartLogin(r, asked)
    \/ \E asked \in Refresh : StartRefresh(r, asked)
    \/ \E asked \in Logout : StartLogout(r, asked)
    \/ \E asked \in Deactivate : StartDeactivate(r, asked)
    \/ \E asked \in ChangePassword : StartChangePassword(r, asked)

\* Mutant of ListTokens: one token is taken for all of them.
ListOneToken(r) ==
    /\ phase[r] = "listing"
    /\ \E found \in SUBSET {t \in Tokens : Issued(t) /\ tokens[t].user_id = job[r].user} :
         /\ Cardinality(found) <= 1
         /\ marked' = [marked EXCEPT ![r] = found]
         /\ wants' = [wants EXCEPT ![r] = found]
    /\ phase' = [phase EXCEPT ![r] = "locking"]
    /\ UNCHANGED <<users, tokens, job, wantsUser, lock, userLock, before>>

\* revoke_all_user_tokens: the SELECT.
ListTokens(r) ==
    LET found == {t \in Tokens : Issued(t) /\ tokens[t].user_id = job[r].user
                                           /\ ~ tokens[t].revoked}
    IN  /\ phase[r] = "listing"
        /\ marked' = [marked EXCEPT ![r] = found]
        /\ wants' = [wants EXCEPT ![r] = found]
        /\ phase' = [phase EXCEPT ![r] = "locking"]
        /\ UNCHANGED <<users, tokens, job, wantsUser, lock, userLock, before>>

LockUser(r) ==
    /\ phase[r] = "locking"
    /\ wantsUser[r]
    /\ userLock[UserOf(r)] = Nobody
    /\ userLock' = [userLock EXCEPT ![UserOf(r)] = r]
    /\ wantsUser' = [wantsUser EXCEPT ![r] = FALSE]
    /\ UNCHANGED <<users, tokens, job, phase, marked, wants, lock, before>>

\* The unit of work updates the rows of a table in the order of their keys.
LockToken(r, t) ==
    /\ phase[r] = "locking"
    /\ ~ wantsUser[r]
    /\ t \in wants[r]
    /\ \A other \in wants[r] : t <= other
    /\ lock[t] = Nobody
    /\ lock' = [lock EXCEPT ![t] = r]
    /\ wants' = [wants EXCEPT ![r] = @ \ {t}]
    /\ UNCHANGED <<users, tokens, job, phase, marked, wantsUser, userLock, before>>

Flushed(r) ==
    /\ phase[r] = "locking"
    /\ ~ wantsUser[r]
    /\ wants[r] = {}
    /\ phase' = [phase EXCEPT ![r] = IF job[r].op = "refresh" THEN "checking" ELSE "ready"]
    /\ UNCHANGED <<users, tokens, job, marked, wants, wantsUser, lock, userLock, before>>

\* Mutant of CheckUser: the account of a refresh token is not looked at.
CheckNothing(r) ==
    /\ phase[r] = "checking"
    /\ phase' = [phase EXCEPT ![r] = "ready"]
    /\ UNCHANGED <<users, tokens, job, marked, wants, wantsUser, lock, userLock, before>>

\* After the revocation is flushed; an inactive user fails the request (Fail).
CheckUser(r) ==
    /\ phase[r] = "checking"
    /\ users[UserOf(r)].is_active
    /\ phase' = [phase EXCEPT ![r] = "ready"]
    /\ UNCHANGED <<users, tokens, job, marked, wants, wantsUser, lock, userLock, before>>

Release(r) ==
    /\ lock' = [t \in Tokens |-> IF lock[t] = r THEN Nobody ELSE lock[t]]
    /\ userLock' = [u \in Users |-> IF userLock[u] = r THEN Nobody ELSE userLock[u]]

Commit(r) ==
    /\ phase[r] = "ready"
    /\ tokens' = [t \in Tokens |->
                    IF t = r /\ IssuesToken(r)
                    THEN [user_id |-> UserOf(r), revoked |-> FALSE, expired |-> FALSE]
                    ELSE IF t \in marked[r] THEN [tokens[t] EXCEPT !.revoked = TRUE]
                    ELSE tokens[t]]
    /\ users' = CASE job[r].op = "deactivate" -> [users EXCEPT ![job[r].user].is_active = FALSE]
                  [] job[r].op = "change_password" ->
                       [users EXCEPT ![job[r].user].password = job[r].new]
                  [] OTHER -> users
    /\ Release(r)
    /\ phase' = [phase EXCEPT ![r] = "committed"]
    /\ UNCHANGED <<job, marked, wants, wantsUser, before>>

\* Mutant of Fail: the connection goes back to the pool without a rollback.
FailWithoutRollback(r) ==
    /\ InProgress(r)
    /\ phase' = [phase EXCEPT ![r] = "failed"]
    /\ UNCHANGED <<users, tokens, job, marked, wants, wantsUser, lock, userLock, before>>

\* An error, or a crash, anywhere: the transaction is rolled back.
Fail(r) ==
    /\ InProgress(r)
    /\ Release(r)
    /\ phase' = [phase EXCEPT ![r] = "failed"]
    /\ UNCHANGED <<users, tokens, job, marked, wants, wantsUser, before>>

Expire(t) ==
    /\ Issued(t)
    /\ tokens' = [tokens EXCEPT ![t].expired = TRUE]
    /\ UNCHANGED <<users, progress, before>>

Proceed(r) ==
    \/ ListTokens(r)
    \/ LockUser(r)
    \/ \E t \in Tokens : LockToken(r, t)
    \/ Flushed(r)
    \/ CheckUser(r)
    \/ Commit(r)

SessionNext ==
    \/ \E r \in Requests : Begin(r) \/ Proceed(r) \/ Fail(r)
    \/ \E t \in Tokens : Expire(t)

\* A request that has started is carried on: to its commit or, when its user
\* is found inactive, to its failure.
Ending(r) == Proceed(r) \/ (phase[r] = "checking" /\ ~ users[UserOf(r)].is_active /\ Fail(r))

SessionSpec ==
    /\ SessionInit
    /\ [][SessionNext]_sessionVars
    /\ \A r \in Requests : WF_sessionVars(Ending(r))

-----------------------------------------------------------------------------
(* Properties *)

\* Type invariant; only requests in progress hold locks.
SessionTypeOK ==
    /\ users \in [Users -> UserRow]
    /\ tokens \in [Tokens -> TokenRow \cup {NoToken}]
    /\ job \in [Requests -> Jobs \cup {NoJob}]
    /\ phase \in [Requests -> Phases]
    /\ marked \in [Requests -> SUBSET Tokens]
    /\ wants \in [Requests -> SUBSET Tokens]
    /\ wantsUser \in [Requests -> BOOLEAN]
    /\ lock \in [Tokens -> Requests \cup {Nobody}]
    /\ userLock \in [Users -> Requests \cup {Nobody}]
    /\ before \in [Requests -> SUBSET Requests]
    /\ \A t \in Tokens : lock[t] # Nobody => InProgress(lock[t])
    /\ \A u \in Users : userLock[u] # Nobody => InProgress(userLock[u])

\* A token that a request has spent, logged out or revoked buys nothing from a
\* request that starts later.  (Two requests that overlap may both spend it,
\* against the rotation routers/auth.py:53 speaks of.)
SpentTokensStaySpent ==
    \A r \in Requests : (phase[r] = "committed" /\ job[r].op = "refresh") =>
        \A q \in before[r] : job[r].token \notin marked[q]

\* Deactivating an account or changing its password leaves no token alive that
\* had been issued when the request started: what survives comes from a
\* request that overlaps it or, after a change of password, from a later one.
RevokeAllIsComplete ==
    \A q \in Requests : (phase[q] = "committed" /\ RevokesAll(q)) =>
        \A t \in Tokens :
            (Issued(t) /\ tokens[t].user_id = UserOf(q) /\ ~ tokens[t].revoked)
               => t \in Requests \ before[q]

\* A request that starts after an account was deactivated gets no token for it,
\* not even with a token that slipped past the deactivation.
DeactivatedStaysOut ==
    \A r \in Requests : (phase[r] = "committed" /\ IssuesToken(r)) =>
        \A q \in before[r] : ~ (job[q].op = "deactivate" /\ UserOf(q) = UserOf(r))

\* A request that started ends: the row locks are taken in one order and are
\* always given back.
SessionRequestsEnd == \A r \in Requests : InProgress(r) ~> ~ InProgress(r)
=============================================================================
