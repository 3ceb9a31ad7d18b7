---------------------------- MODULE SessionsProofs ----------------------------
(***************************************************************************)
(* Proofs about Sessions.tla: what spending, revoking and deactivating are *)
(* worth to requests that start later, for any accounts and passwords and  *)
(* any number of requests at once.                                         *)
(***************************************************************************)
EXTENDS Sessions, TLAPS

\* A request that has begun asks for something; the token it carries is there.
JobsKnown ==
    \A r \in Requests : phase[r] # "idle" =>
        /\ job[r] \in Jobs
        /\ job[r].op \in {"refresh", "logout"} => Issued(job[r].token)

\* A token comes into being with the commit of the request it is named by.
TokensByCommit ==
    \A t \in Tokens : Issued(t) => t = 0 \/ phase[t] = "committed"

\* What a request is going to revoke is there, and after its commit is revoked.
MarkedTokens ==
    \A r \in Requests : \A t \in marked[r] :
        /\ Issued(t)
        /\ phase[r] = "committed" => tokens[t].revoked

BeforeCommitted ==
    \A r \in Requests : \A q \in before[r] : phase[q] = "committed"

\* A refresh carries no token that a request before it has marked.
SpentHeld ==
    \A r \in Requests : phase[r] # "idle" /\ job[r].op = "refresh" =>
        \A q \in before[r] : job[r].token \notin marked[q]

\* The SELECT of a revocation finds every token alive that was issued before.
ListedAll ==
    \A q \in Requests :
        phase[q] \in {"locking", "checking", "ready", "committed"} /\ RevokesAll(q) =>
            \A t \in Tokens :
                (/\ Issued(t)
                 /\ tokens[t].user_id = job[q].user
                 /\ t = 0 \/ t \in before[q])
                  => tokens[t].revoked \/ t \in marked[q]

InactiveForGood ==
    \A q \in Requests : phase[q] = "committed" /\ job[q].op = "deactivate" =>
        ~ users[job[q].user].is_active

\* A request that has looked at its account, as a login does when it begins, was
\* let in after the deactivations before it, and none of them was of its account.
IssuesToActive ==
    \A r \in Requests :
        (/\ phase[r] # "idle"
         /\ IssuesToken(r)
         /\ job[r].op = "refresh" => phase[r] \in {"ready", "committed"})
           => \A q \in before[r] : ~ (job[q].op = "deactivate" /\ job[q].user = UserOf(r))

\* The inductive invariant.  The three promises speak of requests that have
\* committed; what they rest on is what is known of a request while it is
\* under way: what its SELECT has seen, and what had committed before it.
SessionInv ==
    /\ SessionTypeOK
    /\ JobsKnown
    /\ TokensByCommit
    /\ MarkedTokens
    /\ BeforeCommitted
    /\ SpentHeld
    /\ ListedAll
    /\ InactiveForGood
    /\ IssuesToActive

-----------------------------------------------------------------------------
(* What the invariant comes to *)

LEMMA JobFields ==
    ASSUME NEW asked \in Jobs
    PROVE  /\ asked.op \in {"login", "refresh", "logout", "deactivate", "change_password"}
           /\ asked.op \in {"refresh", "logout"} => asked.token \in Tokens
           /\ asked.op \in {"login", "deactivate", "change_password"} => asked.user \in Users
           /\ asked.op = "change_password" => asked.new \in Passwords
  BY DEF Jobs, Login, Refresh, Logout, Deactivate, ChangePassword

LEMMA SpentFollows == SessionInv => SpentTokensStaySpent
  BY DEF SessionInv, SpentHeld, SpentTokensStaySpent

LEMMA RevocationFollows == SessionInv => RevokeAllIsComplete
<1> SUFFICES ASSUME SessionInv, NEW q \in Requests, phase[q] = "committed", RevokesAll(q),
                    NEW t \in Tokens, Issued(t), tokens[t].user_id = UserOf(q),
                    ~ tokens[t].revoked
             PROVE  t \in Requests \ before[q]
  BY DEF RevokeAllIsComplete
<1>1. UserOf(q) = job[q].user
  BY DEF UserOf, RevokesAll
<1>2. t \notin marked[q]
  BY DEF SessionInv, MarkedTokens
<1>3. t # 0 /\ t \notin before[q]
  BY <1>1, <1>2 DEF SessionInv, ListedAll
<1> QED
  BY <1>3, SessionAssumption DEF Tokens, Requests

LEMMA DeactivationFollows == SessionInv => DeactivatedStaysOut
<1> SUFFICES ASSUME SessionInv, NEW r \in Requests, phase[r] = "committed", IssuesToken(r),
                    NEW q \in before[r], job[q].op = "deactivate", UserOf(q) = UserOf(r)
             PROVE  FALSE
  BY DEF DeactivatedStaysOut
<1>1. job[q].user = UserOf(r)
  BY DEF UserOf
<1> QED
  BY <1>1 DEF SessionInv, IssuesToActive

-----------------------------------------------------------------------------
(* The steps *)

LEMMA SessionInitInv == SessionInit => SessionInv
<1> SUFFICES ASSUME SessionInit PROVE SessionInv
  OBVIOUS
<1> USE DEF SessionInit
<1>1. SessionTypeOK
  BY SessionAssumption DEF SessionTypeOK, UserRow, TokenRow, Phases, Tokens
<1>2. JobsKnown /\ TokensByCommit /\ MarkedTokens /\ BeforeCommitted
  BY DEF JobsKnown, TokensByCommit, MarkedTokens, BeforeCommitted, Issued
<1>3. SpentHeld /\ ListedAll /\ InactiveForGood /\ IssuesToActive
  BY DEF SpentHeld, ListedAll, InactiveForGood, IssuesToActive
<1> QED
  BY <1>1, <1>2, <1>3 DEF SessionInv

\* A request that goes on, or fails, and writes no table.
LEMMA MoveKeeps ==
    ASSUME SessionInv, NEW r \in Requests, InProgress(r),
           NEW p \in {"locking", "checking", "ready", "failed"},
           phase' = [phase EXCEPT ![r] = p],
           UNCHANGED <<users, tokens, job, marked, before>>,
           phase[r] = "listing" => p = "failed",
           p = "ready" /\ job[r].op = "refresh" =>
               \A q \in before[r] : ~ (job[q].op = "deactivate" /\ job[q].user = UserOf(r)),
           SessionTypeOK'
    PROVE  SessionInv'
<1> USE DEF SessionInv, InProgress, SessionTypeOK
<1>1. JobsKnown' /\ TokensByCommit' /\ BeforeCommitted'
  BY DEF JobsKnown, TokensByCommit, BeforeCommitted, Issued
<1>2. MarkedTokens' /\ SpentHeld'
  BY DEF MarkedTokens, SpentHeld, Issued
<1>3. ListedAll'
  BY DEF ListedAll, Issued, RevokesAll
<1>4. InactiveForGood'
  BY DEF InactiveForGood
<1>5. IssuesToActive'
  BY DEF IssuesToActive, IssuesToken, UserOf
<1> QED
  BY <1>1, <1>2, <1>3, <1>4, <1>5

\* What all the beginnings have in common.
LEMMA StartKeeps ==
    ASSUME SessionInv, NEW r \in Requests, NEW asked \in Jobs,
           NEW next \in {"listing", "locking", "ready"}, NEW revoking \in SUBSET Tokens,
           NEW userChanges \in BOOLEAN, Start(r, asked, next, revoking, userChanges),
           asked.op \in {"deactivate", "change_password"} => next = "listing",
           asked.op = "refresh" => next = "locking" /\ ~ tokens[asked.token].revoked,
           asked.op \in {"refresh", "logout"} => Issued(asked.token),
           asked.op = "login" => users[asked.user].is_active,
           \A t \in revoking : Issued(t)
    PROVE  SessionInv'
<1> USE DEF SessionInv, SessionTypeOK
<1>1. /\ phase[r] = "idle"
      /\ job' = [job EXCEPT ![r] = asked]
      /\ phase' = [phase EXCEPT ![r] = next]
      /\ marked' = [marked EXCEPT ![r] = revoking]
      /\ wants' = [wants EXCEPT ![r] = revoking]
      /\ wantsUser' = [wantsUser EXCEPT ![r] = userChanges]
      /\ before' = [before EXCEPT ![r] = {q \in Requests : phase[q] = "committed"}]
      /\ UNCHANGED <<users, tokens, lock, userLock>>
  BY DEF Start, CanStart
<1>2. \A q \in before'[r] : q \in Requests /\ q # r /\ phase[q] = "committed"
  BY <1>1
<1>3. \A q \in Requests \ {r} : r \notin before[q]
  BY <1>1 DEF BeforeCommitted
<1> HIDE DEF SessionInv
<1>4. SessionTypeOK'
  BY <1>1 DEF SessionInv, Phases, InProgress
<1>5. JobsKnown' /\ TokensByCommit'
  BY <1>1 DEF JobsKnown, TokensByCommit, Issued, SessionInv
<1>6. MarkedTokens' /\ BeforeCommitted'
  BY <1>1, <1>2 DEF MarkedTokens, BeforeCommitted, Issued, SessionInv
<1>7. SpentHeld'
  BY <1>1, <1>2, <1>3 DEF SpentHeld, MarkedTokens, SessionInv
<1>8. ListedAll'
  BY <1>1 DEF ListedAll, Issued, RevokesAll, SessionInv
<1>9. InactiveForGood'
  BY <1>1 DEF InactiveForGood, SessionInv
<1>10. IssuesToActive'
  BY <1>1, <1>2, <1>3 DEF IssuesToActive, InactiveForGood, IssuesToken, UserOf, SessionInv
<1> QED
  BY <1>4, <1>5, <1>6, <1>7, <1>8, <1>9, <1>10 DEF SessionInv

LEMMA BeginKeeps ==
    ASSUME SessionInv, NEW r \in Requests, Begin(r)
    PROVE  SessionInv'
<1> DEFINE nothing == {}
<1>1. nothing \in SUBSET Tokens /\ \A t \in nothing : Issued(t)
  OBVIOUS
<1> HIDE DEF nothing
<1>2. CASE \E asked \in Login : StartLogin(r, asked)
  <2> PICK asked \in Login : StartLogin(r, asked)
    BY <1>2
  <2>1. asked.op = "login" /\ asked \in Jobs
    BY DEF Login, Jobs
  <2>2. users[asked.user].is_active /\ Start(r, asked, "ready", nothing, FALSE)
    BY DEF StartLogin, nothing
  <2> QED
    BY <1>1, <2>1, <2>2, StartKeeps
<1>3. CASE \E asked \in Refresh : StartRefresh(r, asked)
  <2> PICK asked \in Refresh : StartRefresh(r, asked)
    BY <1>3
  <2> DEFINE spent == {asked.token}
  <2>1. asked.op = "refresh" /\ asked.token \in Tokens /\ asked \in Jobs
    BY DEF Refresh, Jobs
  <2>2. spent \in SUBSET Tokens /\ \A t \in spent : Issued(t)
    BY <2>1 DEF StartRefresh
  <2>3. /\ Start(r, asked, "locking", spent, FALSE)
        /\ ~ tokens[asked.token].revoked
        /\ Issued(asked.token)
    BY DEF StartRefresh
  <2> HIDE DEF spent
  <2> QED
    BY <2>1, <2>2, <2>3, StartKeeps
<1>4. CASE \E asked \in Logout : StartLogout(r, asked)
  <2> PICK asked \in Logout : StartLogout(r, asked)
    BY <1>4
  <2> DEFINE revoking == IF tokens[asked.token].revoked THEN {} ELSE {asked.token}
             next == IF tokens[asked.token].revoked THEN "ready" ELSE "locking"
  <2>1. asked.op = "logout" /\ asked.token \in Tokens /\ asked \in Jobs
    BY DEF Logout, Jobs
  <2>2. /\ revoking \in SUBSET Tokens
        /\ \A t \in revoking : Issued(t)
        /\ next \in {"listing", "locking", "ready"}
    BY <2>1 DEF StartLogout
  <2>3. Start(r, asked, next, revoking, FALSE) /\ Issued(asked.token)
    BY DEF StartLogout
  <2> HIDE DEF revoking, next
  <2> QED
    BY <2>1, <2>2, <2>3, StartKeeps
<1>5. CASE \E asked \in Deactivate : StartDeactivate(r, asked)
  <2> PICK asked \in Deactivate : StartDeactivate(r, asked)
    BY <1>5
  <2>1. asked.op = "deactivate" /\ asked.user \in Users /\ asked \in Jobs
    BY DEF Deactivate, Jobs
  <2>2. users[asked.user].is_active \in BOOLEAN
    BY <2>1 DEF SessionInv, SessionTypeOK, UserRow
  <2>3. Start(r, asked, "listing", nothing, users[asked.user].is_active)
    BY DEF StartDeactivate, nothing
  <2> QED
    BY <1>1, <2>1, <2>2, <2>3, StartKeeps
<1>6. CASE \E asked \in ChangePassword : StartChangePassword(r, asked)
  <2> PICK asked \in ChangePassword : StartChangePassword(r, asked)
    BY <1>6
  <2>1. asked.op = "change_password" /\ asked \in Jobs
    BY DEF ChangePassword, Jobs
  <2>2. Start(r, asked, "listing", nothing, TRUE)
    BY DEF StartChangePassword, nothing
  <2> QED
    BY <1>1, <2>1, <2>2, StartKeeps
<1> QED
  BY <1>2, <1>3, <1>4, <1>5, <1>6 DEF Begin

LEMMA ListTokensKeeps ==
    ASSUME SessionInv, NEW r \in Requests, ListTokens(r)
    PROVE  SessionInv'
<1> DEFINE found == {t \in Tokens : Issued(t) /\ tokens[t].user_id = job[r].user
                                              /\ ~ tokens[t].revoked}
<1>1. /\ phase[r] = "listing"
      /\ marked' = [marked EXCEPT ![r] = found]
      /\ wants' = [wants EXCEPT ![r] = found]
      /\ phase' = [phase EXCEPT ![r] = "locking"]
      /\ UNCHANGED <<users, tokens, job, wantsUser, lock, userLock, before>>
  BY DEF ListTokens
<1>2. /\ found \subseteq Tokens
      /\ \A t \in found : Issued(t)
      /\ \A t \in Tokens : Issued(t) /\ tokens[t].user_id = job[r].user =>
             tokens[t].revoked \/ t \in found
  OBVIOUS
<1> HIDE DEF found
<1> USE DEF SessionInv, SessionTypeOK
<1>3. SessionTypeOK'
  BY <1>1, <1>2 DEF Phases, InProgress
<1>4. JobsKnown' /\ TokensByCommit' /\ BeforeCommitted'
  BY <1>1 DEF JobsKnown, TokensByCommit, BeforeCommitted, Issued
<1>5. MarkedTokens'
  BY <1>1, <1>2 DEF MarkedTokens, Issued
<1>6. \A q \in Requests : r \notin before[q]
  BY <1>1 DEF BeforeCommitted
<1>7. SpentHeld'
  BY <1>1, <1>6 DEF SpentHeld
<1>8. ListedAll'
  BY <1>1, <1>2 DEF ListedAll, Issued, RevokesAll
<1>9. InactiveForGood'
  BY <1>1 DEF InactiveForGood
<1>10. IssuesToActive'
  BY <1>1 DEF IssuesToActive, IssuesToken, UserOf
<1> QED
  BY <1>3, <1>4, <1>5, <1>7, <1>8, <1>9, <1>10

\* The account of a request is one of the accounts.
LEMMA UserOfType ==
    ASSUME SessionInv, NEW r \in Requests, phase[r] # "idle"
    PROVE  UserOf(r) \in Users
<1>1. job[r] \in Jobs /\ (job[r].op \in {"refresh", "logout"} => Issued(job[r].token))
  BY DEF SessionInv, JobsKnown
<1>2. CASE job[r].op \in {"refresh", "logout"}
  <2>1. tokens[job[r].token] \in TokenRow
    BY <1>1, <1>2, JobFields DEF SessionInv, SessionTypeOK, Issued
  <2> QED
    BY <1>2, <2>1 DEF UserOf, TokenRow
<1>3. CASE job[r].op \notin {"refresh", "logout"}
  BY <1>1, <1>3, JobFields DEF UserOf
<1> QED
  BY <1>2, <1>3

LEMMA LockUserKeeps ==
    ASSUME SessionInv, NEW r \in Requests, LockUser(r)
    PROVE  SessionInv'
<1>1. UserOf(r) \in Users
  BY UserOfType DEF LockUser
<1>2. SessionTypeOK'
  BY <1>1 DEF LockUser, SessionInv, SessionTypeOK, InProgress
<1>3. phase' = [phase EXCEPT ![r] = "locking"]
  BY DEF LockUser, SessionInv, SessionTypeOK
<1> QED
  BY <1>2, <1>3, MoveKeeps DEF LockUser, InProgress

LEMMA LockTokenKeeps ==
    ASSUME SessionInv, NEW r \in Requests, NEW t \in Tokens, LockToken(r, t)
    PROVE  SessionInv'
<1>1. SessionTypeOK'
  BY DEF LockToken, SessionInv, SessionTypeOK, InProgress
<1>2. phase' = [phase EXCEPT ![r] = "locking"]
  BY DEF LockToken, SessionInv, SessionTypeOK
<1> QED
  BY <1>1, <1>2, MoveKeeps DEF LockToken, InProgress

LEMMA FlushedKeeps ==
    ASSUME SessionInv, NEW r \in Requests, Flushed(r)
    PROVE  SessionInv'
<1>1. SessionTypeOK'
  BY DEF Flushed, SessionInv, SessionTypeOK, InProgress, Phases
<1> QED
  BY <1>1, MoveKeeps DEF Flushed, InProgress

LEMMA CheckUserKeeps ==
    ASSUME SessionInv, NEW r \in Requests, CheckUser(r)
    PROVE  SessionInv'
<1>1. SessionTypeOK'
  BY DEF CheckUser, SessionInv, SessionTypeOK, InProgress, Phases
<1>2. \A q \in before[r] : ~ (job[q].op = "deactivate" /\ job[q].user = UserOf(r))
  BY DEF CheckUser, SessionInv, SessionTypeOK, BeforeCommitted, InactiveForGood
<1> QED
  BY <1>1, <1>2, MoveKeeps DEF CheckUser, InProgress

LEMMA FailKeeps ==
    ASSUME SessionInv, NEW r \in Requests, Fail(r)
    PROVE  SessionInv'
<1>1. SessionTypeOK'
  BY DEF Fail, Release, SessionInv, SessionTypeOK, InProgress, Phases
<1> QED
  BY <1>1, MoveKeeps DEF Fail

LEMMA CommitKeeps ==
    ASSUME SessionInv, NEW r \in Requests, Commit(r)
    PROVE  SessionInv'
<1> DEFINE issued == [user_id |-> UserOf(r), revoked |-> FALSE, expired |-> FALSE]
<1>1. /\ phase[r] = "ready"
      /\ phase' = [phase EXCEPT ![r] = "committed"]
      /\ UNCHANGED <<job, marked, wants, wantsUser, before>>
  BY DEF Commit
<1>2. /\ job[r] \in Jobs
      /\ UserOf(r) \in Users
      /\ \A t \in Tokens : Issued(t) => tokens[t] \in TokenRow
      /\ \A t \in marked[r] : t \in Tokens /\ Issued(t)
  BY <1>1, UserOfType DEF SessionInv, SessionTypeOK, JobsKnown, MarkedTokens, Issued
<1>3. ~ Issued(r) /\ \A q \in Requests : r \notin before[q] /\ r \notin marked[q]
  BY <1>1, SessionAssumption
     DEF SessionInv, TokensByCommit, BeforeCommitted, MarkedTokens, Requests, Tokens
<1>4. issued \in TokenRow /\ issued # NoToken /\ ~ issued.revoked
  <2>1. issued \in TokenRow
    BY <1>2 DEF TokenRow
  <2> QED
    BY <2>1, SessionAssumption
<1>5. \A t \in Tokens : tokens'[t] = IF t = r /\ IssuesToken(r) THEN issued
                                     ELSE IF t \in marked[r]
                                          THEN [tokens[t] EXCEPT !.revoked = TRUE]
                                          ELSE tokens[t]
  BY DEF Commit
<1>6. \A t \in Tokens : Issued(t) =>
          /\ tokens'[t] \in TokenRow
          /\ tokens'[t] # NoToken
          /\ tokens'[t].user_id = tokens[t].user_id
          /\ tokens[t].revoked => tokens'[t].revoked
          /\ t \in marked[r] => tokens'[t].revoked
  <2> SUFFICES ASSUME NEW t \in Tokens, Issued(t)
               PROVE  /\ tokens'[t] \in TokenRow
                      /\ tokens'[t].user_id = tokens[t].user_id
                      /\ tokens[t].revoked => tokens'[t].revoked
                      /\ t \in marked[r] => tokens'[t].revoked
    BY SessionAssumption
  <2>1. t # r /\ tokens[t] \in TokenRow
    BY <1>2, <1>3
  <2>2. tokens'[t] = IF t \in marked[r] THEN [tokens[t] EXCEPT !.revoked = TRUE]
                                         ELSE tokens[t]
    BY <1>5, <2>1
  <2> QED
    BY <2>1, <2>2 DEF TokenRow
<1>7. \A t \in Tokens : ~ Issued(t) =>
          tokens'[t] = NoToken \/ (t = r /\ tokens'[t] = issued)
  BY <1>2, <1>5 DEF Issued
<1>8. tokens' \in [Tokens -> TokenRow \cup {NoToken}]
  <2>1. tokens' = [t \in Tokens |-> tokens'[t]]
    BY DEF Commit
  <2>2. \A t \in Tokens : tokens'[t] \in TokenRow \cup {NoToken}
    BY <1>4, <1>6, <1>7
  <2> HIDE DEF issued
  <2> QED
    BY <2>1, <2>2
<1>9. /\ users' \in [Users -> UserRow]
      /\ \A u \in Users : ~ users[u].is_active => ~ users'[u].is_active
      /\ job[r].op = "deactivate" => ~ users'[job[r].user].is_active
  BY <1>2, JobFields DEF Commit, SessionInv, SessionTypeOK, UserRow
<1> HIDE DEF issued
<1>10. SessionTypeOK'
  <2>1. /\ lock' = [t \in Tokens |-> IF lock[t] = r THEN Nobody ELSE lock[t]]
        /\ userLock' = [u \in Users |-> IF userLock[u] = r THEN Nobody ELSE userLock[u]]
    BY DEF Commit, Release
  <2> QED
    BY <1>1, <1>8, <1>9, <2>1 DEF SessionInv, SessionTypeOK, InProgress, Phases
<1>11. JobsKnown'
  BY <1>1, <1>6, JobFields DEF JobsKnown, Issued, SessionInv, SessionTypeOK
<1>12. TokensByCommit'
  BY <1>1, <1>7 DEF TokensByCommit, Issued, SessionInv, SessionTypeOK
<1>13. MarkedTokens'
  BY <1>1, <1>6 DEF MarkedTokens, Issued, SessionInv, SessionTypeOK
<1>14. BeforeCommitted' /\ SpentHeld'
  BY <1>1 DEF BeforeCommitted, SpentHeld, SessionInv, SessionTypeOK
<1>15. ListedAll'
  BY <1>1, <1>3, <1>6, <1>7, SessionAssumption
     DEF ListedAll, Issued, RevokesAll, SessionInv, SessionTypeOK, Requests
<1>16. InactiveForGood'
  BY <1>1, <1>9, JobFields DEF InactiveForGood, JobsKnown, SessionInv, SessionTypeOK
<1>17. IssuesToActive'
  <2>1. \A q \in Requests : phase[q] # "idle" => UserOf(q)' = UserOf(q)
    BY <1>1, <1>6, JobFields DEF UserOf, JobsKnown, SessionInv
  <2> QED
    BY <1>1, <2>1 DEF IssuesToActive, IssuesToken, SessionInv, SessionTypeOK
<1> QED
  BY <1>10, <1>11, <1>12, <1>13, <1>14, <1>15, <1>16, <1>17 DEF SessionInv

LEMMA ExpireKeeps ==
    ASSUME SessionInv, NEW e \in Tokens, Expire(e)
    PROVE  SessionInv'
<1>1. UNCHANGED <<users, job, phase, marked, wants, wantsUser, lock, userLock, before>>
  BY DEF Expire, progress
<1>2. /\ tokens' \in [Tokens -> TokenRow \cup {NoToken}]
      /\ \A t \in Tokens : /\ Issued(t)' <=> Issued(t)
                           /\ Issued(t) => /\ tokens'[t].user_id = tokens[t].user_id
                                            /\ tokens'[t].revoked = tokens[t].revoked
  <2>1. tokens[e] \in TokenRow
    BY DEF Expire, SessionInv, SessionTypeOK, Issued
  <2>2. [tokens[e] EXCEPT !.expired = TRUE] \in TokenRow
    BY <2>1 DEF TokenRow
  <2>3. /\ tokens' = [tokens EXCEPT ![e] = [tokens[e] EXCEPT !.expired = TRUE]]
        /\ [tokens[e] EXCEPT !.expired = TRUE].user_id = tokens[e].user_id
        /\ [tokens[e] EXCEPT !.expired = TRUE].revoked = tokens[e].revoked
    BY <2>1 DEF Expire, TokenRow
  <2> QED
    BY <2>1, <2>2, <2>3, SessionAssumption DEF SessionInv, SessionTypeOK, Issued
<1>3. SessionTypeOK'
  BY <1>1, <1>2 DEF SessionInv, SessionTypeOK, InProgress
<1>4. JobsKnown' /\ TokensByCommit' /\ BeforeCommitted' /\ SpentHeld' /\ InactiveForGood'
  <2>1. JobsKnown'
    BY <1>1, <1>2, JobFields DEF JobsKnown, SessionInv
  <2>2. TokensByCommit' /\ BeforeCommitted' /\ SpentHeld' /\ InactiveForGood'
    BY <1>1, <1>2
       DEF TokensByCommit, BeforeCommitted, SpentHeld, InactiveForGood, SessionInv
  <2> QED
    BY <2>1, <2>2
<1>5. MarkedTokens'
  BY <1>1, <1>2 DEF MarkedTokens, SessionInv, SessionTypeOK
<1>6. ListedAll'
  BY <1>1, <1>2 DEF ListedAll, RevokesAll, SessionInv
<1>7. IssuesToActive'
  <2>1. \A q \in Requests : phase[q] # "idle" => UserOf(q)' = UserOf(q)
    BY <1>1, <1>2, JobFields DEF UserOf, JobsKnown, SessionInv
  <2> QED
    BY <1>1, <2>1 DEF IssuesToActive, IssuesToken, SessionInv
<1> QED
  BY <1>3, <1>4, <1>5, <1>6, <1>7 DEF SessionInv

LEMMA SessionStep == SessionInv /\ [SessionNext]_sessionVars => SessionInv'
<1> SUFFICES ASSUME SessionInv, [SessionNext]_sessionVars PROVE SessionInv'
  OBVIOUS
<1>1. CASE UNCHANGED sessionVars
  BY <1>1 DEF SessionInv, SessionTypeOK, JobsKnown, TokensByCommit, MarkedTokens,
     BeforeCommitted, SpentHeld, ListedAll, InactiveForGood, IssuesToActive, Issued,
     InProgress, RevokesAll, IssuesToken, UserOf, sessionVars
<1>2. ASSUME NEW r \in Requests, Begin(r) PROVE SessionInv'
  BY <1>2, BeginKeeps
<1>3. ASSUME NEW r \in Requests, Proceed(r) PROVE SessionInv'
  BY <1>3, ListTokensKeeps, LockUserKeeps, LockTokenKeeps, FlushedKeeps, CheckUserKeeps,
     CommitKeeps DEF Proceed
<1>4. ASSUME NEW r \in Requests, Fail(r) PROVE SessionInv'
  BY <1>4, FailKeeps
<1>5. ASSUME NEW t \in Tokens, Expire(t) PROVE SessionInv'
  BY <1>5, ExpireKeeps
<1> QED
  BY <1>1, <1>2, <1>3, <1>4, <1>5 DEF SessionNext

LEMMA SessionInvariant == SessionSpec => []SessionInv
BY SessionInitInv, SessionStep, PTL DEF SessionSpec

-----------------------------------------------------------------------------
(* What is promised *)

\* The tables, the requests and their locks stay of their types, and no request
\* that has ended, by commit or by rollback, still holds the lock of a row.
THEOREM SessionTypes == SessionSpec => []SessionTypeOK
<1>1. SessionInv => SessionTypeOK
  BY DEF SessionInv
<1> QED
  BY <1>1, SessionInvariant, PTL

\* refresh_access_token, logout_user and revoke_all_user_tokens: once they have
\* committed, no request that begins later gets new tokens with a refresh token
\* they revoked, whatever else runs meanwhile.
THEOREM SpentForGood == SessionSpec => []SpentTokensStaySpent
BY SpentFollows, SessionInvariant, PTL

\* deactivate_user and change_password leave no token of the account alive that
\* had been issued when they began, though their SELECT and their UPDATEs are
\* apart and other requests issue and revoke tokens in between.
THEOREM RevocationsAreComplete == SessionSpec => []RevokeAllIsComplete
BY RevocationFollows, SessionInvariant, PTL

\* login_user and refresh_access_token issue nothing for an account that was
\* deactivated before they began, though both look at it only once.
THEOREM DeactivatedAccountsStayOut == SessionSpec => []DeactivatedStaysOut
BY DeactivationFollows, SessionInvariant, PTL
=============================================================================
