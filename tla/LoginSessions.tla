----------------------------- MODULE LoginSessions -----------------------------
(***************************************************************************)
(* One user's account in the two stores that hold it: the rows of the user *)
(* and of the mailed links in the database, the login sessions and the     *)
(* counters in Redis.  Requests overlap; what a request does in Redis      *)
(* shows at once and stays, what it writes in the database shows when it   *)
(* commits and is lost when it fails.                                      *)
(*   application/auth/service.py, infrastructure/repositories/             *)
(*   session_repo.py, auth_repo.py, user_repo.py, api/v1/auth.py, deps.py  *)
(*                                                                         *)
(* Left out: the limits per address and the password policy, which turn a  *)
(* request away before it changes anything else; the security audit log;   *)
(* the lock on a user, which nothing sets; and the development setting     *)
(* under which a new user is verified at once.                             *)
(* A request that is refused changes nothing, so it is no step, unless it  *)
(* counts as a failed login.                                               *)
(***************************************************************************)
EXTENDS Naturals, FiniteSets

CONSTANTS
    Request,       \* requests under way at one time
    Token,         \* session tokens
    Link,          \* ids of the rows of pending_password_resets
    Password,
    LOGIN_FAILURE_THRESHOLD,
    MaxParams,     \* bound: how often a release changes the hash parameters
    NULL

ASSUME LoginAssumption ==
    /\ IsFiniteSet(Request)
    /\ LOGIN_FAILURE_THRESHOLD \in Nat \ {0}
    /\ MaxParams \in Nat

\* NULL is no request and no row of users.
ASSUME NullAssumption ==
    NULL \notin Request \cup [password: Password, params: 0..MaxParams, verified: BOOLEAN]

VARIABLES
    user,          \* users: the row, or NULL
    verification,  \* pending_email_verifications: NULL, "valid" or "expired"
    resets,        \* pending_password_resets: by id, "valid" or "expired"
    live,          \* Redis: tokens with a key sessions:{token}
    user_sessions, \* Redis: the tokens listed under the user
    forced_reauth, \* Redis: the flag
    login_failures,\* Redis: the counter, 0 if there is none
    params,        \* the hash parameters of the release that runs
    lock,          \* which request has written the user's row
    req            \* what each request holds

tables == <<user, verification, resets>>
redis  == <<live, user_sessions, forced_reauth, login_failures>>
vars   == <<tables, redis, params, lock, req>>

\* What a transaction will have changed: columns of the user, whether the link
\* of the verification is written or deleted, and the same for resets.
NothingWritten == [user |-> NULL, verification |-> "kept", sets |-> {}, drops |-> {}]

\* opened: the session a login has made.  members: the list a reset has read.
\* alone (history): no reset has revoked sessions since the request began.
Idle == [at |-> "idle", row |-> NULL, password |-> NULL, opened |-> {}, members |-> {},
         own |-> NothingWritten, alone |-> TRUE]

Init ==
    /\ user = NULL /\ verification = NULL /\ resets = [l \in {} |-> NULL]
    /\ live = {} /\ user_sessions = {} /\ forced_reauth = FALSE /\ login_failures = 0
    /\ params = 0 /\ lock = NULL
    /\ req = [r \in Request |-> Idle]

-----------------------------------------------------------------------------
(* Transactions *)

Begin(r, at, row) == req' = [req EXCEPT ![r] = [Idle EXCEPT !.at = at, !.row = row]]
Free(r) == lock \in {NULL, r}
Released(r) == IF lock = r THEN NULL ELSE lock

\* An exception, a store that does not answer, the end of the process: the
\* database rolls back, Redis keeps what it has.
Fail(r) ==
    /\ req[r].at # "idle"
    /\ req' = [req EXCEPT ![r] = Idle] /\ lock' = Released(r)
    /\ UNCHANGED <<tables, redis, params>>

\* A new row, or the columns an UPDATE sets.
\* Mutation: the columns an UPDATE does not name are lost.
WrittenAnew(row, old) == IF row = NULL THEN old ELSE row
Written(row, old) ==
    CASE row = NULL -> old
      [] row # NULL /\ old = NULL -> row
      [] OTHER -> [c \in DOMAIN old |-> IF c \in DOMAIN row THEN row[c] ELSE old[c]]

\* db.commit() in the route, and the response.
Commit(r) ==
    LET own == req[r].own IN
    /\ req[r].at = "commit"
    /\ user' = Written(own.user, user)
    /\ verification' = CASE own.verification = "kept" -> verification
                         [] own.verification = "deleted" -> NULL
                         [] own.verification = "valid" -> "valid"
    /\ resets' = [l \in own.sets \cup (DOMAIN resets \ own.drops) |->
                     IF l \in own.sets THEN "valid" ELSE resets[l]]
    /\ req' = [req EXCEPT ![r] = Idle] /\ lock' = Released(r)
    /\ UNCHANGED <<redis, params>>

-----------------------------------------------------------------------------
(* Registration and verification *)

\* No user with this email is found ...
Register(r) ==
    /\ req[r].at = "idle" /\ user = NULL
    /\ Begin(r, "register", NULL)
    /\ UNCHANGED <<tables, redis, params, lock>>

\* ... so it is inserted with its link; the mail may fail.  If another request
\* has inserted it meanwhile, the unique email fails this one (Fail).
CreateUser(r) ==
    /\ req[r].at = "register" /\ Free(r) /\ user = NULL
    /\ lock' = r
    /\ \E pw \in Password :
          req' = [req EXCEPT ![r].at = "commit", ![r].own.verification = "valid",
                    ![r].own.user = [password |-> pw, params |-> params, verified |-> FALSE]]
    /\ UNCHANGED <<tables, redis, params>>

\* set_email_verified and the end of the link, by a link that has not expired.
VerifyEmail(r) ==
    /\ req[r].at = "idle" /\ verification = "valid" /\ user # NULL /\ Free(r)
    /\ lock' = r
    /\ req' = [req EXCEPT ![r] = [Idle EXCEPT !.at = "commit", !.own.verification = "deleted",
                 !.own.user = [verified |-> TRUE]]]
    /\ UNCHANGED <<tables, redis, params>>

-----------------------------------------------------------------------------
(* Login and logout *)

\* The user is read, and the failure counter is below its threshold.
\* Mutation: the counter may be at its threshold.
LoginAtThreshold(r) ==
    /\ req[r].at = "idle" /\ user # NULL /\ login_failures <= LOGIN_FAILURE_THRESHOLD
    /\ Begin(r, "compare", user)
    /\ UNCHANGED <<tables, redis, params, lock>>

Login(r) ==
    /\ req[r].at = "idle" /\ user # NULL /\ login_failures < LOGIN_FAILURE_THRESHOLD
    /\ Begin(r, "compare", user)
    /\ UNCHANGED <<tables, redis, params, lock>>

\* The password is not that of the row read: one more failure.
WrongPassword(r) ==
    /\ req[r].at = "compare"
    /\ login_failures' = login_failures + 1
    /\ req' = [req EXCEPT ![r] = Idle]
    /\ UNCHANGED <<tables, live, user_sessions, forced_reauth, params, lock>>

\* It is, and the email is verified: the counter is reset.
RightPassword(r) ==
    /\ req[r].at = "compare" /\ req[r].row.verified
    /\ login_failures' = 0
    /\ req' = [req EXCEPT ![r].at = IF req[r].row.params = params THEN "create" ELSE "rehash"]
    /\ UNCHANGED <<tables, live, user_sessions, forced_reauth, params, lock>>

\* The hash was made with other parameters: the password is hashed again.
Rehash(r) ==
    /\ req[r].at = "rehash" /\ Free(r)
    /\ lock' = r
    /\ req' = [req EXCEPT ![r].at = "create",
                 ![r].own.user = [password |-> req[r].row.password, params |-> params]]
    /\ UNCHANGED <<tables, redis, params>>

\* Sessions whose cookie has not been sent yet.
Opening == UNION {req[q].opened : q \in Request}

\* A token nobody has; its key and its entry in the user's list.
create_session(r) ==
    /\ req[r].at = "create"
    /\ \E t \in Token \ (live \cup user_sessions \cup Opening
                          \cup UNION {req[q].members : q \in Request}) :
          /\ live' = live \cup {t}
          /\ user_sessions' = user_sessions \cup {t}
          /\ req' = [req EXCEPT ![r].at = "clear", ![r].opened = {t}]
    /\ UNCHANGED <<tables, forced_reauth, login_failures, params, lock>>

\* Mutation: the flag is left to run out.
ForcedReauthKept(r) ==
    /\ req[r].at = "clear"
    /\ req' = [req EXCEPT ![r].at = "commit"]
    /\ UNCHANGED <<tables, redis, params, lock>>

clear_forced_reauth(r) ==
    /\ req[r].at = "clear"
    /\ forced_reauth' = FALSE
    /\ req' = [req EXCEPT ![r].at = "commit"]
    /\ UNCHANGED <<tables, live, user_sessions, login_failures, params, lock>>

\* get_current_user_id: the session exists and no new login is demanded.
Admitted(t) == t \in live /\ ~forced_reauth

Logout(r) ==
    /\ req[r].at = "idle"
    /\ \E t \in Token :
          /\ Admitted(t) /\ t \notin Opening
          /\ live' = live \ {t}
          /\ user_sessions' = user_sessions \ {t}
    /\ UNCHANGED <<tables, forced_reauth, login_failures, params, lock, req>>

-----------------------------------------------------------------------------
(* Password reset *)

\* The links that are there are superseded by a new one, which is mailed before
\* the commit; a mail that fails fails the request.
RequestPasswordReset(r) ==
    /\ req[r].at = "idle" /\ user # NULL
    /\ \E l \in Link \ (DOMAIN resets \cup UNION {req[q].own.sets : q \in Request}) :
          req' = [req EXCEPT ![r] = [Idle EXCEPT !.at = "commit",
                     !.own.sets = {l}, !.own.drops = DOMAIN resets]]
    /\ UNCHANGED <<tables, redis, params, lock>>

\* A link that is there and has not expired, and a new password ...
ConfirmPasswordReset(r) ==
    /\ req[r].at = "idle" /\ user # NULL
    /\ \E l \in DOMAIN resets, pw \in Password :
          /\ resets[l] = "valid"
          /\ req' = [req EXCEPT ![r] = [Idle EXCEPT !.at = "update", !.password = pw,
                                                    !.own.drops = {l}]]
    /\ UNCHANGED <<tables, redis, params, lock>>

\* ... which is written, and the link deleted;
UpdatePassword(r) ==
    /\ req[r].at = "update" /\ Free(r)
    /\ lock' = r
    /\ req' = [req EXCEPT ![r].at = "members", ![r].password = NULL,
                 ![r].own.user = [password |-> req[r].password, params |-> params]]
    /\ UNCHANGED <<tables, redis, params>>

\* revoke_all_user_sessions reads the list of the user's tokens,
ReadTokens(r) ==
    /\ req[r].at = "members"
    /\ req' = [req EXCEPT ![r].at = "revoke", ![r].members = user_sessions]
    /\ UNCHANGED <<tables, redis, params, lock>>

\* and deletes their keys and the list, and sets the flag.
Revoke(r) ==
    /\ req[r].at = "revoke"
    /\ live' = live \ req[r].members
    /\ user_sessions' = {}
    /\ forced_reauth' = TRUE
    /\ req' = [q \in Request |->
                  IF q = r THEN [req[r] EXCEPT !.at = "commit", !.members = {}]
                  ELSE [req[q] EXCEPT !.alone = FALSE]]
    /\ UNCHANGED <<tables, login_failures, params, lock>>

-----------------------------------------------------------------------------
(* Time, and releases *)

\* The TTLs of the keys and the expires_at of the rows.
Expire ==
    /\ \/ /\ login_failures' = 0
          /\ UNCHANGED <<live, forced_reauth, verification, resets>>
       \/ /\ forced_reauth' = FALSE
          /\ UNCHANGED <<live, login_failures, verification, resets>>
       \/ /\ \E t \in live \ Opening : live' = live \ {t}
          /\ UNCHANGED <<forced_reauth, login_failures, verification, resets>>
       \/ /\ verification = "valid" /\ verification' = "expired"
          /\ UNCHANGED <<live, forced_reauth, login_failures, resets>>
       \/ /\ \E l \in DOMAIN resets : resets' = [resets EXCEPT ![l] = "expired"]
          /\ UNCHANGED <<live, forced_reauth, login_failures, verification>>
    /\ UNCHANGED <<user, user_sessions, params, lock, req>>

\* A release that hashes with other parameters.
Release ==
    /\ params < MaxParams /\ \A r \in Request : req[r].at = "idle"
    /\ params' = params + 1
    /\ UNCHANGED <<tables, redis, lock, req>>

-----------------------------------------------------------------------------
Registration(r) == Register(r) \/ CreateUser(r) \/ VerifyEmail(r)
LoggingIn(r) == Login(r) \/ WrongPassword(r) \/ RightPassword(r) \/ Rehash(r)
                \/ create_session(r) \/ clear_forced_reauth(r)
Resetting(r) == RequestPasswordReset(r) \/ ConfirmPasswordReset(r) \/ UpdatePassword(r)
                \/ ReadTokens(r) \/ Revoke(r)

Next ==
    \/ \E r \in Request : Registration(r) \/ LoggingIn(r) \/ Logout(r) \/ Resetting(r)
                          \/ Commit(r) \/ Fail(r)
    \/ Expire
    \/ Release

Spec == Init /\ [][Next]_vars

-----------------------------------------------------------------------------
(* Properties *)

\* The columns of users that the requests read and write.
UserRow == [password: Password, params: 0..MaxParams, verified: BOOLEAN]

\* The rows and keys are of their kind; the user's row is whole whichever request
\* wrote which of its columns, and only a request under way holds its lock.
TypeOK ==
    /\ user \in UserRow \cup {NULL}
    /\ verification \in {NULL, "valid", "expired"}
    /\ DOMAIN resets \subseteq Link
    /\ live \subseteq Token /\ user_sessions \subseteq Token
    /\ forced_reauth \in BOOLEAN /\ login_failures \in Nat
    /\ params \in 0..MaxParams
    /\ \A r \in Request : lock = r => req[r].at # "idle"

\* The counter is read before the password is compared and raised after, so
\* requests that overlap pass the threshold together, but no further than there
\* are requests under way.
FailuresBounded == login_failures < LOGIN_FAILURE_THRESHOLD + Cardinality(Request)

\* A login during which no reset revoked the user's sessions has, when it answers,
\* opened a session that admits its holder and that a later reset will find, though
\* an earlier reset demanded a new login.  Of a login that a revocation overtakes
\* nothing is claimed: its session may be revoked, or live and not listed.
LoginAdmits ==
    [][\A r \in Request :
         req[r].at = "commit" /\ req[r].alone /\ req'[r].at = "idle" =>
            \A t \in req[r].opened : Admitted(t) /\ t \in user_sessions]_vars

\* A password set by a reset is the user's until the next one.
ResetSticks ==
    [][\A r \in Request : user # NULL /\ user' # NULL /\ user'.password # user.password
            => \E q \in Request : req[q].at = "commit" /\ req[q].own.drops # {}]_vars
================================================================================
