------------------------------ MODULE LoginProofs ------------------------------
(***************************************************************************)
(* The failure counter stays in bounds however many requests there are: a  *)
(* request that has passed the threshold and not yet compared the password *)
(* is worth at most one more failure.  And a login that no revocation has  *)
(* overtaken answers with a session that works.                            *)
(***************************************************************************)
EXTENDS LoginSessions, FiniteSetTheorems, TLAPS

Comparing == {r \in Request : req[r].at = "compare"}

\* Each request is somewhere.
Shape == DOMAIN req = Request /\ \A r \in Request : "at" \in DOMAIN req[r]

\* The counter and what the requests under way may add to it.
Room == login_failures + Cardinality(Comparing)
            <= LOGIN_FAILURE_THRESHOLD - 1 + Cardinality(Request)

IInv == Shape /\ login_failures \in Nat /\ Room

LEMMA Counts ==
    ASSUME NEW S \in SUBSET Request
    PROVE  /\ IsFiniteSet(S) /\ Cardinality(S) \in Nat
           /\ Cardinality(S) <= Cardinality(Request)
           /\ Cardinality(Request) \in Nat
  BY FS_Subset, FS_CardinalityType, LoginAssumption

LEMMA InitRoom == Init => IInv
  <1> SUFFICES ASSUME Init PROVE IInv
      OBVIOUS
  <1>1. Shape
        BY DEF Init, Shape, Idle
  <1>2. Comparing = {}
        BY DEF Init, Comparing, Idle
  <1>3. Cardinality({}) = 0 /\ Cardinality(Request) \in Nat
        BY FS_EmptySet, Counts
  <1>4. Room
        BY <1>2, <1>3, LoginAssumption DEF Init, Room
  <1> QED BY <1>1, <1>4 DEF Init, IInv

\* A step that leaves or resets the counter and lets no request begin to compare.
Quieter == /\ Shape' /\ Comparing' \subseteq Comparing
           /\ login_failures' \in {0, login_failures}

LEMMA QuieterKeepsRoom ==
    ASSUME IInv, Quieter
    PROVE  IInv'
  <1>1. Comparing \in SUBSET Request
        BY DEF Comparing
  <1>2. IsFiniteSet(Comparing) /\ Cardinality(Comparing) \in Nat
        BY <1>1, Counts
  <1>3. Cardinality(Comparing') <= Cardinality(Comparing) /\ Cardinality(Comparing') \in Nat
        BY <1>2, FS_Subset, FS_CardinalityType DEF Quieter
  <1>4. Cardinality(Request) \in Nat /\ Cardinality(Comparing) <= Cardinality(Request)
        BY <1>1, Counts
  <1> QED BY <1>2, <1>3, <1>4, LoginAssumption DEF IInv, Room, Quieter

\* A request goes to a step other than the comparison, or stays where it is.
Moves(r) == /\ DOMAIN req' = DOMAIN req
            /\ \A q \in Request : DOMAIN req'[q] = DOMAIN req[q] \/ "at" \in DOMAIN req'[q]
            /\ \A q \in Request \ {r} : req'[q].at = req[q].at
            /\ req'[r].at # "compare" \/ req'[r].at = req[r].at

LEMMA MovesAreQuieter ==
    ASSUME IInv, NEW r \in Request, Moves(r), login_failures' \in {0, login_failures}
    PROVE  Quieter
  <1>1. Shape'
        BY DEF IInv, Shape, Moves
  <1>2. Comparing' \subseteq Comparing
        BY DEF Comparing, Moves
  <1> QED BY <1>1, <1>2 DEF Quieter

LEMMA RequestStep ==
    ASSUME Shape, NEW r \in Request,
           \/ Registration(r) \/ RightPassword(r) \/ Rehash(r) \/ create_session(r)
           \/ clear_forced_reauth(r) \/ Logout(r) \/ Resetting(r) \/ Commit(r) \/ Fail(r)
    PROVE  Moves(r)
  <1> USE DEF Shape, Moves, Begin, Idle
  <1>1. CASE Register(r)
        BY <1>1 DEF Register
  <1>2. CASE CreateUser(r)
        BY <1>2 DEF CreateUser
  <1>3. CASE VerifyEmail(r)
        BY <1>3 DEF VerifyEmail
  <1>4. CASE RightPassword(r)
        BY <1>4 DEF RightPassword
  <1>5. CASE Rehash(r)
        BY <1>5 DEF Rehash
  <1>6. CASE create_session(r)
        BY <1>6 DEF create_session
  <1>7. CASE clear_forced_reauth(r)
        BY <1>7 DEF clear_forced_reauth
  <1>8. CASE Logout(r)
        BY <1>8 DEF Logout
  <1>9. CASE RequestPasswordReset(r)
        BY <1>9 DEF RequestPasswordReset
  <1>10. CASE ConfirmPasswordReset(r)
        BY <1>10 DEF ConfirmPasswordReset
  <1>11. CASE UpdatePassword(r)
        BY <1>11 DEF UpdatePassword
  <1>12. CASE ReadTokens(r)
        BY <1>12 DEF ReadTokens
  <1>13. CASE Revoke(r)
        BY <1>13 DEF Revoke
  <1>14. CASE Commit(r)
        BY <1>14 DEF Commit
  <1>15. CASE Fail(r)
        BY <1>15 DEF Fail
  <1> QED BY <1>1, <1>2, <1>3, <1>4, <1>5, <1>6, <1>7, <1>8, <1>9, <1>10, <1>11, <1>12,
             <1>13, <1>14, <1>15 DEF Registration, Resetting

\* Only a login counts failures; one that succeeds resets the counter.
LEMMA CounterStep ==
    ASSUME NEW r \in Request,
           \/ Registration(r) \/ RightPassword(r) \/ Rehash(r) \/ create_session(r)
           \/ clear_forced_reauth(r) \/ Logout(r) \/ Resetting(r) \/ Commit(r) \/ Fail(r)
    PROVE  login_failures' \in {0, login_failures}
  BY DEF Registration, Register, CreateUser, VerifyEmail, RightPassword, Rehash,
         create_session, clear_forced_reauth, Logout, Resetting, RequestPasswordReset,
         ConfirmPasswordReset, UpdatePassword, ReadTokens, Revoke, Commit, Fail, redis

\* A login that begins found the counter below the threshold.
LEMMA LoginStep ==
    ASSUME IInv, NEW r \in Request, Login(r)
    PROVE  IInv'
  <1>1. Shape' /\ login_failures' = login_failures
        BY DEF IInv, Shape, Login, Begin, Idle, redis
  <1>2. Comparing' \in SUBSET Request
        BY DEF Comparing
  <1>3. /\ Cardinality(Comparing') <= Cardinality(Request)
        /\ Cardinality(Comparing') \in Nat /\ Cardinality(Request) \in Nat
        BY <1>2, Counts
  <1>4. login_failures < LOGIN_FAILURE_THRESHOLD
        BY DEF Login
  <1> QED BY <1>1, <1>3, <1>4, LoginAssumption DEF IInv, Room

\* A failure is counted by a request that stops comparing.
LEMMA WrongPasswordStep ==
    ASSUME IInv, NEW r \in Request, WrongPassword(r)
    PROVE  IInv'
  <1>1. Shape' /\ login_failures' = login_failures + 1
        BY DEF IInv, Shape, WrongPassword, Idle
  <1>2. r \in Comparing
        BY DEF Comparing, WrongPassword
  <1>3. Comparing' = Comparing \ {r}
        BY DEF IInv, Shape, Comparing, WrongPassword, Idle
  <1>4. Comparing \in SUBSET Request
        BY DEF Comparing
  <1>5. IsFiniteSet(Comparing) /\ Cardinality(Comparing) \in Nat /\ Cardinality(Request) \in Nat
        BY <1>4, Counts
  <1>6. Cardinality(Comparing') = Cardinality(Comparing) - 1
        BY <1>2, <1>3, <1>5, FS_RemoveElement
  <1> QED BY <1>1, <1>5, <1>6, LoginAssumption DEF IInv, Room

LEMMA NextRoom == IInv /\ [Next]_vars => IInv'
  <1> SUFFICES ASSUME IInv, [Next]_vars PROVE IInv'
      OBVIOUS
  <1>1. ASSUME NEW r \in Request,
               \/ Registration(r) \/ RightPassword(r) \/ Rehash(r) \/ create_session(r)
               \/ clear_forced_reauth(r) \/ Logout(r) \/ Resetting(r) \/ Commit(r) \/ Fail(r)
        PROVE  IInv'
    <2>1. Moves(r) /\ login_failures' \in {0, login_failures}
          BY <1>1, RequestStep, CounterStep DEF IInv
    <2> QED BY <2>1, MovesAreQuieter, QuieterKeepsRoom
  <1>2. CASE Expire \/ Release \/ UNCHANGED vars
    <2>1. UNCHANGED req /\ login_failures' \in {0, login_failures}
          BY <1>2 DEF Expire, Release, vars, redis
    <2>2. Quieter
          BY <2>1 DEF Quieter, IInv, Shape, Comparing
    <2> QED BY <2>2, QuieterKeepsRoom
  <1> QED BY <1>1, <1>2, LoginStep, WrongPasswordStep DEF Next, LoggingIn

\* Requests that overlap may pass the threshold together, but however many there
\* are, the failures of one window stay below the threshold plus their number.
THEOREM FailuresStayBounded == Spec => []FailuresBounded
  <1>1. IInv => FailuresBounded
    <2> SUFFICES ASSUME IInv PROVE FailuresBounded
        OBVIOUS
    <2>1. Comparing \in SUBSET Request
          BY DEF Comparing
    <2>2. Cardinality(Comparing) \in Nat /\ Cardinality(Request) \in Nat
          BY <2>1, Counts
    <2> QED BY <2>2, LoginAssumption DEF IInv, Room, FailuresBounded
  <1> QED BY <1>1, InitRoom, NextRoom, PTL DEF Spec

--------------------------------------------------------------------------------
(* A login that answers has opened a session that works. *)

Filled == /\ DOMAIN req = Request
          /\ \A r \in Request : {"at", "opened", "alone"} \subseteq DOMAIN req[r]

\* A session that is being opened has its key and is on the list, and from the
\* flag's removal on no new login is demanded, unless a reset came in between.
Opened(r) ==
    /\ req[r].at \notin {"clear", "commit"} => req[r].opened = {}
    /\ req[r].alone => req[r].opened \subseteq live \cap user_sessions
    /\ req[r].alone /\ req[r].at = "commit" /\ req[r].opened # {} => ~forced_reauth

OInv == Filled /\ \A r \in Request : Opened(r)

LEMMA InitOpened == Init => OInv
  BY DEF Init, OInv, Filled, Opened, Idle

LEMMA RequestOpened ==
    ASSUME OInv, NEW r \in Request,
           Registration(r) \/ LoggingIn(r) \/ Logout(r) \/ Resetting(r) \/ Commit(r) \/ Fail(r)
    PROVE  OInv'
  <1> USE DEF OInv, Filled, Opened, Begin, Idle, tables, redis
  <1>1. CASE Register(r)
        BY <1>1 DEF Register
  <1>2. CASE CreateUser(r)
        BY <1>2 DEF CreateUser
  <1>3. CASE VerifyEmail(r)
        BY <1>3 DEF VerifyEmail
  <1>4. CASE Login(r)
        BY <1>4 DEF Login
  <1>5. CASE WrongPassword(r)
        BY <1>5 DEF WrongPassword
  <1>6. CASE RightPassword(r)
        BY <1>6 DEF RightPassword
  <1>7. CASE Rehash(r)
        BY <1>7 DEF Rehash
  <1>8. CASE create_session(r)
        BY <1>8 DEF create_session
  <1>9. CASE clear_forced_reauth(r)
        BY <1>9 DEF clear_forced_reauth
  <1>10. CASE Logout(r)
    <2>1. PICK t \in Token : /\ t \notin Opening
                             /\ live' = live \ {t} /\ user_sessions' = user_sessions \ {t}
          BY <1>10 DEF Logout
    <2>2. \A q \in Request : t \notin req[q].opened
          BY <2>1 DEF Opening
    <2>3. UNCHANGED <<forced_reauth, req>>
          BY <1>10 DEF Logout
    <2>4. \A q \in Request : req[q].alone => req[q].opened \subseteq live' \cap user_sessions'
          BY <2>1, <2>2
    <2> QED BY <2>3, <2>4
  <1>11. CASE RequestPasswordReset(r)
        BY <1>11 DEF RequestPasswordReset
  <1>12. CASE ConfirmPasswordReset(r)
        BY <1>12 DEF ConfirmPasswordReset
  <1>13. CASE UpdatePassword(r)
        BY <1>13 DEF UpdatePassword
  <1>14. CASE ReadTokens(r)
        BY <1>14 DEF ReadTokens
  <1>15. CASE Revoke(r)
        BY <1>15 DEF Revoke
  <1>16. CASE Commit(r)
        BY <1>16 DEF Commit
  <1>17. CASE Fail(r)
        BY <1>17 DEF Fail
  <1> QED BY <1>1, <1>2, <1>3, <1>4, <1>5, <1>6, <1>7, <1>8, <1>9, <1>10, <1>11, <1>12,
             <1>13, <1>14, <1>15, <1>16, <1>17 DEF Registration, LoggingIn, Resetting

LEMMA ExpiryOpened ==
    ASSUME OInv, Expire
    PROVE  OInv'
  <1>1. UNCHANGED <<req, user_sessions>>
        BY DEF Expire
  <1>2. ~forced_reauth => ~forced_reauth'
        BY Zenon DEF Expire
  <1>3. \A q \in Request : req[q].opened \subseteq live => req[q].opened \subseteq live'
    <2>1. CASE live' = live
          BY <2>1
    <2>2. CASE \E t \in live \ Opening : live' = live \ {t}
          BY <2>2 DEF Opening
    <2>3. live' = live \/ \E t \in live \ Opening : live' = live \ {t}
          BY Zenon DEF Expire
    <2> QED BY <2>1, <2>2, <2>3
  <1>4. Filled'
        BY <1>1 DEF OInv, Filled
  <1>5. ASSUME NEW q \in Request PROVE Opened(q)'
    <2>1. Opened(q)
          BY DEF OInv
    <2> QED BY <1>1, <1>2, <1>3, <2>1 DEF Opened
  <1> QED BY <1>4, <1>5 DEF OInv

LEMMA NextOpened == OInv /\ [Next]_vars => OInv'
  <1> SUFFICES ASSUME OInv, [Next]_vars PROVE OInv'
      OBVIOUS
  <1>1. CASE Release \/ UNCHANGED vars
        BY <1>1 DEF Release, vars, redis, OInv, Filled, Opened
  <1> QED BY <1>1, RequestOpened, ExpiryOpened DEF Next

\* Unless a reset revoked sessions meanwhile, what a login answers with admits its
\* holder, and a later reset will find it.
THEOREM LoginsAdmit == Spec => LoginAdmits
  <1> DEFINE Answers == \A r \in Request :
         req[r].at = "commit" /\ req[r].alone /\ req'[r].at = "idle" =>
            \A t \in req[r].opened : Admitted(t) /\ t \in user_sessions
  <1>1. OInv => Answers
        BY DEF OInv, Opened, Admitted
  <1> QED BY <1>1, InitOpened, NextOpened, PTL DEF Spec, LoginAdmits

--------------------------------------------------------------------------------
(* The user's row is whole. *)

\* Some columns are written only over a row that is there, and it stays there.
Columns(row) ==
    \/ row = NULL \/ row \in UserRow
    \/ user # NULL /\ row = [verified |-> TRUE]
    \/ user # NULL /\ row \in [password: Password, params: 0..MaxParams]

Fields == {"at", "row", "password", "opened", "members", "own", "alone"}

Holds(r) ==
    /\ Fields \subseteq DOMAIN req[r] /\ DOMAIN req[r].own = DOMAIN NothingWritten
    /\ req[r].at \in {"compare", "rehash"} => user # NULL /\ req[r].row \in UserRow
    /\ req[r].at = "update" => user # NULL /\ req[r].password \in Password
    /\ Columns(req[r].own.user)
    /\ req[r].own.verification \in {"kept", "deleted", "valid"}
    /\ req[r].own.sets \subseteq Link
    /\ lock = r => req[r].at \in {"create", "clear", "members", "revoke", "commit"}

TInv == TypeOK /\ DOMAIN req = Request /\ \A r \in Request : Holds(r)

LEMMA InitTypes == Init => TInv
  <1> SUFFICES ASSUME Init PROVE TInv
      OBVIOUS
  <1>1. DOMAIN resets \subseteq Link /\ params \in 0..MaxParams
        BY LoginAssumption DEF Init
  <1>2. ASSUME NEW r \in Request PROVE Holds(r)
    <2>1. req[r] = Idle /\ lock = NULL
          BY DEF Init
    <2> QED BY <2>1, NullAssumption DEF Idle, NothingWritten, Holds, Columns, Fields
  <1> QED BY <1>1, <1>2 DEF Init, TInv, TypeOK, Holds

\* A request goes on, and nothing but Redis changes.
GoesOn(r) == /\ UNCHANGED <<tables, params>>
             /\ DOMAIN req' = Request
             /\ \A q \in Request \ {r} : /\ DOMAIN req'[q] = DOMAIN req[q]
                                         /\ \A c \in Fields \ {"alone"} : req'[q][c] = req[q][c]
             /\ \A q \in Request \ {r} : lock' = q => lock = q

LEMMA OthersHold ==
    ASSUME TInv, NEW r \in Request, NEW q \in Request \ {r},
           user # NULL => user' # NULL, DOMAIN req' = Request,
           DOMAIN req'[q] = DOMAIN req[q],
           \A c \in Fields \ {"alone"} : req'[q][c] = req[q][c], lock' = q => lock = q
    PROVE  Holds(q)'
  <1>1. Holds(q)
        BY DEF TInv
  <1>2. /\ req'[q].at = req[q].at /\ req'[q].row = req[q].row
        /\ req'[q].password = req[q].password /\ req'[q].own = req[q].own
        BY DEF Fields
  <1> QED BY <1>1, <1>2 DEF Holds, Columns

\* What a request holds after its step, one field after the other.
LEMMA HoldsNext ==
    ASSUME NEW r \in Request, NEW own,
           Fields \subseteq DOMAIN req'[r], req'[r].own = own,
           DOMAIN own = DOMAIN NothingWritten, Columns(own.user)',
           own.verification \in {"kept", "deleted", "valid"}, own.sets \subseteq Link,
           req'[r].at \in {"compare", "rehash"} => user' # NULL /\ req'[r].row \in UserRow,
           req'[r].at = "update" => user' # NULL /\ req'[r].password \in Password,
           lock' = r => req'[r].at \in {"create", "clear", "members", "revoke", "commit"}
    PROVE  Holds(r)'
  BY DEF Holds

LEMMA RegistrationTypes ==
    ASSUME TInv, NEW r \in Request, Registration(r)
    PROVE  GoesOn(r) /\ UNCHANGED redis /\ Holds(r)'
  <1>1. Holds(r) /\ params \in 0..MaxParams /\ DOMAIN req = Request
        BY DEF TInv, TypeOK
  <1>2. CASE Register(r)
        BY <1>1, <1>2 DEF Register, Holds, Columns, GoesOn, Begin, Idle, NothingWritten, Fields
  <1>3. CASE CreateUser(r)
        BY <1>1, <1>3 DEF CreateUser, UserRow, Holds, Columns, GoesOn, NothingWritten, Fields
  <1>4. CASE VerifyEmail(r)
    <2> DEFINE own == [user |-> [verified |-> TRUE], verification |-> "deleted",
                       sets |-> {}, drops |-> {}]
    <2>1. GoesOn(r) /\ lock' = r /\ user # NULL /\ UNCHANGED redis
          BY <1>1, <1>4 DEF VerifyEmail, GoesOn
    <2>2. Fields \subseteq DOMAIN req'[r] /\ req'[r].own = own /\ req'[r].at = "commit"
          BY <1>1, <1>4 DEF VerifyEmail, Idle, NothingWritten, Fields
    <2>3. Columns(own.user)'
          BY <2>1 DEF Columns, GoesOn, tables
    <2>4. DOMAIN own = DOMAIN NothingWritten
          BY DEF NothingWritten
    <2> QED BY <2>1, <2>2, <2>3, <2>4, HoldsNext
  <1> QED BY <1>2, <1>3, <1>4 DEF Registration

LEMMA LoginTypes ==
    ASSUME TInv, NEW r \in Request, LoggingIn(r)
    PROVE  GoesOn(r) /\ Holds(r)'
  <1>1. Holds(r) /\ params \in 0..MaxParams /\ DOMAIN req = Request /\ user \in UserRow \cup {NULL}
        BY DEF TInv, TypeOK
  <1>2. CASE Login(r)
        BY <1>1, <1>2 DEF Login, Holds, Columns, GoesOn, Begin, Idle, NothingWritten, Fields, tables
  <1>3. CASE WrongPassword(r)
        BY <1>1, <1>3 DEF WrongPassword, Holds, Columns, GoesOn, Idle, NothingWritten, Fields, tables
  <1>4. CASE RightPassword(r)
        BY <1>1, <1>4 DEF RightPassword, Holds, Columns, GoesOn, Fields, tables
  <1>5. CASE Rehash(r)
    <2> DEFINE new == [password |-> req[r].row.password, params |-> params]
    <2>1. new \in [password: Password, params: 0..MaxParams]
          BY <1>1, <1>5 DEF Rehash, Holds, UserRow
    <2> QED BY <1>1, <1>5, <2>1 DEF Rehash, Holds, Columns, GoesOn, NothingWritten, Fields, tables
  <1>6. CASE create_session(r)
        BY <1>1, <1>6 DEF create_session, Holds, Columns, GoesOn, Fields, tables
  <1>7. CASE clear_forced_reauth(r)
        BY <1>1, <1>7 DEF clear_forced_reauth, Holds, Columns, GoesOn, Fields, tables
  <1> QED BY <1>2, <1>3, <1>4, <1>5, <1>6, <1>7 DEF LoggingIn

LEMMA ResettingTypes ==
    ASSUME TInv, NEW r \in Request, Resetting(r)
    PROVE  GoesOn(r) /\ Holds(r)'
  <1>1. Holds(r) /\ params \in 0..MaxParams /\ DOMAIN req = Request
        BY DEF TInv, TypeOK
  <1>2. CASE RequestPasswordReset(r)
        BY <1>1, <1>2 DEF RequestPasswordReset, Holds, Columns, GoesOn, Idle, NothingWritten,
                          Fields, tables
  <1>3. CASE ConfirmPasswordReset(r)
        BY <1>1, <1>3 DEF ConfirmPasswordReset, Holds, Columns, GoesOn, Idle, NothingWritten,
                          Fields, tables
  <1>4. CASE UpdatePassword(r)
    <2> DEFINE new == [password |-> req[r].password, params |-> params]
    <2>1. new \in [password: Password, params: 0..MaxParams]
          BY <1>1, <1>4 DEF UpdatePassword, Holds
    <2> QED BY <1>1, <1>4, <2>1 DEF UpdatePassword, Holds, Columns, GoesOn, NothingWritten,
                                    Fields, tables
  <1>5. CASE ReadTokens(r)
        BY <1>1, <1>5 DEF ReadTokens, Holds, Columns, GoesOn, Fields, tables
  <1>6. CASE Revoke(r)
    <2>1. /\ req'[r] = [req[r] EXCEPT !.at = "commit", !.members = {}]
          /\ \A q \in Request \ {r} : req'[q] = [req[q] EXCEPT !.alone = FALSE]
          /\ DOMAIN req' = Request /\ UNCHANGED <<tables, params, lock>>
          BY <1>6 DEF Revoke
    <2>2. \A q \in Request \ {r} : /\ DOMAIN req'[q] = DOMAIN req[q]
                                   /\ \A c \in Fields \ {"alone"} : req'[q][c] = req[q][c]
          BY <2>1 DEF TInv, Holds, Fields
    <2>3. Holds(r)'
          BY <1>1, <2>1 DEF Holds, Columns, Fields, tables
    <2> QED BY <2>1, <2>2, <2>3 DEF GoesOn
  <1> QED BY <1>2, <1>3, <1>4, <1>5, <1>6 DEF Resetting

\* A commit completes a whole row, or changes columns of one that is there.
LEMMA CommitTypes ==
    ASSUME TInv, NEW r \in Request, Commit(r)
    PROVE  TInv'
  <1> DEFINE own == req[r].own
  <1>1. Holds(r) /\ TypeOK /\ DOMAIN req = Request
        BY DEF TInv
  <1>2. /\ user' = Written(own.user, user) /\ DOMAIN resets' \subseteq own.sets \cup DOMAIN resets
        /\ req' = [req EXCEPT ![r] = Idle] /\ lock' = Released(r)
        /\ UNCHANGED <<redis, params>>
        BY DEF Commit
  <1>3. user' \in UserRow \cup {NULL} /\ (user # NULL => user' # NULL)
    <2>1. CASE own.user = NULL
          BY <1>1, <1>2, <2>1 DEF Written, TypeOK
    <2>2. CASE own.user # NULL /\ user = NULL
          BY <1>1, <1>2, <2>2 DEF Written, TypeOK, Holds, Columns
    <2>3. CASE own.user # NULL /\ user # NULL
      <3>1. user \in UserRow /\ user' = [c \in DOMAIN user |->
                IF c \in DOMAIN own.user THEN own.user[c] ELSE user[c]]
            BY <1>1, <1>2, <2>3 DEF Written, TypeOK
      <3>2. user' \in UserRow
        <4>1. CASE own.user \in UserRow
              BY <3>1, <4>1 DEF UserRow
        <4>2. CASE own.user = [verified |-> TRUE]
          <5>1. DOMAIN own.user = {"verified"} /\ own.user["verified"] = TRUE
                BY <4>2
          <5>2. user' = [c \in DOMAIN user |-> IF c = "verified" THEN TRUE ELSE user[c]]
                BY <3>1, <5>1
          <5> QED BY <3>1, <5>2 DEF UserRow
        <4>3. CASE own.user \in [password: Password, params: 0..MaxParams]
              BY <3>1, <4>3 DEF UserRow
        <4> QED BY <1>1, <2>3, <4>1, <4>2, <4>3 DEF Holds, Columns
      <3> QED BY <3>2, NullAssumption DEF UserRow
    <2> QED BY <2>1, <2>2, <2>3
  <1>4. TypeOK'
    <2>1. verification' \in {NULL, "valid", "expired"}
          BY <1>1 DEF Commit, Holds, TypeOK
    <2>2. DOMAIN resets' \subseteq Link
          BY <1>1, <1>2 DEF Holds, TypeOK
    <2>3. \A q \in Request : lock' = q => req'[q].at # "idle"
          BY <1>1, <1>2, NullAssumption DEF Released, TypeOK
    <2> QED BY <1>1, <1>2, <1>3, <2>1, <2>2, <2>3 DEF TypeOK, redis
  <1>5. Holds(r)'
    <2>1. req'[r] = Idle /\ lock' # r
          BY <1>1, <1>2, NullAssumption DEF Released
    <2> QED BY <2>1 DEF Idle, NothingWritten, Holds, Columns, Fields
  <1>6. ASSUME NEW q \in Request \ {r} PROVE Holds(q)'
    <2>1. req'[q] = req[q] /\ DOMAIN req' = Request /\ (lock' = q => lock = q)
          BY <1>1, <1>2, NullAssumption DEF Released
    <2> QED BY <1>3, <2>1, OthersHold
  <1> QED BY <1>1, <1>2, <1>4, <1>5, <1>6 DEF TInv

\* A request that fails leaves the tables alone and gives up its lock.
LEMMA FailTypes ==
    ASSUME TInv, NEW r \in Request, Fail(r)
    PROVE  TInv'
  <1>1. TypeOK /\ DOMAIN req = Request
        BY DEF TInv
  <1>2. /\ req' = [req EXCEPT ![r] = Idle] /\ lock' = Released(r)
        /\ UNCHANGED <<tables, redis, params>>
        BY DEF Fail
  <1>3. TypeOK'
    <2>1. \A q \in Request : lock' = q => req'[q].at # "idle"
          BY <1>1, <1>2, NullAssumption DEF Released, TypeOK
    <2> QED BY <1>1, <1>2, <2>1 DEF TypeOK, tables, redis
  <1>4. Holds(r)'
    <2>1. req'[r] = Idle /\ lock' # r
          BY <1>1, <1>2, NullAssumption DEF Released
    <2> QED BY <2>1 DEF Idle, NothingWritten, Holds, Columns, Fields
  <1>5. ASSUME NEW q \in Request \ {r} PROVE Holds(q)'
    <2>1. req'[q] = req[q] /\ DOMAIN req' = Request /\ (lock' = q => lock = q) /\ user' = user
          BY <1>1, <1>2, NullAssumption DEF Released, tables
    <2> QED BY <2>1, OthersHold
  <1> QED BY <1>1, <1>2, <1>3, <1>4, <1>5 DEF TInv

\* What the sessions and the counter are in Redis after any step of a request.
LEMMA RedisTypes ==
    ASSUME TInv, NEW r \in Request, LoggingIn(r) \/ Resetting(r) \/ Logout(r)
    PROVE  /\ live' \subseteq Token /\ user_sessions' \subseteq Token
           /\ forced_reauth' \in BOOLEAN /\ login_failures' \in Nat
  <1>1. TypeOK
        BY DEF TInv
  <1>2. CASE LoggingIn(r)
    <2>1. live' \subseteq Token /\ user_sessions' \subseteq Token
          BY <1>1, <1>2 DEF TypeOK, LoggingIn, Login, WrongPassword, RightPassword, Rehash,
                            create_session, clear_forced_reauth, redis
    <2>2. login_failures' \in {login_failures, login_failures + 1, 0}
          BY <1>2 DEF LoggingIn, Login, WrongPassword, RightPassword, Rehash,
                      create_session, clear_forced_reauth, redis
    <2>3. forced_reauth' = forced_reauth \/ forced_reauth' = FALSE
          BY <1>2 DEF LoggingIn, Login, WrongPassword, RightPassword, Rehash,
                      create_session, clear_forced_reauth, redis
    <2>4. login_failures' \in Nat
          BY <1>1, <2>2 DEF TypeOK
    <2>5. forced_reauth' \in BOOLEAN
          BY <1>1, <2>3 DEF TypeOK
    <2> QED BY <2>1, <2>4, <2>5
  <1>3. CASE Resetting(r)
        BY <1>1, <1>3 DEF TypeOK, Resetting, RequestPasswordReset, ConfirmPasswordReset,
                          UpdatePassword, ReadTokens, Revoke, redis
  <1>4. CASE Logout(r)
        BY <1>1, <1>4 DEF TypeOK, Logout
  <1> QED BY <1>2, <1>3, <1>4

\* A request that goes on keeps what all requests hold.
LEMMA GoingOnTypes ==
    ASSUME TInv, NEW r \in Request, GoesOn(r), Holds(r)',
           live' \subseteq Token, user_sessions' \subseteq Token,
           forced_reauth' \in BOOLEAN, login_failures' \in Nat
    PROVE  TInv'
  <1>1. TypeOK /\ DOMAIN req' = Request /\ UNCHANGED <<tables, params>>
        BY DEF TInv, GoesOn
  <1>2. ASSUME NEW q \in Request \ {r} PROVE Holds(q)'
    <2>1. /\ DOMAIN req'[q] = DOMAIN req[q] /\ user' = user
          /\ \A c \in Fields \ {"alone"} : req'[q][c] = req[q][c]
          /\ lock' = q => lock = q
          BY <1>1 DEF GoesOn, tables
    <2> QED BY <1>1, <2>1, OthersHold
  <1>3. \A q \in Request : Holds(q)'
        BY <1>2
  <1>4. \A q \in Request : lock' = q => req'[q].at # "idle"
        BY <1>3 DEF Holds
  <1> QED BY <1>1, <1>3, <1>4 DEF TInv, TypeOK, tables

\* Nothing that requests hold has changed.
LEMMA StillTypes ==
    ASSUME TInv, UNCHANGED <<user, lock, req>>, TypeOK'
    PROVE  TInv'
  BY DEF TInv, Holds, Columns

LEMMA NextTypes == TInv /\ [Next]_vars => TInv'
  <1> SUFFICES ASSUME TInv, [Next]_vars PROVE TInv'
      OBVIOUS
  <1>1. TypeOK
        BY DEF TInv
  <1>2. ASSUME NEW r \in Request, Registration(r) PROVE TInv'
    <2>1. GoesOn(r) /\ UNCHANGED redis /\ Holds(r)'
          BY <1>2, RegistrationTypes
    <2> QED BY <1>1, <2>1, GoingOnTypes DEF TypeOK, redis
  <1>3. ASSUME NEW r \in Request, LoggingIn(r) PROVE TInv'
        BY <1>3, LoginTypes, RedisTypes, GoingOnTypes
  <1>4. ASSUME NEW r \in Request, Resetting(r) PROVE TInv'
        BY <1>4, ResettingTypes, RedisTypes, GoingOnTypes
  <1>5. ASSUME NEW r \in Request, Logout(r) PROVE TInv'
    <2>1. UNCHANGED <<tables, params, lock, req>>
          BY <1>5 DEF Logout
    <2>2. TypeOK'
          BY <1>1, <1>5, <2>1, RedisTypes DEF TypeOK, tables
    <2> QED BY <2>1, <2>2, StillTypes DEF tables
  <1>6. ASSUME NEW r \in Request, Commit(r) PROVE TInv'
        BY <1>6, CommitTypes
  <1>7. ASSUME NEW r \in Request, Fail(r) PROVE TInv'
        BY <1>7, FailTypes
  <1>8. CASE Expire
    <2>1. UNCHANGED <<user, user_sessions, params, lock, req>>
          BY <1>8 DEF Expire
    <2>2. verification' \in {verification, "expired"} /\ live' \subseteq live
          BY <1>8 DEF Expire
    <2>3. DOMAIN resets' = DOMAIN resets
          BY <1>8 DEF Expire
    <2>4. login_failures' = login_failures \/ login_failures' = 0
          BY <1>8 DEF Expire
    <2>5. forced_reauth' = forced_reauth \/ forced_reauth' = FALSE
          BY <1>8 DEF Expire
    <2>6. forced_reauth' \in BOOLEAN
          BY <1>1, <2>5 DEF TypeOK
    <2>7. login_failures' \in Nat
          BY <1>1, <2>4 DEF TypeOK
    <2>8. TypeOK'
          BY <1>1, <2>1, <2>2, <2>3, <2>6, <2>7 DEF TypeOK
    <2> QED BY <2>1, <2>8, StillTypes
  <1>9. CASE Release
    <2>1. TypeOK' /\ UNCHANGED <<user, lock, req>>
          BY <1>1, <1>9, LoginAssumption DEF Release, TypeOK, tables, redis
    <2> QED BY <2>1, StillTypes
  <1>10. CASE UNCHANGED vars
    <2>1. TypeOK' /\ UNCHANGED <<user, lock, req>>
          BY <1>1, <1>10 DEF vars, tables, redis, TypeOK
    <2> QED BY <2>1, StillTypes
  <1> QED BY <1>2, <1>3, <1>4, <1>5, <1>6, <1>7, <1>8, <1>9, <1>10 DEF Next

\* The rows and keys are of their kind in every reachable state: the user's row
\* is whole whichever request wrote which of its columns and in which order they
\* commit, because a request that writes a few columns has seen the row and holds
\* its lock, and no request deletes it.
THEOREM RowIsWhole == Spec => []TypeOK
  <1>1. TInv => TypeOK
        BY DEF TInv
  <1> QED BY <1>1, InitTypes, NextTypes, PTL DEF Spec
================================================================================
