--------------------------- MODULE RepositoryProofs ---------------------------
(***************************************************************************)
(* What the repository keeps in its database, for any number of everything *)
(* and any sizes: Sessions, accounts and sessions with the requests that   *)
(* use them; Migrations, the schema under concurrent runs; and             *)
(* DocumentList, what a list has in it and in which order.  The three have *)
(* no state in common.                                                     *)
(***************************************************************************)
EXTENDS Sessions, Migrations, DocumentList, FiniteSetTheorems, Inductions, TLAPS

--------------------------------------------------------------------------------
(* Sessions: timestamps. *)

(* A time lies in the unit its timestamp names. *)
LEMMA TimestampBounds ==
    ASSUME NEW x \in Nat
    PROVE /\ Timestamp(x) \in Nat
          /\ Precision * Timestamp(x) <= x
          /\ x < Precision * Timestamp(x) + Precision
  BY SessionsAssumption DEF Timestamp

(* Multiplication by the precision keeps the order. *)
LEMMA ScalingIsMonotone ==
    ASSUME NEW m \in Nat, NEW n \in Nat, m <= n
    PROVE Precision * m <= Precision * n
  <1>1. PICK d \in Nat : n = m + d
    BY n - m \in Nat
  <1>2. Precision * n = Precision * m + Precision * d /\ Precision * d \in Nat /\ Precision * m \in Nat
    BY <1>1, SessionsAssumption
  <1> QED
    BY <1>2, Precision * m \in Nat, Precision * n \in Nat

(* What comes later by the timestamps comes later by the clock. *)
LEMMA LaterTimestampIsLater ==
    ASSUME NEW x \in Nat, NEW y \in Nat, Timestamp(x) < Timestamp(y)
    PROVE x < y
  <1>1. Precision * (Timestamp(x) + 1) <= Precision * Timestamp(y)
    BY TimestampBounds, ScalingIsMonotone
  <1>2. Precision * (Timestamp(x) + 1) = Precision * Timestamp(x) + Precision
    BY TimestampBounds, SessionsAssumption
  <1> QED
    BY <1>1, <1>2, TimestampBounds, SessionsAssumption

(* The timestamps hide less than one unit of the clock. *)
LEMMA EarlierTimestampIsEarlier ==
    ASSUME NEW x \in Nat, NEW y \in Nat, Timestamp(x) <= Timestamp(y)
    PROVE x < y + Precision
  <1>1. Precision * Timestamp(x) <= Precision * Timestamp(y)
    BY TimestampBounds, ScalingIsMonotone
  <1> QED
    BY <1>1, TimestampBounds, SessionsAssumption

--------------------------------------------------------------------------------
(* Sessions: the inductive invariant. *)

(* A token that was handed out has the session that was asked for with it. *)
GrantInv == \A a \in Authentication :
    authStep[a] = "granted" =>
        /\ Exists(drawn[a])
        /\ sessions[drawn[a]].account = account[a]
        /\ sessions[drawn[a]].expires = Timestamp(expires[a])

(* A session is revoked only by a logout with its token. *)
RevokeInv == \A t \in Token :
    sessions[t].revoked =>
        \E o \in Logout : presented[o] = t /\ logoutStep[o] \in {"ok", "failed"}

LogoutInv == \A o \in Logout :
    logoutStep[o] = "ok" => Exists(presented[o]) /\ sessions[presented[o]].revoked

(* What an authorisation found in the session of its token is still there, *)
(* and what it knew when it began still holds.                             *)
CheckInv == \A z \in Authorization :
    /\ known[z] => checkStep[z] # "idle" /\ Exists(presented[z])
    /\ over[z] => checkStep[z] # "idle" /\ sessions[presented[z]].revoked
    /\ checkStep[z] = "authorized" =>
          /\ Exists(presented[z]) /\ ~over[z]
          /\ user[z] = sessions[presented[z]].account
          /\ Timestamp(asOf[z]) < sessions[presented[z]].expires
    /\ checkStep[z] = "refused" /\ known[z] =>
          \/ sessions[presented[z]].revoked
          \/ sessions[presented[z]].expires <= Timestamp(asOf[z])

Inv == /\ TypeOK /\ AccountIsNotTakenOver /\ OneLogoutSucceeds
       /\ GrantInv /\ RevokeInv /\ LogoutInv /\ CheckInv

(* Sessions are never lost: they keep their account and expiry, and stay   *)
(* revoked.                                                                *)
SessionsAreKept == \A t \in Token :
    /\ Exists(t) => /\ Exists(t)'
                    /\ sessions'[t].account = sessions[t].account
                    /\ sessions'[t].expires = sessions[t].expires
    /\ sessions[t].revoked => sessions'[t].revoked

(* At first there are no sessions and no requests. *)
LEMMA InitInv == Init => Inv
  BY SessionsAssumption
     DEF Init, Inv, TypeOK, Account, Query, NoSession, Exists, AccountIsNotTakenOver,
         OneLogoutSucceeds, GrantInv, RevokeInv, LogoutInv, CheckInv

(* A registration keeps the invariant. *)
LEMMA RegistersKeepInv ==
    ASSUME Inv, NEW r \in Registration, Register(r) PROVE Inv'
  <1> USE DEF Inv
  <1>1. UNCHANGED << time, sessions, login, authenticate, authorize, logoutStep, question >>
    BY DEF Register, Registers
  <1>2. TypeOK'
    <2>1. users' \in [Login -> Account]
      BY DEF Register, InsertUser, TypeOK, Account
    <2>2. registered' \in [Registration -> {"idle", "ok", "refused"}]
      BY DEF Register, Registers, TypeOK
    <2> QED
      BY <1>1, <2>1, <2>2 DEF TypeOK, Exists, authenticate, authorize, question
  <1>3. AccountIsNotTakenOver'
    BY SessionsAssumption
       DEF Register, Registers, InsertUser, TypeOK, Account, AccountIsNotTakenOver
  <1>4. (OneLogoutSucceeds /\ GrantInv /\ RevokeInv /\ LogoutInv /\ CheckInv)'
    BY <1>1 DEF OneLogoutSucceeds, GrantInv, RevokeInv, LogoutInv, CheckInv, Exists,
                authenticate, authorize, question
  <1> QED
    BY <1>2, <1>3, <1>4

(* The insertion of a session touches no other. *)
LEMMA InsertSessionIsSafe ==
    ASSUME TypeOK, NEW a \in Authentication, authStep[a] = "create", InsertSession(a)
    PROVE /\ sessions' \in [Token -> [account : Account, expires : Nat, revoked : BOOLEAN]]
          /\ sessions'[drawn[a]] = [account |-> account[a],
                                    expires |-> Timestamp(expires[a]), revoked |-> FALSE]
          /\ \A t \in Token \ {drawn[a]} : sessions'[t] = sessions[t]
          /\ drawn[a] \in Token /\ account[a] # NoAccount
          /\ SessionsAreKept
  <1>1. drawn[a] \in Token /\ account[a] \in Account /\ account[a] # NoAccount
    BY DEF TypeOK
  <1>2. Timestamp(expires[a]) \in Nat
    BY TimestampBounds DEF TypeOK
  <1>3. ~sessions[drawn[a]].revoked
    BY <1>1 DEF TypeOK, InsertSession, NoSession
  <1> QED
    BY <1>1, <1>2, <1>3 DEF TypeOK, InsertSession, SessionsAreKept, Exists

(* What the requests rely on survives a step that keeps the sessions.      *)
LEMMA KeptSessionsKeepInv ==
    ASSUME Inv, SessionsAreKept,
           UNCHANGED << authorize, logoutStep, question >>
    PROVE (LogoutInv /\ CheckInv)'
  <1>1. LogoutInv'
    BY DEF Inv, LogoutInv, TypeOK, SessionsAreKept, Exists, question
  <1>2. CheckInv'
    BY DEF Inv, CheckInv, TypeOK, SessionsAreKept, Exists, authorize, question
  <1> QED
    BY <1>1, <1>2

(* An authentication keeps the invariant: only what it holds itself and    *)
(* the session it inserts change.                                          *)
LEMMA AuthenticationsKeepInv ==
    ASSUME Inv, NEW a \in Authentication, ByLogin(a) \/ DrawToken(a) \/ CreateSession(a)
    PROVE Inv'
  <1> USE DEF Inv
  <1>1. /\ UNCHANGED << time, users, register, authorize, logoutStep, question >>
        /\ authStep[a] # "granted"
        /\ \A b \in Authentication \ {a} :
              /\ authStep'[b] = authStep[b] /\ account'[b] = account[b]
              /\ drawn'[b] = drawn[b] /\ expires'[b] = expires[b]
    BY DEF ByLogin, DrawToken, CreateSession, Quit, AuthStep, TypeOK
  <1>2. AccountIsNotTakenOver' /\ OneLogoutSucceeds'
    BY <1>1 DEF AccountIsNotTakenOver, OneLogoutSucceeds, register, question
  <1>3. ASSUME UNCHANGED sessions, authStep'[a] # "granted", TypeOK'
        PROVE  Inv'
    <2>1. SessionsAreKept
      BY <1>3 DEF SessionsAreKept, Exists
    <2>2. GrantInv'
      BY <1>1, <1>3 DEF GrantInv, Exists
    <2>3. RevokeInv'
      BY <1>1, <1>3 DEF RevokeInv, question
    <2> QED
      BY <1>1, <1>2, <1>3, <2>1, <2>2, <2>3, KeptSessionsKeepInv
  <1>4. ASSUME authStep[a] = "create", InsertSession(a), TypeOK',
               authStep'[a] = "granted" => account'[a] = account[a] /\ drawn'[a] = drawn[a]
                                             /\ expires'[a] = expires[a]
        PROVE  Inv'
    <2>1. /\ drawn[a] \in Token /\ account[a] # NoAccount /\ SessionsAreKept
          /\ sessions'[drawn[a]] = [account |-> account[a],
                                    expires |-> Timestamp(expires[a]), revoked |-> FALSE]
          /\ \A t \in Token \ {drawn[a]} : sessions'[t] = sessions[t]
      BY <1>4, InsertSessionIsSafe
    <2>2. GrantInv'
      <3> SUFFICES ASSUME NEW b \in Authentication, authStep'[b] = "granted"
                   PROVE /\ Exists(drawn[b])'
                         /\ sessions'[drawn'[b]].account = account'[b]
                         /\ sessions'[drawn'[b]].expires = Timestamp(expires'[b])
        BY DEF GrantInv, Timestamp
      <3>1. CASE b = a
        BY <1>4, <2>1, <3>1 DEF Exists, Timestamp
      <3>2. CASE b # a
        <4>1. authStep[b] = "granted" /\ drawn[b] \in Token
          BY <1>1, <3>2 DEF TypeOK
        <4> QED
          BY <1>1, <2>1, <3>2, <4>1 DEF GrantInv, SessionsAreKept, Exists, Timestamp
      <3> QED
        BY <3>1, <3>2
    <2>3. RevokeInv'
      BY <1>1, <2>1 DEF RevokeInv, question
    <2> QED
      BY <1>1, <1>2, <1>4, <2>1, <2>2, <2>3, KeptSessionsKeepInv
  <1>5. CASE ByLogin(a)
    <2>1. ASSUME Quit(a, "idle"), UNCHANGED sessions PROVE TypeOK'
      BY <1>1, <2>1, SessionsAssumption
         DEF Quit, AuthStep, TypeOK, Account, Exists, Query, register, authorize, question
    <2>2. ASSUME NEW l \in Login, NEW password \in Registration, users[l] = password,
                 account' = [account EXCEPT ![a] = users[l]],
                 AuthStep(a, "idle", "draw"), UNCHANGED << sessions, drawn, expires, attempt >>
          PROVE  TypeOK'
      BY <1>1, <2>2, SessionsAssumption
         DEF AuthStep, TypeOK, Account, Exists, Query, register, authorize, question
    <2>3. TypeOK'
      BY <1>5, <2>1, <2>2 DEF ByLogin
    <2> QED
      BY <1>3, <1>5, <2>3 DEF ByLogin, Quit, AuthStep, TypeOK
  <1>6. CASE DrawToken(a)
    <2>1. TypeOK'
      BY <1>1, <1>6, SessionsAssumption
         DEF DrawToken, AuthStep, TypeOK, Account, Exists, Query, register, authorize, question
    <2> QED
      BY <1>3, <1>6, <2>1 DEF DrawToken, AuthStep, TypeOK
  <1>7. CASE CreateSession(a)
    <2>1. ASSUME AuthStep(a, "create", "granted"), InsertSession(a),
                 UNCHANGED << account, drawn, expires, attempt >>
          PROVE  Inv'
      <3>1. TypeOK'
        <4>1. authStep[a] = "create" /\ authStep' = [authStep EXCEPT ![a] = "granted"]
          BY <2>1 DEF AuthStep
        <4>2. /\ sessions' \in [Token -> [account : Account, expires : Nat, revoked : BOOLEAN]]
              /\ drawn[a] \in Token /\ account[a] # NoAccount
              /\ sessions'[drawn[a]] = [account |-> account[a],
                                        expires |-> Timestamp(expires[a]), revoked |-> FALSE]
              /\ \A t \in Token \ {drawn[a]} : sessions'[t] = sessions[t]
          BY <2>1, <4>1, InsertSessionIsSafe
        <4>3. \A t \in Token : ~Exists(t)' => sessions'[t] = NoSession
          BY <4>2 DEF TypeOK, Exists
        <4> QED
          BY <1>1, <2>1, <4>1, <4>2, <4>3 DEF TypeOK, Query, register, authorize, question
      <3> QED
        BY <1>4, <2>1, <3>1 DEF AuthStep
    <2>2. ASSUME AuthStep(a, "create", "draw"), attempt[a] + 1 < MaxTokenAttempts,
                 attempt' = [attempt EXCEPT ![a] = @ + 1],
                 UNCHANGED << sessions, account, drawn, expires >>
          PROVE  Inv'
      <3>1. TypeOK'
        BY <1>1, <2>2, SessionsAssumption
           DEF AuthStep, TypeOK, Exists, Query, register, authorize, question
      <3> QED
        BY <1>3, <2>2, <3>1 DEF AuthStep, TypeOK
    <2>3. ASSUME Quit(a, "create"), InsertSession(a) PROVE Inv'
      <3>1. TypeOK'
        <4>1. authStep[a] = "create" /\ authStep' = [authStep EXCEPT ![a] = "failed"]
          BY <2>3 DEF Quit, AuthStep
        <4>2. /\ sessions' \in [Token -> [account : Account, expires : Nat, revoked : BOOLEAN]]
              /\ drawn[a] \in Token /\ account[a] # NoAccount
              /\ sessions'[drawn[a]] = [account |-> account[a],
                                        expires |-> Timestamp(expires[a]), revoked |-> FALSE]
              /\ \A t \in Token \ {drawn[a]} : sessions'[t] = sessions[t]
          BY <2>3, <4>1, InsertSessionIsSafe
        <4>3. \A t \in Token : ~Exists(t)' => sessions'[t] = NoSession
          BY <4>2 DEF TypeOK, Exists
        <4> QED
          BY <1>1, <2>3, <4>1, <4>2, <4>3, SessionsAssumption
             DEF Quit, TypeOK, Account, Query, register, authorize, question
      <3> QED
        BY <1>4, <2>3, <3>1 DEF Quit, AuthStep, TypeOK
    <2>4. ASSUME Quit(a, "create"), UNCHANGED sessions PROVE Inv'
      <3>1. TypeOK'
        BY <1>1, <2>4, SessionsAssumption
           DEF Quit, AuthStep, TypeOK, Account, Exists, Query, register, authorize, question
      <3> QED
        BY <1>3, <2>4, <3>1 DEF Quit, AuthStep, TypeOK
    <2> QED
      BY <1>7, <2>1, <2>2, <2>3, <2>4 DEF CreateSession
  <1> QED
    BY <1>5, <1>6, <1>7

(* An authorisation keeps the invariant: it changes no session, and        *)
(* records what it finds in one.                                           *)
LEMMA AuthorizationsKeepInv ==
    ASSUME Inv, NEW z \in Authorization, Authorize(z) \/ ByTokenHash(z) PROVE Inv'
  <1> USE DEF Inv
  <1>1. UNCHANGED << time, tables, register, authenticate, logoutStep >>
    BY DEF Authorize, ByTokenHash, CheckStep
  <1>2. \A q \in Query \ {z} : presented'[q] = presented[q] /\ asOf'[q] = asOf[q]
    BY DEF Authorize, ByTokenHash, Ask, TypeOK, question
  <1>3. z \in Query /\ \A o \in Logout : o \in Query \ {z}
    BY SessionsAssumption DEF Query
  <1>4. AccountIsNotTakenOver' /\ GrantInv'
    BY <1>1 DEF AccountIsNotTakenOver, GrantInv, Exists, Timestamp, tables, register, authenticate
  <1>5. OneLogoutSucceeds' /\ RevokeInv' /\ LogoutInv'
    BY <1>1, <1>2, <1>3 DEF OneLogoutSucceeds, RevokeInv, LogoutInv, Exists, tables
  <1>6. CASE Authorize(z)
    <2>1. PICK t \in Token : presented' = [presented EXCEPT ![z] = t]
      BY <1>6 DEF Authorize, Ask
    <2>2. presented'[z] = t
      BY <1>3, <2>1 DEF TypeOK
    <2>3. TypeOK'
      BY <1>1, <1>3, <1>6, <2>1
         DEF Authorize, Ask, CheckStep, HandedOut, LoggedOut, TypeOK, Account, Exists, Query,
             tables, register, authenticate
    <2>4. HandedOut(t) => Exists(t)
      BY DEF HandedOut, GrantInv
    <2>5. LoggedOut(t) => sessions[t].revoked
      BY DEF LoggedOut, LogoutInv
    <2>6. CheckInv'
      BY <1>1, <1>2, <1>6, <2>2, <2>4, <2>5
         DEF Authorize, CheckStep, TypeOK, CheckInv, Exists, Query, Timestamp, tables
    <2> QED
      BY <1>4, <1>5, <2>3, <2>6
  <1>7. CASE ByTokenHash(z)
    <2>1. TypeOK'
      <3>1. checkStep' \in [Authorization -> {"idle", "query", "authorized", "refused", "failed"}]
        BY <1>7 DEF ByTokenHash, CheckStep, TypeOK
      <3>2. user' \in [Authorization -> Account]
        <4>1. CASE /\ CheckStep(z, "query", "authorized")
                   /\ user' = [user EXCEPT ![z] = sessions[presented[z]].account]
          <5>1. presented[z] \in Token
            BY <4>1 DEF CheckStep, TypeOK
          <5> QED
            BY <4>1, <5>1 DEF TypeOK
        <4>2. CASE UNCHANGED user
          BY <4>2 DEF TypeOK
        <4> QED
          BY <1>7, <4>1, <4>2 DEF ByTokenHash
      <3>3. \A y \in Authorization : checkStep'[y] # "idle" => presented'[y] \in Token
        BY <1>7 DEF ByTokenHash, CheckStep, TypeOK, question
      <3>4. UNCHANGED << time, tables, register, authenticate, logoutStep, known, over, question >>
        BY <1>7 DEF ByTokenHash, CheckStep
      <3> QED
        BY <3>1, <3>2, <3>3, <3>4
           DEF TypeOK, Exists, tables, register, authenticate, question
    <2>2. CheckInv'
      <3>1. presented[z] \in Token \/ checkStep[z] # "query"
        BY DEF TypeOK
      <3>2. /\ sessions[presented[z]].expires \in Nat \/ checkStep[z] # "query"
            /\ Timestamp(asOf[z]) \in Nat
        BY <1>3, <3>1, TimestampBounds DEF TypeOK
      <3>3. /\ UNCHANGED << sessions, known, over, presented, asOf >>
            /\ checkStep[z] = "query"
            /\ \A y \in Authorization \ {z} : checkStep'[y] = checkStep[y] /\ user'[y] = user[y]
        <4>1. UNCHANGED << sessions, known, over, presented, asOf >> /\ checkStep[z] = "query"
          BY <1>7 DEF ByTokenHash, CheckStep, question, tables
        <4>2. \A y \in Authorization \ {z} : checkStep'[y] = checkStep[y]
          BY <1>7 DEF ByTokenHash, CheckStep, TypeOK
        <4>3. \A y \in Authorization \ {z} : user'[y] = user[y]
          BY <1>7 DEF ByTokenHash, TypeOK
        <4> QED
          BY <4>1, <4>2, <4>3
      <3>4. /\ checkStep'[z] = "authorized" => Usable(z) /\ user'[z] = sessions[presented[z]].account
            /\ checkStep'[z] = "refused" => ~Usable(z)
            /\ checkStep'[z] # "idle"
        BY <1>7 DEF ByTokenHash, CheckStep, TypeOK
      <3> SUFFICES ASSUME NEW y \in Authorization
                   PROVE /\ known'[y] => checkStep'[y] # "idle" /\ Exists(presented[y])
                         /\ over'[y] => checkStep'[y] # "idle" /\ sessions[presented[y]].revoked
                         /\ checkStep'[y] = "authorized" =>
                               /\ Exists(presented[y]) /\ ~over[y]
                               /\ user'[y] = sessions[presented[y]].account
                               /\ Timestamp(asOf[y]) < sessions[presented[y]].expires
                         /\ checkStep'[y] = "refused" /\ known[y] =>
                               \/ sessions[presented[y]].revoked
                               \/ sessions[presented[y]].expires <= Timestamp(asOf[y])
        BY <3>3 DEF CheckInv, Exists, Timestamp
      <3>5. CASE y = z
        <4>1. sessions[presented[z]].expires \in Nat /\ Timestamp(asOf[z]) \in Nat
          BY <3>2, <3>3
        <4> QED
          BY <3>3, <3>4, <3>5, <4>1 DEF CheckInv, Usable
      <3>6. CASE y # z
        BY <3>3, <3>6 DEF CheckInv
      <3> QED
        BY <3>5, <3>6
    <2> QED
      BY <1>4, <1>5, <2>1, <2>2
  <1> QED
    BY <1>6, <1>7

(* A logout keeps the invariant: it revokes the session of its token only  *)
(* when nobody has.                                                        *)
LEMMA LogoutsKeepInv ==
    ASSUME Inv, NEW o \in Logout, BeginLogout(o) \/ Revoke(o) PROVE Inv'
  <1> USE DEF Inv
  <1>1. UNCHANGED << time, users, register, authenticate, authorize >>
    BY DEF BeginLogout, Revoke, LogoutStep
  <1>2. \A q \in Query \ {o} : presented'[q] = presented[q] /\ asOf'[q] = asOf[q]
    BY DEF BeginLogout, Revoke, Ask, TypeOK, question
  <1>3. o \in Query /\ \A z \in Authorization : z \in Query \ {o}
    BY SessionsAssumption DEF Query
  <1>4. AccountIsNotTakenOver'
    BY <1>1 DEF AccountIsNotTakenOver, register
  <1>5. CASE BeginLogout(o)
    <2>1. UNCHANGED sessions /\ logoutStep[o] = "idle" /\ logoutStep'[o] = "update"
          /\ \A p \in Logout \ {o} : logoutStep'[p] = logoutStep[p]
      BY <1>5 DEF BeginLogout, LogoutStep, TypeOK
    <2>2. TypeOK'
      BY <1>1, <1>3, <1>5
         DEF BeginLogout, Ask, LogoutStep, TypeOK, Account, Exists, Query,
             register, authenticate, authorize
    <2>3. GrantInv' /\ CheckInv'
      BY <1>1, <1>2, <1>3, <2>1 DEF GrantInv, CheckInv, Exists, Timestamp, authenticate, authorize
    <2>4. OneLogoutSucceeds' /\ LogoutInv'
      BY <1>2, <2>1 DEF OneLogoutSucceeds, LogoutInv, Exists, Query
    <2>5. RevokeInv'
      <3> SUFFICES ASSUME NEW t \in Token, sessions'[t].revoked
                   PROVE \E p \in Logout : presented'[p] = t /\ logoutStep'[p] \in {"ok", "failed"}
        BY DEF RevokeInv
      <3>1. PICK p \in Logout : presented[p] = t /\ logoutStep[p] \in {"ok", "failed"}
        BY <2>1 DEF RevokeInv
      <3> QED
        BY <1>2, <2>1, <3>1 DEF Query
    <2> QED
      BY <1>4, <2>2, <2>3, <2>4, <2>5
  <1>6. ASSUME LogoutStep(o, "update", "failed"), UNCHANGED << sessions, question >> PROVE Inv'
    <2>1. TypeOK'
      BY <1>1, <1>6 DEF LogoutStep, TypeOK, Account, Exists, Query, question,
                        register, authenticate, authorize
    <2>2. GrantInv' /\ CheckInv'
      BY <1>1, <1>6 DEF GrantInv, CheckInv, Exists, Timestamp, authenticate, authorize, question
    <2>3. OneLogoutSucceeds' /\ LogoutInv' /\ RevokeInv'
      BY <1>6 DEF LogoutStep, TypeOK, OneLogoutSucceeds, LogoutInv, RevokeInv, Exists, question
    <2> QED
      BY <1>4, <2>1, <2>2, <2>3
  <1>7. ASSUME NEW end \in {"ok", "failed"}, LogoutStep(o, "update", end), Usable(o),
               SetRevoked(o), UNCHANGED question
        PROVE  Inv'
    <2>1. /\ presented[o] \in Token
          /\ sessions'[presented[o]] = [sessions[presented[o]] EXCEPT !.revoked = TRUE]
          /\ \A t \in Token \ {presented[o]} : sessions'[t] = sessions[t]
          /\ Exists(presented[o]) /\ ~sessions[presented[o]].revoked
      <3>1. presented[o] \in Token
        BY <1>7 DEF LogoutStep, TypeOK
      <3>2. Exists(presented[o]) /\ ~sessions[presented[o]].revoked
        BY <1>7 DEF Usable
      <3> QED
        BY <1>7, <3>1, <3>2 DEF SetRevoked, TypeOK
    <2>2. sessions' \in [Token -> [account : Account, expires : Nat, revoked : BOOLEAN]]
      <3>1. /\ sessions \in [Token -> [account : Account, expires : Nat, revoked : BOOLEAN]]
            /\ sessions[presented[o]] \in [account : Account, expires : Nat, revoked : BOOLEAN]
        BY <2>1 DEF TypeOK
      <3>2. sessions'[presented[o]] \in [account : Account, expires : Nat, revoked : BOOLEAN]
        BY <2>1, <3>1
      <3> QED
        BY <1>7, <3>1, <3>2 DEF SetRevoked
    <2>3. SessionsAreKept
      BY <2>1 DEF SessionsAreKept, Exists, TypeOK
    <2>4. /\ logoutStep[o] = "update" /\ logoutStep'[o] = end
          /\ \A p \in Logout \ {o} : logoutStep'[p] = logoutStep[p]
      BY <1>7 DEF LogoutStep, TypeOK
    <2>5. TypeOK'
      BY <1>1, <1>7, <2>1, <2>2
         DEF LogoutStep, TypeOK, Exists, Query, question, register, authenticate, authorize
    <2>6. GrantInv'
      BY <1>1, <2>3 DEF GrantInv, TypeOK, SessionsAreKept, Exists, Timestamp, authenticate
    <2>7. CheckInv'
      BY <1>1, <1>7, <2>3 DEF CheckInv, TypeOK, SessionsAreKept, Exists, Timestamp,
                              authorize, question
    <2>8. LogoutInv'
      BY <1>7, <2>1, <2>3, <2>4 DEF LogoutInv, TypeOK, SessionsAreKept, Exists, question
    <2>9. OneLogoutSucceeds'
      BY <1>7, <2>1, <2>4 DEF OneLogoutSucceeds, LogoutInv, question
    <2>10. RevokeInv'
      BY <1>7, <2>1, <2>4 DEF RevokeInv, question
    <2> QED
      BY <1>4, <2>5, <2>6, <2>7, <2>8, <2>9, <2>10
  <1> QED
    BY <1>5, <1>6, <1>7 DEF Revoke

(* Every step keeps the invariant. *)
LEMMA NextInv == Inv /\ [Next]_vars => Inv'
  <1> SUFFICES ASSUME Inv, [Next]_vars PROVE Inv'
    OBVIOUS
  <1>1. CASE UNCHANGED << tables, register, authenticate, authorize, logoutStep, question >>
             /\ time' \in Nat
    BY <1>1 DEF Inv, TypeOK, Account, Query, Exists, AccountIsNotTakenOver, OneLogoutSucceeds,
                GrantInv, RevokeInv, LogoutInv, CheckInv, Timestamp,
                tables, register, authenticate, authorize, question
  <1>2. CASE Tick
    BY <1>1, <1>2 DEF Tick, Inv, TypeOK
  <1>3. CASE UNCHANGED vars
    BY <1>1, <1>3 DEF vars, Inv, TypeOK
  <1> QED
    BY <1>2, <1>3, RegistersKeepInv, AuthenticationsKeepInv, AuthorizationsKeepInv,
       LogoutsKeepInv DEF Next

--------------------------------------------------------------------------------
(* Sessions: the theorems. *)

(* The inductive invariant holds throughout every execution. *)
THEOREM Invariance == Spec => []Inv
  BY InitInv, NextInv, PTL DEF Spec

(* Every variable keeps its type. *)
THEOREM TypeCorrectness == Spec => []TypeOK
  BY Invariance, PTL DEF Inv

(* A login belongs for ever to the registration that was told it has it.   *)
THEOREM AccountsAreKept == Spec => []AccountIsNotTakenOver
  BY Invariance, PTL DEF Inv

(* At most one logout of a session succeeds. *)
THEOREM LogoutsAreUnique == Spec => []OneLogoutSucceeds
  BY Invariance, PTL DEF Inv

(* However often a token is drawn, it authorises the account it was handed *)
(* out for, and nobody else.                                               *)
THEOREM TokensNameTheirOwners == Spec => []TokenNamesItsOwner
  <1>1. Inv => TokenNamesItsOwner
    BY DEF Inv, GrantInv, CheckInv, TokenNamesItsOwner
  <1> QED
    BY <1>1, Invariance, PTL

(* After an acknowledged logout the token is refused. *)
THEOREM LogoutIsFinal == Spec => []LoggedOutStaysOut
  <1>1. Inv => LoggedOutStaysOut
    BY DEF Inv, CheckInv, LoggedOutStaysOut
  <1> QED
    BY <1>1, Invariance, PTL

(* Whatever the database rounds off, no token outlives its expiry by the   *)
(* clock of the program.                                                   *)
THEOREM ExpiryIsFinal == Spec => []ExpiredIsRefused
  <1>1. Inv => ExpiredIsRefused
    <2> SUFFICES ASSUME Inv, NEW z \in Authorization, NEW a \in Authentication,
                        checkStep[z] = "authorized", authStep[a] = "granted",
                        presented[z] = drawn[a]
                 PROVE asOf[z] < expires[a]
      BY DEF ExpiredIsRefused
    <2>1. asOf[z] \in Nat /\ expires[a] \in Nat
      BY DEF Inv, TypeOK, Query
    <2>2. Timestamp(asOf[z]) < Timestamp(expires[a])
      BY DEF Inv, GrantInv, CheckInv
    <2> QED
      BY <2>1, <2>2, LaterTimestampIsLater
  <1> QED
    BY <1>1, Invariance, PTL

(* Nor does the rounding cost a token more than one unit of its lifetime.  *)
THEOREM LifetimeIsKept == Spec => []SessionLastsItsTTL
  <1>1. Inv => SessionLastsItsTTL
    <2> SUFFICES ASSUME Inv, NEW z \in Authorization, NEW a \in Authentication,
                        checkStep[z] = "refused", known[z], authStep[a] = "granted",
                        presented[z] = drawn[a]
                 PROVE \/ expires[a] < asOf[z] + Precision
                       \/ \E o \in Logout : /\ presented[o] = drawn[a]
                                            /\ logoutStep[o] \in {"ok", "failed"}
      BY DEF SessionLastsItsTTL
    <2>1. asOf[z] \in Nat /\ expires[a] \in Nat /\ drawn[a] \in Token
      BY DEF Inv, TypeOK, Query
    <2>2. \/ sessions[drawn[a]].revoked
          \/ Timestamp(expires[a]) <= Timestamp(asOf[z])
      BY DEF Inv, GrantInv, CheckInv
    <2>3. CASE sessions[drawn[a]].revoked
      BY <2>1, <2>3 DEF Inv, RevokeInv
    <2>4. CASE Timestamp(expires[a]) <= Timestamp(asOf[z])
      BY <2>1, <2>4, EarlierTimestampIsEarlier
    <2> QED
      BY <2>2, <2>3, <2>4
  <1> QED
    BY <1>1, Invariance, PTL

(* Logins and tokens stay with those who were told they have them. *)
THEOREM NothingChangesHands == Spec => []NothingIsTakenOver
  BY AccountsAreKept, TokensNameTheirOwners, PTL DEF NothingIsTakenOver

(* A token lasts from its creation to its expiry or its logout, for every  *)
(* precision of the database's timestamps.                                 *)
THEOREM TokensLastTheirTime == Spec => []TokenLastsItsTime
  BY ExpiryIsFinal, LifetimeIsKept, PTL DEF TokenLastsItsTime

--------------------------------------------------------------------------------
(* Migrations: the inductive invariant.  Whoever is behind the lock        *)
(* statement holds the lock, so what a run read in the ledger is still     *)
(* true when its transaction commits.                                      *)

\* Only the holder of the lock is behind the lock statement.
LockInv == \A p \in Runs : step[p] \in NeedLock => holder = p

\* The uncommitted changes of a session follow from the statement it is at.
PendingInv ==
  \A p \in Runs :
    /\ step[p] \in {"idle", "lock", "create", "read", "script", "unlock"} => pending[p] = {}
    /\ step[p] = "record" => pending[p] = {"script"}
    /\ step[p] = "commit" => pending[p] = {"script", "record"}

\* What a run has read stays true while it holds the lock.
TargetInv ==
  \A p \in Runs :
    /\ kind[p] = "up" /\ step[p] \in {"lock", "create"} => target[p] = 1
    /\ kind[p] = "up" /\ step[p] \in {"read", "script", "record", "commit"} =>
         \A w \in Versions : w < target[p] => w \in ledger
    /\ kind[p] = "up" /\ step[p] \in {"script", "record", "commit"} =>
         target[p] \notin ledger
    /\ kind[p] = "down" /\ step[p] \in {"script", "record", "commit"} =>
         IsNewest(target[p])

MigrationsInv == /\ MigrationsTypeOK
       /\ LedgerTellsTheSchema
       /\ SuccessMeansMigrated
       /\ LockInv
       /\ PendingInv
       /\ TargetInv

--------------------------------------------------------------------------------
(* Migrations: the invariant holds at first and every step keeps it. *)

\* The parts of the invariant hold when no run has started.
LEMMA MigrationsInitInv == MigrationsInit => MigrationsInv
<1> SUFFICES ASSUME MigrationsInit PROVE MigrationsInv
  OBVIOUS
<1>1. 1 \in Versions
  BY MigrationsAssumption DEF Versions
<1>2. MigrationsTypeOK
  BY <1>1 DEF MigrationsInit, MigrationsTypeOK, Steps
<1>3. LedgerTellsTheSchema /\ SuccessMeansMigrated
  BY DEF MigrationsInit, LedgerTellsTheSchema, SuccessMeansMigrated
<1>4. LockInv /\ PendingInv /\ TargetInv
  BY DEF MigrationsInit, LockInv, PendingInv, TargetInv, NeedLock
<1> QED BY <1>2, <1>3, <1>4 DEF MigrationsInv

\* The invariant does not look at the clients beyond their type: a deadline or a
\* crash keeps it.
LEMMA AbandonKeepsInv == ASSUME MigrationsInv, NEW p \in Runs, Abandon(p) PROVE MigrationsInv'
  BY DEF Abandon, MigrationsInv, MigrationsTypeOK, LedgerTellsTheSchema, SuccessMeansMigrated, LockInv,
         PendingInv, TargetInv, IsNewest, NeedLock, Steps, Versions, database, run

\* No step of a run leaves the invariant.
LEMMA MigrationsNextKeepsInv == MigrationsInv /\ [MigrationsNext]_migrationsVars => MigrationsInv'
<1> SUFFICES ASSUME MigrationsInv, [MigrationsNext]_migrationsVars PROVE MigrationsInv'
  OBVIOUS
<1> USE MigrationsAssumption DEF MigrationsInv
<1>1. ASSUME NEW p \in Runs, NEW k \in {"up", "down"}, NEW n \in Versions, Start(p, k, n)
      PROVE  MigrationsInv'
  BY <1>1 DEF Start, MigrationsTypeOK, LedgerTellsTheSchema, SuccessMeansMigrated, LockInv,
     PendingInv, TargetInv, IsNewest, NeedLock, Steps, Versions, database, FirstVersion
<1>2. ASSUME NEW p \in Runs, Lock(p) PROVE MigrationsInv'
  <2>1. MigrationsTypeOK' /\ LedgerTellsTheSchema' /\ SuccessMeansMigrated'
    BY <1>2 DEF Lock, GoTo, MigrationsTypeOK, LedgerTellsTheSchema, SuccessMeansMigrated, Steps,
       database, run
  <2>2. LockInv'
    BY <1>2 DEF Lock, GoTo, MigrationsTypeOK, LockInv, NeedLock
  <2>3. PendingInv' /\ TargetInv'
    BY <1>2 DEF Lock, GoTo, MigrationsTypeOK, PendingInv, TargetInv, IsNewest, Versions, database, run
  <2> QED BY <2>1, <2>2, <2>3
<1>3. ASSUME NEW p \in Runs, FailToLock(p) PROVE MigrationsInv'
  BY <1>3 DEF FailToLock, MigrationsTypeOK, LedgerTellsTheSchema, SuccessMeansMigrated, LockInv,
     PendingInv, TargetInv, IsNewest, NeedLock, Steps, Versions, database, run
<1>4. ASSUME NEW p \in Runs, CreateLedger(p) PROVE MigrationsInv'
  BY <1>4 DEF CreateLedger, GoTo, MigrationsTypeOK, LedgerTellsTheSchema, SuccessMeansMigrated,
     LockInv, PendingInv, TargetInv, IsNewest, NeedLock, Steps, Versions, run
<1>5. ASSUME NEW p \in Runs, SkipApplied(p) PROVE MigrationsInv'
  <2>1. MigrationsTypeOK' /\ LedgerTellsTheSchema' /\ SuccessMeansMigrated' /\ LockInv' /\ PendingInv'
    BY <1>5 DEF SkipApplied, NextVersion, MigrationsTypeOK, LedgerTellsTheSchema, SuccessMeansMigrated,
       LockInv, PendingInv, NeedLock, Steps, Versions, database, run
  <2>2. TargetInv'
    BY <1>5 DEF SkipApplied, NextVersion, MigrationsTypeOK, TargetInv, IsNewest, Versions, database, run
  <2> QED BY <2>1, <2>2
<1>6. ASSUME NEW p \in Runs, FindPending(p) PROVE MigrationsInv'
  BY <1>6 DEF FindPending, MigrationsTypeOK, LedgerTellsTheSchema, SuccessMeansMigrated,
     LockInv, PendingInv, TargetInv, IsNewest, NeedLock, Steps, Versions, database, run
<1>7. ASSUME NEW p \in Runs, LastIsApplied(p) PROVE MigrationsInv'
  <2>1. MigrationsTypeOK' /\ LedgerTellsTheSchema' /\ LockInv' /\ PendingInv' /\ TargetInv'
    BY <1>7 DEF LastIsApplied, Finish, MigrationsTypeOK, LedgerTellsTheSchema, LockInv, PendingInv,
       TargetInv, IsNewest, NeedLock, Steps, Versions, run
  <2>2. SuccessMeansMigrated'
    BY <1>7 DEF LastIsApplied, Finish, MigrationsTypeOK, LedgerTellsTheSchema, SuccessMeansMigrated,
       Versions
  <2> QED BY <2>1, <2>2
<1>8. ASSUME NEW p \in Runs, FindNewest(p) PROVE MigrationsInv'
  <2>1. PICK v \in 1..release[p] : IsNewest(v) /\ target' = [target EXCEPT ![p] = v]
    BY <1>8 DEF FindNewest
  <2> QED
    BY <1>8, <2>1 DEF FindNewest, MigrationsTypeOK, LedgerTellsTheSchema, SuccessMeansMigrated,
       LockInv, PendingInv, TargetInv, IsNewest, NeedLock, Steps, Versions, database, run
<1>9. ASSUME NEW p \in Runs, RunScript(p) PROVE MigrationsInv'
  <2>1. MigrationsTypeOK' /\ LedgerTellsTheSchema' /\ SuccessMeansMigrated' /\ LockInv'
    BY <1>9 DEF RunScript, GoTo, MigrationsTypeOK, LedgerTellsTheSchema, SuccessMeansMigrated,
       LockInv, NeedLock, Steps, database, run
  <2>2. PendingInv'
    BY <1>9 DEF RunScript, GoTo, MigrationsTypeOK, PendingInv
  <2>3. TargetInv'
    BY <1>9 DEF RunScript, GoTo, MigrationsTypeOK, TargetInv, IsNewest, Versions, database, run
  <2> QED BY <2>1, <2>2, <2>3
<1>10. ASSUME NEW p \in Runs, Record(p) PROVE MigrationsInv'
  <2>1. MigrationsTypeOK' /\ LedgerTellsTheSchema' /\ SuccessMeansMigrated' /\ LockInv'
    BY <1>10 DEF Record, GoTo, MigrationsTypeOK, LedgerTellsTheSchema, SuccessMeansMigrated,
       LockInv, NeedLock, Steps, database, run
  <2>2. PendingInv'
    BY <1>10 DEF Record, GoTo, MigrationsTypeOK, PendingInv
  <2>3. TargetInv'
    BY <1>10 DEF Record, GoTo, MigrationsTypeOK, TargetInv, IsNewest, Versions, database, run
  <2> QED BY <2>1, <2>2, <2>3
<1>11. ASSUME NEW p \in Runs, Commit(p) PROVE MigrationsInv'
  <2>1. pending[p] = {"script", "record"} /\ step[p] \in NeedLock
    BY <1>11 DEF Commit, PendingInv, NeedLock
  <2>2. \A q \in Runs : q # p => step[q] \notin NeedLock /\ step'[q] = step[q]
    BY <1>11, <2>1 DEF Commit, GoTo, LockInv, MigrationsTypeOK
  <2>3. CASE kind[p] = "up"
    <3>1. /\ schema' = schema \cup {target[p]}
          /\ ledger' = ledger \cup {target[p]}
          /\ promised' = promised
      BY <1>11, <2>1, <2>3 DEF Commit, Changed
    <3>2. \A w \in Versions : w < target[p] => w \in ledger
      BY <1>11, <2>3 DEF Commit, TargetInv
    <3>3. LedgerTellsTheSchema' /\ SuccessMeansMigrated'
      BY <3>1, <3>2 DEF LedgerTellsTheSchema, SuccessMeansMigrated, MigrationsTypeOK, Versions
    <3>4. MigrationsTypeOK' /\ LockInv' /\ PendingInv'
      BY <1>11, <2>3, <3>1 DEF Commit, GoTo, MigrationsTypeOK, LockInv, PendingInv, NeedLock, Steps, run
    <3>5. TargetInv'
      BY <1>11, <2>2, <2>3, <3>1, <3>2
         DEF Commit, GoTo, MigrationsTypeOK, TargetInv, IsNewest, NeedLock, Versions, run
    <3> QED BY <3>3, <3>4, <3>5
  <2>4. CASE kind[p] = "down"
    <3>1. /\ schema' = schema \ {target[p]}
          /\ ledger' = ledger \ {target[p]}
          /\ promised' = promised \ {target[p]}
      BY <1>11, <2>1, <2>4 DEF Commit, Changed
    <3>2. IsNewest(target[p])
      BY <1>11, <2>4 DEF Commit, TargetInv
    <3>3. ASSUME NEW v \in ledger \ {target[p]} PROVE target[p] \notin 1..v
      BY <3>2 DEF IsNewest, MigrationsTypeOK, Versions
    <3>4. LedgerTellsTheSchema' /\ SuccessMeansMigrated'
      BY <3>1, <3>3 DEF LedgerTellsTheSchema, SuccessMeansMigrated
    <3>5. MigrationsTypeOK' /\ LockInv' /\ PendingInv'
      BY <1>11, <2>4, <3>1 DEF Commit, GoTo, MigrationsTypeOK, LockInv, PendingInv, NeedLock, Steps, run
    <3>6. TargetInv'
      BY <1>11, <2>2, <2>4, <3>1
         DEF Commit, GoTo, MigrationsTypeOK, TargetInv, IsNewest, NeedLock, Versions, run
    <3> QED BY <3>4, <3>5, <3>6
  <2> QED BY <2>3, <2>4 DEF MigrationsTypeOK
<1>12. ASSUME NEW p \in Runs, Fail(p) PROVE MigrationsInv'
  BY <1>12 DEF Fail, MigrationsTypeOK, LedgerTellsTheSchema, SuccessMeansMigrated, LockInv,
     PendingInv, TargetInv, IsNewest, NeedLock, Steps, Versions, database, run
<1>13. ASSUME NEW p \in Runs, Unlock(p) PROVE MigrationsInv'
  BY <1>13 DEF Unlock, MigrationsTypeOK, LedgerTellsTheSchema, SuccessMeansMigrated, LockInv,
     PendingInv, TargetInv, IsNewest, NeedLock, Steps, Versions, database, run
<1>14. ASSUME NEW p \in Runs, Deadline(p) \/ Crash(p) PROVE MigrationsInv'
  BY <1>14, AbandonKeepsInv DEF Deadline, Crash
<1>15. ASSUME NEW p \in Runs, EndSession(p) PROVE MigrationsInv'
  BY <1>15 DEF EndSession, MigrationsTypeOK, LedgerTellsTheSchema, SuccessMeansMigrated, LockInv,
     PendingInv, TargetInv, IsNewest, NeedLock, Steps, Versions, database, run
<1>16. CASE UNCHANGED migrationsVars
  BY <1>16 DEF migrationsVars, database, run, MigrationsTypeOK, LedgerTellsTheSchema, SuccessMeansMigrated,
     LockInv, PendingInv, TargetInv, IsNewest, Versions
<1> QED
  BY <1>1, <1>2, <1>3, <1>4, <1>5, <1>6, <1>7, <1>8, <1>9, <1>10, <1>11, <1>12,
     <1>13, <1>14, <1>15, <1>16 DEF MigrationsNext

LEMMA MigrationsInvariance == MigrationsSpec => []MigrationsInv
  BY MigrationsInitInv, MigrationsNextKeepsInv, PTL DEF MigrationsSpec

--------------------------------------------------------------------------------
(* Migrations: the theorems. *)

\* Every reachable state is well typed.
THEOREM MigrationsTypeCorrectness == MigrationsSpec => []MigrationsTypeOK
<1>1. MigrationsInv => MigrationsTypeOK
  BY DEF MigrationsInv
<1> QED BY <1>1, MigrationsInvariance, PTL

\* However runs interleave, fail and die, what schema_migrations records is
\* exactly what is in force, from the first version on without a gap
\* (migrate.go:66-84).
THEOREM LedgerIsTheSchema == MigrationsSpec => []LedgerTellsTheSchema
<1>1. MigrationsInv => LedgerTellsTheSchema
  BY DEF MigrationsInv
<1> QED BY <1>1, MigrationsInvariance, PTL

\* No script is sent to a database that has its changes already, by any number of
\* parallel runs (README.md:59, migrate.go:39-60).
THEOREM NothingIsAppliedTwice == MigrationsSpec => []NoScriptMeetsItsOwnChanges
<1>1. MigrationsInv => NoScriptMeetsItsOwnChanges
  BY DEF MigrationsInv, MigrationsTypeOK, LedgerTellsTheSchema, TargetInv, IsNewest, NoScriptMeetsItsOwnChanges
<1> QED BY <1>1, MigrationsInvariance, PTL

\* Success of MigrateUp means that every version of its binary is in force, until
\* a MigrateDown reverts it (migrate.go:51-63).
THEOREM SuccessIsTrue == MigrationsSpec => []SuccessMeansMigrated
<1>1. MigrationsInv => SuccessMeansMigrated
  BY DEF MigrationsInv
<1> QED BY <1>1, MigrationsInvariance, PTL

--------------------------------------------------------------------------------
(* Lists: the inductive invariant. *)

(* An entry is the list of a query that has its key. *)
EntryInv == kept # NoEntry =>
    \E q \in ValidQueries : /\ Owner(q) \in User
                            /\ kept.key = ListCacheKey(q) /\ kept.ids = Listed(q)

AnswerInv == /\ answer.status = "ok" => /\ request \in ValidQueries
                                        /\ answer.ids = Listed(request)
             /\ answer.status # "ok" => answer.ids = {}

ListInv == ListTypeOK /\ EntryInv /\ AnswerInv

--------------------------------------------------------------------------------
(* Lists: queries. *)

(* Two queries with one key select the same documents. *)
LEMMA KeyTellsList ==
    ASSUME NEW q \in ValidQueries, NEW r \in ValidQueries, ListCacheKey(q) = ListCacheKey(r)
    PROVE  Owner(q) = Owner(r) /\ Listed(q) = Listed(r)
  <1>1. /\ q.user = r.user /\ q.login = r.login /\ q.key = r.key /\ q.limit = r.limit
        /\ Normalized(q) = Normalized(r)
    BY DEF ListCacheKey
  <1>2. Owner(q) = Owner(r)
    BY <1>1 DEF Owner
  <1>3. \A d \in DOMAIN documents : Matches(d, q) <=> Matches(d, r)
    BY <1>1, ListAssumption DEF Matches, Normalized, Key
  <1>4. Selected(q) = Selected(r)
    BY <1>1, <1>2, <1>3 DEF Selected
  <1> QED
    BY <1>1, <1>2, <1>4 DEF Listed

--------------------------------------------------------------------------------
(* Lists: the invariant holds at first and every step keeps it. *)

(* Nothing has been asked for and nothing is cached. *)
LEMMA ListInitInv == ListInit => ListInv
  BY DEF ListInit, None, ListInv, ListTypeOK, EntryInv, AnswerInv

(* The documents stand still, and with them what a query lists. *)
LEMMA ListsStandStill ==
    ASSUME UNCHANGED documents PROVE \A q : Listed(q)' = Listed(q)
  BY DEF Listed, Selected, Matches, Owner, Before

(* Every step keeps the invariant. *)
LEMMA ListNextInv == ListInv /\ [ListNext]_listVars => ListInv'
  <1> SUFFICES ASSUME ListInv, [ListNext]_listVars PROVE ListInv'
    OBVIOUS
  <1>1. UNCHANGED documents
    BY DEF ListNext, Evict, Refuse, Miss, Hit, listVars
  <1>2. \A q : Listed(q)' = Listed(q) /\ Owner(q)' = Owner(q) /\ ListCacheKey(q)' = ListCacheKey(q)
    BY <1>1, ListsStandStill DEF Owner, ListCacheKey, Normalized
  <1>3. ValidQueries \subseteq Request /\ ValidQueries' = ValidQueries
    BY DEF ValidQueries, ValidQuery, Request
  <1>4. \A q : Listed(q) \subseteq DOMAIN documents
    BY DEF Listed, Selected
  <1>5. CASE Evict
    BY <1>1, <1>5 DEF Evict, None, ListInv, ListTypeOK, EntryInv, AnswerInv
  <1>6. CASE Refuse
    BY <1>1, <1>2, <1>3, <1>6 DEF Refuse, ListInv, ListTypeOK, EntryInv, AnswerInv
  <1>7. ASSUME NEW q \in ValidQueries, Miss(q) PROVE ListInv'
    <2>1. CASE Owner(q) \in User
      <3>1. /\ answer' = [status |-> "ok", ids |-> Listed(q)] /\ request' = q
            /\ kept' = [key |-> ListCacheKey(q), ids |-> Listed(q)]
        BY <1>7, <2>1 DEF Miss, Load
      <3>2. ListTypeOK'
        BY <1>1, <1>3, <1>4, <3>1 DEF ListInv, ListTypeOK
      <3>3. EntryInv' /\ AnswerInv'
        BY <1>2, <1>3, <2>1, <3>1 DEF EntryInv, AnswerInv
      <3> QED
        BY <3>2, <3>3 DEF ListInv
    <2>2. CASE Owner(q) \notin User
      <3>1. /\ answer' = [status |-> "notFound", ids |-> {}] /\ request' = q
            /\ kept' = NoEntry
        BY <1>7, <2>2 DEF Miss, Load
      <3> QED
        BY <1>1, <1>3, <3>1 DEF ListInv, ListTypeOK, EntryInv, AnswerInv
    <2> QED
      BY <2>1, <2>2
  <1>8. ASSUME NEW q \in ValidQueries, Hit(q) PROVE ListInv'
    <2>1. /\ kept # NoEntry /\ kept.key = ListCacheKey(q) /\ kept' = kept
          /\ request' = q /\ answer' = [status |-> "ok", ids |-> kept.ids]
      BY <1>8 DEF Hit
    <2>2. kept.ids = Listed(q)
      BY <2>1, KeyTellsList DEF ListInv, EntryInv
    <2>3. ListTypeOK'
      BY <1>1, <1>3, <1>4, <2>1, <2>2 DEF ListInv, ListTypeOK
    <2>4. EntryInv'
      BY <1>2, <1>3, <2>1 DEF ListInv, EntryInv
    <2>5. AnswerInv'
      BY <1>2, <1>3, <2>1, <2>2 DEF AnswerInv
    <2> QED
      BY <2>3, <2>4, <2>5 DEF ListInv
  <1>9. CASE UNCHANGED listVars
    BY <1>2, <1>3, <1>9 DEF listVars, ListInv, ListTypeOK, EntryInv, AnswerInv
  <1> QED
    BY <1>5, <1>6, <1>7, <1>8, <1>9 DEF ListNext

--------------------------------------------------------------------------------
(* Lists: the order and the limit. *)

(* What comes before d in the list of q. *)
Ahead(q, d) == {e \in Selected(q) : Before(e, d)}

(* The ORDER BY is a strict total order of the documents. *)
LEMMA BeforeIsTotalOrder ==
    ASSUME ListTypeOK
    PROVE  /\ \A d \in DOMAIN documents : ~Before(d, d)
           /\ \A d, e \in DOMAIN documents : d # e => Before(d, e) \/ Before(e, d)
           /\ \A d, e, f \in DOMAIN documents : Before(d, e) /\ Before(e, f) => Before(d, f)
  <1>1. \A d \in DOMAIN documents : /\ d \in Nat
                                    /\ documents[d].name \in Name
                                    /\ documents[d].created \in Nat
    BY ListAssumption DEF ListTypeOK, Attributes
  <1>2. /\ \A n \in Name : Rank[n] \in Nat
        /\ \A m, n \in Name : Rank[m] = Rank[n] => m = n
    BY ListAssumption
  <1> QED
    BY <1>1, <1>2 DEF Before

(* A list is of finitely many documents. *)
LEMMA SelectedIsFinite ==
    ASSUME ListTypeOK, NEW q
    PROVE  /\ IsFiniteSet(Selected(q)) /\ Selected(q) \subseteq DOMAIN documents
           /\ \A d : IsFiniteSet(Ahead(q, d)) /\ Cardinality(Ahead(q, d)) \in Nat
  <1>1. Selected(q) \subseteq DOMAIN documents /\ DOMAIN documents \subseteq Id
    BY DEF Selected, ListTypeOK
  <1>2. IsFiniteSet(Selected(q))
    BY <1>1, ListAssumption, FS_Subset
  <1>3. \A d : Ahead(q, d) \in SUBSET Selected(q)
    BY DEF Ahead
  <1> QED
    BY <1>1, <1>2, <1>3, FS_Subset, FS_CardinalityType

(* What comes later has more before it. *)
LEMMA LaterHasMoreAhead ==
    ASSUME ListTypeOK, NEW q, NEW d \in Selected(q), NEW e \in Selected(q), Before(d, e)
    PROVE  Cardinality(Ahead(q, d)) < Cardinality(Ahead(q, e))
  <1>1. Ahead(q, d) \in SUBSET Ahead(q, e)
    BY BeforeIsTotalOrder, SelectedIsFinite DEF Ahead
  <1>2. d \in Ahead(q, e) /\ d \notin Ahead(q, d)
    BY BeforeIsTotalOrder, SelectedIsFinite DEF Ahead
  <1>3. Cardinality(Ahead(q, d)) # Cardinality(Ahead(q, e))
    BY <1>1, <1>2, SelectedIsFinite, FS_Subset
  <1> QED
    BY <1>1, <1>3, SelectedIsFinite, FS_Subset

(* A limited list is no longer than its limit: its last document has all   *)
(* the others before it.                                                   *)
LEMMA ListIsWithinLimit ==
    ASSUME ListTypeOK, NEW q, q.limit \in Nat, q.limit > 0
    PROVE  IsFiniteSet(Listed(q)) /\ Cardinality(Listed(q)) <= q.limit
  <1> DEFINE L == Listed(q)
             rank(d) == Cardinality(Ahead(q, d))
  <1>1. /\ L \in SUBSET Selected(q) /\ IsFiniteSet(L)
        /\ \A d \in L : rank(d) \in Nat /\ rank(d) < q.limit
    <2>1. L \in SUBSET Selected(q)
      BY DEF Listed
    <2>2. IsFiniteSet(L)
      BY <2>1, SelectedIsFinite, FS_Subset
    <2> QED
      BY <2>1, <2>2, SelectedIsFinite DEF Listed, Ahead
  <1>2. CASE L = {}
    BY <1>1, <1>2, FS_EmptySet
  <1>3. CASE L # {}
    <2> DEFINE T == {q.limit - rank(d) : d \in L}
    <2>1. T \subseteq Nat /\ T # {}
      <3> HIDE DEF rank, L
      <3> QED
        BY <1>1, <1>3
    <2>2. PICK x \in T : \A y \in T : x <= y
      <3> HIDE DEF T
      <3> QED
        BY <2>1, LeastNumber
    <2>3. PICK last \in L : x = q.limit - rank(last)
      BY <2>2
    <2>4. \A d \in L : rank(d) <= rank(last)
      <3> SUFFICES ASSUME NEW d \in L PROVE rank(d) <= rank(last)
        OBVIOUS
      <3>1. q.limit - rank(last) <= q.limit - rank(d)
        BY <2>2, <2>3
      <3> HIDE DEF rank, L
      <3> QED
        BY <1>1, <3>1
    <2>5. \A d \in L : d # last => Before(d, last)
      <3> SUFFICES ASSUME NEW d \in L, d # last, ~Before(d, last) PROVE FALSE
        OBVIOUS
      <3>1. Before(last, d)
        BY <1>1, BeforeIsTotalOrder, SelectedIsFinite
      <3>2. rank(last) < rank(d)
        BY <1>1, <3>1, LaterHasMoreAhead
      <3> HIDE DEF rank, L
      <3> QED
        BY <1>1, <2>4, <3>2
    <2>6. L \in SUBSET (Ahead(q, last) \cup {last})
      BY <1>1, <2>5 DEF Ahead
    <2>7. /\ IsFiniteSet(Ahead(q, last) \cup {last})
          /\ Cardinality(Ahead(q, last) \cup {last}) <= rank(last) + 1
      <3>1. IsFiniteSet(Ahead(q, last)) /\ rank(last) \in Nat
        BY SelectedIsFinite
      <3>2. Cardinality(Ahead(q, last) \cup {last}) \in {rank(last), rank(last) + 1}
        BY <3>1, FS_AddElement
      <3>3. IsFiniteSet(Ahead(q, last) \cup {last})
        BY <3>1, FS_AddElement
      <3> HIDE DEF rank
      <3> QED
        BY <3>1, <3>2, <3>3
    <2>8. Cardinality(L) <= Cardinality(Ahead(q, last) \cup {last})
      BY <2>6, <2>7, FS_Subset
    <2>9. Cardinality(L) \in Nat /\ Cardinality(Ahead(q, last) \cup {last}) \in Nat
      BY <1>1, <2>7, FS_CardinalityType
    <2> HIDE DEF rank, L
    <2>10. Cardinality(L) <= q.limit
      BY <1>1, <2>7, <2>8, <2>9
    <2> QED
      BY <1>1, <2>10 DEF L
  <1> QED
    BY <1>2, <1>3

(* When something is left out, the limit is used up, by what comes before  *)
(* everything that is left out.                                            *)
LEMMA LimitIsUsedUp ==
    ASSUME ListTypeOK, NEW q, q.limit \in Nat, Selected(q) # Listed(q)
    PROVE  /\ q.limit > 0 /\ Cardinality(Listed(q)) = q.limit
           /\ \A d \in Listed(q), e \in Selected(q) \ Listed(q) : Before(d, e)
  <1> DEFINE rank(d) == Cardinality(Ahead(q, d))
             Out == Selected(q) \ Listed(q)
  <1>1. Listed(q) \subseteq Selected(q) /\ Out # {} /\ q.limit > 0
    <2>1. Listed(q) \subseteq Selected(q)
      BY DEF Listed
    <2>2. q.limit # 0
      BY <2>1 DEF Listed
    <2> QED
      BY <2>1, <2>2
  <1>2. /\ \A d \in Listed(q) : rank(d) \in Nat /\ rank(d) < q.limit
        /\ \A d \in Out : rank(d) \in Nat /\ q.limit <= rank(d)
    BY <1>1, SelectedIsFinite DEF Listed, Ahead
  <1>3. \A d \in Listed(q), e \in Out : Before(d, e)
    <2> SUFFICES ASSUME NEW d \in Listed(q), NEW e \in Out, ~Before(d, e) PROVE FALSE
      OBVIOUS
    <2>1. Before(e, d)
      BY <1>1, BeforeIsTotalOrder, SelectedIsFinite
    <2>2. rank(e) < rank(d)
      BY <1>1, <2>1, LaterHasMoreAhead
    <2> HIDE DEF rank
    <2> QED
      BY <1>2, <2>2
  <1>4. PICK e \in Out : \A f \in Out : rank(e) <= rank(f)
    <2> DEFINE T == {rank(f) : f \in Out}
    <2> HIDE DEF rank
    <2>1. T \subseteq Nat /\ T # {}
      BY <1>1, <1>2
    <2>2. PICK x \in T : \A y \in T : x <= y
      <3> HIDE DEF T
      <3> QED
        BY <2>1, LeastNumber
    <2> QED
      BY <2>2
  <1>5. Ahead(q, e) \in SUBSET Listed(q)
    <2> SUFFICES ASSUME NEW f \in Ahead(q, e), f \notin Listed(q) PROVE FALSE
      OBVIOUS
    <2>1. f \in Out /\ Before(f, e)
      BY DEF Ahead
    <2>2. rank(f) < rank(e)
      BY <2>1, LaterHasMoreAhead
    <2> HIDE DEF rank
    <2> QED
      BY <1>2, <1>4, <2>1, <2>2
  <1>6. IsFiniteSet(Listed(q)) /\ Cardinality(Listed(q)) <= q.limit
    BY <1>1, ListIsWithinLimit
  <1>7. rank(e) <= Cardinality(Listed(q)) /\ Cardinality(Listed(q)) \in Nat
    BY <1>5, <1>6, FS_Subset, FS_CardinalityType
  <1>8. Cardinality(Listed(q)) = q.limit
    <2> HIDE DEF rank
    <2> QED
      BY <1>2, <1>6, <1>7
  <1> QED
    BY <1>1, <1>3, <1>8

--------------------------------------------------------------------------------
(* Lists: the theorems. *)

(* The inductive invariant holds throughout every execution. *)
THEOREM ListInvariance == ListSpec => []ListInv
  BY ListInitInv, ListNextInv, PTL DEF ListSpec

(* Every variable keeps its type. *)
THEOREM ListTypeCorrectness == ListSpec => []ListTypeOK
  BY ListInvariance, PTL DEF ListInv

(* However values are spelled and whoever asks, an answer from the cache   *)
(* is the answer of the database.                                          *)
THEOREM AnswersAreOwnLists == ListSpec => []AnswerIsOwnList
  <1>1. ListInv => AnswerIsOwnList
    BY DEF ListInv, AnswerInv, AnswerIsOwnList
  <1> QED
    BY <1>1, ListInvariance, PTL

(* A list shows what a read would, in order, as far as its limit allows. *)
THEOREM ListsAgreeWithReads == ListSpec => []ListAgreesWithRead
  <1>1. ListInv => ListAgreesWithRead
    <2> SUFFICES ASSUME ListInv, answer.status = "ok" PROVE ListAgreesWithRead
      BY DEF ListAgreesWithRead
    <2> DEFINE readable == {d \in DOMAIN documents :
                              Accessible(d, request.user) /\ documents[d].owner = Owner(request)}
               leftOut == readable \ answer.ids
    <2>1. ListTypeOK /\ answer.ids = Listed(request) /\ request.limit \in Nat
      BY ListAssumption DEF ListInv, AnswerInv, ValidQueries, Request
    <2>2. Listed(request) \subseteq Selected(request) /\ Selected(request) \subseteq readable
      BY DEF Listed, Selected, Accessible
    <2>3. request.limit > 0 => Cardinality(answer.ids) <= request.limit
      BY <2>1, ListIsWithinLimit
    <2>4. ASSUME request.key = NoKey, leftOut # {}
          PROVE  /\ request.limit = Cardinality(answer.ids)
                 /\ \A d \in answer.ids, e \in leftOut : Before(d, e)
      <3>1. readable = Selected(request)
        BY <2>4, <2>2 DEF Selected, Accessible, Matches
      <3> QED
        BY <2>1, <2>4, <3>1, LimitIsUsedUp
    <2> QED
      BY <2>1, <2>2, <2>3, <2>4 DEF ListAgreesWithRead
  <1> QED
    BY <1>1, ListInvariance, PTL
===============================================================================
