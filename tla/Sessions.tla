-------------------------------- MODULE Sessions --------------------------------
(***************************************************************************)
(* Registration, authentication, authorisation and logout, with the tables *)
(* of users and of sessions.                                               *)
(*                                                                         *)
(* An account is known by the registration that made it, which also stands *)
(* for its password.  A token is drawn at random, so any token may be      *)
(* drawn twice; the table has its digest, and a digest stands for its      *)
(* token.  A request reads the clock and then makes one statement, in a    *)
(* transaction of its own: the time it compares with may have passed when  *)
(* the statement runs, and an error may hide that it took effect.          *)
(***************************************************************************)
EXTENDS Integers

CONSTANTS
    Login,
    Registration, Authentication, Authorization, Logout,   \* requests
    Token,
    NoAccount, NoToken,
    SessionTTL,         \* in units of the program's clock
    Precision,          \* units in one unit of a timestamp of the database
    Second,             \* timestamp units in one unit of created_at
    MaxTokenAttempts,
    MaxTime             \* bound of the model

ASSUME SessionsAssumption ==
    /\ NoAccount \notin Registration
    /\ NoToken \notin Token
    /\ SessionTTL \in Nat \ {0}
    /\ Precision \in Nat \ {0}
    /\ Second \in Nat \ {0}
    /\ MaxTokenAttempts \in Nat \ {0}
    /\ MaxTime \in Nat
    /\ Authorization \cap Logout = {}

VARIABLES
    time,               \* the clock
    users,              \* users[l]: the account with this login
    sessions,           \* sessions[t]: the session with this token
    login,              \* login[r]: what a registration asks for
    registered,         \* registered[r]: its answer
    authStep,           \* authStep[a]: progress of an authentication
    account,            \* account[a]: whom ByLogin found
    drawn,              \* drawn[a]: the token it has drawn
    expires,            \* expires[a]: the expiry it asks for
    attempt,            \* attempt[a]: conflicts so far
    checkStep,          \* checkStep[z]: progress of an authorisation
    user,               \* user[z]: its answer
    logoutStep,         \* logoutStep[o]: progress of a logout
    presented,          \* presented[q]: the token of an authorisation or logout
    asOf,               \* asOf[q]: the time it has read
    known, over         \* history: the token was handed out, or logged out
                        \* with success, before the authorisation began

tables == << users, sessions >>
register == << login, registered >>
authenticate == << authStep, account, drawn, expires, attempt >>
authorize == << checkStep, user, known, over >>
question == << presented, asOf >>
vars == << time, tables, register, authenticate, authorize, logoutStep, question >>

Query == Authorization \cup Logout

NoSession == [account |-> NoAccount, expires |-> 0, revoked |-> FALSE]

Init ==
    /\ time = 0
    /\ users = [l \in Login |-> NoAccount]
    /\ sessions = [t \in Token |-> NoSession]
    /\ login \in [Registration -> Login]
    /\ registered = [r \in Registration |-> "idle"]
    /\ authStep = [a \in Authentication |-> "idle"]
    /\ account = [a \in Authentication |-> NoAccount]
    /\ drawn = [a \in Authentication |-> NoToken]
    /\ expires = [a \in Authentication |-> 0]
    /\ attempt = [a \in Authentication |-> 0]
    /\ checkStep = [z \in Authorization |-> "idle"]
    /\ user = [z \in Authorization |-> NoAccount]
    /\ logoutStep = [o \in Logout |-> "idle"]
    /\ presented = [q \in Query |-> NoToken]
    /\ asOf = [q \in Query |-> 0]
    /\ known = [z \in Authorization |-> FALSE]
    /\ over = [z \in Authorization |-> FALSE]

Exists(t) == sessions[t].account # NoAccount

(* A time as the database keeps it: finer digits are cut off. *)
Timestamp(x) == x \div Precision

(* created_at: CURRENT_TIMESTAMP, rounded to the nearest second. *)
CreatedAt == ((Timestamp(time) + Second \div 2) \div Second) * Second

Tick == /\ time < MaxTime /\ time' = time + 1
        /\ UNCHANGED << tables, register, authenticate, authorize, logoutStep, question >>

--------------------------------------------------------------------------------
(* Registration: one INSERT under a unique login.  It may fail, or succeed *)
(* and be reported as failed; when the login is taken it does fail.        *)

Registers(r, answer) ==
    /\ registered[r] = "idle"
    /\ registered' = [registered EXCEPT ![r] = answer]
    /\ UNCHANGED << time, sessions, login, authenticate, authorize, logoutStep, question >>

InsertUser(r) == users' = [users EXCEPT ![login[r]] = r]

Register(r) ==
    \/ /\ users[login[r]] = NoAccount
       /\ \E answer \in {"ok", "refused"} : Registers(r, answer) /\ InsertUser(r)
    \/ Registers(r, "refused") /\ UNCHANGED users

--------------------------------------------------------------------------------
(* Authentication. *)

AuthStep(a, from, to) == /\ authStep[a] = from
                         /\ authStep' = [authStep EXCEPT ![a] = to]
                         /\ UNCHANGED << time, users, register, authorize, logoutStep, question >>

(* An error ends the request, and with it all it held. *)
Quit(a, from) == /\ AuthStep(a, from, "failed")
                 /\ account' = [account EXCEPT ![a] = NoAccount]
                 /\ drawn' = [drawn EXCEPT ![a] = NoToken]
                 /\ expires' = [expires EXCEPT ![a] = 0]
                 /\ attempt' = [attempt EXCEPT ![a] = 0]

(* The account of the login must have the password that is presented. *)
ByLogin(a) ==
    /\ \/ /\ \E l \in Login, password \in Registration :
                /\ users[l] = password
                /\ account' = [account EXCEPT ![a] = users[l]]
          /\ AuthStep(a, "idle", "draw")
          /\ UNCHANGED << drawn, expires, attempt >>
       \/ Quit(a, "idle")
    /\ UNCHANGED sessions

(* One turn of the loop draws a token and reads the clock, ... *)
DrawToken(a) ==
    /\ AuthStep(a, "draw", "create")
    /\ \E t \in Token : drawn' = [drawn EXCEPT ![a] = t]
    /\ expires' = [expires EXCEPT ![a] = time + SessionTTL]
    /\ UNCHANGED << sessions, account, attempt >>

EndsAfterCreation(a) == Timestamp(expires[a]) > CreatedAt

InsertSession(a) ==
    /\ EndsAfterCreation(a)
    /\ ~Exists(drawn[a])
    /\ sessions' = [sessions EXCEPT ![drawn[a]] =
                      [account |-> account[a], expires |-> Timestamp(expires[a]), revoked |-> FALSE]]

(* Mutation: a token that exists already is as good as a new one. *)
CreateSessionOrUseOther(a) ==
    /\ AuthStep(a, "create", "granted")
    /\ \/ InsertSession(a)
       \/ Exists(drawn[a]) /\ UNCHANGED sessions
    /\ UNCHANGED << account, drawn, expires, attempt >>

(* ... and inserts the session.  A conflict leads to another turn, if one  *)
(* is left; an error ends the loop, whether or not there is a session now. *)
CreateSession(a) ==
    \/ /\ AuthStep(a, "create", "granted")
       /\ InsertSession(a)
       /\ UNCHANGED << account, drawn, expires, attempt >>
    \/ /\ AuthStep(a, "create", "draw")
       /\ EndsAfterCreation(a) /\ Exists(drawn[a])
       /\ attempt[a] + 1 < MaxTokenAttempts
       /\ attempt' = [attempt EXCEPT ![a] = @ + 1]
       /\ UNCHANGED << sessions, account, drawn, expires >>
    \/ /\ Quit(a, "create")
       /\ InsertSession(a) \/ UNCHANGED sessions

--------------------------------------------------------------------------------
(* Authorisation and logout. *)

Ask(q) == /\ \E t \in Token : presented' = [presented EXCEPT ![q] = t]
          /\ asOf' = [asOf EXCEPT ![q] = time]

HandedOut(t) == \E a \in Authentication : authStep[a] = "granted" /\ drawn[a] = t

LoggedOut(t) == \E o \in Logout : logoutStep[o] = "ok" /\ presented[o] = t

CheckStep(z, from, to) == /\ checkStep[z] = from
                          /\ checkStep' = [checkStep EXCEPT ![z] = to]
                          /\ UNCHANGED << time, tables, register, authenticate, logoutStep >>

Authorize(z) == /\ CheckStep(z, "idle", "query")
                /\ Ask(z)
                /\ known' = [known EXCEPT ![z] = HandedOut(presented'[z])]
                /\ over' = [over EXCEPT ![z] = LoggedOut(presented'[z])]
                /\ UNCHANGED user

(* Mutations: a session that ends just now, or one that was revoked, counts. *)
UsableToTheEnd(q) == LET s == sessions[presented[q]] IN
    Exists(presented[q]) /\ ~s.revoked /\ s.expires >= Timestamp(asOf[q])

UsableThoughRevoked(q) == LET s == sessions[presented[q]] IN
    Exists(presented[q]) /\ s.expires > Timestamp(asOf[q])

Usable(q) == LET s == sessions[presented[q]] IN
    Exists(presented[q]) /\ ~s.revoked /\ s.expires > Timestamp(asOf[q])

ByTokenHash(z) ==
    /\ \/ /\ CheckStep(z, "query", "authorized") /\ Usable(z)
          /\ user' = [user EXCEPT ![z] = sessions[presented[z]].account]
       \/ CheckStep(z, "query", "refused") /\ ~Usable(z) /\ UNCHANGED user
       \/ CheckStep(z, "query", "failed") /\ UNCHANGED user
    /\ UNCHANGED << known, over, question >>

LogoutStep(o, from, to) == /\ logoutStep[o] = from
                           /\ logoutStep' = [logoutStep EXCEPT ![o] = to]
                           /\ UNCHANGED << time, users, register, authenticate, authorize >>

BeginLogout(o) == LogoutStep(o, "idle", "update") /\ Ask(o) /\ UNCHANGED sessions

SetRevoked(o) == sessions' = [sessions EXCEPT ![presented[o]].revoked = TRUE]

(* An UPDATE of the session as long as it is usable, which may fail, or    *)
(* succeed and be reported as failed.                                      *)
Revoke(o) ==
    /\ \/ LogoutStep(o, "update", "ok") /\ Usable(o) /\ SetRevoked(o)
       \/ LogoutStep(o, "update", "failed") /\ Usable(o) /\ SetRevoked(o)
       \/ LogoutStep(o, "update", "failed") /\ UNCHANGED sessions
    /\ UNCHANGED question

--------------------------------------------------------------------------------

Next ==
    \/ Tick
    \/ \E r \in Registration : Register(r)
    \/ \E a \in Authentication : ByLogin(a) \/ DrawToken(a) \/ CreateSession(a)
    \/ \E z \in Authorization : Authorize(z) \/ ByTokenHash(z)
    \/ \E o \in Logout : BeginLogout(o) \/ Revoke(o)

Spec == Init /\ [][Next]_vars

--------------------------------------------------------------------------------
(* Properties *)

Account == Registration \cup {NoAccount}

(* Every variable has values of its kind, and only accounts have sessions. *)
TypeOK ==
    /\ time \in Nat
    /\ users \in [Login -> Account]
    /\ sessions \in [Token -> [account : Account, expires : Nat, revoked : BOOLEAN]]
    /\ \A t \in Token : ~Exists(t) => sessions[t] = NoSession
    /\ login \in [Registration -> Login]
    /\ registered \in [Registration -> {"idle", "ok", "refused"}]
    /\ authStep \in [Authentication -> {"idle", "draw", "create", "granted", "failed"}]
    /\ account \in [Authentication -> Account]
    /\ \A a \in Authentication : authStep[a] \in {"draw", "create", "granted"} => account[a] # NoAccount
    /\ drawn \in [Authentication -> Token \cup {NoToken}]
    /\ \A a \in Authentication : authStep[a] \in {"create", "granted"} => drawn[a] \in Token
    /\ expires \in [Authentication -> Nat]
    /\ attempt \in [Authentication -> 0..MaxTokenAttempts]
    /\ checkStep \in [Authorization -> {"idle", "query", "authorized", "refused", "failed"}]
    /\ user \in [Authorization -> Account]
    /\ logoutStep \in [Logout -> {"idle", "update", "ok", "failed"}]
    /\ presented \in [Query -> Token \cup {NoToken}]
    /\ \A z \in Authorization : checkStep[z] # "idle" => presented[z] \in Token
    /\ \A o \in Logout : logoutStep[o] # "idle" => presented[o] \in Token
    /\ asOf \in [Query -> Nat]
    /\ known \in [Authorization -> BOOLEAN]
    /\ over \in [Authorization -> BOOLEAN]

(* The login of an acknowledged registration stays with its account and    *)
(* password, whoever else asks for it later (users_login_unique).          *)
AccountIsNotTakenOver ==
    \A r \in Registration : registered[r] = "ok" => users[login[r]] = r

(* A token authorises the account it was handed out for: also when two     *)
(* authentications draw the same one (sessions_token_hash_unique).         *)
TokenNamesItsOwner ==
    \A z \in Authorization, a \in Authentication :
        /\ checkStep[z] = "authorized"
        /\ authStep[a] = "granted"
        /\ presented[z] = drawn[a]
        => user[z] = account[a]

(* After the answer to a successful logout, no authorisation that begins   *)
(* later accepts the token.                                                *)
LoggedOutStaysOut == \A z \in Authorization : over[z] => checkStep[z] # "authorized"

(* A request that begins when the token has expired, by the unrounded time *)
(* of the program, is refused.                                             *)
ExpiredIsRefused ==
    \A z \in Authorization, a \in Authentication :
        /\ checkStep[z] = "authorized"
        /\ authStep[a] = "granted"
        /\ presented[z] = drawn[a]
        => asOf[z] < expires[a]

(* A token that was handed out is accepted until its own logout or its     *)
(* expiry: rounding takes less than one unit of a timestamp off.           *)
SessionLastsItsTTL ==
    \A z \in Authorization, a \in Authentication :
        /\ checkStep[z] = "refused" /\ known[z]
        /\ authStep[a] = "granted"
        /\ presented[z] = drawn[a]
        => \/ expires[a] < asOf[z] + Precision
           \/ \E o \in Logout : presented[o] = drawn[a] /\ logoutStep[o] \in {"ok", "failed"}

(* At most one of the logouts of a session is told it has ended it.        *)
OneLogoutSucceeds ==
    \A o, p \in Logout :
        logoutStep[o] = "ok" /\ logoutStep[p] = "ok" /\ presented[o] = presented[p] => o = p

(* Whoever was told that a login or a token is his keeps it, whatever      *)
(* registrations and authentications run beside or after his own.          *)
NothingIsTakenOver == AccountIsNotTakenOver /\ TokenNamesItsOwner

(* A token is good until its logout or its expiry: not longer, and at most *)
(* by the rounding of the database shorter.                                *)
TokenLastsItsTime == ExpiredIsRefused /\ SessionLastsItsTTL
================================================================================
