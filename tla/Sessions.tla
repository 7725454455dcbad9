---------------------------------- MODULE Sessions ----------------------------------
(***************************************************************************)
(* Accounts and sessions: the account database with its login and reset    *)
(* transactions, and the windows of one browser, which share its cookie    *)
(* but each keep the token and the user they have been told of.            *)
(*                                                                         *)
(* A session's cookie and its csrf token are one identity; identities grow *)
(* with the expiry of the sessions.  A request carries the cookie that the *)
(* browser has when it is sent, and is served, and answered, later.        *)
(***************************************************************************)
EXTENDS Naturals, FiniteSets

CONSTANTS
    Users,
    Windows,      \* windows of the browser
    Polls,        \* requests a workspace may have under way
    MaxSessions,  \* bound: sessions ever created
    MaxResets,    \* bound: password resets of a user
    Kept,         \* sessions kept for a user
    None

ASSUME SessionBounds == MaxSessions \in Nat /\ MaxResets \in Nat /\ Kept \in Nat \ {0}

Ids == 1..MaxSessions

ASSUME Apart == None \notin Users \cup Ids /\ "unknown" \notin Users \cup {None}

VARIABLES
    password,  \* users.password_hash: a version for each user
    issued,    \* sessions created
    account,   \* [Ids -> user]
    version,   \* ghost: [Ids -> the version of the password it was opened with]
    live,      \* the rows of sessions that have not expired
    cookie,    \* the session cookie of the browser
    shown,     \* [Windows -> the user of the window, None at the login form, or "unknown"]
    token,     \* [Windows -> csrfToken]
    auth,      \* [Windows -> the request to log in, log out or look up the session]
    work       \* [Windows -> [Polls -> a request of the workspace]]

store == <<password, issued, account, version, live>>
page == <<shown, token>>
sessionVars == <<store, cookie, page, auth, work>>

Of(user) == {s \in live : account[s] = user}

\* setCsrfToken: what is under way belongs to an earlier generation.
SetCsrfToken(t, s) ==
    /\ token' = [token EXCEPT ![t] = s]
    /\ work' = [work EXCEPT ![t] = [p \in Polls |->
                    IF work[t][p] = None THEN None ELSE [work[t][p] EXCEPT !.current = FALSE]]]

Accept(t, s) ==
    /\ SetCsrfToken(t, s)
    /\ shown' = [shown EXCEPT ![t] = IF s = None THEN None ELSE account[s]]

Request(kind, user, secret, s, jar) ==
    [kind |-> kind, user |-> user, secret |-> secret, token |-> s, jar |-> jar, at |-> "sent", id |-> None]

ASSUME NoRequest == \A s \in Ids \cup {None} : Request("check", None, None, None, s) # None

-------------------------------------------------------------------------------
(***************************************************************************)
(* The account database                                                    *)
(***************************************************************************)
\* AuthStore.login up to the verified password, which is read and compared outside
\* of any transaction; or too many attempts were counted.
VerifyPassword(t) ==
    /\ auth[t] # None /\ auth[t].kind = "login" /\ auth[t].at = "sent"
    /\ \E at \in {"refused"} \cup IF auth[t].secret = password[auth[t].user] THEN {"verified"} ELSE {} :
         auth' = [auth EXCEPT ![t].at = at]
    /\ UNCHANGED <<store, cookie, page, work>>

\* The oldest sessions of the user beyond those kept.
Surplus(user, new) == {s \in Of(user) : Cardinality({r \in Of(user) \cup {new} : r > s}) >= Kept}

Open(t) ==
    /\ issued < MaxSessions
    /\ issued' = issued + 1
    /\ account' = [account EXCEPT ![issued'] = auth[t].user]
    /\ version' = [version EXCEPT ![issued'] = auth[t].secret]
    /\ live' = (live \ Surplus(auth[t].user, issued')) \cup {issued'}
    /\ auth' = [auth EXCEPT ![t].at = "granted", ![t].id = issued']

\* Seeded defect: the hash is not compared again.
CommitUnchecked(t) ==
    /\ auth[t] # None /\ auth[t].at = "verified"
    /\ Open(t)
    /\ UNCHANGED <<password, cookie, page, work>>

\* The transaction of AuthStore.login.
Commit(t) ==
    /\ auth[t] # None /\ auth[t].at = "verified"
    /\ IF auth[t].secret = password[auth[t].user]
         THEN Open(t)
         ELSE auth' = [auth EXCEPT ![t].at = "refused"] /\ UNCHANGED <<issued, account, version, live>>
    /\ UNCHANGED <<password, cookie, page, work>>

\* AuthStore.reset_password.
Reset(user) ==
    /\ password[user] < MaxResets
    /\ password' = [password EXCEPT ![user] = @ + 1]
    /\ live' = live \ Of(user)
    /\ UNCHANGED <<issued, account, version, cookie, page, auth, work>>

\* All sessions last equally long: the oldest expires.
Expire ==
    /\ \E s \in live : (\A r \in live : s <= r) /\ live' = live \ {s}
    /\ UNCHANGED <<password, issued, account, version, cookie, page, auth, work>>

\* Seeded defect: whatever session the cookie has.
AdmittedByCookie(call) == call.jar \in live

\* require_session: the cookie has a session, the one the window knows.
Admitted(call) == call.jar \in live /\ call.token = call.jar

ServeCheck(t) ==
    /\ auth[t] # None /\ auth[t].kind = "check" /\ auth[t].at = "sent"
    /\ auth' = [auth EXCEPT ![t].at = "granted", ![t].id = IF auth[t].jar \in live THEN auth[t].jar ELSE None]
    /\ UNCHANGED <<store, cookie, page, work>>

\* Seeded defect: whatever session the cookie has is ended.
ServeLogoutByCookie(t) ==
    /\ auth[t] # None /\ auth[t].kind = "logout" /\ auth[t].at = "sent"
    /\ live' = live \ {auth[t].jar}
    /\ auth' = [auth EXCEPT ![t].at = "granted"]
    /\ UNCHANGED <<password, issued, account, version, cookie, page, work>>

ServeLogout(t) ==
    /\ auth[t] # None /\ auth[t].kind = "logout" /\ auth[t].at = "sent"
    /\ live' = IF Admitted(auth[t]) THEN live \ {auth[t].jar} ELSE live
    /\ auth' = [auth EXCEPT ![t].at = IF Admitted(auth[t]) THEN "granted" ELSE "refused"]
    /\ UNCHANGED <<password, issued, account, version, cookie, page, work>>

ServeWork(t, p) ==
    /\ work[t][p] # None /\ work[t][p].reply = "none"
    /\ work' = [work EXCEPT ![t][p].reply = IF Admitted(work[t][p]) THEN "ok" ELSE "refused"]
    /\ UNCHANGED <<store, cookie, page, auth>>

-------------------------------------------------------------------------------
(***************************************************************************)
(* The windows                                                             *)
(***************************************************************************)
\* A window is opened or loaded again; AuthGate asks for the session.
Load(t) ==
    /\ shown' = [shown EXCEPT ![t] = "unknown"]
    /\ token' = [token EXCEPT ![t] = None]
    /\ work' = [work EXCEPT ![t] = [p \in Polls |-> None]]
    /\ auth' = [auth EXCEPT ![t] = Request("check", None, None, None, cookie)]
    /\ UNCHANGED <<store, cookie>>

Login(t, user) ==
    /\ shown[t] = None /\ auth[t] = None
    /\ auth' = [auth EXCEPT ![t] = Request("login", user, password[user], None, None)]
    /\ UNCHANGED <<store, cookie, page, work>>

Logout(t) ==
    /\ shown[t] \in Users /\ auth[t] = None
    /\ auth' = [auth EXCEPT ![t] = Request("logout", None, None, token[t], cookie)]
    /\ UNCHANGED <<store, cookie, page, work>>

\* The workspace polls.
Poll(t, p) ==
    /\ shown[t] \in Users /\ work[t][p] = None
    /\ work' = [work EXCEPT ![t][p] = [as |-> shown[t], token |-> token[t], jar |-> cookie,
                                       current |-> TRUE, reply |-> "none"]]
    /\ UNCHANGED <<store, cookie, page, auth>>

\* AuthGate gets the answer; a cookie that comes with it is set before.
Answer(t) ==
    /\ auth[t] # None /\ auth[t].at \in {"granted", "refused"}
    /\ auth' = [auth EXCEPT ![t] = None]
    /\ \/ /\ auth[t].kind = "login" /\ auth[t].at = "granted"
          /\ cookie' = auth[t].id
          /\ Accept(t, auth[t].id)
       \/ /\ auth[t].kind = "login" /\ auth[t].at = "refused"
          /\ UNCHANGED <<cookie, page, work>>
       \/ /\ auth[t].kind = "logout"
          /\ cookie' = IF auth[t].at = "granted" THEN None ELSE cookie
          /\ Accept(t, None)
       \/ /\ auth[t].kind = "check"
          /\ Accept(t, auth[t].id)
          /\ UNCHANGED cookie
    /\ UNCHANGED store

\* The connection fails, before or after the request was served.
Lose(t) ==
    /\ auth[t] # None
    /\ auth' = [auth EXCEPT ![t] = None]
    /\ UNCHANGED <<store, cookie, page, work>>

Dismiss(t, p) ==
    /\ token' = [token EXCEPT ![t] = None]
    /\ shown' = [shown EXCEPT ![t] = None]
    /\ work' = [work EXCEPT ![t] = [q \in Polls |->
                    IF q = p \/ work[t][q] = None THEN None ELSE [work[t][q] EXCEPT !.current = FALSE]]]

Done(t, p) == work' = [work EXCEPT ![t][p] = None] /\ UNCHANGED page

\* Seeded defect: a refusal is an error like any other.
AnswerWorkQuietly(t, p) ==
    /\ work[t][p] # None /\ work[t][p].reply # "none"
    /\ Done(t, p)
    /\ UNCHANGED <<store, cookie, auth>>

\* Seeded defect: the generation is not compared.
AnswerWorkAnytime(t, p) ==
    /\ work[t][p] # None /\ work[t][p].reply # "none"
    /\ IF work[t][p].reply = "refused" /\ token[t] # None THEN Dismiss(t, p) ELSE Done(t, p)
    /\ UNCHANGED <<store, cookie, auth>>

\* authenticatedFetch: a refusal ends the session of the window, unless the window
\* has got another since the request was sent.
AnswerWork(t, p) ==
    /\ work[t][p] # None /\ work[t][p].reply # "none"
    /\ IF work[t][p].reply = "refused" /\ work[t][p].current /\ token[t] # None
         THEN Dismiss(t, p) ELSE Done(t, p)
    /\ UNCHANGED <<store, cookie, auth>>

-------------------------------------------------------------------------------
SessionsInit ==
    /\ password = [u \in Users |-> 0]
    /\ issued = 0
    /\ account = [s \in Ids |-> None] /\ version = [s \in Ids |-> None]
    /\ live = {} /\ cookie = None
    /\ shown = [t \in Windows |-> "unknown"]
    /\ token = [t \in Windows |-> None]
    /\ auth = [t \in Windows |-> None]
    /\ work = [t \in Windows |-> [p \in Polls |-> None]]

SessionsNext ==
    \/ \E u \in Users : Reset(u)
    \/ Expire
    \/ \E t \in Windows : \/ VerifyPassword(t) \/ Commit(t) \/ ServeCheck(t) \/ ServeLogout(t)
                          \/ Load(t) \/ Logout(t) \/ Answer(t) \/ Lose(t)
                          \/ \E u \in Users : Login(t, u)
                          \/ \E p \in Polls : Poll(t, p) \/ ServeWork(t, p) \/ AnswerWork(t, p)

SessionsSpec == SessionsInit /\ [][SessionsNext]_sessionVars

\* The workspace polls as long as it is shown; the server and the network answer.
Fairness ==
    \A t \in Windows, p \in Polls :
        WF_sessionVars(Poll(t, p)) /\ WF_sessionVars(ServeWork(t, p)) /\ WF_sessionVars(AnswerWork(t, p))

FairSessionsSpec == SessionsSpec /\ Fairness

-------------------------------------------------------------------------------
(***************************************************************************)
(* Properties                                                              *)
(***************************************************************************)
\* Every variable has its type; requests name sessions that have been created.
Created == 1..issued
Known == Created \cup {None}

AuthRequests == [kind: {"check", "login", "logout"}, user: Users \cup {None}, secret: 0..MaxResets \cup {None},
                 token: Known, jar: Known, at: {"sent", "verified", "granted", "refused"}, id: Known]
WorkRequests == [as: Users, token: Created, jar: Known, current: BOOLEAN, reply: {"none", "ok", "refused"}]

SessionTypes ==
    /\ password \in [Users -> 0..MaxResets] /\ issued \in 0..MaxSessions
    /\ account \in [Ids -> Users \cup {None}] /\ version \in [Ids -> 0..MaxResets \cup {None}]
    /\ \A s \in Created : account[s] \in Users
    /\ live \subseteq Created /\ cookie \in Known
    /\ shown \in [Windows -> Users \cup {None, "unknown"}] /\ token \in [Windows -> Known]
    /\ auth \in [Windows -> AuthRequests \cup {None}]
    /\ work \in [Windows -> [Polls -> WorkRequests \cup {None}]]

\* A window has a token if and only if it shows the user of that session.
ShowsUser(t) == IF token[t] # None THEN shown[t] = account[token[t]] ELSE shown[t] \in {None, "unknown"}

\* Only logins have a password to verify; a lookup is made without a token.
Asks(t) ==
    auth[t] # None =>
        /\ auth[t].kind = "login" => auth[t].user \in Users
        /\ auth[t].kind = "check" => token[t] = None
        /\ auth[t].at = "verified" => auth[t].kind = "login"

\* What a window asks for is for the user it showed, in the generation of its token.
Polling(t, p) ==
    work[t][p] # None =>
        /\ work[t][p].as = account[work[t][p].token]
        /\ work[t][p].current => token[t] = work[t][p].token

WindowInv(t) == ShowsUser(t) /\ Asks(t) /\ \A p \in Polls : Polling(t, p)

\* The inductive invariant; a user has no more sessions than are kept.
SessionsInv ==
    /\ SessionTypes
    /\ \A t \in Windows : WindowInv(t)
    /\ \A u \in Users : Cardinality(Of(u)) <= Kept

\* A reset of the password ends every session opened with the old one, also that of
\* a login which has verified the old password before it (auth.py:128).
CurrentPassword == \A s \in live : version[s] = password[account[s]]

\* Sessions are known to their windows, few, and none outlives its password.
SessionsSound == SessionsInv /\ CurrentPassword

\* A request is served for the user whose window sent it, never for the one who has
\* logged in at another window since (docs/authentication.md:42).
WorkAsShown ==
    [][\A t \in Windows, p \in Polls :
         work[t][p] # None /\ work[t][p].reply = "none" /\ work'[t][p] # None /\ work'[t][p].reply = "ok"
         => account[work[t][p].jar] = work[t][p].as]_sessionVars

\* Outside of its own login and logout, a window goes back to the login form only
\* because its own session was refused (docs/authentication.md:58).
LateRefusal ==
    [][\A t \in Windows :
         token[t] # None /\ token'[t] # token[t] /\ auth'[t] = auth[t]
         => \E p \in Polls : work[t][p] # None /\ work[t][p].reply = "refused" /\ work[t][p].token = token[t]]_sessionVars

\* A session ends by a reset, by its age, for newer ones of its user, or by the
\* logout of a window that has it, never by that of another (docs/authentication.md:42).
EndedForCause ==
    [][\A s \in live \ live' :
         \/ password'[account[s]] # password[account[s]]
         \/ \A r \in live : s <= r
         \/ Cardinality({r \in live' : r > s /\ account'[r] = account[s]}) >= Kept
         \/ \E t \in Windows : auth[t] # None /\ auth[t].kind = "logout" /\ auth[t].token = s]_sessionVars

\* A window whose session has ended does not go on showing it
\* (docs/authentication.md:5).
Dismissed == \A t \in Windows, s \in Ids : token[t] = s /\ s \notin live ~> token[t] # s
===============================================================================
