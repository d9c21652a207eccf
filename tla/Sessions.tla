------------------------------ MODULE Sessions ------------------------------
(***************************************************************************)
(* Sessions and logins of the Gomoku server: SessionManager::getSession    *)
(* over MemorySessionStorage (src/HttpServer/HTTP/src/session), and the    *)
(* handlers of WebAPP/Gomoku that read and write sessions and              *)
(* GomokuServer::online_users: LoginHandler, LogoutHandler,                *)
(* AiGameStartHandler and restartChessGameVsAi.                            *)
(*                                                                         *)
(* A client is a browser with its own connection; main.cpp starts four    *)
(* I/O threads, so the handlers of different clients run concurrently.    *)
(* LoginHandler is split where it reads or writes online_users and        *)
(* maxOnline_; the other handlers touch shared state once and are single  *)
(* steps.  A session is the data of its Session object: the userId and    *)
(* isLoggedIn values and expiryTime_.  The clock ticks in units of         *)
(* maxAge_ fractions up to a bound.                                        *)
(***************************************************************************)
EXTENDS Naturals, FiniteSets

CONSTANTS
    Clients,    \* browsers, one connection each
    Users,      \* user ids queryUser can return
    Ids,        \* session ids generateSessionId can return
    MaxAge,     \* Session::maxAge_ in clock ticks
    TMax,       \* bound on the clock
    NoId, NoUser, NoSess, Wrong, Malformed, NoBody, AI, MAN

VARIABLES
    now,        \* std::chrono::system_clock::now()
    store,      \* MemorySessionStorage::sessions_: id -> session data or NoSess
    cookie,     \* the sessionId cookie each browser sends
    online,     \* the keys of GomokuServer::online_users (every value is true)
    maxOnline,  \* GomokuServer::maxOnline_
    games,      \* the keys of GomokuServer::game_map_
    pc,         \* where each client's LoginHandler is
    user,       \* the userId of the login in progress
    seen,       \* the online_users.size() and maxOnline_.load() it read
    resp        \* status of each client's last response

vars == <<now, store, cookie, online, maxOnline, games, pc, user, seen, resp>>

Sess == [user : Users \cup {NoUser}, logged : BOOLEAN, expiry : 0..(TMax + MaxAge)]

TypeOK ==
    /\ now \in 0..TMax
    /\ store \in [Ids -> Sess \cup {NoSess}]
    /\ cookie \in [Clients -> Ids \cup {NoId}]
    /\ online \subseteq Users /\ games \subseteq Users
    /\ pc \in [Clients -> {"idle", "check", "insert", "max", "store"}]
    /\ resp \in [Clients -> {0, 200, 400, 401, 403, 500}]

Init ==
    /\ now = 0
    /\ store = [i \in Ids |-> NoSess]
    /\ cookie = [c \in Clients |-> NoId]
    /\ online = {} /\ games = {}
    /\ maxOnline = 0
    /\ pc = [c \in Clients |-> "idle"]
    /\ user = [c \in Clients |-> NoUser]
    /\ seen = [c \in Clients |-> <<0, 0>>]
    /\ resp = [c \in Clients |-> 0]
-----------------------------------------------------------------------------
(* SessionManager, Session and MemorySessionStorage.                        *)

\* Session::isExpired.
IsExpired(s) == now > s.expiry

\* MemorySessionStorage::load finds an unexpired session under the cookie.
Reuse(c) == cookie[c] # NoId /\ store[cookie[c]] # NoSess /\ ~IsExpired(store[cookie[c]])

\* load erases the expired session it finds.
Loaded(c) ==
    IF cookie[c] # NoId /\ store[cookie[c]] # NoSess /\ IsExpired(store[cookie[c]])
    THEN [store EXCEPT ![cookie[c]] = NoSess]
    ELSE store

\* generateSessionId: an id no session and no browser holds.
FreshIds == {i \in Ids : store[i] = NoSess /\ \A c \in Clients : cookie[c] # i}

\* The ids getSession may hand to c.
GotIds(c) == IF Reuse(c) THEN {cookie[c]} ELSE FreshIds

\* getSession's session after refresh(): the stored one, or a new empty one.
Got(c) ==
    LET d == IF Reuse(c) THEN store[cookie[c]]
             ELSE [user |-> NoUser, logged |-> FALSE, expiry |-> 0]
    IN [d EXCEPT !.expiry = now + MaxAge]

\* storage_->save, as getSession and every setValue do, and the cookie the
\* response sets.
Save(c, id, s) ==
    /\ store' = [Loaded(c) EXCEPT ![id] = s]
    /\ cookie' = [cookie EXCEPT ![c] = id]
-----------------------------------------------------------------------------
(* LoginHandler::handle.                                                    *)

\* Lines 7-38: a request with no JSON body or a body that does not parse is
\* a 400, wrong credentials a 401; otherwise the session gets the userId
\* and isLoggedIn before online_users is consulted.
LoginStart(c, cred) ==
    /\ pc[c] = "idle"
    /\ \/ /\ cred = Malformed
          /\ resp' = [resp EXCEPT ![c] = 400]
          /\ UNCHANGED <<store, cookie, pc, user>>
       \/ /\ cred = Wrong
          /\ resp' = [resp EXCEPT ![c] = 401]
          /\ UNCHANGED <<store, cookie, pc, user>>
       \/ /\ cred \in Users
          /\ \E id \in GotIds(c) :
                Save(c, id, [Got(c) EXCEPT !.user = cred, !.logged = TRUE])
          /\ pc' = [pc EXCEPT ![c] = "check"]
          /\ user' = [user EXCEPT ![c] = cred]
          /\ UNCHANGED resp
    /\ UNCHANGED <<now, online, maxOnline, games, seen>>

\* Line 39, without the lock: a user already online gets the 403.
LoginCheck(c) ==
    /\ pc[c] = "check"
    /\ IF user[c] \notin online
       THEN /\ pc' = [pc EXCEPT ![c] = "insert"]
            /\ UNCHANGED resp
       ELSE /\ pc' = [pc EXCEPT ![c] = "idle"]
            /\ resp' = [resp EXCEPT ![c] = 403]
    /\ UNCHANGED <<now, store, cookie, online, maxOnline, games, user, seen>>

\* Lines 41-44: online_users[userId] = true under mutexForOnlineUsers_.
LoginInsert(c) ==
    /\ pc[c] = "insert"
    /\ online' = online \cup {user[c]}
    /\ pc' = [pc EXCEPT ![c] = "max"]
    /\ UNCHANGED <<now, store, cookie, maxOnline, games, user, seen, resp>>

\* Line 47 and updateMaxOnline's load: online_users.size() and maxOnline_.
LoginReadMax(c) ==
    /\ pc[c] = "max"
    /\ seen' = [seen EXCEPT ![c] = <<Cardinality(online), maxOnline>>]
    /\ pc' = [pc EXCEPT ![c] = "store"]
    /\ UNCHANGED <<now, store, cookie, online, maxOnline, games, user, resp>>

\* updateMaxOnline's store of std::max, then the 200.
LoginStoreMax(c) ==
    /\ pc[c] = "store"
    /\ maxOnline' = IF seen[c][1] > seen[c][2] THEN seen[c][1] ELSE seen[c][2]
    /\ pc' = [pc EXCEPT ![c] = "idle"]
    /\ resp' = [resp EXCEPT ![c] = 200]
    /\ UNCHANGED <<now, store, cookie, online, games, user, seen>>
-----------------------------------------------------------------------------
(* LogoutHandler, AiGameStartHandler, restartChessGameVsAi.                *)

\* LogoutHandler::handle.  Without a JSON body it is a 400.  getSession
\* comes first; a session without a userId makes std::stoi throw (500).
\* Otherwise the session is cleared and removed from storage, and only
\* then is the body parsed: a body without a gameType is a 500 that leaves
\* online_users alone.  The user leaves online_users under its lock and,
\* for MAN_VS_AI, game_map_ under mutexForAiGames_.
Logout(c, body) ==
    /\ pc[c] = "idle"
    /\ \/ /\ body = NoBody
          /\ resp' = [resp EXCEPT ![c] = 400]
          /\ UNCHANGED <<store, cookie, online, games>>
       \/ /\ body # NoBody
          /\ \E id \in GotIds(c) :
                LET s == Got(c) IN
                IF s.user = NoUser
                THEN /\ Save(c, id, s)
                     /\ resp' = [resp EXCEPT ![c] = 500]
                     /\ UNCHANGED <<online, games>>
                ELSE /\ store' = [Loaded(c) EXCEPT ![id] = NoSess]
                     /\ cookie' = [cookie EXCEPT ![c] = id]
                     /\ IF body = Malformed
                        THEN /\ resp' = [resp EXCEPT ![c] = 500]
                             /\ UNCHANGED <<online, games>>
                        ELSE /\ online' = online \ {s.user}
                             /\ games' = IF body = AI THEN games \ {s.user} ELSE games
                             /\ resp' = [resp EXCEPT ![c] = 200]
    /\ UNCHANGED <<now, maxOnline, pc, user, seen>>

\* A handler that opens a new AiGame for a logged-in session: getSession,
\* the isLoggedIn test (denied with the given status), then the userId's
\* game_map_ entry replaced under mutexForAiGames_.
OpenGame(c, denied) ==
    /\ pc[c] = "idle"
    /\ \E id \in GotIds(c) : Save(c, id, Got(c))
    /\ IF Got(c).logged
       THEN /\ games' = games \cup {Got(c).user}
            /\ resp' = [resp EXCEPT ![c] = 200]
       ELSE /\ resp' = [resp EXCEPT ![c] = denied]
            /\ UNCHANGED games
    /\ UNCHANGED <<now, online, maxOnline, pc, user, seen>>

\* AiGameStartHandler::handle (a 400 when not logged in).
StartGame(c) == OpenGame(c, 400)

\* GomokuServer::restartChessGameVsAi (a 401 when not logged in).
Restart(c) == OpenGame(c, 401)

\* Time passes.
Tick ==
    /\ now < TMax
    /\ now' = now + 1
    /\ UNCHANGED <<store, cookie, online, maxOnline, games, pc, user, seen, resp>>

Next ==
    \/ \E c \in Clients :
          \/ \E cred \in Users \cup {Wrong, Malformed} : LoginStart(c, cred)
          \/ LoginCheck(c) \/ LoginInsert(c) \/ LoginReadMax(c) \/ LoginStoreMax(c)
          \/ \E body \in {NoBody, Malformed, AI, MAN} : Logout(c, body)
          \/ StartGame(c) \/ Restart(c)
    \/ Tick

Spec == Init /\ [][Next]_vars
-----------------------------------------------------------------------------
(* Properties.                                                              *)

\* The live sessions that say user u is logged in.
LoggedInSessions(u) ==
    {i \in Ids : store[i] # NoSess /\ ~IsExpired(store[i])
                 /\ store[i].logged /\ store[i].user = u}

(* LoginHandler refuses a second login of a user who is online ("already  *)
(* logged in elsewhere", 403): at no time do two live sessions both carry *)
(* isLoggedIn for the same user.                                           *)
OneLoginPerUser == \A u \in Users : Cardinality(LoggedInSessions(u)) <= 1

=============================================================================
