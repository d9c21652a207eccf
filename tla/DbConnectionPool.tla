-------------------------- MODULE DbConnectionPool --------------------------
(***************************************************************************)
(* http::db::DbConnectionPool (src/HttpServer/HTTP/src/utils/db/            *)
(* DbConnectionPool.cpp) with the DbConnection calls it makes and           *)
(* MySqlUtil, the only caller.  Worker threads of the HTTP server run       *)
(* MySqlUtil::executeQuery/executeUpdate: getConnection() takes a           *)
(* connection from connections_ under mutex_ (waiting on cv_ while it is    *)
(* empty), pings it outside the lock, reconnects a dead one, and returns a  *)
(* shared_ptr whose deleter pushes the connection back and notifies one     *)
(* waiter.  The detached check thread started by init() copies the idle    *)
(* connections under mutex_ and pings and reconnects the copies outside it. *)
(* The database server may drop a connection at any time.                   *)
(*                                                                          *)
(* The pool is modelled from the end of init() (main.cpp calls             *)
(* MySqlUtil::init before the server starts), so initialized_ is TRUE and   *)
(* getConnection's "not initialized" exception is not reachable.  SQL text  *)
(* and result sets are abstracted: a call on a connection succeeds or       *)
(* throws according to whether the connection is alive.                     *)
(***************************************************************************)
EXTENDS Naturals, Sequences, FiniteSets

CONSTANTS
    Workers,    \* threads calling MySqlUtil
    Conns,      \* the poolSize connections created by init()
    MaxReqs,    \* requests per worker
    MaxDrops,   \* connections the database server drops
    NoConn      \* model value: no connection held

VARIABLES
    queue,      \* connections_ (std::queue, front = Head)
    waiting,    \* threads blocked in cv_.wait(lock)
    pc,         \* [Workers -> position in MySqlUtil / getConnection]
    held,       \* [Workers -> the connection the thread took, or NoConn]
    reqs,       \* [Workers -> requests begun]
    alive,      \* [Conns -> the server side of the connection is up]
    drops,      \* connections dropped so far
    cpc,        \* position of the check thread in checkConnections()
    csnap,      \* connsToCheck: the copy of connections_
    cidx        \* index of the range-for loop over connsToCheck

vars == <<queue, waiting, pc, held, reqs, alive, drops, cpc, csnap, cidx>>

PCs == {"idle", "get", "ping", "reconnect", "call"}
CPCs == {"snap", "sleep", "ping", "reconnect"}

\* The positions in which a worker is inside a call on its connection.
Using == {"ping", "reconnect", "call"}

TypeOK ==
    /\ queue \in Seq(Conns)
    /\ waiting \subseteq Workers
    /\ pc \in [Workers -> PCs]
    /\ held \in [Workers -> Conns \cup {NoConn}]
    /\ reqs \in [Workers -> 0..MaxReqs]
    /\ alive \in [Conns -> BOOLEAN]
    /\ drops \in 0..MaxDrops
    /\ cpc \in CPCs
    /\ csnap \in Seq(Conns)
    /\ cidx \in 0..Cardinality(Conns)

\* The sequence of a set: init() pushes its new connections one by one.
RECURSIVE SeqOf(_)
SeqOf(S) == IF S = {} THEN <<>>
            ELSE LET c == CHOOSE x \in S : TRUE IN <<c>> \o SeqOf(S \ {c})

\* After init(): every connection alive and idle, the check thread started.
Init ==
    /\ queue = SeqOf(Conns)
    /\ waiting = {}
    /\ pc = [w \in Workers |-> "idle"]
    /\ held = [w \in Workers |-> NoConn]
    /\ reqs = [w \in Workers |-> 0]
    /\ alive = [c \in Conns |-> TRUE]
    /\ drops = 0
    /\ cpc = "snap"
    /\ csnap = <<>>
    /\ cidx = 0

\* The check thread sleeps for a second holding mutex_ when the pool is
\* empty; every other use of mutex_ waits for it.
Locked == cpc = "sleep"

\* cv_.notify_one(): one blocked thread, if any, leaves the wait set and
\* will re-acquire mutex_ and re-test the loop condition.
NotifyOne ==
    IF waiting = {} THEN UNCHANGED waiting
    ELSE \E x \in waiting : waiting' = waiting \ {x}

\* The deleter of the returned shared_ptr, also the catch block of
\* getConnection: push the connection back under mutex_ and notify.
GiveBack(w) ==
    /\ ~Locked
    /\ queue' = Append(queue, held[w])
    /\ NotifyOne
    /\ held' = [held EXCEPT ![w] = NoConn]
    /\ pc' = [pc EXCEPT ![w] = "idle"]
-----------------------------------------------------------------------------
(* Worker threads.                                                          *)

\* A handler calls MySqlUtil::executeQuery or executeUpdate.
Request(w) ==
    /\ pc[w] = "idle"
    /\ reqs[w] < MaxReqs
    /\ pc' = [pc EXCEPT ![w] = "get"]
    /\ reqs' = [reqs EXCEPT ![w] = @ + 1]
    /\ UNCHANGED <<queue, waiting, held, alive, drops, cpc, csnap, cidx>>

\* getConnection() under mutex_: wait on cv_ while connections_ is empty,
\* else take the front connection and release the lock.
Get(w) ==
    /\ pc[w] = "get"
    /\ w \notin waiting
    /\ ~Locked
    /\ \/ /\ queue = <<>>
          /\ waiting' = waiting \cup {w}
          /\ UNCHANGED <<queue, pc, held>>
       \/ /\ queue # <<>>
          /\ held' = [held EXCEPT ![w] = Head(queue)]
          /\ queue' = Tail(queue)
          /\ pc' = [pc EXCEPT ![w] = "ping"]
          /\ UNCHANGED waiting
    /\ UNCHANGED <<reqs, alive, drops, cpc, csnap, cidx>>

\* cv_.wait may return without a notify.
SpuriousWakeup(w) ==
    /\ w \in waiting
    /\ waiting' = waiting \ {w}
    /\ UNCHANGED <<queue, pc, held, reqs, alive, drops, cpc, csnap, cidx>>

\* conn->ping() outside the lock: SELECT 1 succeeds iff the connection is up.
Ping(w) ==
    /\ pc[w] = "ping"
    /\ pc' = [pc EXCEPT ![w] = IF alive[held[w]] THEN "call" ELSE "reconnect"]
    /\ UNCHANGED <<queue, waiting, held, reqs, alive, drops, cpc, csnap, cidx>>

\* conn->reconnect(): either the connection is up again and getConnection
\* returns it, or DbException is thrown and the catch block gives it back.
Reconnect(w) ==
    /\ pc[w] = "reconnect"
    /\ \/ /\ alive' = [alive EXCEPT ![held[w]] = TRUE]
          /\ pc' = [pc EXCEPT ![w] = "call"]
          /\ UNCHANGED <<queue, waiting, held>>
       \/ /\ GiveBack(w)
          /\ UNCHANGED alive
    /\ UNCHANGED <<reqs, drops, cpc, csnap, cidx>>

\* Mutant: the deleter pushes the connection back without notify_one.
CallNoNotify(w) ==
    /\ pc[w] = "call"
    /\ ~Locked
    /\ queue' = Append(queue, held[w])
    /\ held' = [held EXCEPT ![w] = NoConn]
    /\ pc' = [pc EXCEPT ![w] = "idle"]
    /\ UNCHANGED <<waiting, reqs, alive, drops, cpc, csnap, cidx>>

\* conn->executeQuery/executeUpdate runs (or throws on a dead connection);
\* MySqlUtil returns and the last copy of the shared_ptr runs the deleter.
Call(w) ==
    /\ pc[w] = "call"
    /\ GiveBack(w)
    /\ UNCHANGED <<reqs, alive, drops, cpc, csnap, cidx>>
-----------------------------------------------------------------------------
(* The check thread, checkConnections().                                    *)

\* Mutant: the index loop runs one past the end of connsToCheck.
NextCheckPastEnd ==
    IF cidx <= Len(csnap)
    THEN /\ cidx' = cidx + 1 /\ cpc' = "ping" /\ UNCHANGED csnap
    ELSE /\ cidx' = 0 /\ cpc' = "snap" /\ csnap' = <<>>

\* Advance the range-for over connsToCheck; after the last one the thread
\* sleeps 60 s and starts the next round.
NextCheck ==
    IF cidx < Len(csnap)
    THEN /\ cidx' = cidx + 1 /\ cpc' = "ping" /\ UNCHANGED csnap
    ELSE /\ cidx' = 0 /\ cpc' = "snap" /\ csnap' = <<>>

\* Mutant: the copy loop pops connections_ itself instead of temp.
CheckSnapDrains ==
    /\ cpc = "snap"
    /\ ~Locked
    /\ \/ /\ queue = <<>>
          /\ cpc' = "sleep"
          /\ UNCHANGED <<csnap, cidx, queue>>
       \/ /\ queue # <<>>
          /\ csnap' = queue
          /\ cidx' = 1
          /\ cpc' = "ping"
          /\ queue' = <<>>
    /\ UNCHANGED <<waiting, pc, held, reqs, alive, drops>>

\* Lock mutex_; an empty pool means sleep(1) holding the lock, otherwise
\* copy the queue into connsToCheck and unlock.
CheckSnap ==
    /\ cpc = "snap"
    /\ ~Locked
    /\ \/ /\ queue = <<>>
          /\ cpc' = "sleep"
          /\ UNCHANGED <<csnap, cidx>>
       \/ /\ queue # <<>>
          /\ csnap' = queue
          /\ cidx' = 1
          /\ cpc' = "ping"
    /\ UNCHANGED <<queue, waiting, pc, held, reqs, alive, drops>>

\* The sleep ends; `continue` leaves the scope and unlocks mutex_.
CheckSleep ==
    /\ cpc = "sleep"
    /\ cpc' = "snap"
    /\ UNCHANGED <<queue, waiting, pc, held, reqs, alive, drops, csnap, cidx>>

\* conn->ping() on a copied connection, whoever holds it now.
CheckPing ==
    /\ cpc = "ping"
    /\ IF alive[csnap[cidx]] THEN NextCheck
       ELSE /\ cpc' = "reconnect" /\ UNCHANGED <<csnap, cidx>>
    /\ UNCHANGED <<queue, waiting, pc, held, reqs, alive, drops>>

\* conn->reconnect(); a failure is caught and logged.
CheckReconnect ==
    /\ cpc = "reconnect"
    /\ \E ok \in BOOLEAN :
          alive' = IF ok THEN [alive EXCEPT ![csnap[cidx]] = TRUE] ELSE alive
    /\ NextCheck
    /\ UNCHANGED <<queue, waiting, pc, held, reqs, drops>>
-----------------------------------------------------------------------------
(* The database server.                                                     *)

Drop(c) ==
    /\ alive[c]
    /\ drops < MaxDrops
    /\ alive' = [alive EXCEPT ![c] = FALSE]
    /\ drops' = drops + 1
    /\ UNCHANGED <<queue, waiting, pc, held, reqs, cpc, csnap, cidx>>
-----------------------------------------------------------------------------
Worker(w) == Get(w) \/ Ping(w) \/ Reconnect(w) \/ Call(w)

Checker == CheckSnap \/ CheckSleep \/ CheckPing \/ CheckReconnect

Next ==
    \/ \E w \in Workers : Request(w) \/ Worker(w) \/ SpuriousWakeup(w)
    \/ Checker
    \/ \E c \in Conns : Drop(c)

\* No fairness: the properties are safety.  A liveness property of
\* getConnection would need strong fairness on mutex_, which std::mutex
\* does not promise while the check thread sleeps holding it and
\* re-locks at once.
Spec == Init /\ [][Next]_vars
-----------------------------------------------------------------------------
(* Properties.                                                              *)

\* Occurrences of c in the queue.
InQueue(c) == Cardinality({i \in DOMAIN queue : queue[i] = c})

\* The threads inside a call on connection c: a worker pinging,
\* reconnecting or querying it, and the check thread pinging or
\* reconnecting its copy.
UsersOf(c) ==
    {w \in Workers : pc[w] \in Using /\ held[w] = c}
    \cup (IF cpc \in {"ping", "reconnect"} /\ csnap[cidx] = c
          THEN {"checkThread"} ELSE {})

(* Pool conservation: every connection created by init() is, at every      *)
(* moment, either once in connections_ or held by exactly one thread       *)
(* between getConnection's pop and the deleter or catch block that pushes  *)
(* it back; the check thread's copy never removes or duplicates one.       *)
PoolConservation ==
    \A c \in Conns : InQueue(c) + Cardinality({w \in Workers : held[w] = c}) = 1

(* No lost wake-up on cv_: while a thread is blocked in getConnection,     *)
(* every idle connection in connections_ is matched by a thread that is    *)
(* out of cv_.wait and about to re-test the queue; each push in the        *)
(* deleter and the catch block is followed by notify_one.                  *)
NoLostWakeup ==
    waiting # {} =>
        Len(queue) <= Cardinality({w \in Workers : pc[w] = "get" /\ w \notin waiting})

(* A MySQL connection is used by one thread at a time: getConnection hands *)
(* a connection to one worker only, and nothing else pings, reconnects or  *)
(* queries it until the deleter has given it back (sql::Connection is not  *)
(* thread-safe, and DbConnection::ping/reconnect take no lock).            *)
ExclusiveUse ==
    \A c \in Conns : Cardinality(UsersOf(c)) <= 1
=============================================================================
