---------------------------- MODULE DbConnection ----------------------------
(***************************************************************************)
(* The one libpq connection that sisterd's handlers share (DbConn in       *)
(* apps/sisterd/db.cpp) and the mutex around it (AppState::dbMutex in      *)
(* apps/sisterd/main.cpp).                                                 *)
(*                                                                         *)
(* A handler takes the mutex, if its route does, and calls one operation   *)
(* of DbConn.  The operation makes the connection ready, reopening it if   *)
(* it must, and runs its statements.  A call of libpq takes time: it       *)
(* begins with the pointer it is given and ends later, and other threads   *)
(* move in between.  libpq leaves it to its caller that only one thread at *)
(* a time is in a call on a connection.                                    *)
(***************************************************************************)
EXTENDS Naturals, FiniteSets

CONSTANTS Handlers,         \* worker threads with a request that needs the database
          Unlocked,         \* the handlers whose route calls DbConn without the mutex
          MaxConnections,   \* bound on the connections opened
          Nobody

\* A connection object is numbered when PQconnectdb() makes it; NULL is none.
Null == 0
Connections == 1..MaxConnections

VARIABLES
    conn,       \* conn_
    status,     \* of each connection object: "ok", "bad", "freed", or "none" yet
    opened,     \* connection objects made so far
    holder,     \* who has dbMutex
    pc,         \* where each handler is; "resetting" and "executing" are in libpq
    using       \* the object each handler's call of libpq works on

vars == <<conn, status, opened, holder, pc, using>>

\* DbConn() connects at once; the server may not be there.
Init ==
    /\ conn \in {Null, 1}
    /\ status = [c \in Connections |-> IF c = conn THEN "ok" ELSE "none"]
    /\ opened = conn
    /\ holder = Nobody
    /\ pc = [h \in Handlers |-> "idle"]
    /\ using = [h \in Handlers |-> Null]

Go(h, from, to) == pc[h] = from /\ pc' = [pc EXCEPT ![h] = to]

-----------------------------------------------------------------------------
(***************************************************************************)
(* The handler, around DbConn.                                             *)
(***************************************************************************)
Begin(h) ==
    /\ Go(h, "idle", IF h \in Unlocked THEN "ensure" ELSE "lock")
    /\ UNCHANGED <<conn, status, opened, holder, using>>

Lock(h) ==
    /\ holder = Nobody
    /\ Go(h, "lock", "ensure")
    /\ holder' = h
    /\ UNCHANGED <<conn, status, opened, using>>

\* GET /api/health only asks whether the connection is up.
AskStatus(h) ==
    /\ h \notin Unlocked
    /\ Go(h, "ensure", "done")
    /\ UNCHANGED <<conn, status, opened, holder, using>>

Finish(h) ==
    /\ Go(h, "done", "idle")
    /\ holder' = IF holder = h THEN Nobody ELSE holder
    /\ UNCHANGED <<conn, status, opened, using>>

-----------------------------------------------------------------------------
(***************************************************************************)
(* ensureConnected().                                                      *)
(***************************************************************************)
Connected == conn # Null /\ status[conn] = "ok"

EnsureConnected(h) ==
    /\ Go(h, "ensure", IF Connected THEN "exec" ELSE IF conn # Null THEN "reset" ELSE "connect")
    /\ UNCHANGED <<conn, status, opened, holder, using>>

ResetBegins(h) ==
    /\ Go(h, "reset", "resetting")
    /\ using' = [using EXCEPT ![h] = conn]
    /\ UNCHANGED <<conn, status, opened, holder>>

\* What becomes of an object when a call on it ends.  A freed one stays freed.
Ends(h, result) ==
    /\ status' = IF using[h] # Null /\ status[using[h]] # "freed"
                 THEN [status EXCEPT ![using[h]] = result] ELSE status
    /\ using' = [using EXCEPT ![h] = Null]

ResetSucceeds(h) ==
    /\ Go(h, "resetting", "exec")
    /\ Ends(h, "ok")
    /\ UNCHANGED <<conn, opened, holder>>

\* PQfinish(conn_), conn_ = nullptr.
Disconnect(h) ==
    /\ status' = IF conn # Null THEN [status EXCEPT ![conn] = "freed"] ELSE status
    /\ conn' = Null

ResetFails(h) ==
    /\ Go(h, "resetting", "connect")
    /\ using' = [using EXCEPT ![h] = Null]
    /\ Disconnect(h)
    /\ UNCHANGED <<opened, holder>>

ConnectSucceeds(h) ==
    /\ opened < MaxConnections
    /\ Go(h, "connect", "exec")
    /\ opened' = opened + 1
    /\ conn' = opened'
    /\ status' = [status EXCEPT ![opened'] = "ok"]
    /\ UNCHANGED <<holder, using>>

\* A failed attempt finishes the object it made: there is nothing left of it.
ConnectFails(h) ==
    /\ Go(h, "connect", "done")
    /\ conn' = Null
    /\ UNCHANGED <<status, opened, holder, using>>

-----------------------------------------------------------------------------
(***************************************************************************)
(* The statements of an operation.                                         *)
(***************************************************************************)
ExecBegins(h) ==
    /\ Go(h, "exec", "executing")
    /\ using' = [using EXCEPT ![h] = conn]
    /\ UNCHANGED <<conn, status, opened, holder>>

\* More statements follow, or the operation returns.  libpq notices a lost
\* connection in the statement that uses it.
ExecEnds(h) ==
    /\ \E next \in {"exec", "done"} : Go(h, "executing", next)
    /\ \E result \in {"ok", "bad"} : Ends(h, result)
    /\ UNCHANGED <<conn, opened, holder>>

Next ==
    \E h \in Handlers :
        \/ Begin(h) \/ Lock(h) \/ AskStatus(h) \/ Finish(h)
        \/ EnsureConnected(h) \/ ResetBegins(h) \/ ResetSucceeds(h) \/ ResetFails(h)
        \/ ConnectSucceeds(h) \/ ConnectFails(h)
        \/ ExecBegins(h) \/ ExecEnds(h)

Spec == Init /\ [][Next]_vars

-----------------------------------------------------------------------------
(***************************************************************************)
(* The property.                                                           *)
(***************************************************************************)
\* Two handlers are never inside libpq on the same connection: the global
\* database mutex keeps every operation of DbConn to itself.
OneHandlerInLibpq ==
    \A g, h \in Handlers : g # h /\ using[g] # Null => using[g] # using[h]
=============================================================================
