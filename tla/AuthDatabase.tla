---------------------------- MODULE AuthDatabase ----------------------------
(***************************************************************************)
(* The PostgreSQL backend of sisterd's identity store                      *)
(* (apps/sisterd/auth.cpp from line 583), under the HTTP handlers that     *)
(* call it.                                                                *)
(*                                                                         *)
(* The store has one connection and one mutex, held for a whole operation. *)
(* An operation is a row of statements; sisterd may die between two of     *)
(* them, and each may find the connection gone.  libpq notices a lost      *)
(* connection only when it uses it, and only ensureDatabaseConnected(), at *)
(* the start of an operation, opens a new one: once a statement was lost,  *)
(* so are the others of that operation.  A statement whose answer is lost  *)
(* may have been executed.                                                 *)
(*                                                                         *)
(* Rows of sister_users are never deleted: an account is made inactive.    *)
(***************************************************************************)
EXTENDS Naturals, FiniteSets

CONSTANTS Ids,              \* user ids (UUIDs)
          Emails,           \* normalised e-mail addresses
          Passwords,        \* passwords of at least 12 characters
          Tokens,           \* session tokens
          Requests,         \* administrative HTTP requests in flight
          HttpBootstrap,    \* config.httpBootstrapEnabled
          ConnectionLoss,   \* may the connection be lost?
          StatementErrors,  \* may the server refuse a statement (cancelled,
                            \* timed out) and keep the connection?
          NoUser, NoSession, NoActor, Keep

\* "user" stands for every role of the store that is not "admin".
Roles == {"admin", "user"}
\* `origin' says which statement made the row; it is not a column.
Users == [email : Emails, role : Roles, password : Passwords, active : BOOLEAN,
          origin : {"register", "create"}]
\* `by' is the password that opened the session; it is not a column.
\* A session is over when revoked_at is set or expires_at has passed.
Sessions == [user : Ids, by : Passwords, over : BOOLEAN]

ASSUME DatabaseAssumption ==
    /\ HttpBootstrap \in BOOLEAN
    /\ ConnectionLoss \in BOOLEAN
    /\ StatementErrors \in BOOLEAN
    /\ NoUser \notin Users /\ NoSession \notin Sessions
    /\ NoActor \notin Ids /\ Keep \notin Passwords

VARIABLES
    users,          \* sister_users, committed
    sessions,       \* sister_sessions, committed, by token
    link,           \* PQstatus: "up", or "down" for a bad or absent connection
    op,             \* the operation that holds the mutex, between statements
    actors          \* the administrator each request resolved, if any

vars == <<users, sessions, link, op, actors>>

Idle == [at |-> "idle"]

\* What an operation holds in its local variables between two statements.
\* `blind' is not one of them: the count of administrators was not answered.
\* The rows of registerAdmin() are in its transaction until it commits.
Operations ==
    {Idle}
    \cup [at : {"loginInsert"}, id : Ids, password : Passwords]
    \cup [at : {"updateDuplicate", "updateCount", "updateWrite"}, id : Ids,
          email : Emails, role : Roles, password : Passwords \cup {Keep}, was : Roles,
          blind : BOOLEAN]
    \cup [at : {"deleteCount", "deleteWrite"}, id : Ids, blind : BOOLEAN]
    \cup [at : {"registerUser"}, email : Emails, password : Passwords]
    \cup [at : {"registerSession"}, id : Ids, row : Users]
    \cup [at : {"registerCommit"}, id : Ids, row : Users, token : Tokens]

Init ==
    /\ users = [i \in Ids |-> NoUser]
    /\ sessions = [t \in Tokens |-> NoSession]
    /\ link = "down"
    /\ op = Idle
    /\ actors = [r \in Requests |-> NoActor]

-----------------------------------------------------------------------------
(***************************************************************************)
(* Statements.                                                             *)
(***************************************************************************)
Outcomes ==
    {"ok"} \cup (IF ConnectionLoss THEN {"lost", "lostAnswer"} ELSE {})
           \cup (IF StatementErrors THEN {"refused"} ELSE {})

Executed(o) == o \in {"ok", "lostAnswer"}

\* The first statement of an operation follows ensureDatabaseConnected(): the
\* connection is up, as far as libpq knows, or has just been opened.  When it
\* cannot be opened the operation returns with nothing done.
FirstStatement(o) ==
    /\ op = Idle
    /\ link' = IF o \in {"lost", "lostAnswer"} THEN "down" ELSE "up"

\* The others use the connection as it is: nobody reopens it.
NextStatement(at, o) ==
    /\ op.at = at
    /\ link' = IF o \in {"lost", "lostAnswer"} THEN "down" ELSE link

\* The answers left when there is no connection to send the statement on.
AnswersOf(conn) == IF conn = "down" THEN {"lost"} ELSE Outcomes

Exists(id) == users[id] # NoUser
Active(id) == Exists(id) /\ users[id].active
ActiveAdmins == {i \in Ids : Active(i) /\ users[i].role = "admin"}
EmailFree(email, except) == \A i \in Ids \ except : Exists(i) => users[i].email # email
Open(t) == sessions[t] # NoSession /\ ~sessions[t].over

\* UPDATE sister_sessions SET revoked_at=now() for one account.
Revoke(id) ==
    [t \in Tokens |-> IF sessions[t] # NoSession /\ sessions[t].user = id
                      THEN [sessions[t] EXCEPT !.over = TRUE] ELSE sessions[t]]

NewSession(id, password) == [user |-> id, by |-> password, over |-> FALSE]

-----------------------------------------------------------------------------
(***************************************************************************)
(* POST /api/auth/register: registerAdmin, one transaction.                *)
(***************************************************************************)
RegisterBegin(email, password) ==
    /\ HttpBootstrap
    /\ \E o \in Outcomes :
          /\ FirstStatement(o)
          /\ op' = IF o = "ok" THEN [at |-> "registerUser", email |-> email,
                                     password |-> password]
                   ELSE Idle
    /\ UNCHANGED <<users, sessions, actors>>

\* Mutant: no transaction, the row is committed with its statement.
RegisterUserAutocommit ==
    \E o \in AnswersOf(link), id \in Ids :
      LET row == [email |-> op.email, role |-> "admin", password |-> op.password,
                  active |-> TRUE, origin |-> "register"]
          inserts == \A i \in Ids : ~Exists(i)
      IN /\ NextStatement("registerUser", o)
         /\ users' = IF Executed(o) /\ inserts THEN [users EXCEPT ![id] = row] ELSE users
         /\ op' = IF o = "ok" /\ inserts
                  THEN [at |-> "registerSession", id |-> id, row |-> row] ELSE Idle
         /\ UNCHANGED <<sessions, actors>>

\* INSERT ... WHERE NOT EXISTS, in the transaction.  On any failure ROLLBACK,
\* or the server's own when the connection is gone, undoes it.
RegisterUser ==
    \E o \in AnswersOf(link), id \in Ids :
      LET row == [email |-> op.email, role |-> "admin", password |-> op.password,
                  active |-> TRUE, origin |-> "register"]
          inserts == \A i \in Ids : ~Exists(i)
      IN /\ NextStatement("registerUser", o)
         /\ op' = IF o = "ok" /\ inserts
                  THEN [at |-> "registerSession", id |-> id, row |-> row] ELSE Idle
         /\ UNCHANGED <<users, sessions, actors>>

RegisterSession(t) ==
    /\ sessions[t] = NoSession
    /\ \E o \in AnswersOf(link) :
          /\ NextStatement("registerSession", o)
          /\ op' = IF o = "ok"
                   THEN [at |-> "registerCommit", id |-> op.id, row |-> op.row, token |-> t]
                   ELSE Idle
    /\ UNCHANGED <<users, sessions, actors>>

RegisterCommit ==
    /\ \E o \in AnswersOf(link) :
          /\ NextStatement("registerCommit", o)
          /\ IF Executed(o)
             THEN /\ users' = [users EXCEPT ![op.id] = op.row]
                  /\ sessions' = [sessions EXCEPT ![op.token] =
                                     NewSession(op.id, op.row.password)]
             ELSE UNCHANGED <<users, sessions>>
    /\ op' = Idle
    /\ UNCHANGED actors

-----------------------------------------------------------------------------
(***************************************************************************)
(* POST /api/auth/login and /api/auth/logout, and the resolution of the    *)
(* actor of a request.                                                     *)
(***************************************************************************)
LoginSelect(id, password) ==
    /\ \E o \in Outcomes :
          /\ FirstStatement(o)
          /\ op' = IF o = "ok" /\ Active(id) /\ users[id].password = password
                   THEN [at |-> "loginInsert", id |-> id, password |-> password]
                   ELSE Idle
    /\ UNCHANGED <<users, sessions, actors>>

LoginInsert(t) ==
    /\ sessions[t] = NoSession
    /\ \E o \in AnswersOf(link) :
          /\ NextStatement("loginInsert", o)
          /\ sessions' = IF Executed(o)
                         THEN [sessions EXCEPT ![t] = NewSession(op.id, op.password)]
                         ELSE sessions
    /\ op' = Idle
    /\ UNCHANGED <<users, actors>>

\* Nobody looks at what became of the statement: the answer is always 204.
Logout(t) ==
    /\ sessions[t] # NoSession
    /\ \E o \in Outcomes :
          /\ FirstStatement(o)
          /\ sessions' = IF Executed(o) THEN [sessions EXCEPT ![t].over = TRUE] ELSE sessions
    /\ UNCHANGED <<users, op, actors>>

\* userForToken() of a request on /api/admin/users by an administrator; for
\* anyone else the request ends there.
ResolveAdmin(r, t) ==
    /\ actors[r] = NoActor
    /\ Open(t)
    /\ sessions[t].user \in ActiveAdmins
    /\ \E o \in Outcomes :
          /\ FirstStatement(o)
          /\ actors' = IF o = "ok" THEN [actors EXCEPT ![r] = sessions[t].user] ELSE actors
    /\ UNCHANGED <<users, sessions, op>>

\* bootstrapOpen(), users(), and the resolution of any other actor.
Read ==
    /\ \E o \in Outcomes : FirstStatement(o)
    /\ UNCHANGED <<users, sessions, op, actors>>

\* expires_at passes.
Expire(t) ==
    /\ Open(t)
    /\ sessions' = [sessions EXCEPT ![t].over = TRUE]
    /\ UNCHANGED <<users, link, op, actors>>

-----------------------------------------------------------------------------
(***************************************************************************)
(* /api/admin/users.  The request acts for the actor it resolved earlier.  *)
(***************************************************************************)
Acts(r) == actors[r] # NoActor /\ actors' = [actors EXCEPT ![r] = NoActor]

CreateUser(r, email, role, password) ==
    /\ Acts(r)
    /\ \E o \in Outcomes, id \in {i \in Ids : ~Exists(i)} :
          /\ FirstStatement(o)
          /\ users' = IF Executed(o) /\ EmailFree(email, {})
                      THEN [users EXCEPT ![id] =
                               [email |-> email, role |-> role, password |-> password,
                                active |-> TRUE, origin |-> "create"]]
                      ELSE users
    /\ UNCHANGED <<sessions, op>>

\* SELECT global_role: the account to update, and its role now.
UpdateSelect(r, id, email, role, password) ==
    /\ Acts(r)
    /\ \E o \in Outcomes :
          /\ FirstStatement(o)
          /\ op' = IF o = "ok" /\ Active(id)
                   THEN [at |-> "updateDuplicate", id |-> id, email |-> email,
                         role |-> role, password |-> password, was |-> users[id].role,
                         blind |-> FALSE]
                   ELSE Idle
    /\ UNCHANGED <<users, sessions>>

\* A SELECT for duplicates that fails counts as finding none.
UpdateDuplicate ==
    /\ \E o \in AnswersOf(link) :
          /\ NextStatement("updateDuplicate", o)
          /\ op' = IF o = "ok" /\ ~EmailFree(op.email, {op.id}) THEN Idle
                   ELSE [op EXCEPT !.at = IF op.was = "admin" /\ op.role # "admin"
                                          THEN "updateCount" ELSE "updateWrite"]
    /\ UNCHANGED <<users, sessions, actors>>

\* Mutant: the last administrator is not protected.
SoleAdminIgnored(o) == FALSE

\* A count that fails counts as there being others.
SoleAdmin(o) == o = "ok" /\ Cardinality(ActiveAdmins) = 1

Count(at, write) ==
    /\ \E o \in AnswersOf(link) :
          /\ NextStatement(at, o)
          /\ op' = IF SoleAdmin(o) THEN Idle
                   ELSE [op EXCEPT !.at = write, !.blind = o # "ok"]
    /\ UNCHANGED <<users, sessions, actors>>

UpdateCount == Count("updateCount", "updateWrite")

\* The password columns after an update.
PasswordAfter(old, new) == IF new = Keep THEN old ELSE new

\* Mutant: the sessions opened with the old password stay open.
NoSessionsAfterUpdate(id, password) == sessions

\* A new password revokes the sessions, in the same statement.
SessionsAfterUpdate(id, password) == IF password = Keep THEN sessions ELSE Revoke(id)

\* UPDATE ... WHERE user_id=$1 AND active; the unique index refuses an address
\* somebody else has.
UpdateWrite ==
    /\ \E o \in AnswersOf(link) :
          /\ NextStatement("updateWrite", o)
          /\ IF Executed(o) /\ Active(op.id) /\ EmailFree(op.email, {op.id})
             THEN /\ users' = [users EXCEPT ![op.id].email = op.email,
                                            ![op.id].role = op.role,
                                            ![op.id].password = PasswordAfter(@, op.password)]
                  /\ sessions' = SessionsAfterUpdate(op.id, op.password)
             ELSE UNCHANGED <<users, sessions>>
    /\ op' = Idle
    /\ UNCHANGED actors

DeleteSelect(r, id) ==
    /\ Acts(r)
    /\ id # actors[r]
    /\ \E o \in Outcomes :
          /\ FirstStatement(o)
          /\ op' = IF o = "ok" /\ Active(id)
                   THEN [at |-> IF users[id].role = "admin" THEN "deleteCount"
                                ELSE "deleteWrite", id |-> id, blind |-> FALSE]
                   ELSE Idle
    /\ UNCHANGED <<users, sessions>>

DeleteCount == Count("deleteCount", "deleteWrite")

SessionsAfterDelete(id) == Revoke(id)

\* UPDATE ... active=false and the revocation, in the same statement.
DeleteWrite ==
    /\ \E o \in AnswersOf(link) :
          /\ NextStatement("deleteWrite", o)
          /\ IF Executed(o) /\ Active(op.id)
             THEN /\ users' = [users EXCEPT ![op.id].active = FALSE]
                  /\ sessions' = SessionsAfterDelete(op.id)
             ELSE UNCHANGED <<users, sessions>>
    /\ op' = Idle
    /\ UNCHANGED actors

\* The request ends without reaching the store: refused fields, an actor that
\* deletes its own account, a database that cannot be reached.
EndWithoutChange(r) ==
    /\ Acts(r)
    /\ UNCHANGED <<users, sessions, link, op>>

\* sisterd dies and is started again.  An open transaction is rolled back.
Restart ==
    /\ link' = "down"
    /\ op' = Idle
    /\ actors' = [r \in Requests |-> NoActor]
    /\ UNCHANGED <<users, sessions>>

-----------------------------------------------------------------------------
Next ==
    \/ \E e \in Emails, p \in Passwords : RegisterBegin(e, p)
    \/ RegisterUser
    \/ \E t \in Tokens : RegisterSession(t)
    \/ RegisterCommit
    \/ \E i \in Ids, p \in Passwords : LoginSelect(i, p)
    \/ \E t \in Tokens : LoginInsert(t)
    \/ \E t \in Tokens : Logout(t)
    \/ \E r \in Requests, t \in Tokens : ResolveAdmin(r, t)
    \/ Read
    \/ \E t \in Tokens : Expire(t)
    \/ \E r \in Requests, e \in Emails, l \in Roles, p \in Passwords : CreateUser(r, e, l, p)
    \/ \E r \in Requests, i \in Ids, e \in Emails, l \in Roles, p \in Passwords \cup {Keep} :
          UpdateSelect(r, i, e, l, p)
    \/ UpdateDuplicate
    \/ UpdateCount
    \/ UpdateWrite
    \/ \E r \in Requests, i \in Ids : DeleteSelect(r, i)
    \/ DeleteCount
    \/ DeleteWrite
    \/ \E r \in Requests : EndWithoutChange(r)
    \/ Restart

Spec == Init /\ [][Next]_vars

-----------------------------------------------------------------------------
(***************************************************************************)
(* Properties.                                                             *)
(***************************************************************************)
TypeOK ==
    /\ users \in [Ids -> Users \cup {NoUser}]
    /\ sessions \in [Tokens -> Sessions \cup {NoSession}]
    /\ link \in {"up", "down"}
    /\ op \in Operations
    /\ actors \in [Requests -> Ids \cup {NoActor}]

\* All state has its type, and a session that can still be used fits its account:
\* it was opened with the password the account has now, and the account was not
\* deleted.  databaseUpdateUser() and databaseDeleteUser() end the sessions in
\* the statement that makes the change, and no login that read the old hash can
\* insert its session after it.
SessionsFitAccounts ==
    /\ TypeOK
    /\ \A t \in Tokens : Open(t) =>
          /\ Active(sessions[t].user)
          /\ users[sessions[t].user].password = sessions[t].by

\* The account and the session of databaseRegisterAdmin() are there together
\* or not at all, whatever is lost between BEGIN and COMMIT.
RegisterIsAtomic ==
    \A i \in Ids : Exists(i) /\ users[i].origin = "register" =>
        \E t \in Tokens : sessions[t] # NoSession /\ sessions[t].user = i

WritesBlindly == op.at \in {"updateWrite", "deleteWrite"} /\ op.blind

\* No step takes the last active administrator away: the counts of
\* databaseUpdateUser() and databaseDeleteUser() refuse it, whichever
\* administrators act, however old their authorisation is and whatever is lost.
\* Only a count that the server refused, on a connection that stays up, is
\* taken for there being others; that one way out is excluded here.
AdminStays ==
    [][ActiveAdmins # {} /\ ~WritesBlindly => ActiveAdmins' # {}]_vars
=============================================================================
