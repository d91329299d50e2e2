------------------------------ MODULE AuthStore ------------------------------
(***************************************************************************)
(* The file backend of sisterd's identity store (apps/sisterd/auth.cpp)    *)
(* under the HTTP handlers that call it (apps/sisterd/main.cpp) and the    *)
(* offline commands of sisterctl.                                          *)
(*                                                                         *)
(* An operation changes the memory under the mutex and then writes one or  *)
(* both files, each by a temporary file and a rename.  Nothing else runs   *)
(* in the store until the last write, so an operation is its change of     *)
(* memory followed by the writes in `todo'; between those steps the        *)
(* process may crash, and a write may throw, which abandons the writes     *)
(* after it and leaves the memory changed.                                 *)
(*                                                                         *)
(* `told' and `toldToken' are what clients have been told: the value an    *)
(* operation acknowledged, or Unknown from the moment an operation touches *)
(* the entry until it is acknowledged (for good, if it fails).             *)
(***************************************************************************)
EXTENDS Naturals, Sequences

CONSTANTS Ids,              \* user ids (UUIDs)
          Emails,           \* normalised e-mail addresses
          Passwords,        \* passwords of at least 12 characters
          Tokens,           \* session tokens
          Requests,         \* HTTP requests in flight in the workers
          Lifetime,         \* sessionLifetime, in clock units
          Second,           \* clock units in a second
          MaxClock,         \* bound on the clock
          HttpBootstrap,    \* config.httpBootstrapEnabled
          WriteFaults,      \* may save() and saveSessions() throw?
          NoUser, NoSession, Unknown, NoActor

ASSUME AuthAssumption ==
    /\ Lifetime \in Nat \ {0}
    /\ Second \in Nat \ {0}
    /\ MaxClock \in Nat
    /\ HttpBootstrap \in BOOLEAN
    /\ WriteFaults \in BOOLEAN

\* "user" stands for every role of the store that is not "admin".
Roles == {"admin", "user"}
Users == [email : Emails, role : Roles, password : Passwords]
Sessions == [user : Ids, expiresAt : Nat]

\* The sentinels are values of their own.
ASSUME SentinelAssumption ==
    /\ NoUser \notin Users /\ Unknown \notin Users /\ NoUser # Unknown
    /\ NoSession \notin Sessions /\ Unknown \notin Sessions /\ NoSession # Unknown
    /\ NoActor \notin Ids

VARIABLES
    process,        \* who has the store open: "down", "sisterd" or "sisterctl"
    users,          \* users_ of that process
    sessions,       \* sessionsByTokenHash_ of that process
    usersFile,      \* the file at path_
    sessionsFile,   \* the file at sessionsPath_
    todo,           \* writes left in the operation that holds the mutex
    touched,        \* entries that operation is about
    actors,         \* the administrator each request resolved, if any
    clock,          \* system_clock
    usedIds,        \* ids ever given out: randomUuid() does not repeat them
    issued,         \* tokens ever given out
    told, toldToken

memory == <<users, sessions>>
files == <<usersFile, sessionsFile>>
vars == <<process, users, sessions, usersFile, sessionsFile, todo, touched,
          actors, clock, usedIds, issued, told, toldToken>>

\* What may be left of an operation: writes, and the session registerAdmin()
\* makes between them.
Plans == {<<>>, <<"users">>, <<"sessions">>, <<"users", "sessions">>,
          <<"createSession", "sessions">>, <<"users", "createSession", "sessions">>}

NobodyTouched == [ids |-> {}, tokens |-> {}]
NoUsers == [i \in Ids |-> NoUser]
NoSessions == [t \in Tokens |-> NoSession]
NoActors == [r \in Requests |-> NoActor]

Init ==
    /\ process = "down"
    /\ users = NoUsers /\ sessions = NoSessions
    /\ usersFile = NoUsers /\ sessionsFile = NoSessions
    /\ todo = <<>> /\ touched = NobodyTouched
    /\ actors = NoActors
    /\ clock = 0
    /\ usedIds = {} /\ issued = {}
    /\ told = NoUsers /\ toldToken = NoSessions

-----------------------------------------------------------------------------
(***************************************************************************)
(* Looking things up.                                                      *)
(***************************************************************************)
Exists(store, id) == store[id] # NoUser
IsAdmin(store, id) == Exists(store, id) /\ store[id].role = "admin"
HasAdmin(store) == \E i \in Ids : IsAdmin(store, i)
Empty(store) == \A i \in Ids : ~Exists(store, i)

\* Another account already has the e-mail.
EmailTaken(email, except) ==
    \E i \in Ids \ except : Exists(users, i) /\ users[i].email = email

\* Mutant: the last administrator is not protected.
SoleAdminIgnored(id) == FALSE

\* adminCount <= 1 for a target that is an administrator itself.
SoleAdmin(id) == IsAdmin(users, id) /\ \A i \in Ids \ {id} : ~IsAdmin(users, i)

SessionsOf(id) == {t \in Tokens : sessions[t] # NoSession /\ sessions[t].user = id}

-----------------------------------------------------------------------------
(***************************************************************************)
(* An operation: the mutex is free, the memory changes, writes follow.     *)
(***************************************************************************)
Idle(who) == process = who /\ todo = <<>>

StartWrites(writes, ids, tokens) ==
    /\ todo' = writes
    /\ touched' = [ids |-> ids, tokens |-> tokens]
    /\ told' = [i \in Ids |-> IF i \in ids THEN Unknown ELSE told[i]]
    /\ toldToken' = [t \in Tokens |-> IF t \in tokens THEN Unknown ELSE toldToken[t]]

SetUser(id, user) == users' = [users EXCEPT ![id] = user]

NewSession(t, id) ==
    /\ t \notin issued
    /\ issued' = issued \cup {t}
    /\ sessions' = [sessions EXCEPT ![t] = [user |-> id, expiresAt |-> clock + Lifetime]]

\* Mutant: the other file is saved.
UserWritesMistaken == <<"sessions">>

\* createUser(), updateUser(), importUser() and bootstrapAdmin() end in save().
UserWrites == <<"users">>

\* saveSessions() writes the whole seconds of the expiry.
WholeSeconds(s) == [s EXCEPT !.expiresAt = (@ \div Second) * Second]

NewId(id) == id \notin usedIds /\ usedIds' = usedIds \cup {id}

\* Mutant: the client is answered although nothing was written.
AcknowledgeEarly == TRUE

\* The client is answered when the last write is done.
Acknowledge == Len(todo) = 1

\* What the client is told of a session is worth as much as the account on
\* disk: an account whose save() threw is in users_ only, and can log in.
Promised(t) ==
    IF sessions[t] # NoSession /\ ~Exists(usersFile, sessions[t].user)
    THEN Unknown ELSE sessions[t]

\* The write at the head of `todo'.
Write ==
    /\ todo # <<>> /\ Head(todo) \in {"users", "sessions"}
    /\ IF Head(todo) = "users"
       THEN usersFile' = users /\ UNCHANGED sessionsFile
       ELSE /\ sessionsFile' = [t \in Tokens |->
                   IF sessions[t] = NoSession THEN NoSession ELSE WholeSeconds(sessions[t])]
            /\ UNCHANGED usersFile
    /\ todo' = Tail(todo)
    /\ IF Acknowledge
       THEN /\ told' = [i \in Ids |-> IF i \in touched.ids THEN users[i] ELSE told[i]]
            /\ toldToken' = [t \in Tokens |->
                               IF t \in touched.tokens THEN Promised(t) ELSE toldToken[t]]
            /\ touched' = NobodyTouched
       ELSE UNCHANGED <<told, toldToken, touched>>
    /\ UNCHANGED <<process, memory, actors, clock, usedIds, issued>>

\* save() or saveSessions() throws before its rename: the file stays as it
\* was, the rest of the operation is abandoned, the memory is not undone.
WriteThrows ==
    /\ WriteFaults
    /\ todo # <<>> /\ Head(todo) \in {"users", "sessions"}
    /\ todo' = <<>>
    /\ touched' = NobodyTouched
    /\ UNCHANGED <<process, memory, files, actors, clock, usedIds, issued, told,
                   toldToken>>

-----------------------------------------------------------------------------
(***************************************************************************)
(* Processes.                                                              *)
(***************************************************************************)

\* Mutant: loadSessions() keeps sessions whose user is gone.
KnownUserIgnored(t) == TRUE

\* Mutant: loadSessions() runs before load(), with no user known yet.
KnownUserTooSoon(t) == FALSE

KnownUser(t) == Exists(usersFile, sessionsFile[t].user)

\* The constructor: load() and then loadSessions().
Open(who) ==
    /\ process = "down"
    /\ process' = who
    /\ users' = usersFile
    /\ sessions' = [t \in Tokens |->
                      IF /\ sessionsFile[t] # NoSession
                         /\ KnownUser(t)
                         /\ sessionsFile[t].expiresAt > clock
                      THEN sessionsFile[t] ELSE NoSession]
    /\ UNCHANGED <<files, todo, touched, actors, clock, usedIds, issued, told,
                   toldToken>>

\* The process ends: a crash at any point, or an orderly exit when idle.
Down ==
    /\ process # "down"
    /\ process' = "down"
    /\ users' = NoUsers /\ sessions' = NoSessions
    /\ todo' = <<>> /\ touched' = NobodyTouched
    /\ actors' = NoActors
    /\ UNCHANGED <<files, clock, usedIds, issued, told, toldToken>>

Tick ==
    /\ clock < MaxClock
    /\ clock' = clock + 1
    /\ UNCHANGED <<process, memory, files, todo, touched, actors, usedIds, issued,
                   told, toldToken>>

-----------------------------------------------------------------------------
(***************************************************************************)
(* Operations of the store.                                                *)
(***************************************************************************)

\* bootstrapAdminUnlocked(), first half of registerAdmin() and bootstrapAdmin().
BootstrapUser(id, email, password) ==
    /\ Empty(users)
    /\ NewId(id)
    /\ SetUser(id, [email |-> email, role |-> "admin", password |-> password])

\* POST /api/auth/register: the session is made after the account is saved.
RegisterAdmin(id, email, password) ==
    /\ Idle("sisterd")
    /\ HttpBootstrap
    /\ BootstrapUser(id, email, password)
    /\ StartWrites(<<"users", "createSession", "sessions">>, {id}, {})
    /\ UNCHANGED <<process, sessions, files, actors, clock, issued>>

RegisterSession(id, t) ==
    /\ todo # <<>> /\ Head(todo) = "createSession"
    /\ id \in touched.ids
    /\ NewSession(t, id)
    /\ todo' = Tail(todo)
    /\ touched' = [touched EXCEPT !.tokens = {t}]
    /\ toldToken' = [toldToken EXCEPT ![t] = Unknown]
    /\ UNCHANGED <<process, users, files, actors, clock, usedIds, told>>

\* sisterctl auth bootstrap-admin
BootstrapAdmin(id, email, password) ==
    /\ Idle("sisterctl")
    /\ BootstrapUser(id, email, password)
    /\ StartWrites(UserWrites, {id}, {})
    /\ UNCHANGED <<process, sessions, files, actors, clock, issued>>

\* sisterctl auth-import-user: the operator chooses the id.
ImportUser(id, user) ==
    /\ Idle("sisterctl")
    /\ ~Exists(users, id) /\ ~EmailTaken(user.email, {})
    /\ usedIds' = usedIds \cup {id}
    /\ SetUser(id, user)
    /\ StartWrites(UserWrites, {id}, {})
    /\ UNCHANGED <<process, sessions, files, actors, clock, issued>>

\* POST /api/auth/login with the credentials of account id.
Login(id, t) ==
    /\ Idle("sisterd")
    /\ Exists(users, id)
    /\ NewSession(t, id)
    /\ StartWrites(<<"sessions">>, {}, {t})
    /\ UNCHANGED <<process, users, files, actors, clock, usedIds>>

\* POST /api/auth/logout, of a session the store knows or not.
Logout(t) ==
    /\ Idle("sisterd")
    /\ sessions' = [sessions EXCEPT ![t] = NoSession]
    /\ StartWrites(<<"sessions">>, {}, {t})
    /\ UNCHANGED <<process, users, files, actors, clock, usedIds, issued>>

\* userForToken() of an administrator's session, and authorizeOrReject() for
\* identity.users.manage: the request goes on with a copy of the account.
ResolveAdmin(r, t) ==
    /\ Idle("sisterd")
    /\ actors[r] = NoActor
    /\ sessions[t] # NoSession
    /\ sessions[t].expiresAt > clock
    /\ IsAdmin(users, sessions[t].user)
    /\ actors' = [actors EXCEPT ![r] = sessions[t].user]
    /\ UNCHANGED <<process, memory, files, todo, touched, clock, usedIds, issued,
                   told, toldToken>>

\* userForToken() of a session that has expired.
ResolveExpired(t) ==
    /\ Idle("sisterd")
    /\ sessions[t] # NoSession
    /\ sessions[t].expiresAt <= clock
    /\ sessions' = [sessions EXCEPT ![t] = NoSession]
    /\ StartWrites(<<"sessions">>, {}, {t})
    /\ UNCHANGED <<process, users, files, actors, clock, usedIds, issued>>

\* The request of an administrator, resolved earlier, reaches the store.
Acts(r) ==
    /\ Idle("sisterd")
    /\ actors[r] # NoActor
    /\ actors' = [actors EXCEPT ![r] = NoActor]

\* It ends without a change: a malformed request, a method that is not allowed,
\* a listing, or one the store refuses.
EndWithoutChange(r) ==
    /\ Acts(r)
    /\ UNCHANGED <<process, memory, files, todo, touched, clock, usedIds, issued,
                   told, toldToken>>

\* POST /api/admin/users
CreateUser(r, id, user) ==
    /\ Acts(r)
    /\ ~EmailTaken(user.email, {})
    /\ NewId(id)
    /\ SetUser(id, user)
    /\ StartWrites(UserWrites, {id}, {})
    /\ UNCHANGED <<process, sessions, files, clock, issued>>

\* PUT /api/admin/users/<id>; the password may be left as it is.
UpdateUser(r, id, user) ==
    /\ Acts(r)
    /\ Exists(users, id)
    /\ ~EmailTaken(user.email, {id})
    /\ ~(user.role # "admin" /\ SoleAdmin(id))
    /\ SetUser(id, user)
    /\ StartWrites(UserWrites, {id}, {})
    /\ UNCHANGED <<process, sessions, files, clock, usedIds, issued>>

\* DELETE /api/admin/users/<id>
DeleteUser(r, id) ==
    /\ Acts(r)
    /\ Exists(users, id)
    /\ id # actors[r]
    /\ ~SoleAdmin(id)
    /\ SetUser(id, NoUser)
    /\ sessions' = [t \in Tokens |->
                      IF t \in SessionsOf(id) THEN NoSession ELSE sessions[t]]
    /\ StartWrites(<<"users", "sessions">>, {id}, SessionsOf(id))
    /\ UNCHANGED <<process, files, clock, usedIds, issued>>

-----------------------------------------------------------------------------
SisterdOperation ==
    \/ \E id \in Ids, e \in Emails, p \in Passwords : RegisterAdmin(id, e, p)
    \/ \E id \in Ids, t \in Tokens : RegisterSession(id, t) \/ Login(id, t)
    \/ \E t \in Tokens : Logout(t) \/ ResolveExpired(t)
    \/ \E r \in Requests, t \in Tokens : ResolveAdmin(r, t)
    \/ \E r \in Requests, id \in Ids, u \in Users : CreateUser(r, id, u) \/ UpdateUser(r, id, u)
    \/ \E r \in Requests, id \in Ids : DeleteUser(r, id)
    \/ \E r \in Requests : EndWithoutChange(r)

SisterctlOperation ==
    \/ \E id \in Ids, e \in Emails, p \in Passwords : BootstrapAdmin(id, e, p)
    \/ \E id \in Ids, u \in Users : ImportUser(id, u)

Next ==
    \/ SisterdOperation
    \/ SisterctlOperation
    \/ Write \/ WriteThrows
    \/ \E who \in {"sisterd", "sisterctl"} : Open(who)
    \/ Down
    \/ Tick

Spec == Init /\ [][Next]_vars

-----------------------------------------------------------------------------
TypeOK ==
    /\ process \in {"down", "sisterd", "sisterctl"}
    /\ users \in [Ids -> Users \cup {NoUser}]
    /\ sessions \in [Tokens -> Sessions \cup {NoSession}]
    /\ usersFile \in [Ids -> Users \cup {NoUser}]
    /\ sessionsFile \in [Tokens -> Sessions \cup {NoSession}]
    /\ todo \in Plans
    /\ touched \in [ids : SUBSET Ids, tokens : SUBSET Tokens]
    /\ actors \in [Requests -> Ids \cup {NoActor}]
    /\ clock \in Nat
    /\ usedIds \subseteq Ids
    /\ issued \subseteq Tokens
    /\ told \in [Ids -> Users \cup {NoUser, Unknown}]
    /\ toldToken \in [Tokens -> Sessions \cup {NoSession, Unknown}]

(***************************************************************************)
(* What an operation acknowledged about an account is on disk, and in the  *)
(* memory of whichever process has the store open, until another operation *)
(* touches that account: through crashes, restarts, failed writes of other *)
(* operations, and administrators working at once.                         *)
(***************************************************************************)
AckedUsersDurable ==
    \A i \in Ids : told[i] # Unknown =>
        /\ usersFile[i] = told[i]
        /\ process # "down" => users[i] = told[i]

(***************************************************************************)
(* A session that was acknowledged as gone (logout, deletion of its        *)
(* account, expiry) never comes back, even after a restart.                *)
(***************************************************************************)
RevokedStaysRevoked ==
    \A t \in Tokens : toldToken[t] = NoSession =>
        sessionsFile[t] = NoSession /\ sessions[t] = NoSession

(***************************************************************************)
(* tests/auth_tests.cpp: "active session should persist across restart".   *)
(* A session the client was given, for an account that was on disk by      *)
(* then, and that neither expired nor was touched since, is on disk and    *)
(* honoured by a running sisterd.  A restart takes the fraction of a       *)
(* second off its life.                                                    *)
(***************************************************************************)
ActiveSessionPersists ==
    \A t \in Tokens :
        toldToken[t] \in Sessions /\ clock < WholeSeconds(toldToken[t]).expiresAt =>
            /\ sessionsFile[t] = WholeSeconds(toldToken[t])
            /\ process = "sisterd" =>
                  sessions[t] \in {toldToken[t], WholeSeconds(toldToken[t])}

\* A session in memory always leads to an account: none outlives its account,
\* even when the process stopped between the two writes of deleteUser().
SessionsHaveUsers ==
    \A t \in Tokens : sessions[t] # NoSession => Exists(users, sessions[t].user)

\* No two accounts share an e-mail, in memory or on disk: login() takes the
\* first account it finds.
EmailsApart(store) ==
    \A i, j \in Ids :
        Exists(store, i) /\ Exists(store, j) /\ store[i].email = store[j].email => i = j

OneAccountPerEmail == EmailsApart(users) /\ EmailsApart(usersFile)

(***************************************************************************)
(* Once an administrator is on disk there always is one, whatever          *)
(* administrators do to each other with rights resolved earlier, and       *)
(* whatever writes fail; the bootstrap cannot reopen.                      *)
(***************************************************************************)
AdminNeverLost == [][HasAdmin(usersFile) => HasAdmin(usersFile')]_vars

=============================================================================
