------------------------ MODULE AdministrationProofs ------------------------
(***************************************************************************)
(* Theorems about what administrators decide, and how long it stands: the  *)
(* file backend of the identity store (AuthStore), for any number of       *)
(* accounts, tokens and requests, with crashes and failing writes, first   *)
(* the accounts, then what clients are told; and the decisions about       *)
(* integrations (IntegrationGovernance), for any number of integrations,   *)
(* requests and administrators.                                            *)
(***************************************************************************)
EXTENDS AuthStore, IntegrationGovernance, TLAPS

(***************************************************************************)
(* What the operation in progress has still to do, and what it has done.   *)
(***************************************************************************)
PlanInv ==
    /\ process = "down" => todo = <<>> /\ users = NoUsers /\ sessions = NoSessions
    /\ todo = <<"users">> => touched.tokens = {}
    /\ todo \in {<<"sessions">>, <<"createSession", "sessions">>} =>
          \A i \in touched.ids : usersFile[i] = users[i]
    /\ todo \in {<<"createSession", "sessions">>,
                 <<"users", "createSession", "sessions">>} =>
          \A i \in touched.ids : Exists(users, i)

\* randomUuid() never returns the id of an account in memory or on disk.
UsedInv == \A i \in Ids : Exists(users, i) \/ Exists(usersFile, i) => i \in usedIds

\* A running process knows an administrator whenever the disk does.
AdminInv == process # "down" /\ HasAdmin(usersFile) => HasAdmin(users)

IInv == TypeOK /\ PlanInv /\ UsedInv /\ AdminInv /\ OneAccountPerEmail

-----------------------------------------------------------------------------
\* Init establishes every part of the invariant.
LEMMA InitInv == Init => IInv
<1> SUFFICES ASSUME Init PROVE IInv
  OBVIOUS
<1> USE AuthAssumption, SentinelAssumption DEF Init, NoUsers, NoSessions, NoActors, NobodyTouched
<1>1. TypeOK
  BY Zenon DEF TypeOK, Plans
<1>2. PlanInv /\ UsedInv /\ AdminInv
  BY Zenon DEF PlanInv, UsedInv, AdminInv, Exists
<1>3. OneAccountPerEmail
  BY Zenon DEF OneAccountPerEmail, EmailsApart, Exists
<1>4. QED
  BY <1>1, <1>2, <1>3, Zenon DEF IInv

\* What is left of each plan after its first step.
LEMMA PlanTails ==
    /\ Head(<<"users">>) = "users" /\ Tail(<<"users">>) = <<>> /\ Len(<<"users">>) = 1
    /\ Head(<<"sessions">>) = "sessions" /\ Tail(<<"sessions">>) = <<>>
    /\ Len(<<"sessions">>) = 1
    /\ Head(<<"users", "sessions">>) = "users"
    /\ Tail(<<"users", "sessions">>) = <<"sessions">>
    /\ Len(<<"users", "sessions">>) = 2
    /\ Head(<<"createSession", "sessions">>) = "createSession"
    /\ Tail(<<"createSession", "sessions">>) = <<"sessions">>
    /\ Head(<<"users", "createSession", "sessions">>) = "users"
    /\ Tail(<<"users", "createSession", "sessions">>) = <<"createSession", "sessions">>
    /\ Len(<<"users", "createSession", "sessions">>) = 3
  OBVIOUS

\* A write leaves one of three situations: it acknowledged the operation after
\* saving either file, or it saved the accounts and the sessions come next.
WroteUsers == usersFile' = users /\ sessionsFile' = sessionsFile
WroteSessions ==
    /\ sessionsFile' = [t \in Tokens |->
           IF sessions[t] = NoSession THEN NoSession ELSE WholeSeconds(sessions[t])]
    /\ usersFile' = usersFile
Answered ==
    /\ told' = [i \in Ids |-> IF i \in touched.ids THEN users[i] ELSE told[i]]
    /\ toldToken' = [t \in Tokens |->
                       IF t \in touched.tokens THEN Promised(t) ELSE toldToken[t]]
    /\ touched' = NobodyTouched

\* The four shapes of a write, by the plan it is the first step of.
WriteShape ==
    \/ todo = <<"users">> /\ todo' = <<>> /\ WroteUsers /\ Answered
    \/ todo = <<"sessions">> /\ todo' = <<>> /\ WroteSessions /\ Answered
    \/ /\ todo = <<"users", "sessions">> /\ todo' = <<"sessions">>
       /\ WroteUsers /\ UNCHANGED <<told, toldToken, touched>>
    \/ /\ todo = <<"users", "createSession", "sessions">>
       /\ todo' = <<"createSession", "sessions">>
       /\ WroteUsers /\ UNCHANGED <<told, toldToken, touched>>

LEMMA WriteCases == TypeOK /\ Write => WriteShape
<1> SUFFICES ASSUME TypeOK, Write PROVE WriteShape
  OBVIOUS
<1> USE DEF WriteShape
<1>1. todo \in Plans /\ todo # <<>> /\ Head(todo) # "createSession"
  BY Zenon DEF TypeOK, Write
<1>2. CASE todo = <<"users">>
  BY <1>2, PlanTails, Zenon DEF Write, Acknowledge, WroteUsers, Answered
<1>3. CASE todo = <<"sessions">>
  BY <1>3, PlanTails, Zenon DEF Write, Acknowledge, WroteSessions, Answered
<1>4. CASE todo = <<"users", "sessions">>
  BY <1>4, PlanTails DEF Write, Acknowledge, WroteUsers
<1>5. CASE todo = <<"users", "createSession", "sessions">>
  BY <1>5, PlanTails DEF Write, Acknowledge, WroteUsers
<1>6. QED
  BY <1>1, <1>2, <1>3, <1>4, <1>5, PlanTails, Zenon DEF Plans

\* registerAdmin() makes its session when the accounts are saved.
LEMMA RegisterPlan ==
    TypeOK /\ todo # <<>> /\ Head(todo) = "createSession"
      => todo = <<"createSession", "sessions">> /\ Tail(todo) = <<"sessions">>
  BY PlanTails, Zenon DEF TypeOK, Plans

\* Rounding the expiry of a session leaves a session.
LEMMA WholeSecondsType == \A s \in Sessions : WholeSeconds(s) \in Sessions
<1> SUFFICES ASSUME NEW s \in Sessions PROVE WholeSeconds(s) \in Sessions
  OBVIOUS
<1>1. \A e \in Nat : (e \div Second) * Second \in Nat
  BY AuthAssumption
<1>2. QED
  BY <1>1, Zenon DEF WholeSeconds, Sessions

\* One step keeps every variable in its type.
LEMMA StepType == TypeOK /\ [Next]_vars => TypeOK'
<1> SUFFICES ASSUME TypeOK, [Next]_vars PROVE TypeOK'
  OBVIOUS
<1>w. Write => WriteShape
  BY WriteCases, Zenon
<1>r. todo # <<>> /\ Head(todo) = "createSession"
      => todo = <<"createSession", "sessions">> /\ Tail(todo) = <<"sessions">>
  BY RegisterPlan, Zenon
<1> USE AuthAssumption, SentinelAssumption DEF TypeOK, Plans, NobodyTouched, NoUsers, NoSessions, NoActors
<1>1. ASSUME NEW id \in Ids, NEW e \in Emails, NEW p \in Passwords, RegisterAdmin(id, e, p) PROVE TypeOK'
  BY <1>1, Zenon DEF RegisterAdmin, BootstrapUser, StartWrites, SetUser, NewId, Idle, memory, files, Users, Roles
<1>2. ASSUME NEW id \in Ids, NEW t \in Tokens, RegisterSession(id, t) PROVE TypeOK'
  <2>1. [user |-> id, expiresAt |-> clock + Lifetime] \in Sessions
    BY DEF Sessions
  <2>2. todo' = <<"sessions">>
    BY <1>2, <1>r, Zenon DEF RegisterSession
  <2>3. sessions' \in [Tokens -> Sessions \cup {NoSession}]
    BY <1>2, <2>1, Zenon DEF RegisterSession, NewSession
  <2>4. issued' \subseteq Tokens
    BY <1>2, Zenon DEF RegisterSession, NewSession
  <2>5. QED
    BY <1>2, <2>2, <2>3, <2>4, Zenon DEF RegisterSession, files
<1>3. ASSUME NEW id \in Ids, NEW t \in Tokens, Login(id, t) PROVE TypeOK'
  BY <1>3 DEF Login, NewSession, StartWrites, Idle, memory, files, Sessions
<1>4. ASSUME NEW t \in Tokens, Logout(t) PROVE TypeOK'
  BY <1>4, Zenon DEF Logout, StartWrites, Idle, memory, files
<1>5. ASSUME NEW t \in Tokens, ResolveExpired(t) PROVE TypeOK'
  BY <1>5, Zenon DEF ResolveExpired, StartWrites, Idle, memory, files
<1>6. ASSUME NEW r \in Requests, NEW t \in Tokens, ResolveAdmin(r, t) PROVE TypeOK'
  BY <1>6, Zenon DEF ResolveAdmin, Idle, memory, files, Sessions, IsAdmin, Exists
<1>7. ASSUME NEW r \in Requests, NEW id \in Ids, NEW u \in Users, CreateUser(r, id, u) PROVE TypeOK'
  BY <1>7, Zenon DEF CreateUser, Acts, Idle, NewId, SetUser, StartWrites, UserWrites, memory, files
<1>8. ASSUME NEW r \in Requests, NEW id \in Ids, NEW u \in Users, UpdateUser(r, id, u) PROVE TypeOK'
  BY <1>8, Zenon DEF UpdateUser, Acts, Idle, SetUser, StartWrites, UserWrites, memory, files
<1>9. ASSUME NEW r \in Requests, NEW id \in Ids, DeleteUser(r, id) PROVE TypeOK'
  BY <1>9, Zenon DEF DeleteUser, Acts, Idle, SetUser, StartWrites, memory, files, SessionsOf
<1>10. ASSUME NEW id \in Ids, NEW e \in Emails, NEW p \in Passwords, BootstrapAdmin(id, e, p) PROVE TypeOK'
  BY <1>10, Zenon DEF BootstrapAdmin, BootstrapUser, StartWrites, UserWrites, SetUser, NewId, Idle, memory, files, Users, Roles
<1>11. ASSUME NEW id \in Ids, NEW u \in Users, ImportUser(id, u) PROVE TypeOK'
  BY <1>11, Zenon DEF ImportUser, StartWrites, UserWrites, SetUser, Idle, memory, files
<1>12. CASE Write
  <2>1. sessionsFile' \in [Tokens -> Sessions \cup {NoSession}]
    BY <1>12, <1>w, WholeSecondsType DEF WriteShape, WroteUsers, WroteSessions
  <2>2. \A t \in Tokens : Promised(t) \in Sessions \cup {NoSession, Unknown}
    BY Zenon DEF Promised
  <2>3. QED
    BY <1>12, <1>w, <2>1, <2>2 DEF Write, memory, WriteShape, WroteUsers, WroteSessions, Answered
<1>13. CASE WriteThrows
  BY <1>13, Zenon DEF WriteThrows, memory, files
<1>14. ASSUME NEW who \in {"sisterd", "sisterctl"}, Open(who) PROVE TypeOK'
  BY <1>14, Zenon DEF Open, KnownUser, memory, files
<1>15. CASE Down
  BY <1>15, Zenon DEF Down, memory, files
<1>16. CASE Tick
  BY <1>16 DEF Tick, memory, files
<1>17. CASE UNCHANGED vars
  BY <1>17, SMTT(60) DEF vars
<1>18. ASSUME NEW r \in Requests, EndWithoutChange(r) PROVE TypeOK'
  BY <1>18, SMTT(60) DEF EndWithoutChange, Acts, memory, files
<1>19. QED
  BY <1>1, <1>2, <1>3, <1>4, <1>5, <1>6, <1>7, <1>8, <1>9, <1>10, <1>11, <1>12, <1>13, <1>14, <1>15, <1>16, <1>17, <1>18, Zenon
     DEF Next, SisterdOperation, SisterctlOperation

\* One step keeps the plan of the operation in progress consistent.
LEMMA StepPlan == TypeOK /\ PlanInv /\ [Next]_vars => PlanInv'
<1> SUFFICES ASSUME TypeOK, PlanInv, [Next]_vars PROVE PlanInv'
  OBVIOUS
<1>w. Write => WriteShape
  BY WriteCases, Zenon
<1>r. todo # <<>> /\ Head(todo) = "createSession"
      => todo = <<"createSession", "sessions">> /\ Tail(todo) = <<"sessions">>
  BY RegisterPlan, Zenon
<1> USE AuthAssumption, SentinelAssumption DEF TypeOK, PlanInv, Plans, NobodyTouched, NoUsers, NoSessions, Exists
<1>1. ASSUME NEW id \in Ids, NEW e \in Emails, NEW p \in Passwords, RegisterAdmin(id, e, p) PROVE PlanInv'
  BY <1>1 DEF RegisterAdmin, BootstrapUser, StartWrites, SetUser, NewId, Idle, memory, files, Users, Roles
<1>2. ASSUME NEW id \in Ids, NEW t \in Tokens, RegisterSession(id, t) PROVE PlanInv'
  BY <1>2, <1>r DEF RegisterSession, NewSession, files
<1>3. ASSUME NEW id \in Ids, NEW t \in Tokens, Login(id, t) PROVE PlanInv'
  BY <1>3, Zenon DEF Login, NewSession, StartWrites, Idle, memory, files
<1>4. ASSUME NEW t \in Tokens, Logout(t) PROVE PlanInv'
  BY <1>4, Zenon DEF Logout, StartWrites, Idle, memory, files
<1>5. ASSUME NEW t \in Tokens, ResolveExpired(t) PROVE PlanInv'
  BY <1>5, Zenon DEF ResolveExpired, StartWrites, Idle, memory, files
<1>6. ASSUME NEW r \in Requests, NEW t \in Tokens, ResolveAdmin(r, t) PROVE PlanInv'
  BY <1>6, Zenon DEF ResolveAdmin, Idle, memory, files
<1>7. ASSUME NEW r \in Requests, NEW id \in Ids, NEW u \in Users, CreateUser(r, id, u) PROVE PlanInv'
  BY <1>7, Zenon DEF CreateUser, Acts, Idle, NewId, SetUser, StartWrites, UserWrites, memory, files
<1>8. ASSUME NEW r \in Requests, NEW id \in Ids, NEW u \in Users, UpdateUser(r, id, u) PROVE PlanInv'
  BY <1>8, Zenon DEF UpdateUser, Acts, Idle, SetUser, StartWrites, UserWrites, memory, files
<1>9. ASSUME NEW r \in Requests, NEW id \in Ids, DeleteUser(r, id) PROVE PlanInv'
  BY <1>9, Zenon DEF DeleteUser, Acts, Idle, SetUser, StartWrites, memory, files
<1>10. ASSUME NEW id \in Ids, NEW e \in Emails, NEW p \in Passwords, BootstrapAdmin(id, e, p) PROVE PlanInv'
  BY <1>10, Zenon DEF BootstrapAdmin, BootstrapUser, StartWrites, UserWrites, SetUser, NewId, Idle, memory, files
<1>11. ASSUME NEW id \in Ids, NEW u \in Users, ImportUser(id, u) PROVE PlanInv'
  BY <1>11, SMTT(60) DEF ImportUser, StartWrites, UserWrites, SetUser, Idle, memory, files
<1>12. CASE Write
  BY <1>12, <1>w DEF Write, memory, WriteShape, WroteUsers, WroteSessions, Answered
<1>13. CASE WriteThrows
  BY <1>13, Zenon DEF WriteThrows, memory, files
<1>14. ASSUME NEW who \in {"sisterd", "sisterctl"}, Open(who) PROVE PlanInv'
  BY <1>14 DEF Open, KnownUser, memory, files
<1>15. CASE Down
  BY <1>15, Zenon DEF Down, memory, files
<1>16. CASE Tick
  BY <1>16, Zenon DEF Tick, memory, files
<1>17. CASE UNCHANGED vars
  BY <1>17, SMTT(60) DEF vars
<1>18. ASSUME NEW r \in Requests, EndWithoutChange(r) PROVE PlanInv'
  BY <1>18, SMTT(60) DEF EndWithoutChange, Acts, memory, files
<1>19. QED
  BY <1>1, <1>2, <1>3, <1>4, <1>5, <1>6, <1>7, <1>8, <1>9, <1>10, <1>11, <1>12, <1>13, <1>14, <1>15, <1>16, <1>17, <1>18, Zenon
     DEF Next, SisterdOperation, SisterctlOperation

\* One step keeps the ids of all accounts among those given out.
LEMMA StepUsed == TypeOK /\ UsedInv /\ [Next]_vars => UsedInv'
<1> SUFFICES ASSUME TypeOK, UsedInv, [Next]_vars PROVE UsedInv'
  OBVIOUS
<1>t. /\ users \in [Ids -> Users \cup {NoUser}]
      /\ usersFile \in [Ids -> Users \cup {NoUser}]
  BY Zenon DEF TypeOK
<1> USE <1>t, SentinelAssumption DEF UsedInv, Exists, NoUsers
<1>1. ASSUME NEW id \in Ids, NEW e \in Emails, NEW p \in Passwords, RegisterAdmin(id, e, p) PROVE UsedInv'
  BY <1>1, Zenon DEF RegisterAdmin, BootstrapUser, SetUser, NewId, memory, files
<1>2. ASSUME NEW id \in Ids, NEW t \in Tokens, RegisterSession(id, t) PROVE UsedInv'
  BY <1>2, Zenon DEF RegisterSession, memory, files
<1>3. ASSUME NEW id \in Ids, NEW t \in Tokens, Login(id, t) PROVE UsedInv'
  BY <1>3, Zenon DEF Login, memory, files
<1>4. ASSUME NEW t \in Tokens, Logout(t) PROVE UsedInv'
  BY <1>4, Zenon DEF Logout, memory, files
<1>5. ASSUME NEW t \in Tokens, ResolveExpired(t) PROVE UsedInv'
  BY <1>5, Zenon DEF ResolveExpired, memory, files
<1>6. ASSUME NEW r \in Requests, NEW t \in Tokens, ResolveAdmin(r, t) PROVE UsedInv'
  BY <1>6, Zenon DEF ResolveAdmin, memory, files
<1>7. ASSUME NEW r \in Requests, NEW id \in Ids, NEW u \in Users, CreateUser(r, id, u) PROVE UsedInv'
  BY <1>7, Zenon DEF CreateUser, NewId, SetUser, memory, files
<1>8. ASSUME NEW r \in Requests, NEW id \in Ids, NEW u \in Users, UpdateUser(r, id, u) PROVE UsedInv'
  BY <1>8, Zenon DEF UpdateUser, SetUser, memory, files
<1>9. ASSUME NEW r \in Requests, NEW id \in Ids, DeleteUser(r, id) PROVE UsedInv'
  BY <1>9, SMTT(60) DEF DeleteUser, SetUser, memory, files
<1>10. ASSUME NEW id \in Ids, NEW e \in Emails, NEW p \in Passwords, BootstrapAdmin(id, e, p) PROVE UsedInv'
  BY <1>10, Zenon DEF BootstrapAdmin, BootstrapUser, SetUser, NewId, memory, files
<1>11. ASSUME NEW id \in Ids, NEW u \in Users, ImportUser(id, u) PROVE UsedInv'
  BY <1>11, Zenon DEF ImportUser, SetUser, memory, files
<1>12. CASE Write
  BY <1>12, Zenon DEF Write, memory
<1>13. CASE WriteThrows
  BY <1>13, Zenon DEF WriteThrows, memory, files
<1>14. ASSUME NEW who \in {"sisterd", "sisterctl"}, Open(who) PROVE UsedInv'
  BY <1>14, Zenon DEF Open, memory, files
<1>15. CASE Down
  BY <1>15, Zenon DEF Down, memory, files
<1>16. CASE Tick
  BY <1>16, Zenon DEF Tick, memory, files
<1>17. CASE UNCHANGED vars
  BY <1>17, SMTT(60) DEF vars
<1>18. ASSUME NEW r \in Requests, EndWithoutChange(r) PROVE UsedInv'
  BY <1>18, SMTT(60) DEF EndWithoutChange, Acts, memory, files
<1>19. QED
  BY <1>1, <1>2, <1>3, <1>4, <1>5, <1>6, <1>7, <1>8, <1>9, <1>10, <1>11, <1>12, <1>13, <1>14, <1>15, <1>16, <1>17, <1>18, Zenon
     DEF Next, SisterdOperation, SisterctlOperation

\* One step keeps a running process aware of an administrator.
LEMMA StepAdmin == TypeOK /\ UsedInv /\ AdminInv /\ [Next]_vars => AdminInv'
<1> SUFFICES ASSUME TypeOK, UsedInv, AdminInv, [Next]_vars PROVE AdminInv'
  OBVIOUS
<1>t. /\ users \in [Ids -> Users \cup {NoUser}]
      /\ usersFile \in [Ids -> Users \cup {NoUser}]
  BY Zenon DEF TypeOK
<1> USE <1>t, SentinelAssumption DEF UsedInv, AdminInv, HasAdmin, IsAdmin, Exists
<1>1. ASSUME NEW id \in Ids, NEW e \in Emails, NEW p \in Passwords, RegisterAdmin(id, e, p) PROVE AdminInv'
  <2>1. [email |-> e, role |-> "admin", password |-> p] \in Users
    BY Zenon DEF Users, Roles
  <2>2. QED
    BY <1>1, <2>1, Zenon DEF RegisterAdmin, BootstrapUser, SetUser, files
<1>2. ASSUME NEW id \in Ids, NEW t \in Tokens, RegisterSession(id, t) PROVE AdminInv'
  BY <1>2, Zenon DEF RegisterSession, memory, files
<1>3. ASSUME NEW id \in Ids, NEW t \in Tokens, Login(id, t) PROVE AdminInv'
  BY <1>3, Zenon DEF Login, Idle, memory, files
<1>4. ASSUME NEW t \in Tokens, Logout(t) PROVE AdminInv'
  BY <1>4, Zenon DEF Logout, Idle, memory, files
<1>5. ASSUME NEW t \in Tokens, ResolveExpired(t) PROVE AdminInv'
  BY <1>5, Zenon DEF ResolveExpired, Idle, memory, files
<1>6. ASSUME NEW r \in Requests, NEW t \in Tokens, ResolveAdmin(r, t) PROVE AdminInv'
  BY <1>6, Zenon DEF ResolveAdmin, Idle, memory, files
<1>7. ASSUME NEW r \in Requests, NEW id \in Ids, NEW u \in Users, CreateUser(r, id, u) PROVE AdminInv'
  BY <1>7, Zenon DEF CreateUser, Idle, NewId, SetUser, memory, files
<1>8. ASSUME NEW r \in Requests, NEW id \in Ids, NEW u \in Users, UpdateUser(r, id, u) PROVE AdminInv'
  BY <1>8, Zenon DEF UpdateUser, Idle, SetUser, memory, files, SoleAdmin
<1>9. ASSUME NEW r \in Requests, NEW id \in Ids, DeleteUser(r, id) PROVE AdminInv'
  BY <1>9, SMTT(60) DEF DeleteUser, Idle, SetUser, memory, files, SoleAdmin
<1>10. ASSUME NEW id \in Ids, NEW e \in Emails, NEW p \in Passwords, BootstrapAdmin(id, e, p) PROVE AdminInv'
  <2>1. [email |-> e, role |-> "admin", password |-> p] \in Users
    BY Zenon DEF Users, Roles
  <2>2. QED
    BY <1>10, <2>1, Zenon DEF BootstrapAdmin, BootstrapUser, SetUser, files
<1>11. ASSUME NEW id \in Ids, NEW u \in Users, ImportUser(id, u) PROVE AdminInv'
  BY <1>11, Zenon DEF ImportUser, SetUser, Idle, memory, files
<1>12. CASE Write
  BY <1>12, Zenon DEF Write, memory
<1>13. CASE WriteThrows
  BY <1>13, Zenon DEF WriteThrows, memory, files
<1>14. ASSUME NEW who \in {"sisterd", "sisterctl"}, Open(who) PROVE AdminInv'
  BY <1>14, Zenon DEF Open, memory, files
<1>15. CASE Down
  BY <1>15, Zenon DEF Down, memory, files
<1>16. CASE Tick
  BY <1>16, Zenon DEF Tick, memory, files
<1>17. CASE UNCHANGED vars
  BY <1>17, SMTT(60) DEF vars
<1>18. ASSUME NEW r \in Requests, EndWithoutChange(r) PROVE AdminInv'
  BY <1>18, SMTT(60) DEF EndWithoutChange, Acts, memory, files
<1>19. QED
  BY <1>1, <1>2, <1>3, <1>4, <1>5, <1>6, <1>7, <1>8, <1>9, <1>10, <1>11, <1>12, <1>13, <1>14, <1>15, <1>16, <1>17, <1>18, Zenon
     DEF Next, SisterdOperation, SisterctlOperation

\* One step keeps the e-mail addresses apart.
LEMMA StepEmail == TypeOK /\ UsedInv /\ OneAccountPerEmail /\ [Next]_vars => OneAccountPerEmail'
<1> SUFFICES ASSUME TypeOK, UsedInv, OneAccountPerEmail, [Next]_vars PROVE OneAccountPerEmail'
  OBVIOUS
<1>t. /\ users \in [Ids -> Users \cup {NoUser}]
      /\ usersFile \in [Ids -> Users \cup {NoUser}]
  BY SMTT(60) DEF TypeOK
<1> USE <1>t, SentinelAssumption DEF UsedInv, OneAccountPerEmail, EmailsApart, Exists, NoUsers
<1>1. ASSUME NEW id \in Ids, NEW e \in Emails, NEW p \in Passwords, RegisterAdmin(id, e, p) PROVE OneAccountPerEmail'
  <2>1. [email |-> e, role |-> "admin", password |-> p] \in Users
    BY Zenon DEF Users, Roles
  <2>2. QED
    BY <1>1, <2>1, Zenon DEF RegisterAdmin, BootstrapUser, SetUser, Empty, files
<1>2. ASSUME NEW id \in Ids, NEW t \in Tokens, RegisterSession(id, t) PROVE OneAccountPerEmail'
  BY <1>2, Zenon DEF RegisterSession, memory, files
<1>3. ASSUME NEW id \in Ids, NEW t \in Tokens, Login(id, t) PROVE OneAccountPerEmail'
  BY <1>3, Zenon DEF Login, memory, files
<1>4. ASSUME NEW t \in Tokens, Logout(t) PROVE OneAccountPerEmail'
  BY <1>4, Zenon DEF Logout, memory, files
<1>5. ASSUME NEW t \in Tokens, ResolveExpired(t) PROVE OneAccountPerEmail'
  BY <1>5, SMTT(60) DEF ResolveExpired, memory, files
<1>6. ASSUME NEW r \in Requests, NEW t \in Tokens, ResolveAdmin(r, t) PROVE OneAccountPerEmail'
  BY <1>6, Zenon DEF ResolveAdmin, memory, files
<1>7. ASSUME NEW r \in Requests, NEW id \in Ids, NEW u \in Users, CreateUser(r, id, u) PROVE OneAccountPerEmail'
  BY <1>7, Zenon DEF CreateUser, NewId, SetUser, memory, files, EmailTaken
<1>8. ASSUME NEW r \in Requests, NEW id \in Ids, NEW u \in Users, UpdateUser(r, id, u) PROVE OneAccountPerEmail'
  BY <1>8, SMTT(60) DEF UpdateUser, SetUser, memory, files, EmailTaken
<1>9. ASSUME NEW r \in Requests, NEW id \in Ids, DeleteUser(r, id) PROVE OneAccountPerEmail'
  BY <1>9, SMTT(60) DEF DeleteUser, SetUser, memory, files
<1>10. ASSUME NEW id \in Ids, NEW e \in Emails, NEW p \in Passwords, BootstrapAdmin(id, e, p) PROVE OneAccountPerEmail'
  <2>1. [email |-> e, role |-> "admin", password |-> p] \in Users
    BY Zenon DEF Users, Roles
  <2>2. QED
    BY <1>10, <2>1, Zenon DEF BootstrapAdmin, BootstrapUser, SetUser, Empty, files
<1>11. ASSUME NEW id \in Ids, NEW u \in Users, ImportUser(id, u) PROVE OneAccountPerEmail'
  BY <1>11, SMTT(60) DEF ImportUser, SetUser, memory, files, EmailTaken
<1>12. CASE Write
  BY <1>12 DEF Write, memory
<1>13. CASE WriteThrows
  BY <1>13, Zenon DEF WriteThrows, memory, files
<1>14. ASSUME NEW who \in {"sisterd", "sisterctl"}, Open(who) PROVE OneAccountPerEmail'
  BY <1>14, Zenon DEF Open, memory, files
<1>15. CASE Down
  BY <1>15, Zenon DEF Down, memory, files
<1>16. CASE Tick
  BY <1>16, Zenon DEF Tick, memory, files
<1>17. CASE UNCHANGED vars
  BY <1>17, SMTT(60) DEF vars
<1>18. ASSUME NEW r \in Requests, EndWithoutChange(r) PROVE OneAccountPerEmail'
  BY <1>18, SMTT(60) DEF EndWithoutChange, Acts, memory, files
<1>19. QED
  BY <1>1, <1>2, <1>3, <1>4, <1>5, <1>6, <1>7, <1>8, <1>9, <1>10, <1>11, <1>12, <1>13, <1>14, <1>15, <1>16, <1>17, <1>18, Zenon
     DEF Next, SisterdOperation, SisterctlOperation

-----------------------------------------------------------------------------
(***************************************************************************)
(* The parts together: a step keeps the invariant.                         *)
(***************************************************************************)
LEMMA InductiveStep == IInv /\ [Next]_vars => IInv'
  BY StepType, StepPlan, StepUsed, StepAdmin, StepEmail, Zenon DEF IInv

\* Every reachable state satisfies the invariant.
LEMMA Inductive == Spec => []IInv
  BY InitInv, InductiveStep, PTL DEF Spec

\* The state of the store keeps its type (TypeOK).
THEOREM TypeCorrect == Spec => []TypeOK
<1>1. IInv => TypeOK
  BY Zenon DEF IInv
<1>2. QED
  BY <1>1, Inductive, PTL

\* createUser(), updateUser() and importUser() never let two accounts share
\* an e-mail address, in memory or on disk.
THEOREM EmailsAreUnique == Spec => []OneAccountPerEmail
<1>1. IInv => OneAccountPerEmail
  BY Zenon DEF IInv
<1>2. QED
  BY <1>1, Inductive, PTL

\* The disk never loses its last administrator: updateUser() and deleteUser()
\* count administrators in a memory that always has one when the disk has.
THEOREM AdministratorStays == Spec => AdminNeverLost
<1>1. IInv /\ [Next]_vars => [HasAdmin(usersFile) => HasAdmin(usersFile')]_vars
  <2> SUFFICES ASSUME IInv, [Next]_vars PROVE HasAdmin(usersFile) => HasAdmin(usersFile')
    OBVIOUS
  <2>1. CASE Write
    <3>1. process # "down"
      BY <2>1, SMTT(60) DEF IInv, PlanInv, Write
    <3>2. usersFile' = users \/ usersFile' = usersFile
      BY <2>1, Zenon DEF Write
    <3>3. QED
      BY <3>1, <3>2, Zenon DEF IInv, AdminInv
  <2>2. CASE ~Write
    <3>1. usersFile' = usersFile
      BY <2>2, Zenon DEF Next, vars, SisterdOperation, SisterctlOperation, files, RegisterAdmin,
         RegisterSession, Login, Logout, ResolveExpired, ResolveAdmin, CreateUser, UpdateUser,
         DeleteUser, EndWithoutChange, BootstrapAdmin, ImportUser, WriteThrows, Open, Down, Tick
    <3>2. QED
      BY <3>1, Zenon
  <2>3. QED
    BY <2>1, <2>2, Zenon
<1>2. QED
  BY <1>1, Inductive, PTL DEF Spec, AdminNeverLost

-----------------------------------------------------------------------------
(***************************************************************************)
(* What the store tells its clients it keeps: acknowledged accounts, ended *)
(* sessions, live sessions, and sessions that lead to an account.          *)
(***************************************************************************)
AckInv == IInv /\ AckedUsersDurable /\ RevokedStaysRevoked /\ SessionsHaveUsers

\* Init establishes the invariant.
LEMMA InitAck == Init => AckInv
<1> SUFFICES ASSUME Init PROVE AckInv
  OBVIOUS
<1>1. AckedUsersDurable /\ RevokedStaysRevoked /\ SessionsHaveUsers
  BY SentinelAssumption
 , Zenon DEF Init, NoUsers, NoSessions, AckedUsersDurable, RevokedStaysRevoked, SessionsHaveUsers
<1>2. QED
  BY <1>1, InitInv, Zenon DEF AckInv

\* One step keeps every acknowledged account on disk and in memory.
LEMMA StepAcked == TypeOK /\ PlanInv /\ AckedUsersDurable /\ [Next]_vars => AckedUsersDurable'
<1> SUFFICES ASSUME TypeOK, PlanInv, AckedUsersDurable, [Next]_vars PROVE AckedUsersDurable'
  OBVIOUS
<1>w. Write => WriteShape
  BY WriteCases, Zenon
<1>t. /\ users \in [Ids -> Users \cup {NoUser}]
      /\ usersFile \in [Ids -> Users \cup {NoUser}]
      /\ touched \in [ids : SUBSET Ids, tokens : SUBSET Tokens]
      /\ told \in [Ids -> Users \cup {NoUser, Unknown}]
  BY SMTT(60) DEF TypeOK
<1> USE <1>t, SentinelAssumption DEF AckedUsersDurable
<1>1. ASSUME NEW id \in Ids, NEW e \in Emails, NEW p \in Passwords, RegisterAdmin(id, e, p) PROVE AckedUsersDurable'
  BY <1>1, Zenon DEF RegisterAdmin, BootstrapUser, StartWrites, SetUser, Idle, memory, files
<1>2. ASSUME NEW id \in Ids, NEW t \in Tokens, RegisterSession(id, t) PROVE AckedUsersDurable'
  BY <1>2, SMTT(60) DEF RegisterSession, memory, files, PlanInv
<1>3. ASSUME NEW id \in Ids, NEW t \in Tokens, Login(id, t) PROVE AckedUsersDurable'
  BY <1>3, SMTT(60) DEF Login, StartWrites, Idle, memory, files
<1>4. ASSUME NEW t \in Tokens, Logout(t) PROVE AckedUsersDurable'
  BY <1>4, SMTT(60) DEF Logout, StartWrites, Idle, memory, files
<1>5. ASSUME NEW t \in Tokens, ResolveExpired(t) PROVE AckedUsersDurable'
  BY <1>5, SMTT(60) DEF ResolveExpired, StartWrites, Idle, memory, files
<1>6. ASSUME NEW r \in Requests, NEW t \in Tokens, ResolveAdmin(r, t) PROVE AckedUsersDurable'
  BY <1>6, SMTT(60) DEF ResolveAdmin, Idle, memory, files
<1>7. ASSUME NEW r \in Requests, NEW id \in Ids, NEW u \in Users, CreateUser(r, id, u) PROVE AckedUsersDurable'
  BY <1>7, SMTT(60) DEF CreateUser, Idle, SetUser, StartWrites, memory, files
<1>8. ASSUME NEW r \in Requests, NEW id \in Ids, NEW u \in Users, UpdateUser(r, id, u) PROVE AckedUsersDurable'
  BY <1>8, SMTT(60) DEF UpdateUser, Idle, SetUser, StartWrites, memory, files
<1>9. ASSUME NEW r \in Requests, NEW id \in Ids, DeleteUser(r, id) PROVE AckedUsersDurable'
  BY <1>9, SMTT(60) DEF DeleteUser, Idle, SetUser, StartWrites, memory, files
<1>10. ASSUME NEW id \in Ids, NEW e \in Emails, NEW p \in Passwords, BootstrapAdmin(id, e, p) PROVE AckedUsersDurable'
  BY <1>10, ZenonT(40) DEF BootstrapAdmin, BootstrapUser, StartWrites, SetUser, Idle, memory, files
<1>11. ASSUME NEW id \in Ids, NEW u \in Users, ImportUser(id, u) PROVE AckedUsersDurable'
  BY <1>11, ZenonT(40) DEF ImportUser, StartWrites, SetUser, Idle, memory, files
<1>12. CASE Write
  BY <1>12, <1>w DEF Write, memory, WriteShape, WroteUsers, WroteSessions, Answered, PlanInv
<1>13. CASE WriteThrows
  BY <1>13, Zenon DEF WriteThrows, memory, files
<1>14. ASSUME NEW who \in {"sisterd", "sisterctl"}, Open(who) PROVE AckedUsersDurable'
  BY <1>14, Zenon DEF Open, memory, files, PlanInv
<1>15. CASE Down
  BY <1>15, Zenon DEF Down, memory, files
<1>16. CASE Tick
  BY <1>16, Zenon DEF Tick, memory, files
<1>17. CASE UNCHANGED vars
  BY <1>17, SMTT(60) DEF vars
<1>18. ASSUME NEW r \in Requests, EndWithoutChange(r) PROVE AckedUsersDurable'
  BY <1>18, SMTT(60) DEF EndWithoutChange, Acts, memory, files
<1>19. QED
  BY <1>1, <1>2, <1>3, <1>4, <1>5, <1>6, <1>7, <1>8, <1>9, <1>10, <1>11, <1>12, <1>13, <1>14, <1>15, <1>16, <1>17, <1>18, Zenon
     DEF Next, SisterdOperation, SisterctlOperation

\* One step brings no revoked session back.
LEMMA StepRevoked == TypeOK /\ PlanInv /\ RevokedStaysRevoked /\ [Next]_vars => RevokedStaysRevoked'
<1> SUFFICES ASSUME TypeOK, PlanInv, RevokedStaysRevoked, [Next]_vars PROVE RevokedStaysRevoked'
  OBVIOUS
<1>w. Write => WriteShape
  BY WriteCases, Zenon
<1>t. /\ sessions \in [Tokens -> Sessions \cup {NoSession}]
      /\ sessionsFile \in [Tokens -> Sessions \cup {NoSession}]
      /\ touched \in [ids : SUBSET Ids, tokens : SUBSET Tokens]
      /\ toldToken \in [Tokens -> Sessions \cup {NoSession, Unknown}]
  BY SMTT(60) DEF TypeOK
<1> USE <1>t, SentinelAssumption DEF RevokedStaysRevoked, NoSessions
<1>1. ASSUME NEW id \in Ids, NEW e \in Emails, NEW p \in Passwords, RegisterAdmin(id, e, p) PROVE RevokedStaysRevoked'
  BY <1>1, Zenon DEF RegisterAdmin, BootstrapUser, StartWrites, memory, files
<1>2. ASSUME NEW id \in Ids, NEW t \in Tokens, RegisterSession(id, t) PROVE RevokedStaysRevoked'
  BY <1>2, SMTT(60) DEF RegisterSession, NewSession, memory, files, PlanInv
<1>3. ASSUME NEW id \in Ids, NEW t \in Tokens, Login(id, t) PROVE RevokedStaysRevoked'
  BY <1>3, SMTT(60) DEF Login, NewSession, StartWrites, memory, files
<1>4. ASSUME NEW t \in Tokens, Logout(t) PROVE RevokedStaysRevoked'
  BY <1>4, SMTT(60) DEF Logout, StartWrites, memory, files
<1>5. ASSUME NEW t \in Tokens, ResolveExpired(t) PROVE RevokedStaysRevoked'
  BY <1>5, SMTT(60) DEF ResolveExpired, StartWrites, memory, files
<1>6. ASSUME NEW r \in Requests, NEW t \in Tokens, ResolveAdmin(r, t) PROVE RevokedStaysRevoked'
  BY <1>6, SMTT(60) DEF ResolveAdmin, memory, files
<1>7. ASSUME NEW r \in Requests, NEW id \in Ids, NEW u \in Users, CreateUser(r, id, u) PROVE RevokedStaysRevoked'
  BY <1>7, SMTT(60) DEF CreateUser, StartWrites, memory, files
<1>8. ASSUME NEW r \in Requests, NEW id \in Ids, NEW u \in Users, UpdateUser(r, id, u) PROVE RevokedStaysRevoked'
  BY <1>8, SMTT(60) DEF UpdateUser, StartWrites, memory, files
<1>9. ASSUME NEW r \in Requests, NEW id \in Ids, DeleteUser(r, id) PROVE RevokedStaysRevoked'
  BY <1>9, SMTT(60) DEF DeleteUser, StartWrites, memory, files, SessionsOf
<1>10. ASSUME NEW id \in Ids, NEW e \in Emails, NEW p \in Passwords, BootstrapAdmin(id, e, p) PROVE RevokedStaysRevoked'
  BY <1>10, ZenonT(40) DEF BootstrapAdmin, BootstrapUser, StartWrites, memory, files
<1>11. ASSUME NEW id \in Ids, NEW u \in Users, ImportUser(id, u) PROVE RevokedStaysRevoked'
  BY <1>11, Zenon DEF ImportUser, StartWrites, memory, files
<1>12. CASE Write
  <2>1. \A t \in Tokens : Promised(t) = NoSession => sessions[t] = NoSession
    BY Zenon DEF Promised
  <2>2. QED
    BY <1>12, <1>w, <2>1, SMTT(60) DEF Write, memory, WriteShape, WroteUsers, WroteSessions, Answered, PlanInv
<1>13. CASE WriteThrows
  BY <1>13, Zenon DEF WriteThrows, memory, files
<1>14. ASSUME NEW who \in {"sisterd", "sisterctl"}, Open(who) PROVE RevokedStaysRevoked'
  BY <1>14, Zenon DEF Open, KnownUser, memory, files, PlanInv
<1>15. CASE Down
  BY <1>15, SMTT(60) DEF Down, memory, files
<1>16. CASE Tick
  BY <1>16, SMTT(60) DEF Tick, memory, files
<1>17. CASE UNCHANGED vars
  BY <1>17, SMTT(60) DEF vars
<1>18. ASSUME NEW r \in Requests, EndWithoutChange(r) PROVE RevokedStaysRevoked'
  BY <1>18, SMTT(60) DEF EndWithoutChange, Acts, memory, files
<1>19. QED
  BY <1>1, <1>2, <1>3, <1>4, <1>5, <1>6, <1>7, <1>8, <1>9, <1>10, <1>11, <1>12, <1>13, <1>14, <1>15, <1>16, <1>17, <1>18, Zenon
     DEF Next, SisterdOperation, SisterctlOperation

\* One step leaves no session without its account.
LEMMA StepSessions == TypeOK /\ PlanInv /\ SessionsHaveUsers /\ [Next]_vars => SessionsHaveUsers'
<1> SUFFICES ASSUME TypeOK, PlanInv, SessionsHaveUsers, [Next]_vars PROVE SessionsHaveUsers'
  OBVIOUS
<1>r. todo # <<>> /\ Head(todo) = "createSession"
      => todo = <<"createSession", "sessions">> /\ Tail(todo) = <<"sessions">>
  BY RegisterPlan, Zenon
<1>t. /\ users \in [Ids -> Users \cup {NoUser}]
      /\ usersFile \in [Ids -> Users \cup {NoUser}]
      /\ sessions \in [Tokens -> Sessions \cup {NoSession}]
      /\ sessionsFile \in [Tokens -> Sessions \cup {NoSession}]
      /\ touched \in [ids : SUBSET Ids, tokens : SUBSET Tokens]
  BY SMTT(60) DEF TypeOK
<1> USE <1>t, SentinelAssumption DEF SessionsHaveUsers, Exists, NoSessions, Sessions
<1>1. ASSUME NEW id \in Ids, NEW e \in Emails, NEW p \in Passwords, RegisterAdmin(id, e, p) PROVE SessionsHaveUsers'
  <2>1. [email |-> e, role |-> "admin", password |-> p] \in Users
    BY Zenon DEF Users, Roles
  <2>2. QED
    BY <1>1, <2>1, SMTT(60) DEF RegisterAdmin, BootstrapUser, SetUser
<1>2. ASSUME NEW id \in Ids, NEW t \in Tokens, RegisterSession(id, t) PROVE SessionsHaveUsers'
  BY <1>2, <1>r, SMTT(60) DEF RegisterSession, NewSession, files, PlanInv
<1>3. ASSUME NEW id \in Ids, NEW t \in Tokens, Login(id, t) PROVE SessionsHaveUsers'
  BY <1>3, SMTT(60) DEF Login, NewSession, memory, files
<1>4. ASSUME NEW t \in Tokens, Logout(t) PROVE SessionsHaveUsers'
  BY <1>4, SMTT(60) DEF Logout, memory, files
<1>5. ASSUME NEW t \in Tokens, ResolveExpired(t) PROVE SessionsHaveUsers'
  BY <1>5, SMTT(60) DEF ResolveExpired, memory, files
<1>6. ASSUME NEW r \in Requests, NEW t \in Tokens, ResolveAdmin(r, t) PROVE SessionsHaveUsers'
  BY <1>6, SMTT(60) DEF ResolveAdmin, memory, files
<1>7. ASSUME NEW r \in Requests, NEW id \in Ids, NEW u \in Users, CreateUser(r, id, u) PROVE SessionsHaveUsers'
  BY <1>7, SMTT(60) DEF CreateUser, SetUser, memory, files
<1>8. ASSUME NEW r \in Requests, NEW id \in Ids, NEW u \in Users, UpdateUser(r, id, u) PROVE SessionsHaveUsers'
  BY <1>8, SMTT(60) DEF UpdateUser, SetUser, memory, files
<1>9. ASSUME NEW r \in Requests, NEW id \in Ids, DeleteUser(r, id) PROVE SessionsHaveUsers'
  BY <1>9, SMTT(60) DEF DeleteUser, SetUser, memory, files, SessionsOf
<1>10. ASSUME NEW id \in Ids, NEW e \in Emails, NEW p \in Passwords, BootstrapAdmin(id, e, p) PROVE SessionsHaveUsers'
  <2>1. [email |-> e, role |-> "admin", password |-> p] \in Users
    BY Zenon DEF Users, Roles
  <2>2. QED
    BY <1>10, <2>1, ZenonT(40) DEF BootstrapAdmin, BootstrapUser, SetUser
<1>11. ASSUME NEW id \in Ids, NEW u \in Users, ImportUser(id, u) PROVE SessionsHaveUsers'
  BY <1>11, Zenon DEF ImportUser, SetUser, memory, files
<1>12. CASE Write
  BY <1>12, Zenon DEF Write, memory, PlanInv
<1>13. CASE WriteThrows
  BY <1>13, SMTT(60) DEF WriteThrows, memory, files
<1>14. ASSUME NEW who \in {"sisterd", "sisterctl"}, Open(who) PROVE SessionsHaveUsers'
  BY <1>14, Zenon DEF Open, KnownUser, memory, files, PlanInv
<1>15. CASE Down
  BY <1>15, Zenon DEF Down, memory, files
<1>16. CASE Tick
  BY <1>16, Zenon DEF Tick, memory, files
<1>17. CASE UNCHANGED vars
  BY <1>17, Zenon DEF vars
<1>18. ASSUME NEW r \in Requests, EndWithoutChange(r) PROVE SessionsHaveUsers'
  BY <1>18, SMTT(60) DEF EndWithoutChange, Acts, memory, files
<1>19. QED
  BY <1>1, <1>2, <1>3, <1>4, <1>5, <1>6, <1>7, <1>8, <1>9, <1>10, <1>11, <1>12, <1>13, <1>14, <1>15, <1>16, <1>17, <1>18, Zenon
     DEF Next, SisterdOperation, SisterctlOperation

-----------------------------------------------------------------------------
\* The parts together: every reachable state satisfies the invariant.
LEMMA AckInductive == Spec => []AckInv
<1>1. AckInv /\ [Next]_vars => AckInv'
  BY InductiveStep, StepAcked, StepRevoked, StepSessions, Zenon DEF AckInv, IInv
<1>2. QED
  BY InitAck, <1>1, PTL DEF Spec

\* An account change that was acknowledged is on disk, and in the memory of a
\* running process, until another operation touches the account: save() is
\* complete before the handler answers.
THEOREM AcknowledgedUsersAreDurable == Spec => []AckedUsersDurable
<1>1. AckInv => AckedUsersDurable
  BY Zenon DEF AckInv
<1>2. QED
  BY <1>1, AckInductive, PTL

\* A session acknowledged as ended by logout(), deleteUser() or expiry does
\* not come back, even if loadSessions() reads the file again.
THEOREM RevocationLasts == Spec => []RevokedStaysRevoked
<1>1. AckInv => RevokedStaysRevoked
  BY Zenon DEF AckInv
<1>2. QED
  BY <1>1, AckInductive, PTL

\* No session in memory outlives its account, although deleteUser() writes
\* the two files one after the other.
THEOREM SessionsLeadToUsers == Spec => []SessionsHaveUsers
<1>1. AckInv => SessionsHaveUsers
  BY Zenon DEF AckInv
<1>2. QED
  BY <1>1, AckInductive, PTL

-----------------------------------------------------------------------------
(***************************************************************************)
(* Live sessions.  A restart honours a session only if its account is on   *)
(* disk too, and the next save() keeps the account there only if it is in  *)
(* memory: the invariant adds both to ActiveSessionPersists.               *)
(***************************************************************************)
Live(t) == toldToken[t] \in Sessions /\ clock < WholeSeconds(toldToken[t]).expiresAt

Kept(t) ==
    /\ sessionsFile[t] = WholeSeconds(toldToken[t])
    /\ Exists(usersFile, toldToken[t].user)
    /\ process # "down" => /\ Exists(users, toldToken[t].user)
                           /\ sessions[t] \in {toldToken[t], WholeSeconds(toldToken[t])}

LiveInv == \A t \in Tokens : Live(t) => Kept(t)

\* Rounding down to whole seconds changes nothing the second time.
LEMMA WholeSecondsFacts ==
    ASSUME NEW s \in Sessions
    PROVE  /\ WholeSeconds(s) \in Sessions
           /\ WholeSeconds(s).user = s.user
           /\ WholeSeconds(s).expiresAt \in Nat
           /\ WholeSeconds(WholeSeconds(s)) = WholeSeconds(s)
<1> DEFINE e == s.expiresAt
           q == e \div Second
           w == WholeSeconds(s)
<1>1. e \in Nat /\ s = [user |-> s.user, expiresAt |-> e] /\ s.user \in Ids
  BY Zenon DEF Sessions
<1>2. q \in Nat /\ Second \in Nat \ {0}
  BY <1>1, AuthAssumption
<1>3. w = [user |-> s.user, expiresAt |-> q * Second]
  BY <1>1 DEF WholeSeconds
<1> HIDE DEF q
<1>4. q * Second \in Nat /\ (q * Second) \div Second = q
  BY <1>2
<1>5. w.user = s.user /\ w.expiresAt = q * Second
  BY <1>3
<1>6. w \in Sessions
  BY <1>1, <1>3, <1>4 DEF Sessions
<1> HIDE DEF w
<1>7. WholeSeconds(w) = [user |-> s.user, expiresAt |-> q * Second]
  BY <1>3, <1>4 DEF WholeSeconds
<1>8. QED
  BY <1>3, <1>4, <1>5, <1>6, <1>7, Zenon DEF w

\* A step that leaves the files and the session alone and loses no account keeps it.
LEMMA LeftAlone ==
    ASSUME TypeOK, LiveInv, NEW t \in Tokens, Live(t)',
           UNCHANGED <<process, usersFile, sessionsFile>>, clock' \in {clock, clock + 1},
           toldToken'[t] # Unknown => toldToken'[t] = toldToken[t] /\ sessions'[t] = sessions[t],
           \A i \in Ids : Exists(users, i) => Exists(users', i)
    PROVE  Kept(t)'
<1> DEFINE s == toldToken[t]
<1>1. s \in Sessions /\ toldToken'[t] = s /\ sessions'[t] = sessions[t]
  BY SentinelAssumption, Zenon DEF Live
<1>2. WholeSeconds(s).expiresAt \in Nat /\ clock \in Nat /\ s.user \in Ids
  BY <1>1, WholeSecondsFacts, Zenon DEF TypeOK, Sessions
<1>3. clock' < WholeSeconds(s).expiresAt
  BY <1>1, Zenon DEF Live
<1>4. Live(t)
  BY <1>1, <1>2, <1>3 DEF Live
<1>5. Kept(t)
  BY <1>4, Zenon DEF LiveInv
<1> HIDE DEF s
<1>6. QED
  BY <1>1, <1>2, <1>5, Zenon DEF Kept, Exists, s

\* An account is still there when another, or itself, is stored as an account.
LEMMA SetKeepsUsers ==
    ASSUME TypeOK, NEW id \in Ids, NEW u \in Users, SetUser(id, u)
    PROVE  \A i \in Ids : Exists(users, i) => Exists(users', i)
  BY SentinelAssumption, Zenon DEF TypeOK, SetUser, Exists

\* An acknowledged write of the sessions.
LEMMA SessionsWritten ==
    ASSUME AckInv, LiveInv, NEW t \in Tokens, Live(t)', todo = <<"sessions">>,
           WroteSessions, Answered, UNCHANGED <<process, users, sessions, clock>>
    PROVE  Kept(t)'
<1> DEFINE s == toldToken'[t]
<1>1. s \in Sessions /\ clock < WholeSeconds(s).expiresAt
  BY Zenon DEF Live
<1>2. process # "down"
  BY Zenon DEF AckInv, IInv, PlanInv
<1>3. TypeOK /\ SessionsHaveUsers
  BY Zenon DEF AckInv, IInv
<1>4. sessions[t] # NoSession => sessionsFile'[t] = WholeSeconds(sessions[t])
  BY Zenon DEF WroteSessions
<1>5. CASE t \in touched.tokens
  <2>1. s = Promised(t)
    BY <1>5, Zenon DEF Answered
  <2>2. sessions[t] # NoSession /\ s = sessions[t] /\ Exists(usersFile, sessions[t].user)
    BY <1>1, <2>1, SentinelAssumption, Zenon DEF Promised
  <2>3. Exists(users, s.user)
    BY <1>3, <2>2, Zenon DEF SessionsHaveUsers
  <2> HIDE DEF s
  <2>4. sessionsFile'[t] = WholeSeconds(s) /\ Exists(usersFile', s.user)
        /\ Exists(users', s.user) /\ sessions'[t] = s
    BY <1>4, <2>2, <2>3, Zenon DEF WroteSessions, Exists
  <2>5. QED
    BY <2>4, Zenon DEF Kept, s, Exists
<1>6. CASE t \notin touched.tokens
  <2>1. s = toldToken[t]
    BY <1>6, Zenon DEF Answered
  <2>2. Kept(t)
    BY <1>1, <2>1, Zenon DEF Live, LiveInv
  <2> HIDE DEF s
  <2>3. /\ WholeSeconds(s) \in Sessions
        /\ WholeSeconds(WholeSeconds(s)) = WholeSeconds(s)
    BY <1>1, WholeSecondsFacts, Zenon
  <2>4. sessions[t] \in {s, WholeSeconds(s)} /\ Exists(users, s.user)
        /\ Exists(usersFile, s.user)
    BY <1>2, <2>1, <2>2, Zenon DEF Kept
  <2>5. sessions[t] # NoSession
    BY <1>1, <2>3, <2>4, SentinelAssumption, Zenon
  <2>6. sessionsFile'[t] = WholeSeconds(s)
    BY <1>4, <2>3, <2>4, <2>5, Zenon
  <2>7. Exists(usersFile', s.user) /\ Exists(users', s.user)
    BY <2>4, Zenon DEF WroteSessions, Exists
  <2>8. QED
    BY <2>4, <2>6, <2>7, Zenon DEF Kept, s, Exists
<1>7. QED
  BY <1>5, <1>6, Zenon

\* A write of the accounts, acknowledged or not.
LEMMA UsersWritten ==
    ASSUME AckInv, LiveInv, NEW t \in Tokens, Live(t)', todo # <<>>, WroteUsers,
           toldToken'[t] = toldToken[t], UNCHANGED <<process, users, sessions, clock>>
    PROVE  Kept(t)'
<1>1. process # "down"
  BY Zenon DEF AckInv, IInv, PlanInv
<1>2. Kept(t)
  BY Zenon DEF Live, LiveInv
<1>3. QED
  BY <1>1, <1>2, Zenon DEF Kept, WroteUsers, Exists

\* deleteUser() takes the sessions of the account with it.
LEMMA DeleteSpares ==
    ASSUME TypeOK, LiveInv, NEW t \in Tokens, Live(t)', NEW r \in Requests, NEW id \in Ids,
           DeleteUser(r, id)
    PROVE  Kept(t)'
<1> DEFINE s == toldToken[t]
<1>1. t \notin SessionsOf(id) /\ toldToken'[t] = s
  BY SentinelAssumption, Zenon DEF DeleteUser, StartWrites, Live
<1>2. s \in Sessions /\ process # "down" /\ UNCHANGED <<process, usersFile, sessionsFile, clock>>
  BY <1>1, Zenon DEF Live, DeleteUser, Acts, Idle, files
<1>3. Kept(t)
  BY <1>1, <1>2, Zenon DEF Live, LiveInv
<1>4. WholeSeconds(s) \in Sessions /\ WholeSeconds(s).user = s.user
  BY <1>2, WholeSecondsFacts, Zenon
<1>5. sessions[t] \in Sessions /\ sessions[t].user = s.user
  BY <1>2, <1>3, <1>4, Zenon DEF Kept
<1>6. s.user # id
  BY <1>1, <1>5, SentinelAssumption, Zenon DEF SessionsOf
<1>7. sessions'[t] = sessions[t]
  BY <1>1, Zenon DEF DeleteUser
<1>8. s.user \in Ids
  BY <1>2, Zenon DEF Sessions
<1>9. users'[s.user] = users[s.user]
  BY <1>6, <1>8, Zenon DEF TypeOK, DeleteUser, SetUser
<1> HIDE DEF s
<1>10. QED
  BY <1>1, <1>2, <1>3, <1>7, <1>9, Zenon DEF Kept, Exists, s

\* A restart reads the account and the session from disk.
LEMMA OpenRestores ==
    ASSUME LiveInv, NEW t \in Tokens, Live(t)', NEW who, Open(who)
    PROVE  Kept(t)'
<1> DEFINE s == toldToken[t]
           w == WholeSeconds(s)
<1>1. toldToken' = toldToken /\ clock' = clock /\ UNCHANGED <<usersFile, sessionsFile>>
      /\ users' = usersFile
  BY Zenon DEF Open, files
<1>2. s \in Sessions /\ clock < w.expiresAt
  BY <1>1, Zenon DEF Live
<1>3. sessionsFile[t] = w /\ Exists(usersFile, s.user)
  BY <1>2, Zenon DEF Live, LiveInv, Kept
<1>4. w \in Sessions /\ w.user = s.user /\ w.expiresAt \in Nat
  BY <1>2, WholeSecondsFacts, Zenon
<1> HIDE DEF w
<1>5. sessionsFile[t] # NoSession /\ KnownUser(t)
  BY <1>3, <1>4, SentinelAssumption, Zenon DEF KnownUser
<1>6. w.expiresAt > clock
  BY <1>2, <1>4, Zenon
<1>7. sessions'[t] = w
  BY <1>3, <1>5, <1>6, Zenon DEF Open
<1> HIDE DEF s
<1>8. QED
  BY <1>1, <1>3, <1>7, Zenon DEF Kept, Exists, s, w

\* One step keeps every live session a client was told of.
LEMMA StepLive == AckInv /\ LiveInv /\ [Next]_vars => LiveInv'
<1> SUFFICES ASSUME AckInv, LiveInv, [Next]_vars, NEW tok \in Tokens, Live(tok)' PROVE Kept(tok)'
  BY Zenon DEF LiveInv
<1>t. TypeOK
  BY Zenon DEF AckInv, IInv
<1>w. Write => WriteShape
  BY <1>t, WriteCases, Zenon
<1>a. /\ sessions \in [Tokens -> Sessions \cup {NoSession}]
      /\ toldToken \in [Tokens -> Sessions \cup {NoSession, Unknown}]
      /\ clock \in Nat
  BY <1>t, Zenon DEF TypeOK
<1> DEFINE Spared == toldToken'[tok] # Unknown =>
                         toldToken'[tok] = toldToken[tok] /\ sessions'[tok] = sessions[tok]
           Files == UNCHANGED <<process, usersFile, sessionsFile>> /\ clock' \in {clock, clock + 1}
           NoneLost == \A i \in Ids : Exists(users, i) => Exists(users', i)
<1>s. Spared /\ Files /\ NoneLost => Kept(tok)'
  BY <1>t, LeftAlone, Zenon
<1>u. users' = users => NoneLost
  BY Zenon DEF Exists
<1>1. ASSUME NEW id \in Ids, NEW e \in Emails, NEW p \in Passwords, RegisterAdmin(id, e, p) PROVE Kept(tok)'
  <2>1. Spared /\ Files
    BY <1>1, Zenon DEF RegisterAdmin, StartWrites, files
  <2>2. [email |-> e, role |-> "admin", password |-> p] \in Users
    BY Zenon DEF Users, Roles
  <2>3. NoneLost
    BY <1>1, <1>t, <2>2, SetKeepsUsers, Zenon DEF RegisterAdmin, BootstrapUser
  <2>4. QED
    BY <1>s, <2>1, <2>3, Zenon
<1>2. ASSUME NEW id \in Ids, NEW t \in Tokens, RegisterSession(id, t) PROVE Kept(tok)'
  <2>1. Spared /\ Files /\ users' = users
    BY <1>2, <1>a, Zenon DEF RegisterSession, NewSession, files
  <2>2. QED
    BY <1>s, <1>u, <2>1, Zenon
<1>3. ASSUME NEW id \in Ids, NEW t \in Tokens, Login(id, t) PROVE Kept(tok)'
  <2>1. Spared /\ Files /\ users' = users
    BY <1>3, <1>a, Zenon DEF Login, NewSession, StartWrites, files
  <2>2. QED
    BY <1>s, <1>u, <2>1, Zenon
<1>4. ASSUME NEW t \in Tokens, Logout(t) \/ ResolveExpired(t) PROVE Kept(tok)'
  <2>1. Spared /\ Files /\ users' = users
    BY <1>4, <1>a, Zenon DEF Logout, ResolveExpired, StartWrites, files
  <2>2. QED
    BY <1>s, <1>u, <2>1, Zenon
<1>5. CASE UNCHANGED <<process, memory, files, toldToken>> /\ clock' \in {clock, clock + 1}
  <2>1. Spared /\ Files /\ users' = users
    BY <1>5, Zenon DEF memory, files
  <2>2. QED
    BY <1>s, <1>u, <2>1, Zenon
<1>6. ASSUME NEW r \in Requests, NEW id \in Ids, NEW u \in Users,
             CreateUser(r, id, u) \/ UpdateUser(r, id, u)
      PROVE  Kept(tok)'
  <2>1. Spared /\ Files
    BY <1>6, Zenon DEF CreateUser, UpdateUser, StartWrites, files
  <2>2. NoneLost
    BY <1>6, <1>t, SetKeepsUsers, Zenon DEF CreateUser, UpdateUser
  <2>3. QED
    BY <1>s, <2>1, <2>2, Zenon
<1>7. ASSUME NEW r \in Requests, NEW id \in Ids, DeleteUser(r, id) PROVE Kept(tok)'
  BY <1>7, <1>t, DeleteSpares, Zenon
<1>8. ASSUME NEW id \in Ids, NEW e \in Emails, NEW p \in Passwords, BootstrapAdmin(id, e, p) PROVE Kept(tok)'
  <2>1. Spared /\ Files
    BY <1>8, Zenon DEF BootstrapAdmin, StartWrites, files
  <2>2. [email |-> e, role |-> "admin", password |-> p] \in Users
    BY Zenon DEF Users, Roles
  <2>3. NoneLost
    BY <1>8, <1>t, <2>2, SetKeepsUsers, Zenon DEF BootstrapAdmin, BootstrapUser
  <2>4. QED
    BY <1>s, <2>1, <2>3, Zenon
<1>9. ASSUME NEW id \in Ids, NEW u \in Users, ImportUser(id, u) PROVE Kept(tok)'
  <2>1. Spared /\ Files
    BY <1>9, Zenon DEF ImportUser, StartWrites, files
  <2>2. NoneLost
    BY <1>9, <1>t, SetKeepsUsers, Zenon DEF ImportUser
  <2>3. QED
    BY <1>s, <2>1, <2>2, Zenon
<1>10. CASE Write
  <2>1. UNCHANGED <<process, users, sessions, clock>> /\ todo # <<>>
    BY <1>10, Zenon DEF Write, memory
  <2>2. CASE todo = <<"sessions">> /\ WroteSessions /\ Answered
    BY <2>1, <2>2, SessionsWritten, Zenon
  <2>3. CASE WroteUsers /\ toldToken'[tok] = toldToken[tok]
    BY <2>1, <2>3, UsersWritten, Zenon
  <2>4. CASE todo = <<"users">> /\ WroteUsers /\ Answered
    <3>1. touched.tokens = {}
      BY <2>4, Zenon DEF AckInv, IInv, PlanInv
    <3>2. toldToken'[tok] = toldToken[tok]
      BY <2>4, <3>1, Zenon DEF Answered
    <3>3. QED
      BY <2>3, <2>4, <3>2, Zenon
  <2>5. QED
    BY <1>10, <1>w, <2>2, <2>3, <2>4, Zenon DEF WriteShape
<1>11. ASSUME NEW who \in {"sisterd", "sisterctl"}, Open(who) PROVE Kept(tok)'
  BY <1>11, OpenRestores, Zenon
<1>12. CASE Down
  <2>1. UNCHANGED <<usersFile, sessionsFile, toldToken, clock>> /\ process' = "down"
    BY <1>12, Zenon DEF Down, files
  <2>2. Kept(tok)
    BY <2>1, Zenon DEF Live, LiveInv
  <2>3. QED
    BY <2>1, <2>2, Zenon DEF Kept, Exists
<1>13. ASSUME NEW r \in Requests, NEW t \in Tokens, ResolveAdmin(r, t) PROVE Kept(tok)'
  BY <1>5, <1>13, Zenon DEF ResolveAdmin
<1>14. ASSUME NEW r \in Requests, EndWithoutChange(r) PROVE Kept(tok)'
  BY <1>5, <1>14, Zenon DEF EndWithoutChange
<1>15. CASE WriteThrows \/ Tick \/ UNCHANGED vars
  BY <1>5, <1>15, Zenon DEF WriteThrows, Tick, vars, memory, files
<1>16. QED
  BY <1>1, <1>2, <1>3, <1>4, <1>6, <1>7, <1>8, <1>9, <1>10, <1>11, <1>12, <1>13, <1>14, <1>15, Zenon
     DEF Next, SisterdOperation, SisterctlOperation

\* A session the client was given stays on disk and is honoured after a restart until it
\* expires or is touched, through crashes and failed writes of other operations.
THEOREM SessionsPersist == Spec => []ActiveSessionPersists
<1>1. Init => LiveInv
  BY SentinelAssumption, Zenon DEF Init, NoSessions, LiveInv, Live
<1>2. LiveInv => ActiveSessionPersists
  BY Zenon DEF LiveInv, Live, Kept, ActiveSessionPersists
<1>3. QED
  BY <1>1, <1>2, StepLive, AckInductive, PTL DEF Spec

-----------------------------------------------------------------------------
(***************************************************************************)
(* Decisions about integrations.  Calls and records are dated by a decision *)
(* that has been made, and an execute request that has gone beyond the     *)
(* look-up follows an approval.                                            *)
(***************************************************************************)
\* What a definition's state says about the decisions: none was made, or the last one
\* about this integration is the status and its author.
Explained(i) ==
    \/ /\ definitions[i].status = "draft"
       /\ \A k \in 1..Len(decisions) : decisions[k].integration # i
    \/ \E k \in 1..Len(decisions) :
          /\ decisions[k] = [integration |-> i, decision |-> definitions[i].status,
                             by |-> definitions[i].by]
          /\ \A l \in (k + 1)..Len(decisions) : decisions[l].integration # i

\* Calls and records are dated by a decision that has been made.
Dated ==
    /\ \A k \in 1..Len(calls) : calls[k].decided <= Len(decisions)
    /\ \A e \in Recorded : e.decided <= Len(decisions)

\* An execute request that has gone beyond the look-up follows an approval; one that has
\* called holds a call of its own integration that nobody else holds and nobody recorded.
UnderWay ==
    \A r \in ExecuteRequests :
       /\ handlers[r].at = "approved" =>
             \E n \in 1..Len(decisions) : ApprovedAfter(n, handlers[r].integration)
       /\ handlers[r].at = "called" =>
             /\ handlers[r].call \in 1..Len(calls)
             /\ calls[handlers[r].call].integration = handlers[r].integration
             /\ \A e \in Recorded : e.call # handlers[r].call
             /\ \A s \in ExecuteRequests :
                   handlers[s].at = "called" /\ handlers[s].call = handlers[r].call => s = r

GovernanceInv == TrailExplainsStatus /\ ActsUnderApproval /\ Dated /\ UnderWay

-----------------------------------------------------------------------------
\* One sequence is another with one more element.
IsLonger(S, s, e, t) ==
    /\ Len(s) \in Nat /\ t \in Seq(S) /\ Len(t) = Len(s) + 1 /\ t[Len(s) + 1] = e
    /\ Len(s) + 1 \in 1..Len(t)
    /\ \A k \in 1..Len(s) : t[k] = s[k] /\ k \in 1..Len(t) /\ k # Len(s) + 1
    /\ \A k \in 1..Len(t) : k = Len(s) + 1 \/ k \in 1..Len(s)

LEMMA Appended ==
  ASSUME NEW S, NEW s \in Seq(S), NEW e \in S, NEW t, t = Append(s, e)
  PROVE  IsLonger(S, s, e, t)
  BY DEF IsLonger

LEMMA HandlerFields ==
  ASSUME NEW h \in Handlers, h.at \in {"approved", "called"}
  PROVE  h.integration \in Integrations
  BY DEF Handlers, NoHandler

LEMMA HandlerCalls ==
  ASSUME NEW i \in Integrations, NEW n \in Nat
  PROVE  [at |-> "called", integration |-> i, call |-> n + 1] \in Handlers
  BY DEF Handlers

LEMMA AtMostItself == \A n \in Nat : n <= n
  OBVIOUS

LEMMA FromOne == \A n \in Nat : \A k \in 1..n : k \in Nat /\ k # 0
  OBVIOUS

\* The seed's record is never mistaken for one that was made: it is about no call.
LEMMA GovernanceInitInv == GovernanceInit => GovernanceInv
  <1> SUFFICES ASSUME GovernanceInit PROVE GovernanceInv OBVIOUS
  <1> USE GovernanceAssumption DEF GovernanceInit
  <1>1. SeedExecution \in Executions
    BY Zenon DEF SeedExecution, Executions
  <1>2. /\ decisions = <<>> /\ calls = <<>>
        /\ Len(decisions) = 0 /\ Len(calls) = 0
    OBVIOUS
  <1>3. GovernanceTypeOK
    <2>1. decisions \in Seq(Decisions) /\ calls \in Seq(Calls)
      OBVIOUS
    <2>2. definitions \in [Integrations -> Drafts \cup Decided]
      BY Zenon DEF Drafts
    <2>3. handlers \in [ExecuteRequests -> Handlers]
      BY Zenon DEF Handlers
    <2> QED BY <1>1, <2>1, <2>2, <2>3, Zenon DEF GovernanceTypeOK
  <1>4. Recorded = {}
    BY Zenon DEF Recorded
  <1>5. \A i \in Integrations : definitions[i].status = "draft"
    OBVIOUS
  <1>6. \A r \in ExecuteRequests : handlers[r].at = "idle"
    BY Zenon DEF NoHandler
  <1> HIDE DEF GovernanceInit
  <1> QED BY <1>2, <1>3, <1>4, <1>5, <1>6
          DEF GovernanceInv, TrailExplainsStatus, ActsUnderApproval, Dated, UnderWay

\* Two trails that agree up to n agree on what was approved after n decisions.
LEMMA SamePast ==
  ASSUME NEW f, NEW g, NEW n \in Nat, NEW i, \A k \in 1..n : f[k] = g[k],
         NEW k \in 1..n, f[k].integration = i, f[k].decision = "approved",
         \A l \in (k + 1)..n : f[l].integration # i
  PROVE  /\ g[k].integration = i /\ g[k].decision = "approved"
         /\ \A l \in (k + 1)..n : g[l].integration # i
  <1>1. \A l \in (k + 1)..n : l \in 1..n
    OBVIOUS
  <1> QED BY <1>1, Zenon

\* What the decisions made so far said stays said when another is made.
LEMMA PastIsKept ==
  ASSUME decisions \in Seq(Decisions),
         NEW d \in Decisions, decisions' = Append(decisions, d),
         NEW n \in Nat, n <= Len(decisions), NEW i
  PROVE  ApprovedAfter(n, i)' <=> ApprovedAfter(n, i)
  <1>1. \A k \in 1..n : decisions[k] = decisions'[k] /\ decisions'[k] = decisions[k]
    OBVIOUS
  <1>2. ASSUME ApprovedAfter(n, i) PROVE ApprovedAfter(n, i)'
    <2>1. PICK k \in 1..n : /\ decisions[k].integration = i /\ decisions[k].decision = "approved"
                            /\ \A l \in (k + 1)..n : decisions[l].integration # i
      BY <1>2, Zenon DEF ApprovedAfter
    <2>2. /\ decisions'[k].integration = i /\ decisions'[k].decision = "approved"
          /\ \A l \in (k + 1)..n : decisions'[l].integration # i
      BY <1>1, <2>1, SamePast
    <2> QED BY <2>2, Zenon DEF ApprovedAfter
  <1>3. ASSUME ApprovedAfter(n, i)' PROVE ApprovedAfter(n, i)
    <2>1. PICK k \in 1..n : /\ decisions'[k].integration = i /\ decisions'[k].decision = "approved"
                            /\ \A l \in (k + 1)..n : decisions'[l].integration # i
      BY <1>3, Zenon DEF ApprovedAfter
    <2>2. /\ decisions[k].integration = i /\ decisions[k].decision = "approved"
          /\ \A l \in (k + 1)..n : decisions[l].integration # i
      BY <1>1, <2>1, SamePast
    <2> QED BY <2>2, Zenon DEF ApprovedAfter
  <1> QED BY <1>2, <1>3, Zenon

\* A status of approved has an approval as the last decision.
LEMMA ApprovedNow ==
  ASSUME TrailExplainsStatus, NEW i \in Integrations, Approved(i)
  PROVE  ApprovedAfter(Len(decisions), i) /\ Len(decisions) \in Nat \ {0}
  <1>1. definitions[i].status = "approved"
    BY Zenon DEF Approved
  <1>2. PICK k \in 1..Len(decisions) :
           /\ decisions[k] = [integration |-> i, decision |-> definitions[i].status,
                              by |-> definitions[i].by]
           /\ \A l \in (k + 1)..Len(decisions) : decisions[l].integration # i
    BY <1>1, Zenon DEF TrailExplainsStatus
  <1>3. Len(decisions) \in Nat
    BY DEF TrailExplainsStatus, GovernanceTypeOK
  <1> QED BY <1>1, <1>2, <1>3 DEF ApprovedAfter

-----------------------------------------------------------------------------
\* A decision replaces the status of one integration and adds the entry that explains
\* it; verified rows are never taken back, so that other approvals stand.
LEMMA DecideInv ==
  ASSUME GovernanceInv, NEW i \in Integrations, NEW v \in Verdicts, NEW a \in Actors, Decide(i, v, a)
  PROVE  GovernanceInv'
  <1> DEFINE d == [integration |-> i, decision |-> v, by |-> a]
  <1>1. GovernanceTypeOK /\ decisions \in Seq(Decisions) /\ d \in Decisions
    BY Zenon DEF GovernanceInv, TrailExplainsStatus, GovernanceTypeOK, Decisions
  <1>2. decisions' = Append(decisions, d)
    BY Zenon DEF Decide, DecisionRecord
  <1> HIDE DEF d
  <1>3. /\ Len(decisions) \in Nat
        /\ Len(decisions') = Len(decisions) + 1
        /\ decisions'[Len(decisions) + 1] = d
        /\ \A k \in 1..Len(decisions) : decisions'[k] = decisions[k]
    BY <1>1, <1>2
  <1>4. GovernanceTypeOK'
    <2>1. [status |-> v, by |-> a] \in Decided
      BY Zenon DEF Decided
    <2>2. definitions' \in [Integrations -> Drafts \cup Decided]
      BY <1>1, <2>1, Zenon DEF GovernanceTypeOK, Decide
    <2>3. /\ signatures' \subseteq Integrations
          /\ offers' \subseteq Offers
          /\ requirements' \subseteq Requirements
      BY <1>1, GovernanceAssumption, Zenon DEF GovernanceTypeOK, Decide, Verified
    <2>4. decisions' \in Seq(Decisions)
      BY <1>1, <1>2
    <2> QED BY <1>1, <2>2, <2>3, <2>4, Zenon DEF GovernanceTypeOK, Decide
  <1>5. TrailExplainsStatus'
    <2>1. ASSUME NEW j \in Integrations PROVE Explained(j)'
      <3>1. CASE j = i
        <4>1. definitions'[j] = [status |-> v, by |-> a]
          BY <1>1, <3>1, Zenon DEF GovernanceTypeOK, Decide
        <4>2. decisions'[Len(decisions) + 1] =
                [integration |-> j, decision |-> definitions'[j].status, by |-> definitions'[j].by]
          BY <1>3, <3>1, <4>1 DEF d
        <4> QED BY <1>3, <4>2 DEF Explained
      <3>2. CASE j # i
        <4>1. definitions'[j] = definitions[j]
          BY <1>1, <3>2, Zenon DEF GovernanceTypeOK, Decide
        <4>2. decisions'[Len(decisions) + 1].integration # j
          BY <1>3, <3>2 DEF d
        <4>3. Explained(j)
          BY Zenon DEF GovernanceInv, TrailExplainsStatus, Explained
        <4>4. CASE /\ definitions[j].status = "draft"
                   /\ \A k \in 1..Len(decisions) : decisions[k].integration # j
          <5>1. \A k \in 1..Len(decisions') : decisions'[k].integration # j
            BY <1>3, <4>2, <4>4
          <5> QED BY <4>1, <4>4, <5>1, Zenon DEF Explained
        <4>5. CASE \E k \in 1..Len(decisions) :
                     /\ decisions[k] = [integration |-> j, decision |-> definitions[j].status,
                                        by |-> definitions[j].by]
                     /\ \A l \in (k + 1)..Len(decisions) : decisions[l].integration # j
          <5>1. PICK k \in 1..Len(decisions) :
                     /\ decisions[k] = [integration |-> j, decision |-> definitions[j].status,
                                        by |-> definitions[j].by]
                     /\ \A l \in (k + 1)..Len(decisions) : decisions[l].integration # j
            BY <4>5, Zenon
          <5>2. k \in 1..Len(decisions') /\ decisions'[k] = decisions[k]
            BY <1>3
          <5>3. \A l \in (k + 1)..Len(decisions') : decisions'[l].integration # j
            BY <1>3, <4>2, <5>1
          <5> QED BY <4>1, <5>1, <5>2, <5>3, Zenon DEF Explained
        <4> QED BY <4>3, <4>4, <4>5, Zenon DEF Explained
      <3> QED BY <3>1, <3>2, Zenon
    <2>2. ASSUME NEW j \in Integrations, definitions'[j].status = "approved" PROVE Approved(j)'
      <3>1. CASE j = i
        <4>1. v = "approved"
          BY <1>1, <2>2, <3>1, Zenon DEF GovernanceTypeOK, Decide
        <4> QED BY <2>2, <3>1, <4>1, Zenon DEF Decide, Approved, Verified
      <3>2. CASE j # i
        <4>1. definitions[j].status = "approved"
          BY <1>1, <2>2, <3>2, Zenon DEF GovernanceTypeOK, Decide
        <4>2. Approved(j)
          BY <4>1, Zenon DEF GovernanceInv, TrailExplainsStatus
        <4> QED BY <2>2, <4>2, Zenon DEF Decide, Approved, Verified
      <3> QED BY <3>1, <3>2, Zenon
    <2> QED BY <1>4, <2>1, <2>2, Zenon DEF TrailExplainsStatus, Explained
  <1>6. UNCHANGED <<executions, calls, handlers, Recorded>>
    BY Zenon DEF Decide, Recorded
  <1>7. Dated'
    <2>1. ASSUME NEW k \in 1..Len(calls) PROVE calls[k].decided \in Nat
      <3>1. calls[k] \in Calls
        BY <1>1 DEF GovernanceTypeOK
      <3> QED BY <3>1, Zenon DEF Calls
    <2>2. \A e \in Recorded : e.decided \in Nat
      BY <1>1, Zenon DEF GovernanceTypeOK, Recorded, Executions
    <2> QED BY <1>3, <1>6, <2>1, <2>2 DEF GovernanceInv, Dated
  <1>8. \A n \in Nat, j \in Integrations :
           n <= Len(decisions) => (ApprovedAfter(n, j)' <=> ApprovedAfter(n, j))
    BY <1>1, <1>2, PastIsKept, Zenon
  <1>9. ActsUnderApproval'
    <2>1. ASSUME NEW k \in 1..Len(calls)
          PROVE  (\E n \in 1..calls[k].decided : ApprovedAfter(n, calls[k].integration))'
      <3>1. PICK n \in 1..calls[k].decided : ApprovedAfter(n, calls[k].integration)
        BY Zenon DEF GovernanceInv, ActsUnderApproval
      <3>2. calls[k] \in Calls /\ calls[k].decided <= Len(decisions)
        BY <1>1 DEF GovernanceTypeOK, GovernanceInv, Dated
      <3>3. n \in Nat /\ n <= Len(decisions) /\ calls[k].integration \in Integrations
        BY <1>3, <3>2 DEF Calls
      <3>4. PICK j \in Integrations : j = calls[k].integration
        BY <3>3, Zenon
      <3>5. ApprovedAfter(n, j)'
        BY <1>8, <3>1, <3>3, <3>4, Zenon
      <3>6. calls' = calls
        BY <1>6, Zenon
      <3> QED BY <3>4, <3>5, <3>6, Zenon DEF ApprovedAfter
    <2>2. ASSUME NEW e \in Recorded PROVE ApprovedAfter(e.decided, e.integration)'
      <3>1. e \in Executions /\ e.decided <= Len(decisions) /\ ApprovedAfter(e.decided, e.integration)
        BY <1>1, Zenon DEF GovernanceTypeOK, GovernanceInv, Dated, ActsUnderApproval, Recorded
      <3> QED BY <1>8, <3>1, Zenon DEF Executions
    <2> QED BY <1>6, <2>1, <2>2, Zenon DEF GovernanceInv, ActsUnderApproval
  <1>10. UnderWay'
    <2> SUFFICES ASSUME NEW r \in ExecuteRequests
                 PROVE  handlers[r].at = "approved" =>
                          \E n \in 1..Len(decisions') : ApprovedAfter(n, handlers[r].integration)'
      BY <1>6, Zenon DEF GovernanceInv, UnderWay
    <2> HAVE handlers[r].at = "approved"
    <2>1. handlers[r].integration \in Integrations
      BY <1>1, HandlerFields, Zenon DEF GovernanceTypeOK
    <2>2. PICK n \in 1..Len(decisions) : ApprovedAfter(n, handlers[r].integration)
      BY Zenon DEF GovernanceInv, UnderWay
    <2>3. PICK j \in Integrations : j = handlers[r].integration
      BY <2>1, Zenon
    <2>4. n \in 1..Len(decisions') /\ ApprovedAfter(n, j)'
      BY <1>3, <1>8, <2>2, <2>3
    <2>5. handlers' = handlers
      BY <1>6, Zenon
    <2> QED BY <2>3, <2>4, <2>5, Zenon DEF ApprovedAfter
  <1> QED BY <1>5, <1>7, <1>9, <1>10, Zenon DEF GovernanceInv

\* The steps of a request leave the decisions and what they decided alone.
LEMMA TrailUntouched ==
  ASSUME TrailExplainsStatus, GovernanceTypeOK',
         UNCHANGED <<definitions, signatures, offers, requirements, decisions>>
  PROVE  /\ TrailExplainsStatus'
         /\ \A n, i : ApprovedAfter(n, i)' <=> ApprovedAfter(n, i)
  BY DEF TrailExplainsStatus, Approved, ApprovedAfter

\* A step that adds no decision, call or record.
LEMMA SameActs ==
  ASSUME ActsUnderApproval, Dated, UNCHANGED <<calls, decisions>>, Recorded' = Recorded
  PROVE  ActsUnderApproval' /\ Dated'
  <1>1. ASSUME NEW k \in 1..Len(calls)
        PROVE  (\E n \in 1..calls[k].decided : ApprovedAfter(n, calls[k].integration))'
    <2>1. \E n \in 1..calls[k].decided : ApprovedAfter(n, calls[k].integration)
      BY Zenon DEF ActsUnderApproval
    <2> QED BY <2>1, Zenon DEF ApprovedAfter
  <1>2. ASSUME NEW e \in Recorded PROVE ApprovedAfter(e.decided, e.integration)'
    <2>1. ApprovedAfter(e.decided, e.integration)
      BY Zenon DEF ActsUnderApproval
    <2> QED BY <2>1, Zenon DEF ApprovedAfter
  <1>3. ActsUnderApproval'
    BY <1>1, <1>2, Zenon DEF ActsUnderApproval
  <1> QED BY <1>3, Zenon DEF Dated

\* The look-up: the approval it finds is the last decision.
LEMMA CheckInv ==
  ASSUME GovernanceInv, NEW r \in ExecuteRequests, NEW i \in Integrations, CheckApproved(r, i)
  PROVE  GovernanceInv'
  <1>1. GovernanceTypeOK /\ TrailExplainsStatus
    BY Zenon DEF GovernanceInv, TrailExplainsStatus
  <1>2. UNCHANGED <<definitions, signatures, offers, requirements, decisions, executions, calls, Recorded>>
    BY Zenon DEF CheckApproved, Recorded
  <1>3. handlers' = [handlers EXCEPT ![r] = [at |-> "approved", integration |-> i]]
    BY Zenon DEF CheckApproved
  <1>4. GovernanceTypeOK'
    <2>1. [at |-> "approved", integration |-> i] \in Handlers
      BY Zenon DEF Handlers
    <2>2. handlers' \in [ExecuteRequests -> Handlers]
      BY <1>1, <1>3, <2>1, Zenon DEF GovernanceTypeOK
    <2> QED BY <1>1, <1>2, <2>2, Zenon DEF GovernanceTypeOK
  <1>5. TrailExplainsStatus' /\ \A n, j : ApprovedAfter(n, j)' <=> ApprovedAfter(n, j)
    BY <1>1, <1>2, <1>4, TrailUntouched, Zenon
  <1>6. ApprovedAfter(Len(decisions), i) /\ Len(decisions) \in Nat \ {0}
    BY <1>1, ApprovedNow, Zenon DEF CheckApproved
  <1>7. ActsUnderApproval' /\ Dated'
    <2>1. calls' = calls /\ decisions' = decisions /\ Recorded' = Recorded
      BY <1>2
    <2>2. ActsUnderApproval /\ Dated
      BY Zenon DEF GovernanceInv
    <2> QED BY <2>1, <2>2, SameActs, Zenon
  <1>8. UnderWay'
    <2>1. handlers \in [ExecuteRequests -> Handlers]
      BY <1>1, Zenon DEF GovernanceTypeOK
    <2>2. /\ handlers'[r].at = "approved" /\ handlers'[r].integration = i
          /\ \A s \in ExecuteRequests \ {r} : handlers'[s] = handlers[s]
      BY <1>3, <2>1, Zenon
    <2>3. \E n \in 1..Len(decisions) : ApprovedAfter(n, i)
      BY <1>6
    <2>4. calls' = calls /\ decisions' = decisions /\ Recorded' = Recorded
      BY <1>2
    <2>5. \A t \in ExecuteRequests : handlers'[t].at = "called" => handlers'[t] = handlers[t]
      BY <2>2, Zenon
    <2> SUFFICES ASSUME NEW s \in ExecuteRequests
                 PROVE  /\ handlers'[s].at = "approved" =>
                             (\E n \in 1..Len(decisions) : ApprovedAfter(n, handlers[s].integration))'
                        /\ handlers'[s].at = "called" =>
                             /\ handlers'[s].call \in 1..Len(calls)
                             /\ calls[handlers'[s].call].integration = handlers'[s].integration
                             /\ \A e \in Recorded : e.call # handlers'[s].call
                             /\ \A t \in ExecuteRequests :
                                   handlers'[t].at = "called" /\ handlers'[t].call = handlers'[s].call => t = s
      BY <2>4, Zenon DEF UnderWay
    <2>6. CASE s = r
      <3>1. (\E n \in 1..Len(decisions) : ApprovedAfter(n, handlers[s].integration))'
        BY <2>2, <2>3, <2>4, <2>6, Zenon DEF ApprovedAfter
      <3> QED BY <2>2, <2>6, <3>1, Zenon
    <2>7. CASE s # r
      <3>1. handlers'[s] = handlers[s]
        BY <2>2, <2>7, Zenon
      <3>2. handlers[s].at = "approved" => \E n \in 1..Len(decisions) : ApprovedAfter(n, handlers[s].integration)
        BY Zenon DEF GovernanceInv, UnderWay
      <3>3. handlers'[s].at = "approved" =>
               (\E n \in 1..Len(decisions) : ApprovedAfter(n, handlers[s].integration))'
        BY <2>4, <3>1, <3>2, Zenon DEF ApprovedAfter
      <3>4. handlers[s].at = "called" =>
              /\ handlers[s].call \in 1..Len(calls)
              /\ calls[handlers[s].call].integration = handlers[s].integration
              /\ \A e \in Recorded : e.call # handlers[s].call
              /\ \A t \in ExecuteRequests : handlers[t].at = "called" /\ handlers[t].call = handlers[s].call => t = s
        BY Zenon DEF GovernanceInv, UnderWay
      <3> QED BY <2>5, <3>1, <3>3, <3>4, Zenon
    <2> QED BY <2>6, <2>7, Zenon
  <1> QED BY <1>5, <1>7, <1>8, Zenon DEF GovernanceInv

\* The call gets a number nobody has, dated by the decisions made so far.
LEMMA CallInv ==
  ASSUME GovernanceInv, NEW r \in ExecuteRequests, NEW o \in Outcomes, CallSubsystem(r, o)
  PROVE  GovernanceInv'
  <1> DEFINE i == handlers[r].integration
             c == [integration |-> i, outcome |-> o, decided |-> Len(decisions)]
  <1>1. GovernanceTypeOK /\ TrailExplainsStatus
    BY Zenon DEF GovernanceInv, TrailExplainsStatus
  <1>2. UNCHANGED <<definitions, signatures, offers, requirements, decisions, executions, Recorded>>
    BY Zenon DEF CallSubsystem, Recorded
  <1>3. /\ handlers[r].at = "approved"
        /\ calls' = Append(calls, c)
        /\ handlers' = [handlers EXCEPT ![r] =
              [at |-> "called", integration |-> i, call |-> Len(calls) + 1]]
    BY <1>1, Zenon DEF CallSubsystem, GovernanceTypeOK
  <1>4. i \in Integrations /\ Len(decisions) \in Nat /\ c \in Calls
    <2>1. handlers[r] \in Handlers /\ Len(decisions) \in Nat
      BY <1>1 DEF GovernanceTypeOK
    <2>2. i \in Integrations
      BY <1>3, <2>1, HandlerFields, Zenon
    <2> QED BY <2>1, <2>2, Zenon DEF Calls
  <1>5. c.integration = i /\ c.decided = Len(decisions)
    BY Zenon
  <1> HIDE DEF c
  <1>6. /\ calls \in Seq(Calls) /\ calls' \in Seq(Calls)
        /\ Len(calls) \in Nat /\ Len(calls') = Len(calls) + 1
        /\ calls'[Len(calls) + 1] = c /\ Len(calls) + 1 \in 1..Len(calls')
        /\ \A k \in 1..Len(calls) : calls'[k] = calls[k] /\ k \in 1..Len(calls') /\ k # Len(calls) + 1
        /\ \A k \in 1..Len(calls') : k = Len(calls) + 1 \/ k \in 1..Len(calls)
    <2>1. calls \in Seq(Calls)
      BY <1>1, Zenon DEF GovernanceTypeOK
    <2>2. c \in Calls /\ calls' = Append(calls, c)
      BY <1>3, <1>4, Zenon
    <2> HIDE DEF i
    <2>3. IsLonger(Calls, calls, c, calls')
      BY <2>1, <2>2, Appended, Zenon
    <2> QED BY <2>1, <2>3, Zenon DEF IsLonger
  <1>7. GovernanceTypeOK'
    <2>1. [at |-> "called", integration |-> i, call |-> Len(calls) + 1] \in Handlers
      <3>1. i \in Integrations /\ Len(calls) \in Nat
        BY <1>4, <1>6, Zenon
      <3> QED BY <3>1, HandlerCalls, Zenon
    <2>2. handlers' \in [ExecuteRequests -> Handlers]
      BY <1>1, <1>3, <2>1, Zenon DEF GovernanceTypeOK
    <2> QED BY <1>1, <1>2, <1>6, <2>2, Zenon DEF GovernanceTypeOK
  <1>8. TrailExplainsStatus' /\ \A n, j : ApprovedAfter(n, j)' <=> ApprovedAfter(n, j)
    BY <1>1, <1>2, <1>7, TrailUntouched, Zenon
  <1>9. \E n \in 1..Len(decisions) : ApprovedAfter(n, i)
    BY <1>3, Zenon DEF GovernanceInv, UnderWay
  <1>10. ActsUnderApproval'
    <2>1. ASSUME NEW k \in 1..Len(calls')
          PROVE  (\E n \in 1..calls[k].decided : ApprovedAfter(n, calls[k].integration))'
      <3>1. CASE k = Len(calls) + 1
        <4>1. PICK n \in 1..Len(decisions) : ApprovedAfter(n, i)
          BY <1>9, Zenon
        <4>2. calls'[k].decided = Len(decisions) /\ calls'[k].integration = i
          BY <1>5, <1>6, <3>1, Zenon
        <4>3. n \in 1..calls'[k].decided /\ ApprovedAfter(n, calls[k].integration)'
          BY <1>2, <4>1, <4>2, Zenon DEF ApprovedAfter
        <4> QED BY <4>3, Zenon
      <3>2. CASE k \in 1..Len(calls)
        <4>1. \E n \in 1..calls[k].decided : ApprovedAfter(n, calls[k].integration)
          BY <3>2, Zenon DEF GovernanceInv, ActsUnderApproval
        <4>2. calls'[k] = calls[k]
          BY <1>6, <3>2, Zenon
        <4> QED BY <1>2, <4>1, <4>2, Zenon DEF ApprovedAfter
      <3> QED BY <1>6, <3>1, <3>2, Zenon
    <2>2. ASSUME NEW e \in Recorded
          PROVE  /\ ApprovedAfter(e.decided, e.integration)'
                 /\ e.call \in 1..Len(calls') /\ calls'[e.call] = calls[e.call]
      <3>1. e.call \in 1..Len(calls) /\ ApprovedAfter(e.decided, e.integration)
        BY Zenon DEF GovernanceInv, ActsUnderApproval
      <3>2. ApprovedAfter(e.decided, e.integration)'
        BY <1>2, <3>1, Zenon DEF ApprovedAfter
      <3> QED BY <1>6, <3>1, <3>2, Zenon
    <2>3. ActsUnderApproval
      BY Zenon DEF GovernanceInv
    <2> QED BY <1>2, <2>1, <2>2, <2>3, Zenon DEF ActsUnderApproval
  <1>11. Dated'
    <2>1. \A k \in 1..Len(calls') : calls'[k].decided <= Len(decisions)
      BY <1>4, <1>5, <1>6, AtMostItself, Zenon DEF GovernanceInv, Dated
    <2> QED BY <1>2, <2>1, Zenon DEF GovernanceInv, Dated
  <1>12. UnderWay'
    <2>1. /\ handlers'[r].at = "called" /\ handlers'[r].integration = i
          /\ handlers'[r].call = Len(calls) + 1
          /\ \A s \in ExecuteRequests \ {r} : handlers'[s] = handlers[s]
      BY <1>1, <1>3, Zenon DEF GovernanceTypeOK
    <2>2. \A s \in ExecuteRequests : handlers[s].at = "called" => handlers[s].call \in 1..Len(calls)
      BY Zenon DEF GovernanceInv, UnderWay
    <2>3. \A e \in Recorded : e.call \in 1..Len(calls)
      BY Zenon DEF GovernanceInv, ActsUnderApproval
    <2> SUFFICES ASSUME NEW s \in ExecuteRequests
                 PROVE  /\ handlers'[s].at = "approved" =>
                             (\E n \in 1..Len(decisions) : ApprovedAfter(n, handlers[s].integration))'
                        /\ handlers'[s].at = "called" =>
                             /\ handlers'[s].call \in 1..Len(calls')
                             /\ calls'[handlers'[s].call].integration = handlers'[s].integration
                             /\ \A e \in Recorded : e.call # handlers'[s].call
                             /\ \A t \in ExecuteRequests :
                                   handlers'[t].at = "called" /\ handlers'[t].call = handlers'[s].call => t = s
      BY <1>2, Zenon DEF UnderWay
    <2>4. CASE s = r
      <3>1. handlers'[s].at = "called" /\ handlers'[s].integration = i /\ handlers'[s].call = Len(calls) + 1
        BY <2>1, <2>4, Zenon
      <3>2. Len(calls) + 1 \in 1..Len(calls') /\ calls'[Len(calls) + 1].integration = i
        BY <1>5, <1>6, Zenon
      <3>3. \A k \in 1..Len(calls) : k # Len(calls) + 1
        BY <1>6, Zenon
      <3>4. \A e \in Recorded : e.call # handlers'[s].call
        BY <2>3, <3>1, <3>3, Zenon
      <3>5. ASSUME NEW t \in ExecuteRequests, handlers'[t].at = "called", handlers'[t].call = handlers'[s].call
            PROVE  t = s
        BY <2>1, <2>2, <2>4, <3>1, <3>3, <3>5, Zenon
      <3> QED BY <3>1, <3>2, <3>4, <3>5, Zenon
    <2>5. CASE s # r
      <3>1. handlers'[s] = handlers[s]
        BY <2>1, <2>5, Zenon
      <3>2. handlers[s].at = "approved" => \E n \in 1..Len(decisions) : ApprovedAfter(n, handlers[s].integration)
        BY Zenon DEF GovernanceInv, UnderWay
      <3>3. handlers[s].at = "called" =>
              /\ calls[handlers[s].call].integration = handlers[s].integration
              /\ \A e \in Recorded : e.call # handlers[s].call
              /\ \A t \in ExecuteRequests : handlers[t].at = "called" /\ handlers[t].call = handlers[s].call => t = s
        BY Zenon DEF GovernanceInv, UnderWay
      <3>4. handlers'[s].at = "approved" =>
               (\E n \in 1..Len(decisions) : ApprovedAfter(n, handlers[s].integration))'
        BY <1>2, <3>1, <3>2, Zenon DEF ApprovedAfter
      <3>5. ASSUME handlers'[s].at = "called"
            PROVE  /\ handlers'[s].call \in 1..Len(calls')
                   /\ calls'[handlers'[s].call].integration = handlers'[s].integration
                   /\ \A e \in Recorded : e.call # handlers'[s].call
        BY <1>6, <2>2, <3>1, <3>3, <3>5, Zenon
      <3>6. ASSUME handlers'[s].at = "called", NEW t \in ExecuteRequests,
                   handlers'[t].at = "called", handlers'[t].call = handlers'[s].call
            PROVE  t = s
        <4>1. handlers[s].at = "called" /\ handlers[s].call # Len(calls) + 1
          BY <1>6, <2>2, <3>1, <3>6, Zenon
        <4>2. t # r
          BY <2>1, <3>1, <3>6, <4>1, Zenon
        <4> QED BY <2>1, <3>1, <3>3, <3>6, <4>1, <4>2, Zenon
      <3> QED BY <3>4, <3>5, <3>6, Zenon
    <2> QED BY <2>4, <2>5, Zenon
  <1> QED BY <1>8, <1>10, <1>11, <1>12, Zenon DEF GovernanceInv

\* A request that has ended, or was cut off by a restart, takes nothing with it.
LEMMA LeaveInv ==
  ASSUME GovernanceInv,
         UNCHANGED <<definitions, signatures, offers, requirements, decisions, executions, calls>>,
         NEW S \in SUBSET ExecuteRequests,
         handlers' = [r \in ExecuteRequests |-> IF r \in S THEN NoHandler ELSE handlers[r]]
  PROVE  GovernanceInv'
  <1>1. GovernanceTypeOK /\ TrailExplainsStatus
    BY Zenon DEF GovernanceInv, TrailExplainsStatus
  <1>2. GovernanceTypeOK'
    <2>1. handlers' \in [ExecuteRequests -> Handlers]
      BY <1>1, Zenon DEF GovernanceTypeOK, Handlers
    <2> QED BY <1>1, <2>1, Zenon DEF GovernanceTypeOK
  <1>3. TrailExplainsStatus' /\ \A n, i : ApprovedAfter(n, i)' <=> ApprovedAfter(n, i)
    BY <1>1, <1>2, TrailUntouched, Zenon
  <1>4. Recorded' = Recorded
    BY Zenon DEF Recorded
  <1>5. ActsUnderApproval' /\ Dated'
    BY <1>4, SameActs, Zenon DEF GovernanceInv
  <1>6. \A r \in ExecuteRequests : handlers'[r] = handlers[r] \/ handlers'[r].at = "idle"
    BY Zenon DEF NoHandler
  <1>7. UnderWay'
    <2>4. calls' = calls /\ decisions' = decisions /\ Recorded' = Recorded
      BY <1>4, Zenon
    <2>5. \A t \in ExecuteRequests : handlers'[t].at = "called" => handlers'[t] = handlers[t]
      BY <1>6, Zenon
    <2> SUFFICES ASSUME NEW s \in ExecuteRequests
                 PROVE  /\ handlers'[s].at = "approved" =>
                             (\E n \in 1..Len(decisions) : ApprovedAfter(n, handlers[s].integration))'
                        /\ handlers'[s].at = "called" =>
                             /\ handlers'[s].call \in 1..Len(calls)
                             /\ calls[handlers'[s].call].integration = handlers'[s].integration
                             /\ \A e \in Recorded : e.call # handlers'[s].call
                             /\ \A t \in ExecuteRequests :
                                   handlers'[t].at = "called" /\ handlers'[t].call = handlers'[s].call => t = s
      BY <2>4, Zenon DEF UnderWay
    <2>6. CASE handlers'[s].at = "idle"
      BY <2>6, Zenon
    <2>7. CASE handlers'[s] = handlers[s]
      <3>1. handlers'[s] = handlers[s]
        BY <2>7, Zenon
      <3>2. handlers[s].at = "approved" => \E n \in 1..Len(decisions) : ApprovedAfter(n, handlers[s].integration)
        BY Zenon DEF GovernanceInv, UnderWay
      <3>3. handlers'[s].at = "approved" =>
               (\E n \in 1..Len(decisions) : ApprovedAfter(n, handlers[s].integration))'
        BY <2>4, <3>1, <3>2, Zenon DEF ApprovedAfter
      <3>4. handlers[s].at = "called" =>
              /\ handlers[s].call \in 1..Len(calls)
              /\ calls[handlers[s].call].integration = handlers[s].integration
              /\ \A e \in Recorded : e.call # handlers[s].call
              /\ \A t \in ExecuteRequests : handlers[t].at = "called" /\ handlers[t].call = handlers[s].call => t = s
        BY Zenon DEF GovernanceInv, UnderWay
      <3> QED BY <2>5, <3>1, <3>3, <3>4, Zenon
    <2> QED BY <1>6, <2>6, <2>7, Zenon
  <1> QED BY <1>3, <1>5, <1>7, Zenon DEF GovernanceInv

\* The record is made under the approval of now and about the request's own call,
\* which no record is about yet and no other request holds.
LEMMA RecordInv ==
  ASSUME GovernanceInv, NEW r \in ExecuteRequests, Record(r)
  PROVE  GovernanceInv'
  <1> DEFINE i == handlers[r].integration
             call == handlers[r].call
             e == [call |-> call, integration |-> i,
                   status |-> IF Confirmed(call) THEN "completed" ELSE "failed",
                   result |-> IF Confirmed(call) THEN "confirmed" ELSE "divergent",
                   human |-> IF Confirmed(call) THEN "none" ELSE "required",
                   decided |-> Len(decisions)]
  <1> HIDE DEF i, call, e
  <1>1. GovernanceTypeOK /\ TrailExplainsStatus
    BY Zenon DEF GovernanceInv, TrailExplainsStatus
  <1>2. /\ UNCHANGED <<definitions, signatures, offers, requirements, decisions, calls>>
        /\ handlers[r].at = "called"
        /\ Approved(i)
        /\ executions' = executions \cup {e}
        /\ handlers' = [handlers EXCEPT ![r] = NoHandler]
    BY Zenon DEF Record, i, call, e
  <1>3. /\ call \in 1..Len(calls) /\ calls[call].integration = i
        /\ \A x \in Recorded : x.call # call
        /\ \A s \in ExecuteRequests : handlers[s].at = "called" /\ handlers[s].call = call => s = r
    BY <1>2, Zenon DEF GovernanceInv, UnderWay, i, call
  <1>4. i \in Integrations /\ Len(calls) \in Nat /\ call \in Nat \ {0}
    <2>1. handlers[r] \in Handlers /\ Len(calls) \in Nat
      BY <1>1 DEF GovernanceTypeOK
    <2>2. i \in Integrations
      BY <1>2, <2>1, HandlerFields, Zenon DEF i
    <2> QED BY <1>3, <2>1, <2>2, FromOne, Zenon
  <1>5. ApprovedAfter(Len(decisions), i) /\ Len(decisions) \in Nat
    BY <1>1, <1>2, <1>4, ApprovedNow, Zenon
  <1>6. /\ e \in Executions
        /\ e.call = call /\ e.integration = i /\ e.decided = Len(decisions)
        /\ e.status = "completed" <=> calls[call].outcome = "confirmed"
        /\ e.result = "confirmed" <=> e.status = "completed"
        /\ e.human = "required" <=> e.status = "failed"
    BY <1>4, <1>5, Zenon DEF Executions, Confirmed, e
  <1>7. Recorded' = Recorded \cup {e}
    <2>1. e # SeedExecution
      BY <1>4, <1>6 DEF SeedExecution
    <2> QED BY <1>2, <2>1, Zenon DEF Recorded
  <1>8. GovernanceTypeOK'
    <2>1. handlers' \in [ExecuteRequests -> Handlers]
      BY <1>1, <1>2, Zenon DEF GovernanceTypeOK, Handlers
    <2> QED BY <1>1, <1>2, <1>6, <2>1, Zenon DEF GovernanceTypeOK
  <1>9. TrailExplainsStatus' /\ \A n, j : ApprovedAfter(n, j)' <=> ApprovedAfter(n, j)
    BY <1>1, <1>2, <1>8, TrailUntouched, Zenon
  <1>10. ActsUnderApproval'
    <2>1. ASSUME NEW k \in 1..Len(calls)
          PROVE  (\E n \in 1..calls[k].decided : ApprovedAfter(n, calls[k].integration))'
      <3>1. \E n \in 1..calls[k].decided : ApprovedAfter(n, calls[k].integration)
        BY Zenon DEF GovernanceInv, ActsUnderApproval
      <3> QED BY <1>2, <3>1, Zenon DEF ApprovedAfter
    <2>2. ASSUME NEW x \in Recorded'
          PROVE  /\ ApprovedAfter(x.decided, x.integration)'
                 /\ x.call \in 1..Len(calls) /\ calls[x.call].integration = x.integration
                 /\ x.status = "completed" <=> calls[x.call].outcome = "confirmed"
                 /\ x.result = "confirmed" <=> x.status = "completed"
                 /\ x.human = "required" <=> x.status = "failed"
      <3>1. CASE x = e
        <4>1. ApprovedAfter(x.decided, x.integration)'
          BY <1>2, <1>5, <1>6, <3>1, Zenon DEF ApprovedAfter
        <4> QED BY <1>3, <1>6, <3>1, <4>1, Zenon
      <3>2. CASE x \in Recorded
        <4>1. ApprovedAfter(x.decided, x.integration)'
          BY <1>9, <3>2, Zenon DEF GovernanceInv, ActsUnderApproval
        <4> QED BY <3>2, <4>1, Zenon DEF GovernanceInv, ActsUnderApproval
      <3> QED BY <1>7, <3>1, <3>2, Zenon
    <2>3. \A x, y \in Recorded' : x.call = y.call => x = y
      BY <1>3, <1>6, <1>7, ZenonT(40) DEF GovernanceInv, ActsUnderApproval
    <2> QED BY <1>2, <2>1, <2>2, <2>3, Zenon DEF ActsUnderApproval
  <1>11. Dated'
    <2>1. \A x \in Recorded' : x.decided <= Len(decisions)
      BY <1>5, <1>6, <1>7, AtMostItself, Zenon DEF GovernanceInv, Dated
    <2> QED BY <1>2, <2>1, Zenon DEF GovernanceInv, Dated
  <1>12. UnderWay'
    <2>1. /\ handlers'[r].at = "idle"
          /\ \A s \in ExecuteRequests \ {r} : handlers'[s] = handlers[s]
      BY <1>1, <1>2, Zenon DEF GovernanceTypeOK, NoHandler
    <2> SUFFICES ASSUME NEW s \in ExecuteRequests
                 PROVE  /\ handlers'[s].at = "approved" =>
                             (\E n \in 1..Len(decisions) : ApprovedAfter(n, handlers[s].integration))'
                        /\ handlers'[s].at = "called" =>
                             /\ handlers'[s].call \in 1..Len(calls)
                             /\ calls[handlers'[s].call].integration = handlers'[s].integration
                             /\ \A x \in Recorded' : x.call # handlers'[s].call
                             /\ \A t \in ExecuteRequests :
                                   handlers'[t].at = "called" /\ handlers'[t].call = handlers'[s].call => t = s
      BY <1>2, Zenon DEF UnderWay
    <2>2. CASE s = r
      BY <2>1, <2>2, Zenon
    <2>3. CASE s # r
      <3>1. handlers'[s] = handlers[s]
        BY <2>1, <2>3, Zenon
      <3>2. handlers[s].at = "approved" => \E n \in 1..Len(decisions) : ApprovedAfter(n, handlers[s].integration)
        BY Zenon DEF GovernanceInv, UnderWay
      <3>3. handlers'[s].at = "approved" =>
               (\E n \in 1..Len(decisions) : ApprovedAfter(n, handlers[s].integration))'
        BY <1>2, <3>1, <3>2, Zenon DEF ApprovedAfter
      <3>4. handlers[s].at = "called" =>
              /\ handlers[s].call \in 1..Len(calls) /\ handlers[s].call # call
              /\ calls[handlers[s].call].integration = handlers[s].integration
              /\ \A x \in Recorded : x.call # handlers[s].call
              /\ \A t \in ExecuteRequests : handlers[t].at = "called" /\ handlers[t].call = handlers[s].call => t = s
        BY <1>3, <2>3, Zenon DEF GovernanceInv, UnderWay
      <3>5. \A t \in ExecuteRequests : handlers'[t].at = "called" => handlers'[t] = handlers[t]
        BY <2>1, Zenon
      <3> QED BY <1>6, <1>7, <3>1, <3>3, <3>4, <3>5, Zenon
    <2> QED BY <2>2, <2>3, Zenon
  <1> QED BY <1>9, <1>10, <1>11, <1>12, Zenon DEF GovernanceInv

-----------------------------------------------------------------------------
\* Every step keeps the invariant.
LEMMA StepInv == GovernanceInv /\ [GovernanceNext]_governanceVars => GovernanceInv'
  <1> SUFFICES ASSUME GovernanceInv, [GovernanceNext]_governanceVars PROVE GovernanceInv' OBVIOUS
  <1>1. handlers \in [ExecuteRequests -> Handlers]
    BY Zenon DEF GovernanceInv, TrailExplainsStatus, GovernanceTypeOK
  <1>2. ASSUME NEW i \in Integrations, NEW v \in Verdicts, NEW a \in Actors, Decide(i, v, a)
        PROVE  GovernanceInv'
    BY <1>2, DecideInv, Zenon
  <1>3. ASSUME NEW r \in ExecuteRequests, NEW i \in Integrations, CheckApproved(r, i) PROVE GovernanceInv'
    BY <1>3, CheckInv, Zenon
  <1>4. ASSUME NEW r \in ExecuteRequests, NEW o \in Outcomes, CallSubsystem(r, o) PROVE GovernanceInv'
    BY <1>4, CallInv, Zenon
  <1>5. ASSUME NEW r \in ExecuteRequests, Record(r) PROVE GovernanceInv'
    BY <1>5, RecordInv, Zenon
  <1>6. ASSUME NEW r \in ExecuteRequests, NotRecorded(r) PROVE GovernanceInv'
    <2>1. handlers' = [s \in ExecuteRequests |-> IF s \in {r} THEN NoHandler ELSE handlers[s]]
      BY <1>1, <1>6, Zenon DEF NotRecorded
    <2> QED BY <1>6, <2>1, LeaveInv, Zenon DEF NotRecorded
  <1>7. CASE Restart
    <2>1. handlers' = [s \in ExecuteRequests |-> IF s \in ExecuteRequests THEN NoHandler ELSE handlers[s]]
      BY <1>7, Zenon DEF Restart
    <2> QED BY <1>7, <2>1, LeaveInv, Zenon DEF Restart
  <1>8. CASE UNCHANGED governanceVars
    <2> DEFINE nobody == ExecuteRequests \ ExecuteRequests
    <2>1. handlers' = [s \in ExecuteRequests |-> IF s \in nobody THEN NoHandler ELSE handlers[s]]
      BY <1>1, <1>8, Zenon DEF governanceVars
    <2>2. nobody \in SUBSET ExecuteRequests
      OBVIOUS
    <2> HIDE DEF nobody
    <2> QED BY <1>8, <2>1, <2>2, LeaveInv, Zenon DEF governanceVars
  <1> QED BY <1>2, <1>3, <1>4, <1>5, <1>6, <1>7, <1>8, Zenon DEF GovernanceNext

LEMMA Governed == GovernanceSpec => []GovernanceInv
  BY GovernanceInitInv, StepInv, PTL DEF GovernanceSpec

\* The trail of decisions explains the status of every definition, and an approval stands
\* until its own integration is rejected (decideIntegration).
THEOREM TrailExplains == GovernanceSpec => []TrailExplainsStatus
  <1>1. GovernanceInv => TrailExplainsStatus
    BY Zenon DEF GovernanceInv
  <1> QED BY <1>1, Governed, PTL

\* The subsystem is called after an approval, and records are made once for each call,
\* under an approval, and say what the subsystem did (the execute handler).
THEOREM ApprovalGovernsActs == GovernanceSpec => []ActsUnderApproval
  <1>1. GovernanceInv => ActsUnderApproval
    BY Zenon DEF GovernanceInv
  <1> QED BY <1>1, Governed, PTL

=============================================================================
