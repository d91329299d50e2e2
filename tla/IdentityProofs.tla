--------------------------- MODULE IdentityProofs ---------------------------
(***************************************************************************)
(* Theorems about who somebody is: the PostgreSQL backend of the identity  *)
(* store (AuthDatabase), for any sets of accounts, addresses, passwords,   *)
(* tokens and requests, and whatever becomes of the connection, of a       *)
(* statement or of sisterd; and the assertions that sisterd signs for a    *)
(* subsystem (AssertionVerifier), for any number of threads and assertions *)
(* and any clocks within the tolerated skew.                               *)
(***************************************************************************)
EXTENDS AuthDatabase, AssertionVerifier, FiniteSetTheorems, TLAPS

(***************************************************************************)
(* The database.  What makes its properties inductive is what an operation *)
(* may rely on between two of its statements (Pending): the mutex keeps    *)
(* every other operation out, so what it read is still so when it writes.  *)
(***************************************************************************)
Pending ==
    /\ op.at = "loginInsert" => Active(op.id) /\ users[op.id].password = op.password
    /\ op.at \in {"registerSession", "registerCommit"} =>
          /\ \A i \in Ids : ~Exists(i)
          /\ op.row.active
    /\ op.at \in {"updateDuplicate", "updateCount", "updateWrite"} =>
          Active(op.id) /\ users[op.id].role = op.was
    /\ op.at \in {"deleteCount", "deleteWrite"} => Active(op.id)
    /\ op.at = "updateWrite" /\ op.was = "admin" /\ op.role # "admin" /\ ~op.blind =>
          ActiveAdmins # {op.id}
    /\ op.at = "deleteWrite" /\ users[op.id].role = "admin" /\ ~op.blind =>
          ActiveAdmins # {op.id}

DatabaseInv == SessionsFitAccounts /\ RegisterIsAtomic /\ Pending

-----------------------------------------------------------------------------
\* Which fields an operation has between its statements.
LEMMA IdleOrNot == Idle \in Operations /\ Idle.at = "idle"
  BY Zenon DEF Operations, Idle

LEMMA LoginFields ==
  ASSUME op \in Operations, op.at = "loginInsert"
  PROVE  op.id \in Ids /\ op.password \in Passwords
  BY DEF Operations, Idle

LEMMA UpdateFields ==
  ASSUME op \in Operations, op.at \in {"updateDuplicate", "updateCount", "updateWrite"}
  PROVE  op \in [at : {"updateDuplicate", "updateCount", "updateWrite"}, id : Ids,
                 email : Emails, role : Roles, password : Passwords \cup {Keep}, was : Roles,
                 blind : BOOLEAN]
  BY DEF Operations, Idle

LEMMA DeleteFields ==
  ASSUME op \in Operations, op.at \in {"deleteCount", "deleteWrite"}
  PROVE  op \in [at : {"deleteCount", "deleteWrite"}, id : Ids, blind : BOOLEAN]
  BY DEF Operations, Idle

LEMMA RegisterFields ==
  ASSUME op \in Operations
  PROVE  /\ op.at = "registerUser" => op.email \in Emails /\ op.password \in Passwords
         /\ op.at \in {"registerSession", "registerCommit"} => op.id \in Ids /\ op.row \in Users
         /\ op.at = "registerCommit" => op.token \in Tokens
  BY DEF Operations, Idle

LEMMA LinkKept ==
  ASSUME NEW o, link \in {"up", "down"}
  PROVE  /\ FirstStatement(o) => link' \in {"up", "down"}
         /\ \A at : NextStatement(at, o) => link' \in {"up", "down"}
  BY Zenon DEF FirstStatement, NextStatement

-----------------------------------------------------------------------------
LEMMA DatabaseInvInit == Init => DatabaseInv
  <1> SUFFICES ASSUME Init PROVE DatabaseInv
    OBVIOUS
  <1>1. TypeOK
    BY IdleOrNot, Zenon DEF Init, TypeOK
  <1>2. SessionsFitAccounts
    BY <1>1, Zenon DEF Init, SessionsFitAccounts, Open
  <1>3. RegisterIsAtomic
    BY Zenon DEF Init, RegisterIsAtomic, Exists
  <1>4. Pending
    BY IdleOrNot, Zenon DEF Init, Pending
  <1> QED BY <1>2, <1>3, <1>4, Zenon DEF DatabaseInv

\* A step that leaves the tables alone has to give the operation what it relies on.
LEMMA TablesKept ==
  ASSUME DatabaseInv, UNCHANGED <<users, sessions>>, link' \in {"up", "down"},
         op' \in Operations, actors' \in [Requests -> Ids \cup {NoActor}], Pending'
  PROVE  DatabaseInv'
  BY Zenon DEF DatabaseInv, SessionsFitAccounts, TypeOK, RegisterIsAtomic, Open, Active, Exists

\* A step that leaves the accounts alone, and ends the operation.
LEMMA AccountsKept ==
  ASSUME DatabaseInv, users' = users, op' = Idle, link' \in {"up", "down"},
         actors' \in [Requests -> Ids \cup {NoActor}],
         sessions' \in [Tokens -> Sessions \cup {NoSession}],
         \A t \in Tokens :
            \/ sessions'[t] = sessions[t]
            \/ /\ sessions[t] = NoSession \/ sessions'[t].user = sessions[t].user
               /\ sessions'[t] # NoSession
               /\ sessions'[t].over \/ /\ Active(sessions'[t].user)
                                       /\ users[sessions'[t].user].password = sessions'[t].by
  PROVE  DatabaseInv'
  <1>1. TypeOK'
    BY IdleOrNot, Zenon DEF DatabaseInv, SessionsFitAccounts, TypeOK
  <1>2. SessionsFitAccounts'
    BY <1>1 DEF DatabaseInv, SessionsFitAccounts, Open, Active, Exists
  <1>3. RegisterIsAtomic'
    <2> SUFFICES ASSUME NEW i \in Ids, Exists(i), users[i].origin = "register"
                 PROVE  \E t \in Tokens : sessions'[t] # NoSession /\ sessions'[t].user = i
      BY Zenon DEF RegisterIsAtomic, Exists
    <2>1. PICK t \in Tokens : sessions[t] # NoSession /\ sessions[t].user = i
      BY Zenon DEF DatabaseInv, RegisterIsAtomic
    <2> QED BY <2>1, Zenon
  <1>4. Pending'
    BY IdleOrNot, Zenon DEF Pending
  <1> QED BY <1>2, <1>3, <1>4, Zenon DEF DatabaseInv

-----------------------------------------------------------------------------
(* The steps that leave the tables alone. *)

LEMMA RegisterBeginKeeps ==
  ASSUME DatabaseInv, NEW e \in Emails, NEW p \in Passwords, RegisterBegin(e, p)
  PROVE  DatabaseInv'
  <1>1. PICK o \in Outcomes :
           /\ FirstStatement(o)
           /\ op' = IF o = "ok" THEN [at |-> "registerUser", email |-> e, password |-> p] ELSE Idle
    BY Zenon DEF RegisterBegin
  <1>2. op' \in Operations /\ op'.at \in {"registerUser", "idle"}
    BY <1>1, IdleOrNot, Zenon DEF Operations
  <1>3. Pending'
    BY <1>2, Zenon DEF Pending
  <1> QED BY <1>1, <1>2, <1>3, LinkKept, TablesKept
          DEF RegisterBegin, DatabaseInv, SessionsFitAccounts, TypeOK

LEMMA RegisterUserKeeps ==
  ASSUME DatabaseInv, RegisterUser
  PROVE  DatabaseInv'
  <1> DEFINE row == [email |-> op.email, role |-> "admin", password |-> op.password,
                     active |-> TRUE, origin |-> "register"]
             inserts == \A i \in Ids : ~Exists(i)
  <1>1. PICK o \in AnswersOf(link), id \in Ids :
           /\ NextStatement("registerUser", o)
           /\ op' = IF o = "ok" /\ inserts
                    THEN [at |-> "registerSession", id |-> id, row |-> row] ELSE Idle
           /\ UNCHANGED <<users, sessions, actors>>
    BY Zenon DEF RegisterUser
  <1>2. row \in Users /\ row.active
    BY <1>1, RegisterFields, Zenon DEF NextStatement, DatabaseInv, SessionsFitAccounts, TypeOK, Users, Roles
  <1> HIDE DEF row
  <1>3. op' \in Operations
    BY <1>1, <1>2, IdleOrNot, Zenon DEF Operations
  <1>4. op' = Idle \/ (op'.at = "registerSession" /\ op'.row = row /\ inserts)
    BY <1>1, Zenon
  <1>5. Pending'
    BY <1>1, <1>2, <1>4, IdleOrNot, Zenon DEF Pending, Exists
  <1> QED BY <1>1, <1>3, <1>5, LinkKept, TablesKept DEF DatabaseInv, SessionsFitAccounts, TypeOK

LEMMA RegisterSessionKeeps ==
  ASSUME DatabaseInv, NEW t \in Tokens, RegisterSession(t)
  PROVE  DatabaseInv'
  <1>1. PICK o \in AnswersOf(link) :
           /\ NextStatement("registerSession", o)
           /\ op' = IF o = "ok"
                    THEN [at |-> "registerCommit", id |-> op.id, row |-> op.row, token |-> t]
                    ELSE Idle
    BY Zenon DEF RegisterSession
  <1>2. /\ op.at = "registerSession" /\ op.id \in Ids /\ op.row \in Users
        /\ op.row.active /\ \A i \in Ids : ~Exists(i)
    BY <1>1, RegisterFields, Zenon DEF NextStatement, DatabaseInv, SessionsFitAccounts, TypeOK, Pending
  <1>3. op' \in Operations
    BY <1>1, <1>2, IdleOrNot, Zenon DEF Operations
  <1>4. op' = Idle \/ (op'.at = "registerCommit" /\ op'.row = op.row)
    BY <1>1, Zenon
  <1>5. Pending'
    BY <1>2, <1>4, IdleOrNot, Zenon DEF Pending, Exists, RegisterSession
  <1>6. link' \in {"up", "down"}
    BY <1>1, LinkKept DEF DatabaseInv, SessionsFitAccounts, TypeOK
  <1>7. UNCHANGED <<users, sessions, actors>>
    BY Zenon DEF RegisterSession
  <1> QED BY <1>3, <1>5, <1>6, <1>7, TablesKept, Zenon DEF DatabaseInv, SessionsFitAccounts, TypeOK

LEMMA LoginSelectKeeps ==
  ASSUME DatabaseInv, NEW i \in Ids, NEW p \in Passwords, LoginSelect(i, p)
  PROVE  DatabaseInv'
  <1>1. PICK o \in Outcomes :
           /\ FirstStatement(o)
           /\ op' = IF o = "ok" /\ Active(i) /\ users[i].password = p
                    THEN [at |-> "loginInsert", id |-> i, password |-> p] ELSE Idle
    BY Zenon DEF LoginSelect
  <1>2. op' \in Operations
    BY <1>1, IdleOrNot, SMTT(60) DEF Operations
  <1>3. Pending'
    BY <1>1, IdleOrNot, Zenon DEF Pending, LoginSelect, Active, Exists
  <1> QED BY <1>1, <1>2, <1>3, LinkKept, TablesKept
          DEF LoginSelect, DatabaseInv, SessionsFitAccounts, TypeOK

LEMMA ResolveAdminKeeps ==
  ASSUME DatabaseInv, NEW r \in Requests, NEW t \in Tokens, ResolveAdmin(r, t)
  PROVE  DatabaseInv'
  <1>1. PICK o \in Outcomes :
           /\ FirstStatement(o)
           /\ actors' = IF o = "ok" THEN [actors EXCEPT ![r] = sessions[t].user] ELSE actors
    BY Zenon DEF ResolveAdmin
  <1>2. sessions[t].user \in Ids
    BY Zenon DEF ResolveAdmin, ActiveAdmins
  <1>3. actors' \in [Requests -> Ids \cup {NoActor}]
    BY <1>1, <1>2, Zenon DEF DatabaseInv, SessionsFitAccounts, TypeOK
  <1>4. op' = Idle
    BY <1>1, Zenon DEF ResolveAdmin, FirstStatement
  <1>5. Pending'
    BY <1>4, IdleOrNot, Zenon DEF Pending
  <1> QED BY <1>1, <1>3, <1>4, <1>5, IdleOrNot, LinkKept, TablesKept
          DEF ResolveAdmin, DatabaseInv, SessionsFitAccounts, TypeOK

LEMMA ReadKeeps == ASSUME DatabaseInv, Read PROVE DatabaseInv'
  <1>1. link' \in {"up", "down"} /\ op' = Idle
    BY LinkKept, Zenon DEF Read, FirstStatement, DatabaseInv, SessionsFitAccounts, TypeOK
  <1>2. Pending'
    BY <1>1, IdleOrNot, Zenon DEF Pending
  <1> QED BY <1>1, <1>2, IdleOrNot, TablesKept, Zenon DEF Read, DatabaseInv, SessionsFitAccounts, TypeOK

\* A request that acts has resolved its actor, and is over.
LEMMA ActsOnce ==
  ASSUME DatabaseInv, NEW r \in Requests, Acts(r)
  PROVE  actors' \in [Requests -> Ids \cup {NoActor}]
  BY Zenon DEF Acts, DatabaseInv, SessionsFitAccounts, TypeOK

LEMMA EndWithoutChangeKeeps ==
  ASSUME DatabaseInv, NEW r \in Requests, EndWithoutChange(r)
  PROVE  DatabaseInv'
  <1>1. Pending'
    BY Zenon DEF Pending, EndWithoutChange, DatabaseInv, Active, Exists, ActiveAdmins
  <1> QED BY <1>1, ActsOnce, TablesKept, Zenon DEF EndWithoutChange, DatabaseInv, SessionsFitAccounts, TypeOK

LEMMA RestartKeeps == ASSUME DatabaseInv, Restart PROVE DatabaseInv'
  <1>1. Pending' /\ op' \in Operations
    BY IdleOrNot, Zenon DEF Pending, Restart
  <1> QED BY <1>1, TablesKept, Zenon DEF Restart

-----------------------------------------------------------------------------
(* An update and a deletion up to their write. *)

LEMMA UpdateSelectKeeps ==
  ASSUME DatabaseInv, NEW r \in Requests, NEW i \in Ids, NEW e \in Emails, NEW l \in Roles,
         NEW p \in Passwords \cup {Keep}, UpdateSelect(r, i, e, l, p)
  PROVE  DatabaseInv'
  <1>1. PICK o \in Outcomes :
           /\ FirstStatement(o)
           /\ op' = IF o = "ok" /\ Active(i)
                    THEN [at |-> "updateDuplicate", id |-> i, email |-> e, role |-> l,
                          password |-> p, was |-> users[i].role, blind |-> FALSE]
                    ELSE Idle
    BY Zenon DEF UpdateSelect
  <1>2. Active(i) => users[i].role \in Roles
    BY Zenon DEF Active, Exists, Users, DatabaseInv, SessionsFitAccounts, TypeOK
  <1>3. op' \in Operations
    BY <1>1, <1>2, IdleOrNot, Zenon DEF Operations
  <1>4. \/ op' = Idle
        \/ op'.at = "updateDuplicate" /\ op'.id = i /\ Active(i) /\ op'.was = users[i].role
    BY <1>1, Zenon
  <1>5. UNCHANGED <<users, sessions>> /\ Acts(r)
    BY Zenon DEF UpdateSelect
  <1>6. Pending'
    BY <1>4, <1>5, IdleOrNot, SMTT(60) DEF Pending, Active, Exists
  <1>7. link' \in {"up", "down"}
    BY <1>1, LinkKept DEF DatabaseInv, SessionsFitAccounts, TypeOK
  <1> QED BY <1>3, <1>5, <1>6, <1>7, ActsOnce, TablesKept, Zenon

LEMMA UpdateDuplicateKeeps == ASSUME DatabaseInv, UpdateDuplicate PROVE DatabaseInv'
  <1>1. PICK o \in AnswersOf(link) :
           /\ NextStatement("updateDuplicate", o)
           /\ op' = IF o = "ok" /\ ~EmailFree(op.email, {op.id}) THEN Idle
                    ELSE [op EXCEPT !.at = IF op.was = "admin" /\ op.role # "admin"
                                           THEN "updateCount" ELSE "updateWrite"]
    BY Zenon DEF UpdateDuplicate
  <1>2. /\ op \in [at : {"updateDuplicate", "updateCount", "updateWrite"}, id : Ids,
                   email : Emails, role : Roles, password : Passwords \cup {Keep}, was : Roles,
                   blind : BOOLEAN]
        /\ Active(op.id) /\ users[op.id].role = op.was
    BY <1>1, UpdateFields, Zenon DEF NextStatement, DatabaseInv, SessionsFitAccounts, TypeOK, Pending
  <1>3. op' \in Operations
    BY <1>1, <1>2, IdleOrNot DEF Operations
  <1>4. \/ op' = Idle
        \/ /\ op'.id = op.id /\ op'.was = op.was /\ op'.role = op.role
           /\ \/ op'.at = "updateCount"
              \/ op'.at = "updateWrite" /\ ~ (op.was = "admin" /\ op.role # "admin")
    BY <1>1, <1>2, Zenon
  <1>5. UNCHANGED <<users, sessions, actors>>
    BY Zenon DEF UpdateDuplicate
  <1>6. Pending'
    BY <1>2, <1>4, <1>5, IdleOrNot, Zenon DEF Pending, Active, Exists
  <1>7. link' \in {"up", "down"}
    BY <1>1, LinkKept DEF DatabaseInv, SessionsFitAccounts, TypeOK
  <1> QED BY <1>3, <1>5, <1>6, <1>7, TablesKept, Zenon DEF DatabaseInv, SessionsFitAccounts, TypeOK

\* A count that was answered, and let the operation go on, found another administrator.
LEMMA AnotherAdmin ==
  ASSUME NEW o, o = "ok", ~SoleAdmin(o), NEW id
  PROVE  ActiveAdmins # {id}
  BY FS_Singleton, Zenon DEF SoleAdmin

LEMMA CountKeeps ==
  ASSUME DatabaseInv, UpdateCount \/ DeleteCount
  PROVE  DatabaseInv'
  <1>1. PICK at, write :
           /\ Count(at, write)
           /\ \/ at = "updateCount" /\ write = "updateWrite"
              \/ at = "deleteCount" /\ write = "deleteWrite"
    BY SMTT(60) DEF UpdateCount, DeleteCount
  <1>2. PICK o \in AnswersOf(link) :
           /\ NextStatement(at, o)
           /\ op' = IF SoleAdmin(o) THEN Idle ELSE [op EXCEPT !.at = write, !.blind = o # "ok"]
    BY <1>1, Zenon DEF Count
  <1>3. op.at = at /\ Active(op.id) /\ (at = "updateCount" => users[op.id].role = op.was)
    BY <1>1, <1>2, Zenon DEF NextStatement, DatabaseInv, Pending
  <1>4. \/ /\ at = "updateCount"
           /\ op \in [at : {"updateDuplicate", "updateCount", "updateWrite"}, id : Ids,
                      email : Emails, role : Roles, password : Passwords \cup {Keep}, was : Roles,
                      blind : BOOLEAN]
        \/ at = "deleteCount" /\ op \in [at : {"deleteCount", "deleteWrite"}, id : Ids, blind : BOOLEAN]
    BY <1>1, <1>3, UpdateFields, DeleteFields, Zenon DEF DatabaseInv, SessionsFitAccounts, TypeOK
  <1>5. (o # "ok") \in BOOLEAN
    OBVIOUS
  <1>6. op' \in Operations
    BY <1>1, <1>2, <1>4, <1>5, IdleOrNot, ZenonT(40) DEF Operations
  <1>7. \/ op' = Idle
        \/ /\ op'.at = write /\ op'.id = op.id /\ (~op'.blind => ActiveAdmins # {op.id})
           /\ at = "updateCount" => op'.was = op.was
    BY <1>1, <1>2, <1>4, AnotherAdmin, Zenon
  <1>8. UNCHANGED <<users, sessions, actors>>
    BY <1>1, Zenon DEF Count
  <1>9. Pending'
    BY <1>1, <1>3, <1>7, <1>8, IdleOrNot, Zenon DEF Pending, Active, Exists, ActiveAdmins
  <1>10. link' \in {"up", "down"}
    BY <1>2, LinkKept, SMTT(60) DEF DatabaseInv, SessionsFitAccounts, TypeOK
  <1> QED BY <1>6, <1>8, <1>9, <1>10, TablesKept, Zenon DEF DatabaseInv, SessionsFitAccounts, TypeOK

LEMMA DeleteSelectKeeps ==
  ASSUME DatabaseInv, NEW r \in Requests, NEW i \in Ids, DeleteSelect(r, i)
  PROVE  DatabaseInv'
  <1>1. PICK o \in Outcomes :
           /\ FirstStatement(o)
           /\ op' = IF o = "ok" /\ Active(i)
                    THEN [at |-> IF users[i].role = "admin" THEN "deleteCount" ELSE "deleteWrite",
                          id |-> i, blind |-> FALSE]
                    ELSE Idle
    BY Zenon DEF DeleteSelect
  <1>2. op' \in Operations
    BY <1>1, IdleOrNot, Zenon DEF Operations
  <1>3. \/ op' = Idle
        \/ /\ Active(i) /\ op'.id = i
           /\ \/ op'.at = "deleteCount"
              \/ op'.at = "deleteWrite" /\ users[i].role # "admin"
    BY <1>1, Zenon
  <1>4. UNCHANGED <<users, sessions>> /\ Acts(r)
    BY Zenon DEF DeleteSelect
  <1>5. Pending'
    BY <1>3, <1>4, IdleOrNot, Zenon DEF Pending, Active, Exists
  <1>6. link' \in {"up", "down"}
    BY <1>1, LinkKept DEF DatabaseInv, SessionsFitAccounts, TypeOK
  <1> QED BY <1>2, <1>4, <1>5, <1>6, ActsOnce, TablesKept, Zenon

-----------------------------------------------------------------------------
(* The steps that write. *)

LEMMA FreshSession ==
  ASSUME NEW id \in Ids, NEW password \in Passwords
  PROVE  /\ NewSession(id, password) \in Sessions /\ NewSession(id, password) # NoSession
         /\ NewSession(id, password).user = id /\ NewSession(id, password).by = password
  <1>1. NewSession(id, password) \in Sessions
    BY Zenon DEF NewSession, Sessions
  <1>2. NewSession(id, password) # NoSession
    BY <1>1, DatabaseAssumption, Zenon
  <1> QED BY <1>1, <1>2, Zenon DEF NewSession

LEMMA LoginInsertKeeps ==
  ASSUME DatabaseInv, NEW t \in Tokens, LoginInsert(t)
  PROVE  DatabaseInv'
  <1> DEFINE new == NewSession(op.id, op.password)
  <1>1. PICK o \in AnswersOf(link) :
           /\ NextStatement("loginInsert", o)
           /\ sessions' = IF Executed(o) THEN [sessions EXCEPT ![t] = new] ELSE sessions
    BY Zenon DEF LoginInsert
  <1>2. op.at = "loginInsert" /\ op.id \in Ids /\ op.password \in Passwords
    BY <1>1, LoginFields, Zenon DEF NextStatement, DatabaseInv, SessionsFitAccounts, TypeOK
  <1>3. new \in Sessions /\ new # NoSession /\ new.user = op.id /\ new.by = op.password
    BY <1>2, FreshSession
  <1>4. Active(op.id) /\ users[op.id].password = op.password
    BY <1>2, Zenon DEF DatabaseInv, Pending
  <1> HIDE DEF new
  <1>5. /\ sessions[t] = NoSession /\ users' = users /\ actors' = actors /\ op' = Idle
        /\ sessions \in [Tokens -> Sessions \cup {NoSession}]
        /\ actors' \in [Requests -> Ids \cup {NoActor}]
    BY Zenon DEF LoginInsert, DatabaseInv, SessionsFitAccounts, TypeOK
  <1>6. sessions' \in [Tokens -> Sessions \cup {NoSession}]
    BY <1>1, <1>3, <1>5, Zenon
  <1>7. \A s \in Tokens : sessions'[s] = sessions[s] \/ (s = t /\ sessions'[s] = new)
    BY <1>1, <1>5, Zenon
  <1>8. link' \in {"up", "down"}
    BY <1>1, LinkKept DEF DatabaseInv, SessionsFitAccounts, TypeOK
  <1> QED BY <1>3, <1>4, <1>5, <1>6, <1>7, <1>8, AccountsKept, Zenon

\* A session that ends stays the session of its account.
LEMMA SessionEnds ==
  ASSUME DatabaseInv, NEW t \in Tokens, sessions[t] # NoSession,
         sessions' = [sessions EXCEPT ![t].over = TRUE]
  PROVE  /\ sessions' \in [Tokens -> Sessions \cup {NoSession}]
         /\ \A s \in Tokens :
               \/ sessions'[s] = sessions[s]
               \/ sessions'[s] # NoSession /\ sessions'[s].user = sessions[s].user /\ sessions'[s].over
  <1> DEFINE ended == [sessions[t] EXCEPT !.over = TRUE]
  <1>1. sessions \in [Tokens -> Sessions \cup {NoSession}] /\ sessions[t] \in Sessions
    BY Zenon DEF DatabaseInv, SessionsFitAccounts, TypeOK
  <1>2. ended \in Sessions /\ ended.user = sessions[t].user /\ ended.over
    BY <1>1, Zenon DEF Sessions
  <1>3. sessions' = [sessions EXCEPT ![t] = ended]
    OBVIOUS
  <1> HIDE DEF ended
  <1> QED BY <1>1, <1>2, <1>3, DatabaseAssumption, Zenon

LEMMA LogoutKeeps ==
  ASSUME DatabaseInv, NEW t \in Tokens, Logout(t)
  PROVE  DatabaseInv'
  <1>1. PICK o \in Outcomes :
           /\ FirstStatement(o)
           /\ sessions' = IF Executed(o) THEN [sessions EXCEPT ![t].over = TRUE] ELSE sessions
    BY Zenon DEF Logout
  <1>2. /\ users' = users /\ op' = Idle /\ sessions[t] # NoSession
        /\ actors' \in [Requests -> Ids \cup {NoActor}]
    BY <1>1, Zenon DEF Logout, FirstStatement, DatabaseInv, SessionsFitAccounts, TypeOK
  <1>3. link' \in {"up", "down"} /\ sessions \in [Tokens -> Sessions \cup {NoSession}]
    BY <1>1, LinkKept DEF DatabaseInv, SessionsFitAccounts, TypeOK
  <1> QED BY <1>1, <1>2, <1>3, SessionEnds, AccountsKept, Zenon

LEMMA ExpireKeeps ==
  ASSUME DatabaseInv, NEW t \in Tokens, Expire(t)
  PROVE  DatabaseInv'
  <1>1. /\ sessions[t] # NoSession /\ sessions' = [sessions EXCEPT ![t].over = TRUE]
        /\ UNCHANGED <<users, link, op, actors>>
    BY Zenon DEF Expire, Open
  <1>2. TypeOK'
    BY <1>1, SessionEnds, Zenon DEF DatabaseInv, SessionsFitAccounts, TypeOK
  <1>3. SessionsFitAccounts'
    BY <1>1, <1>2, SessionEnds, Zenon DEF DatabaseInv, SessionsFitAccounts, Open, Active, Exists
  <1>4. RegisterIsAtomic'
    <2> SUFFICES ASSUME NEW i \in Ids, Exists(i), users[i].origin = "register"
                 PROVE  \E s \in Tokens : sessions'[s] # NoSession /\ sessions'[s].user = i
      BY <1>1, Zenon DEF RegisterIsAtomic, Exists
    <2>1. PICK s \in Tokens : sessions[s] # NoSession /\ sessions[s].user = i
      BY Zenon DEF DatabaseInv, RegisterIsAtomic
    <2> QED BY <1>1, <2>1, SessionEnds, Zenon
  <1>5. Pending'
    BY <1>1, Zenon DEF DatabaseInv, Pending, Active, Exists, ActiveAdmins
  <1> QED BY <1>3, <1>4, <1>5, Zenon DEF DatabaseInv

\* The first account, and its session with it.
LEMMA RegisterCommitKeeps == ASSUME DatabaseInv, RegisterCommit PROVE DatabaseInv'
  <1> DEFINE new == NewSession(op.id, op.row.password)
  <1>1. PICK o \in AnswersOf(link) :
           /\ NextStatement("registerCommit", o)
           /\ IF Executed(o)
              THEN users' = [users EXCEPT ![op.id] = op.row] /\ sessions' = [sessions EXCEPT ![op.token] = new]
              ELSE UNCHANGED <<users, sessions>>
    BY Zenon DEF RegisterCommit
  <1>2. /\ op.at = "registerCommit" /\ op.id \in Ids /\ op.row \in Users /\ op.token \in Tokens
        /\ op.row.active /\ \A i \in Ids : ~Exists(i)
    BY <1>1, RegisterFields, Zenon DEF NextStatement, DatabaseInv, SessionsFitAccounts, TypeOK, Pending
  <1>3. /\ new \in Sessions /\ new # NoSession /\ new.user = op.id /\ new.by = op.row.password
        /\ op.row # NoUser
    <2>1. op.row.password \in Passwords
      BY <1>2, Zenon DEF Users
    <2>2. op.row # NoUser
      BY <1>2, DatabaseAssumption, Zenon
    <2> QED BY <1>2, <2>1, <2>2, FreshSession
  <1> HIDE DEF new
  <1>4. op' = Idle /\ actors' = actors /\ link' \in {"up", "down"} /\ Pending'
    BY <1>1, LinkKept, IdleOrNot, SMTT(60) DEF RegisterCommit, DatabaseInv, SessionsFitAccounts, TypeOK, Pending
  <1>5. CASE ~Executed(o)
    BY <1>1, <1>4, <1>5, IdleOrNot, TablesKept, Zenon DEF DatabaseInv, SessionsFitAccounts, TypeOK
  <1>6. CASE Executed(o)
    <2>1. /\ users' = [users EXCEPT ![op.id] = op.row]
          /\ sessions' = [sessions EXCEPT ![op.token] = new]
          /\ users \in [Ids -> Users \cup {NoUser}]
          /\ sessions \in [Tokens -> Sessions \cup {NoSession}]
      BY <1>1, <1>6, Zenon DEF DatabaseInv, SessionsFitAccounts, TypeOK
    <2>2. TypeOK'
      BY <1>2, <1>3, <1>4, <2>1, IdleOrNot, Zenon DEF DatabaseInv, SessionsFitAccounts, TypeOK
    <2>3. \A t \in Tokens : Open(t)' => t = op.token
      <3>1. \A t \in Tokens : ~Open(t)
        BY <1>2, Zenon DEF DatabaseInv, SessionsFitAccounts, TypeOK, Sessions, Open, Active
      <3> QED BY <2>1, <3>1, Zenon DEF Open
    <2>4. SessionsFitAccounts'
      BY <1>2, <1>3, <2>1, <2>2, <2>3, Zenon DEF SessionsFitAccounts, Active, Exists
    <2>5. RegisterIsAtomic'
      BY <1>2, <1>3, <2>1, Zenon DEF RegisterIsAtomic, Exists
    <2> QED BY <1>4, <2>4, <2>5, Zenon DEF DatabaseInv
  <1> QED BY <1>5, <1>6, Zenon

LEMMA CreateUserKeeps ==
  ASSUME DatabaseInv, NEW r \in Requests, NEW e \in Emails, NEW l \in Roles, NEW p \in Passwords,
         CreateUser(r, e, l, p)
  PROVE  DatabaseInv' /\ \A i \in Ids : Exists(i) => users'[i] = users[i]
  <1> DEFINE row == [email |-> e, role |-> l, password |-> p, active |-> TRUE, origin |-> "create"]
  <1>1. PICK o \in Outcomes, id \in {i \in Ids : ~Exists(i)} :
           /\ FirstStatement(o)
           /\ users' = users \/ users' = [users EXCEPT ![id] = row]
    BY Zenon DEF CreateUser
  <1>2. row \in Users /\ row.origin = "create"
    BY Zenon DEF Users
  <1> HIDE DEF row
  <1>3. /\ op' = Idle /\ sessions' = sessions /\ link' \in {"up", "down"}
        /\ actors' \in [Requests -> Ids \cup {NoActor}]
    BY <1>1, ActsOnce, LinkKept
      , Zenon DEF CreateUser, FirstStatement, DatabaseInv, SessionsFitAccounts, TypeOK
  <1>4. /\ users' \in [Ids -> Users \cup {NoUser}]
        /\ \A i \in Ids : users'[i] = users[i] \/ (~Exists(i) /\ users'[i] = row)
    BY <1>1, <1>2, Zenon DEF DatabaseInv, SessionsFitAccounts, TypeOK
  <1>5. TypeOK'
    BY <1>3, <1>4, IdleOrNot, Zenon DEF DatabaseInv, SessionsFitAccounts, TypeOK
  <1>6. SessionsFitAccounts'
    <2> SUFFICES ASSUME NEW t \in Tokens, Open(t)'
                 PROVE  Active(sessions[t].user)' /\ users'[sessions[t].user].password = sessions[t].by
      BY <1>3, <1>5, Zenon DEF SessionsFitAccounts
    <2>1. Open(t) /\ sessions[t].user \in Ids
      BY <1>3, Zenon DEF Open, DatabaseInv, SessionsFitAccounts, TypeOK, Sessions
    <2>2. Active(sessions[t].user) /\ users[sessions[t].user].password = sessions[t].by
      BY <2>1, Zenon DEF DatabaseInv, SessionsFitAccounts
    <2> QED BY <1>3, <1>4, <2>1, <2>2, Zenon DEF Active, Exists
  <1>7. RegisterIsAtomic'
    <2> SUFFICES ASSUME NEW i \in Ids, Exists(i)', users'[i].origin = "register"
                 PROVE  \E t \in Tokens : sessions[t] # NoSession /\ sessions[t].user = i
      BY <1>3, Zenon DEF RegisterIsAtomic
    <2>1. Exists(i) /\ users[i].origin = "register"
      BY <1>2, <1>4, Zenon DEF Exists
    <2> QED BY <2>1, Zenon DEF DatabaseInv, RegisterIsAtomic
  <1>8. Pending'
    BY <1>3, IdleOrNot, Zenon DEF Pending
  <1>9. \A i \in Ids : Exists(i) => users'[i] = users[i]
    BY <1>4, Zenon
  <1> QED BY <1>6, <1>7, <1>8, <1>9, Zenon DEF DatabaseInv

\* A statement that revokes the sessions of an account loses none of them.
LEMMA Revokes ==
  ASSUME DatabaseInv, NEW id \in Ids
  PROVE  /\ Revoke(id) \in [Tokens -> Sessions \cup {NoSession}]
         /\ \A t \in Tokens :
               /\ sessions[t] = NoSession => Revoke(id)[t] = NoSession
               /\ sessions[t] # NoSession =>
                     /\ Revoke(id)[t] # NoSession /\ Revoke(id)[t].user = sessions[t].user
                     /\ IF sessions[t].user = id THEN Revoke(id)[t].over
                        ELSE Revoke(id)[t] = sessions[t]
  <1>1. sessions \in [Tokens -> Sessions \cup {NoSession}]
    BY Zenon DEF DatabaseInv, SessionsFitAccounts, TypeOK
  <1>2. ASSUME NEW t \in Tokens, sessions[t] # NoSession
        PROVE  /\ [sessions[t] EXCEPT !.over = TRUE] \in Sessions
               /\ [sessions[t] EXCEPT !.over = TRUE].over
               /\ [sessions[t] EXCEPT !.over = TRUE].user = sessions[t].user
    BY <1>1, <1>2, ZenonT(40) DEF Sessions
  <1>3. Revoke(id) \in [Tokens -> Sessions \cup {NoSession}]
    BY <1>1, <1>2, Zenon DEF Revoke
  <1>4. ASSUME NEW t \in Tokens
        PROVE  /\ sessions[t] = NoSession => Revoke(id)[t] = NoSession
               /\ sessions[t] # NoSession =>
                     /\ Revoke(id)[t] # NoSession /\ Revoke(id)[t].user = sessions[t].user
                     /\ IF sessions[t].user = id THEN Revoke(id)[t].over
                        ELSE Revoke(id)[t] = sessions[t]
    <2>1. Revoke(id)[t] = IF sessions[t] # NoSession /\ sessions[t].user = id
                          THEN [sessions[t] EXCEPT !.over = TRUE] ELSE sessions[t]
      BY Zenon DEF Revoke
    <2>2. sessions[t] # NoSession => [sessions[t] EXCEPT !.over = TRUE] # NoSession
      BY <1>2, DatabaseAssumption, Zenon
    <2> QED BY <1>2, <2>1, <2>2, Zenon
  <1> QED BY <1>3, <1>4, Zenon

\* An account that exists is written, with its sessions: they are revoked, or the account
\* keeps its password and stays active.
LEMMA AccountWritten ==
  ASSUME DatabaseInv, NEW id \in Ids, Exists(id), NEW row \in Users, row.origin = users[id].origin,
         users' = [users EXCEPT ![id] = row],
         \/ sessions' = Revoke(id)
         \/ sessions' = sessions /\ row.password = users[id].password /\ row.active = users[id].active,
         link' \in {"up", "down"}, op' = Idle, actors' = actors
  PROVE  DatabaseInv'
  <1>1. /\ users \in [Ids -> Users \cup {NoUser}] /\ sessions \in [Tokens -> Sessions \cup {NoSession}]
        /\ users[id] \in Users
    BY Zenon DEF DatabaseInv, SessionsFitAccounts, TypeOK, Exists
  <1>2. /\ users' \in [Ids -> Users \cup {NoUser}]
        /\ \A i \in Ids : users'[i] = IF i = id THEN row ELSE users[i]
    BY <1>1, Zenon
  <1>3. row # NoUser
    BY DatabaseAssumption, Zenon
  <1>4. TypeOK'
    BY <1>1, <1>2, Revokes, IdleOrNot, Zenon DEF DatabaseInv, SessionsFitAccounts, TypeOK
  <1>5. SessionsFitAccounts'
    <2> SUFFICES ASSUME NEW t \in Tokens, Open(t)'
                 PROVE  (Active(sessions[t].user) /\ users[sessions[t].user].password = sessions[t].by)'
      BY <1>4, SMTT(60) DEF SessionsFitAccounts
    <2>1. /\ Open(t) /\ sessions'[t] = sessions[t] /\ sessions[t].user \in Ids
          /\ sessions[t].user = id => row.password = users[id].password /\ row.active = users[id].active
      BY <1>1, Revokes DEF Open, Sessions
    <2>2. Active(sessions[t].user) /\ users[sessions[t].user].password = sessions[t].by
      BY <2>1, Zenon DEF DatabaseInv, SessionsFitAccounts
    <2> QED BY <1>2, <1>3, <2>1, <2>2, SMTT(60) DEF Active, Exists
  <1>6. RegisterIsAtomic'
    <2> SUFFICES ASSUME NEW i \in Ids, Exists(i)', users'[i].origin = "register"
                 PROVE  \E t \in Tokens : sessions'[t] # NoSession /\ sessions'[t].user = i
      BY Zenon DEF RegisterIsAtomic
    <2>1. Exists(i) /\ users[i].origin = "register"
      BY <1>2, Zenon DEF Exists
    <2>2. PICK t \in Tokens : sessions[t] # NoSession /\ sessions[t].user = i
      BY <2>1, Zenon DEF DatabaseInv, RegisterIsAtomic
    <2>3. sessions'[t] # NoSession /\ sessions'[t].user = i
      BY <2>2, Revokes
    <2> QED BY <2>3, Zenon
  <1>7. Pending'
    BY IdleOrNot, Zenon DEF Pending
  <1> QED BY <1>5, <1>6, <1>7, Zenon DEF DatabaseInv

\* The administrators that a write to one account leaves.
LEMMA AdminsLeft ==
  ASSUME DatabaseInv, NEW id \in Ids, NEW row \in Users, users' = [users EXCEPT ![id] = row],
         ActiveAdmins # {}, ActiveAdmins = {id} => row.active /\ row.role = "admin"
  PROVE  ActiveAdmins' # {}
  <1>1. /\ \A i \in Ids : users'[i] = IF i = id THEN row ELSE users[i]
        /\ row # NoUser
    BY DatabaseAssumption, Zenon DEF DatabaseInv, SessionsFitAccounts, TypeOK
  <1>2. CASE ActiveAdmins = {id}
    <2>1. id \in ActiveAdmins'
      BY <1>1, <1>2, Zenon DEF ActiveAdmins, Active, Exists
    <2> QED BY <2>1, Zenon
  <1>3. CASE ActiveAdmins # {id}
    <2>1. PICK i \in ActiveAdmins : i # id
      BY <1>3, Zenon
    <2>2. i \in ActiveAdmins'
      BY <1>1, <2>1, Zenon DEF ActiveAdmins, Active, Exists
    <2> QED BY <2>2, Zenon
  <1> QED BY <1>2, <1>3, Zenon

LEMMA UpdateWriteKeeps ==
  ASSUME DatabaseInv, UpdateWrite
  PROVE  DatabaseInv' /\ (ActiveAdmins # {} /\ ~WritesBlindly => ActiveAdmins' # {})
  <1> DEFINE old == users[op.id]
             row == [old EXCEPT !.email = op.email, !.role = op.role,
                                !.password = PasswordAfter(old.password, op.password)]
  <1>1. PICK o \in AnswersOf(link) :
           /\ NextStatement("updateWrite", o)
           /\ IF Executed(o) /\ Active(op.id) /\ EmailFree(op.email, {op.id})
              THEN /\ users' = [users EXCEPT ![op.id].email = op.email,
                                             ![op.id].role = op.role,
                                             ![op.id].password = PasswordAfter(@, op.password)]
                   /\ sessions' = SessionsAfterUpdate(op.id, op.password)
              ELSE UNCHANGED <<users, sessions>>
    BY Zenon DEF UpdateWrite
  <1>2. /\ op.at = "updateWrite" /\ op.id \in Ids /\ op.email \in Emails /\ op.role \in Roles
        /\ op.password \in Passwords \cup {Keep} /\ Exists(op.id) /\ Active(op.id) /\ old.role = op.was
    <2>1. op.at = "updateWrite" /\ op \in Operations
      BY <1>1, Zenon DEF NextStatement, DatabaseInv, SessionsFitAccounts, TypeOK
    <2>2. /\ op.id \in Ids /\ op.email \in Emails /\ op.role \in Roles
          /\ op.password \in Passwords \cup {Keep}
      BY <2>1, UpdateFields, Zenon
    <2>3. Active(op.id) /\ old.role = op.was
      BY <2>1, Zenon DEF DatabaseInv, Pending
    <2> QED BY <2>1, <2>2, <2>3, Zenon DEF Active
  <1>3. op' = Idle /\ actors' = actors /\ link' \in {"up", "down"} /\ Pending'
    <2>1. op' = Idle /\ actors' = actors
      BY Zenon DEF UpdateWrite
    <2>2. link' \in {"up", "down"}
      <3>1. NextStatement("updateWrite", o)
        BY <1>1, Zenon
      <3> QED BY <3>1, LinkKept DEF DatabaseInv, SessionsFitAccounts, TypeOK
    <2>3. Pending'
      BY <2>1, IdleOrNot, Zenon DEF Pending
    <2> QED BY <2>1, <2>2, <2>3, Zenon
  <1>4. CASE UNCHANGED <<users, sessions>>
    <2>1. DatabaseInv'
      BY <1>3, <1>4, IdleOrNot, TablesKept, Zenon DEF DatabaseInv, SessionsFitAccounts, TypeOK
    <2> QED BY <1>4, <2>1, SMTT(60) DEF ActiveAdmins, Active, Exists
  <1>5. CASE ~ UNCHANGED <<users, sessions>>
    <2>1. /\ users' = [users EXCEPT ![op.id].email = op.email,
                                    ![op.id].role = op.role,
                                    ![op.id].password = PasswordAfter(@, op.password)]
          /\ sessions' = SessionsAfterUpdate(op.id, op.password)
      BY <1>1, <1>5, Zenon
    <2>2. users \in [Ids -> Users \cup {NoUser}] /\ old \in Users
      BY <1>2, Zenon DEF DatabaseInv, SessionsFitAccounts, TypeOK, Exists
    <2>3. PasswordAfter(old.password, op.password) \in Passwords
      BY <1>2, <2>2, Zenon DEF PasswordAfter, Users
    <2>4. /\ row \in Users /\ row.origin = old.origin /\ row.active = old.active /\ row.role = op.role
          /\ row.password = PasswordAfter(old.password, op.password)
      BY <1>2, <2>2, <2>3, Zenon DEF Users
    <2>5. users' = [users EXCEPT ![op.id] = row]
      BY <1>2, <2>1, <2>2, Zenon
    <2> HIDE DEF row
    <2>6. \/ sessions' = Revoke(op.id)
          \/ sessions' = sessions /\ row.password = old.password /\ row.active = old.active
      BY <2>1, <2>4, Zenon DEF SessionsAfterUpdate, PasswordAfter
    <2>7. DatabaseInv'
      BY <1>2, <1>3, <2>4, <2>5, <2>6, AccountWritten, Zenon
    <2>8. ASSUME ActiveAdmins # {}, ~WritesBlindly PROVE ActiveAdmins' # {}
      <3>1. ActiveAdmins = {op.id} => row.active /\ row.role = "admin"
        <4> SUFFICES ASSUME ActiveAdmins = {op.id} PROVE row.active /\ row.role = "admin"
          OBVIOUS
        <4>1. old.active /\ op.was = "admin"
          BY <1>2, Zenon DEF ActiveAdmins, Active
        <4>2. op.role = "admin"
          BY <1>2, <2>8, <4>1, Zenon DEF DatabaseInv, Pending, WritesBlindly
        <4> QED BY <2>4, <4>1, <4>2, Zenon
      <3> QED BY <1>2, <2>4, <2>5, <2>8, <3>1, AdminsLeft, Zenon
    <2> QED BY <2>7, <2>8, Zenon
  <1> QED BY <1>4, <1>5, Zenon

LEMMA DeleteWriteKeeps ==
  ASSUME DatabaseInv, DeleteWrite
  PROVE  DatabaseInv' /\ (ActiveAdmins # {} /\ ~WritesBlindly => ActiveAdmins' # {})
  <1> DEFINE old == users[op.id]
             row == [old EXCEPT !.active = FALSE]
  <1>1. PICK o \in AnswersOf(link) :
           /\ NextStatement("deleteWrite", o)
           /\ IF Executed(o) /\ Active(op.id)
              THEN users' = [users EXCEPT ![op.id].active = FALSE] /\ sessions' = Revoke(op.id)
              ELSE UNCHANGED <<users, sessions>>
    BY Zenon DEF DeleteWrite, SessionsAfterDelete
  <1>2. op.at = "deleteWrite" /\ op.id \in Ids /\ Exists(op.id) /\ Active(op.id)
    BY <1>1, DeleteFields, Zenon DEF NextStatement, DatabaseInv, SessionsFitAccounts, TypeOK, Pending, Active
  <1>3. op' = Idle /\ actors' = actors /\ link' \in {"up", "down"} /\ Pending'
    BY <1>1, LinkKept, IdleOrNot, SMTT(60) DEF DeleteWrite, DatabaseInv, SessionsFitAccounts, TypeOK, Pending
  <1>4. CASE UNCHANGED <<users, sessions>>
    <2>1. DatabaseInv'
      BY <1>3, <1>4, IdleOrNot, TablesKept, Zenon DEF DatabaseInv, SessionsFitAccounts, TypeOK
    <2> QED BY <1>4, <2>1, Zenon DEF ActiveAdmins, Active, Exists
  <1>5. CASE ~ UNCHANGED <<users, sessions>>
    <2>1. users' = [users EXCEPT ![op.id] = row] /\ sessions' = Revoke(op.id)
      BY <1>1, <1>5, Zenon
    <2>2. old \in Users
      BY <1>2, Zenon DEF DatabaseInv, SessionsFitAccounts, TypeOK, Exists
    <2>3. row \in Users /\ row.origin = old.origin
      BY <2>2, Zenon DEF Users
    <2> HIDE DEF row
    <2>4. DatabaseInv'
      BY <1>2, <1>3, <2>1, <2>3, AccountWritten, Zenon
    <2>5. ASSUME ActiveAdmins # {}, ~WritesBlindly PROVE ActiveAdmins' # {}
      <3>1. ActiveAdmins # {op.id}
        <4> SUFFICES ASSUME ActiveAdmins = {op.id} PROVE FALSE
          OBVIOUS
        <4>1. old.role = "admin"
          BY Zenon DEF ActiveAdmins
        <4> QED BY <1>2, <2>5, <4>1, Zenon DEF DatabaseInv, Pending, WritesBlindly
      <3> QED BY <1>2, <2>1, <2>3, <2>5, <3>1, AdminsLeft, Zenon
    <2> QED BY <2>4, <2>5, Zenon
  <1> QED BY <1>4, <1>5, Zenon

-----------------------------------------------------------------------------
LEMMA DatabaseInvStep == DatabaseInv /\ [Next]_vars => DatabaseInv'
  <1> SUFFICES ASSUME DatabaseInv, [Next]_vars PROVE DatabaseInv'
    BY SMTT(60)
  <1>1. CASE UNCHANGED vars
    <2>1. Pending'
      BY <1>1, Zenon DEF vars, DatabaseInv, Pending, Active, Exists, ActiveAdmins
    <2> QED BY <1>1, <2>1, TablesKept, SMTT(60) DEF vars, DatabaseInv, SessionsFitAccounts, TypeOK
  <1>2. ASSUME NEW e \in Emails, NEW p \in Passwords, RegisterBegin(e, p) PROVE DatabaseInv'
    BY <1>2, RegisterBeginKeeps, Zenon
  <1>3. ASSUME NEW t \in Tokens,
               RegisterSession(t) \/ LoginInsert(t) \/ Logout(t) \/ Expire(t)
        PROVE  DatabaseInv'
    BY <1>3, RegisterSessionKeeps, LoginInsertKeeps, LogoutKeeps, ExpireKeeps, Zenon
  <1>4. ASSUME NEW i \in Ids, NEW p \in Passwords, LoginSelect(i, p) PROVE DatabaseInv'
    BY <1>4, LoginSelectKeeps, Zenon
  <1>5. ASSUME NEW r \in Requests, NEW t \in Tokens, ResolveAdmin(r, t) PROVE DatabaseInv'
    BY <1>5, ResolveAdminKeeps, Zenon
  <1>6. ASSUME NEW r \in Requests, NEW e \in Emails, NEW l \in Roles, NEW p \in Passwords,
               CreateUser(r, e, l, p)
        PROVE  DatabaseInv'
    BY <1>6, CreateUserKeeps, Zenon
  <1>7. ASSUME NEW r \in Requests, NEW i \in Ids, NEW e \in Emails, NEW l \in Roles,
               NEW p \in Passwords \cup {Keep}, UpdateSelect(r, i, e, l, p)
        PROVE  DatabaseInv'
    BY <1>7, UpdateSelectKeeps, Zenon
  <1>8. ASSUME NEW r \in Requests, NEW i \in Ids, DeleteSelect(r, i) PROVE DatabaseInv'
    BY <1>8, DeleteSelectKeeps, Zenon
  <1>9. ASSUME NEW r \in Requests, EndWithoutChange(r) PROVE DatabaseInv'
    BY <1>9, EndWithoutChangeKeeps, Zenon
  <1>10. CASE \/ RegisterUser \/ RegisterCommit \/ Read \/ UpdateDuplicate \/ UpdateCount
              \/ UpdateWrite \/ DeleteCount \/ DeleteWrite \/ Restart
    BY <1>10, RegisterUserKeeps, RegisterCommitKeeps, ReadKeeps, UpdateDuplicateKeeps, CountKeeps, SMTT(60),
       UpdateWriteKeeps, DeleteWriteKeeps, RestartKeeps
  <1> QED BY <1>1, <1>2, <1>3, <1>4, <1>5, <1>6, <1>7, <1>8, <1>9, <1>10, Zenon DEF Next

LEMMA AdminStaysStep ==
  ASSUME DatabaseInv, [Next]_vars, ActiveAdmins # {}, ~WritesBlindly
  PROVE  ActiveAdmins' # {}
  <1>1. CASE users' = users
    BY <1>1, Zenon DEF ActiveAdmins, Active, Exists
  <1>2. ASSUME NEW r \in Requests, NEW e \in Emails, NEW l \in Roles, NEW p \in Passwords,
               CreateUser(r, e, l, p)
        PROVE  ActiveAdmins' # {}
    <2>1. PICK i : i \in ActiveAdmins
      BY SMTT(60)
    <2>2. i \in ActiveAdmins'
      BY <1>2, <2>1, CreateUserKeeps, Zenon DEF ActiveAdmins, Active, Exists
    <2> QED BY <2>2, Zenon
  <1>3. CASE RegisterCommit
    <2>1. op.at = "registerCommit"
      BY <1>3, Zenon DEF RegisterCommit, NextStatement
    <2>2. ActiveAdmins = {}
      BY <2>1, Zenon DEF DatabaseInv, Pending, ActiveAdmins, Active
    <2> QED BY <2>2, Zenon
  <1>4. CASE UpdateWrite \/ DeleteWrite
    BY <1>4, UpdateWriteKeeps, DeleteWriteKeeps, Zenon
  <1> QED BY <1>1, <1>2, <1>3, <1>4, Zenon
          DEF Next, vars, RegisterBegin, RegisterUser, RegisterSession, LoginSelect, LoginInsert,
              Logout, ResolveAdmin, Read, Expire, UpdateSelect, UpdateDuplicate, UpdateCount, Count,
              DeleteSelect, DeleteCount, EndWithoutChange, Restart

-----------------------------------------------------------------------------
\* A session that can be used was opened with the password its account has now, and the
\* account was not deleted: no login of databaseLogin() gets past a databaseUpdateUser()
\* or a databaseDeleteUser(), whatever is lost or refused.
THEOREM SessionsAlwaysFit == Spec => []SessionsFitAccounts
  <1>1. DatabaseInv => SessionsFitAccounts
    BY Zenon DEF DatabaseInv
  <1> QED BY <1>1, DatabaseInvInit, DatabaseInvStep, PTL DEF Spec

\* databaseRegisterAdmin() leaves the account and its session, or neither.
THEOREM RegistersAtomically == Spec => []RegisterIsAtomic
  <1>1. DatabaseInv => RegisterIsAtomic
    BY Zenon DEF DatabaseInv
  <1> QED BY <1>1, DatabaseInvInit, DatabaseInvStep, PTL DEF Spec

\* No step of any request takes the last active administrator away, unless the server
\* refused to count the administrators and kept the connection.
THEOREM LastAdminStays == Spec => AdminStays
  <1> DEFINE Step == ActiveAdmins # {} /\ ~WritesBlindly => ActiveAdmins' # {}
  <1>1. DatabaseInv /\ [Next]_vars => [Step]_vars
    BY AdminStaysStep, Zenon
  <1> QED BY <1>1, DatabaseInvInit, DatabaseInvStep, PTL DEF Spec, AdminStays

-----------------------------------------------------------------------------
(***************************************************************************)
(* The assertions.  An accepted identifier is remembered until no clock    *)
(* within the skew would accept it again, for any skew, lifetime and       *)
(* difference of the clocks.                                               *)
(***************************************************************************)
\* A call is about an assertion that was signed, and its reading of the clock
\* is not ahead of the clock.
CallsInThePast ==
    \A t \in Threads : verifications[t] # NoCall =>
        Signed(verifications[t].jti) /\ verifications[t].now <= Now

\* An accepted identifier is remembered until its assertion has expired for
\* every clock the skew allows.
Remembered ==
    \A j \in Jtis : accepted[j] > 0 =>
        Signed(j) /\ (j \in seen \/ assertions[j].expiresAt <= Now - Skew)

\* Only identifiers of signed assertions are remembered.
SeenSigned == \A j \in seen : Signed(j)

VerifierInv == VerifierTypeOK /\ CallsInThePast /\ Remembered /\ SeenSigned

USE AssertionAssumption, SentinelAssumption

LEMMA VerifierInitInv == VerifierInit => VerifierInv
  <1> SUFFICES ASSUME VerifierInit PROVE VerifierInv OBVIOUS
  <1>1. VerifierTypeOK BY DEF VerifierInit, VerifierTypeOK
  <1>2. CallsInThePast BY Zenon DEF VerifierInit, CallsInThePast
  <1>3. Remembered BY DEF VerifierInit, Remembered
  <1>4. SeenSigned BY Zenon DEF VerifierInit, SeenSigned
  <1> QED BY <1>1, <1>2, <1>3, <1>4, Zenon DEF VerifierInv

LEMMA TickInv == ASSUME VerifierInv, Tick PROVE VerifierInv'
  <1>1. VerifierTypeOK' BY DEF VerifierInv, VerifierTypeOK, Tick
  <1>2. clock \in Int /\ clock' = clock + 1 BY DEF VerifierInv, VerifierTypeOK, Tick
  <1>3. CallsInThePast'
    <2> SUFFICES ASSUME NEW t \in Threads, verifications[t] # NoCall
                 PROVE  Signed(verifications[t].jti) /\ verifications[t].now <= clock' + Offset
      BY Zenon DEF CallsInThePast, Now, Signed, Tick
    <2>1. verifications[t] \in Verifications BY Zenon DEF VerifierInv, VerifierTypeOK
    <2>2. verifications[t].now \in Int BY <2>1, Zenon DEF Verifications
    <2> QED BY <1>2, <2>2 DEF VerifierInv, CallsInThePast, Now
  <1>4. Remembered'
    <2>0. assertions' = assertions /\ seen' = seen /\ accepted' = accepted
      BY Zenon DEF Tick
    <2>a. Now' = clock' + Offset
      BY Zenon DEF Now
    <2> SUFFICES ASSUME NEW j \in Jtis, accepted'[j] > 0
                 PROVE  Signed(j)' /\ (j \in seen' \/ assertions'[j].expiresAt <= Now' - Skew)
      BY Zenon DEF Remembered
    <2> SUFFICES Signed(j) /\ (j \in seen \/ assertions[j].expiresAt <= (clock' + Offset) - Skew)
      BY <2>0, <2>a, Zenon DEF Signed
    <2>b. accepted[j] > 0
      BY <2>0, Zenon
    <2>1. Signed(j) /\ (j \in seen \/ assertions[j].expiresAt <= Now - Skew)
      BY <2>b, Zenon DEF VerifierInv, Remembered
    <2>2. assertions[j] \in Assertions BY <2>1, Zenon DEF VerifierInv, VerifierTypeOK, Signed
    <2>3. assertions[j].expiresAt \in Int BY <2>2 DEF Assertions
    <2> QED BY <1>2, <2>1, <2>3 DEF Now
  <1>5. SeenSigned' BY Zenon DEF VerifierInv, SeenSigned, Signed, Tick
  <1> QED BY <1>1, <1>3, <1>4, <1>5, Zenon DEF VerifierInv

LEMMA ReplaceInv == ASSUME VerifierInv, NEW file \in KeyFiles, ReplaceKeyFile(file) PROVE VerifierInv'
  BY Zenon DEF VerifierInv, VerifierTypeOK, CallsInThePast, Remembered, SeenSigned, Signed, Now, ReplaceKeyFile

LEMMA SignInv == ASSUME VerifierInv, NEW j \in Jtis, NEW claims \in ClaimSets, Sign(j, claims) PROVE VerifierInv'
  <1> DEFINE a == [issuedAt |-> clock, expiresAt |-> clock + Ttl, claims |-> claims, key |-> keyFile.key]
  <1>1. a \in Assertions BY DEF VerifierInv, VerifierTypeOK, Assertions, Sign, KeyUsable
  <1>2. assertions' = [assertions EXCEPT ![j] = a] BY Zenon DEF Sign
  <1> HIDE DEF a
  <1>3. VerifierTypeOK' BY <1>1, <1>2, Zenon DEF VerifierInv, VerifierTypeOK, Sign
  <1>4. \A k \in Jtis : Signed(k) => k # j /\ assertions'[k] = assertions[k]
    BY <1>2, Zenon DEF VerifierInv, VerifierTypeOK, Sign, Signed
  <1>5. CallsInThePast'
    <2> SUFFICES ASSUME NEW t \in Threads, verifications[t] # NoCall
                 PROVE  assertions'[verifications[t].jti] # NoAssertion /\ verifications[t].now <= Now
      BY Zenon DEF CallsInThePast, Now, Sign, Signed
    <2>1. verifications[t].jti \in Jtis BY Zenon DEF VerifierInv, VerifierTypeOK, Verifications
    <2>2. Signed(verifications[t].jti) /\ verifications[t].now <= Now BY Zenon DEF VerifierInv, CallsInThePast
    <2> QED BY <1>4, <2>1, <2>2, Zenon DEF Signed
  <1>6. Remembered'
    <2> SUFFICES ASSUME NEW k \in Jtis, accepted[k] > 0
                 PROVE  assertions'[k] # NoAssertion
                        /\ (k \in seen \/ assertions'[k].expiresAt <= Now - Skew)
      BY Zenon DEF Remembered, Now, Sign, Signed
    <2> QED BY <1>4, Zenon DEF VerifierInv, Remembered, Signed
  <1>7. SeenSigned' BY <1>4, Zenon DEF VerifierInv, VerifierTypeOK, SeenSigned, Sign, Signed
  <1> QED BY <1>3, <1>5, <1>6, <1>7, Zenon DEF VerifierInv

LEMMA CheckAssertionInv ==
  ASSUME VerifierInv, NEW t \in Threads, NEW j \in Jtis, NEW how \in Alterations, CheckAssertion(t, j, how)
  PROVE  VerifierInv'
  <1> DEFINE result == IF Presented(j, how) \in Fitting /\ InTime(assertions[j], Now)
                       THEN "checked" ELSE "refused"
             c == [jti |-> j, now |-> Now, text |-> TextAfter(how), result |-> result]
  <1>1. Now \in Int BY DEF VerifierInv, VerifierTypeOK, Now
  <1>2. c \in Verifications BY <1>1, Zenon DEF Verifications, TextAfter
  <1>3. verifications' = [verifications EXCEPT ![t] = c] BY Zenon DEF CheckAssertion
  <1>4. c.jti = j /\ c.now = Now OBVIOUS
  <1> HIDE DEF c
  <1>5. VerifierTypeOK' BY <1>2, <1>3, Zenon DEF VerifierInv, VerifierTypeOK, CheckAssertion
  <1>6. CallsInThePast'
    <2> SUFFICES ASSUME NEW s \in Threads, verifications'[s] # NoCall
                 PROVE  Signed(verifications'[s].jti) /\ verifications'[s].now <= Now
      BY Zenon DEF CallsInThePast, Now, Signed, CheckAssertion
    <2>1. CASE s = t
      <3>1. verifications'[s] = c BY <1>3, <2>1, Zenon DEF VerifierInv, VerifierTypeOK
      <3> QED BY <1>1, <1>4, <3>1 DEF CheckAssertion
    <2>2. CASE s # t
      <3>1. verifications'[s] = verifications[s] BY <1>3, <2>2, Zenon DEF VerifierInv, VerifierTypeOK
      <3> QED BY <3>1, Zenon DEF VerifierInv, CallsInThePast
    <2> QED BY <2>1, <2>2, Zenon
  <1>7. Remembered' BY Zenon DEF VerifierInv, Remembered, CheckAssertion, Signed, Now
  <1>8. SeenSigned' BY Zenon DEF VerifierInv, SeenSigned, CheckAssertion, Signed
  <1> QED BY <1>5, <1>6, <1>7, <1>8, Zenon DEF VerifierInv

\* A call that takes the mutex forgets nothing that is still in time by the
\* verifier's clock.
LEMMA KeptInTime ==
  ASSUME VerifierInv, NEW t \in Threads, verifications[t] # NoCall, NEW j \in seen,
         j \notin Kept(verifications[t].now)
  PROVE  assertions[j].expiresAt <= Now - Skew
  <1>1. assertions[j] \in Assertions BY Zenon DEF VerifierInv, VerifierTypeOK, SeenSigned, Signed
  <1>2. assertions[j].expiresAt \in Int BY <1>1 DEF Assertions
  <1>3. verifications[t] \in Verifications BY Zenon DEF VerifierInv, VerifierTypeOK
  <1>4. verifications[t].now \in Int BY <1>3, Zenon DEF Verifications
  <1>5. verifications[t].now <= Now BY Zenon DEF VerifierInv, CallsInThePast
  <1>6. Now \in Int BY DEF VerifierInv, VerifierTypeOK, Now
  <1>7. ~(assertions[j].expiresAt > verifications[t].now - Skew) BY Zenon DEF Kept
  <1> QED BY <1>2, <1>4, <1>5, <1>6, <1>7

LEMMA RecordAssertionInv == ASSUME VerifierInv, NEW t \in Threads, RecordAssertion(t) PROVE VerifierInv'
  <1> DEFINE j == verifications[t].jti
             kept == Kept(verifications[t].now)
  <1>1. verifications[t] # NoCall /\ verifications[t] \in Verifications BY Zenon DEF VerifierInv, VerifierTypeOK, RecordAssertion
  <1>2. j \in Jtis /\ Signed(j) BY <1>1, Zenon DEF Verifications, VerifierInv, CallsInThePast
  <1>3. /\ seen' = kept \cup {j}
        /\ verifications' = [verifications EXCEPT ![t].result = ResultOf(j \in kept)]
        /\ accepted' = IF j \in kept THEN accepted ELSE [accepted EXCEPT ![j] = @ + 1]
        /\ UNCHANGED <<clock, keyFile, assertions>>
    BY Zenon DEF RecordAssertion
  <1>4. kept \subseteq seen BY Zenon DEF Kept
  <1>5. ASSUME NEW i \in seen, i \notin kept PROVE assertions[i].expiresAt <= Now - Skew
    BY <1>1, <1>5, KeptInTime, Zenon
  <1>6. ResultOf(j \in kept) \in {"replayed", "accepted"} BY Zenon DEF ResultOf
  <1>7. verifications' \in [Threads -> Verifications \cup {NoCall}]
    BY <1>1, <1>3, <1>6, Zenon DEF VerifierInv, VerifierTypeOK, Verifications
  <1>8. \A s \in Threads : verifications[s] # NoCall =>
           verifications'[s].jti = verifications[s].jti /\ verifications'[s].now = verifications[s].now
    BY <1>1, <1>3, Zenon DEF VerifierInv, VerifierTypeOK, Verifications
  <1>9. \A s \in Threads : verifications[s] = NoCall => verifications'[s] = NoCall
    BY <1>1, <1>3, Zenon DEF VerifierInv, VerifierTypeOK
  <1> HIDE DEF j, kept
  <1>10. accepted' \in [Jtis -> Nat] BY <1>2, <1>3 DEF VerifierInv, VerifierTypeOK
  <1>11. VerifierTypeOK'
    BY <1>2, <1>3, <1>4, <1>7, <1>10, Zenon DEF VerifierInv, VerifierTypeOK
  <1>12. CallsInThePast'
    <2> SUFFICES ASSUME NEW s \in Threads, verifications'[s] # NoCall
                 PROVE  Signed(verifications'[s].jti) /\ verifications'[s].now <= Now
      BY <1>3, Zenon DEF CallsInThePast, Now, Signed
    <2> QED BY <1>8, <1>9, Zenon DEF VerifierInv, CallsInThePast
  <1>13. Remembered'
    <2> SUFFICES ASSUME NEW k \in Jtis, accepted'[k] > 0
                 PROVE  Signed(k) /\ (k \in seen' \/ assertions[k].expiresAt <= Now - Skew)
      BY <1>3, Zenon DEF Remembered, Now, Signed
    <2>1. CASE k = j BY <1>2, <1>3, <2>1, Zenon
    <2>2. CASE k # j
      <3>1. accepted'[k] = accepted[k] BY <1>2, <1>3, <2>2, Zenon DEF VerifierInv, VerifierTypeOK
      <3>2. Signed(k) /\ (k \in seen \/ assertions[k].expiresAt <= Now - Skew)
        BY <3>1, Zenon DEF VerifierInv, Remembered
      <3> QED BY <1>3, <1>5, <3>2, Zenon
    <2> QED BY <2>1, <2>2, Zenon
  <1>14. SeenSigned' BY <1>2, <1>3, <1>4, Zenon DEF VerifierInv, SeenSigned, Signed
  <1> QED BY <1>11, <1>12, <1>13, <1>14, Zenon DEF VerifierInv

LEMMA NextInv == VerifierInv /\ [VerifierNext]_verifierVars => VerifierInv'
  <1> SUFFICES ASSUME VerifierInv, [VerifierNext]_verifierVars PROVE VerifierInv' OBVIOUS
  <1>1. CASE Tick BY <1>1, TickInv, Zenon
  <1>2. CASE \E j \in Jtis, claims \in ClaimSets : Sign(j, claims) BY <1>2, SignInv, Zenon
  <1>3. CASE \E t \in Threads, j \in Jtis, how \in Alterations : CheckAssertion(t, j, how) BY <1>3, CheckAssertionInv, Zenon
  <1>4. CASE \E t \in Threads : RecordAssertion(t) BY <1>4, RecordAssertionInv, Zenon
  <1>5. CASE UNCHANGED verifierVars
    BY <1>5, Zenon DEF VerifierInv, VerifierTypeOK, CallsInThePast, Remembered, SeenSigned, Signed, Now, verifierVars
  <1>6. CASE \E file \in KeyFiles : ReplaceKeyFile(file) BY <1>6, ReplaceInv, Zenon
  <1> QED BY <1>1, <1>2, <1>3, <1>4, <1>5, <1>6, Zenon DEF VerifierNext

\* The inductive invariant holds throughout.
THEOREM VerifierInductive == VerifierSpec => []VerifierInv
  BY VerifierInitInv, NextInv, PTL DEF VerifierSpec

\* All state keeps its type.
THEOREM VerifierTypeCorrect == VerifierSpec => []VerifierTypeOK
  <1>1. VerifierInv => VerifierTypeOK BY Zenon DEF VerifierInv
  <1> QED BY <1>1, VerifierInductive, PTL

LEMMA UniqueStep ==
  ASSUME VerifierInv, [VerifierNext]_verifierVars
  PROVE  [\A j \in Jtis : accepted[j] > 0 /\ accepted'[j] # accepted[j] =>
             Now >= assertions[j].expiresAt + Skew]_verifierVars
  <1> SUFFICES ASSUME NEW j \in Jtis, accepted[j] > 0, accepted'[j] # accepted[j]
               PROVE  Now >= assertions[j].expiresAt + Skew
    OBVIOUS
  <1>1. PICK t \in Threads : RecordAssertion(t)
    BY Zenon DEF VerifierNext, Tick, ReplaceKeyFile, Sign, CheckAssertion, verifierVars
  <1>2. verifications[t] # NoCall /\ verifications[t] \in Verifications BY <1>1, Zenon DEF VerifierInv, VerifierTypeOK, RecordAssertion
  <1>3. accepted' = IF verifications[t].jti \in Kept(verifications[t].now) THEN accepted
                    ELSE [accepted EXCEPT ![verifications[t].jti] = @ + 1]
    BY <1>1, Zenon DEF RecordAssertion
  <1>4. j = verifications[t].jti /\ j \notin Kept(verifications[t].now)
    BY <1>2, <1>3, Zenon DEF VerifierInv, VerifierTypeOK, Verifications
  <1>5. Signed(j) /\ (j \in seen \/ assertions[j].expiresAt <= Now - Skew)
    BY Zenon DEF VerifierInv, Remembered
  <1>6. assertions[j].expiresAt <= Now - Skew BY <1>2, <1>4, <1>5, KeptInTime, Zenon
  <1>7. assertions[j] \in Assertions BY <1>5, Zenon DEF VerifierInv, VerifierTypeOK, Signed
  <1>8. assertions[j].expiresAt \in Int BY <1>7 DEF Assertions
  <1>9. Now \in Int BY DEF VerifierInv, VerifierTypeOK, Now
  <1> QED BY <1>6, <1>8, <1>9

\* Until it has expired for every clock the skew allows, an assertion is
\* accepted at most once by verify(), for any number of threads.
THEOREM AcceptedOnceUntilExpiry == VerifierSpec => UniqueUntilExpiry
  BY VerifierInductive, UniqueStep, PTL DEF VerifierSpec, UniqueUntilExpiry
-----------------------------------------------------------------------------
\* What sisterd signs lives for as long as it is configured to, and its claims can be
\* written.
WellSigned ==
    \A j \in Jtis : Signed(j) =>
        /\ assertions[j].expiresAt = assertions[j].issuedAt + Ttl
        /\ ClaimsValid(assertions[j].claims)

LEMMA WellSignedHolds == VerifierSpec => []WellSigned
  <1>1. VerifierInit => WellSigned BY Zenon DEF VerifierInit, WellSigned, Signed
  <1>2. VerifierInv /\ WellSigned /\ [VerifierNext]_verifierVars => WellSigned'
    <2> SUFFICES ASSUME VerifierInv, WellSigned, [VerifierNext]_verifierVars PROVE WellSigned' OBVIOUS
    <2>1. CASE assertions' = assertions BY <2>1, Zenon DEF WellSigned, Signed
    <2>2. ASSUME NEW j \in Jtis, NEW claims \in ClaimSets, Sign(j, claims) PROVE WellSigned'
      BY <2>2, Zenon DEF VerifierInv, VerifierTypeOK, Sign, WellSigned, Signed
    <2> QED BY <2>1, <2>2, Zenon DEF VerifierNext, Tick, ReplaceKeyFile, CheckAssertion, RecordAssertion, verifierVars
  <1> QED BY <1>1, <1>2, VerifierInductive, PTL DEF VerifierSpec

\* The values that the reader finds in what the writer wrote.
LEMMA HeaderValues ==
  /\ Reads(SerializeHeader, HeaderNames)
  /\ ValueOf(SerializeHeader, "alg") = "EdDSA"
  /\ ValueOf(SerializeHeader, "typ") = "sister-internal+jwt"
  /\ ValueOf(SerializeHeader, "kid") = Kid
  <1> DEFINE h == SerializeHeader
  <1>1. /\ DOMAIN h = 1..3
        /\ h[1].name = "alg" /\ h[2].name = "typ" /\ h[3].name = "kid"
        /\ h[1].kind = "string" /\ h[2].kind = "string" /\ h[3].kind = "string"
        /\ h[1].value = "EdDSA" /\ h[2].value = "sister-internal+jwt" /\ h[3].value = Kid
    BY DEF SerializeHeader, Member
  <1>2. 1..3 = {1, 2, 3} OBVIOUS
  <1> HIDE DEF h
  <1>3. Reads(h, HeaderNames) BY <1>1, <1>2 DEF Reads, HeaderNames, KindOf
  <1>4. ASSUME NEW k \in 1..3, NEW i \in 1..3, h[i].name = h[k].name PROVE i = k
    BY <1>1, <1>2, <1>4
  <1>5. ASSUME NEW k \in 1..3 PROVE ValueOf(h, h[k].name) = h[k].value
    <2>1. (CHOOSE i \in DOMAIN h : h[i].name = h[k].name) = k BY <1>1, <1>4, Zenon
    <2> QED BY <2>1, Zenon DEF ValueOf
  <1>6. ValueOf(h, "alg") = "EdDSA" BY <1>1, <1>5
  <1>7. ValueOf(h, "typ") = "sister-internal+jwt" BY <1>1, <1>5
  <1>8. ValueOf(h, "kid") = Kid BY <1>1, <1>5
  <1> QED BY <1>3, <1>6, <1>7, <1>8, Zenon DEF h

LEMMA ClaimValues ==
  ASSUME NEW c
  PROVE  /\ Reads(SerializeClaims(c), ClaimNames)
         /\ ValueOf(SerializeClaims(c), "iss") = "sisterd"
         /\ Claims(SerializeClaims(c)) =
               [subject |-> c.subject, audience |-> c.audience, capabilities |-> c.capabilities,
                purpose |-> c.purpose, requestId |-> c.requestId]
  <1> DEFINE p == SerializeClaims(c)
  <1>1. /\ DOMAIN p = 1..9
        /\ p[1].name = "iss" /\ p[2].name = "sub" /\ p[3].name = "aud"
        /\ p[4].name = "capabilities" /\ p[5].name = "purpose" /\ p[6].name = "iat"
        /\ p[7].name = "exp" /\ p[8].name = "jti" /\ p[9].name = "request_id"
    BY DEF SerializeClaims, Member
  <1>2. /\ p[1].kind = "string" /\ p[2].kind = "string" /\ p[3].kind = "string"
        /\ p[4].kind = "list" /\ p[5].kind = "string" /\ p[6].kind = "number"
        /\ p[7].kind = "number" /\ p[8].kind = "string" /\ p[9].kind = "string"
    BY Zenon DEF SerializeClaims, Member
  <1>3. /\ p[1].value = "sisterd" /\ p[2].value = c.subject /\ p[3].value = c.audience
        /\ p[4].value = c.capabilities /\ p[5].value = c.purpose /\ p[9].value = c.requestId
    BY Zenon DEF SerializeClaims, Member
  <1>4. 1..9 = {1, 2, 3, 4, 5, 6, 7, 8, 9} OBVIOUS
  <1> HIDE DEF p
  <1>5. ASSUME NEW k \in 1..9, NEW i \in 1..9, p[i].name = p[k].name PROVE i = k
    BY <1>1, <1>4, <1>5, SMTT(30)
  <1>6. Reads(p, ClaimNames)
    <2>1. \A i \in DOMAIN p : p[i].name \in ClaimNames /\ p[i].kind = KindOf(p[i].name)
      BY <1>1, <1>2, <1>4 DEF ClaimNames, KindOf
    <2>2. \A name \in ClaimNames : \E i \in DOMAIN p : p[i].name = name
      BY <1>1, <1>4 DEF ClaimNames
    <2> QED BY <1>1, <1>5, <2>1, <2>2 DEF Reads
  <1>7. ASSUME NEW k \in 1..9 PROVE ValueOf(p, p[k].name) = p[k].value
    <2>1. (CHOOSE i \in DOMAIN p : p[i].name = p[k].name) = k BY <1>1, <1>5, Zenon
    <2> QED BY <2>1, Zenon DEF ValueOf
  <1>8. /\ ValueOf(p, "iss") = "sisterd" /\ ValueOf(p, "sub") = c.subject
        /\ ValueOf(p, "aud") = c.audience
    BY <1>1, <1>3, <1>4, <1>7
  <1>9. /\ ValueOf(p, "capabilities") = c.capabilities /\ ValueOf(p, "purpose") = c.purpose
        /\ ValueOf(p, "request_id") = c.requestId
    BY <1>1, <1>3, <1>4, <1>7
  <1>10. Claims(p) = [subject |-> c.subject, audience |-> c.audience, capabilities |-> c.capabilities,
                      purpose |-> c.purpose, requestId |-> c.requestId]
    BY <1>8, <1>9, Zenon DEF Claims
  <1> QED BY <1>6, <1>8, <1>10, Zenon DEF p

\* verify() reads what sign() wrote: with the key it knows and the claims it asks for,
\* an assertion that is not altered passes every test before the clocks.
THEOREM ReaderTakesWhatWriterWrote ==
  ASSUME NEW c, ClaimsValid(c), Meets(c)
  PROVE  Fits(Compact(c, PublicKeys[Kid]))
  <1> DEFINE text == Compact(c, PublicKeys[Kid])
             read == Claims(SerializeClaims(c))
  <1>1. /\ text.dots = 2 /\ text.clean = TRUE /\ text.header = SerializeHeader
        /\ text.payload = SerializeClaims(c) /\ text.characters = EncodedSize(SignatureBytes)
        /\ text.key = PublicKeys[Kid] /\ text.over = <<SerializeHeader, SerializeClaims(c)>>
    BY Zenon DEF Compact
  <1> HIDE DEF text
  <1>2. WellFormed(text)
    BY <1>1 DEF WellFormed, DecodedSize, EncodedSize, SignatureBytes
  <1>3. HeaderReads(text.header) BY <1>1, HeaderValues, Zenon DEF HeaderReads
  <1>4. ValueOf(text.header, "kid") = Kid BY <1>1, HeaderValues, Zenon
  <1>5. Kid \in DOMAIN PublicKeys BY KidAssumption, Zenon
  <1>6. Verifies(text) BY <1>1, <1>4, Zenon DEF Verifies
  <1>7. /\ read.subject = c.subject /\ read.audience = c.audience /\ read.purpose = c.purpose
        /\ read.capabilities = c.capabilities /\ read.requestId = c.requestId
    BY ClaimValues
  <1>8. ClaimsValid(read) /\ Meets(read)
    <2> HIDE DEF read
    <2> QED BY <1>7, Zenon DEF ClaimsValid, Meets
  <1>9. ClaimsRead(text.payload) BY <1>1, <1>8, ClaimValues, Zenon DEF ClaimsRead
  <1>10. Meets(Claims(text.payload)) BY <1>1, <1>8, Zenon
  <1>11. Fits(text) BY <1>2, <1>3, <1>4, <1>5, <1>6, <1>9, <1>10, Zenon DEF Fits
  <1> QED BY <1>11, Zenon DEF text

\* The signature is of the header and the payload as they were written.
LEMMA AlteredNeverFits ==
  ASSUME NEW c, NEW key, NEW how \in Alterations, how # "none"
  PROVE  ~Fits(Altered(Compact(c, key), how))
  <1> DEFINE text == Compact(c, key)
             h == SerializeHeader
             p == SerializeClaims(c)
             altered == Altered(text, how)
  <1>1. CASE how = "part missing"
    <2>1. altered.dots = 1 BY <1>1, Zenon DEF Altered, Compact
    <2> QED BY <2>1 DEF Fits, WellFormed
  <1>2. CASE how = "odd character"
    <2>1. altered.clean = FALSE BY <1>2, Zenon DEF Altered, Compact
    <2> QED BY <2>1, Zenon DEF Fits, WellFormed
  <1>3. CASE how = "signature cut"
    <2>1. altered.characters = EncodedSize(SignatureBytes) - 2 BY <1>3, Zenon DEF Altered, Compact
    <2>2. EncodedSize(SignatureBytes) - 2 = 84 BY DEF EncodedSize, SignatureBytes
    <2>3. DecodedSize(84) # SignatureBytes BY DEF DecodedSize, SignatureBytes
    <2> HIDE DEF altered
    <2>4. ~Fits(altered) BY <2>1, <2>2, <2>3, Zenon DEF Fits, WellFormed
    <2> QED BY <2>4, Zenon DEF altered
  <1>4. CASE how = "claim doubled"
    <2>1. altered.payload = Append(p, Head(p)) /\ altered.over = <<h, p>>
      BY <1>4, Zenon DEF Altered, Compact
    <2>2. Append(p, Head(p)) # p BY DEF SerializeClaims
    <2> HIDE DEF altered, h, p
    <2>3. ~Fits(altered) BY <2>1, <2>2 DEF Fits, Verifies
    <2> QED BY <2>3, Zenon DEF altered
  <1>5. CASE how = "claim lost"
    <2>1. altered.payload = Tail(p) /\ altered.over = <<h, p>> BY <1>5, Zenon DEF Altered, Compact
    <2>2. Tail(p) # p BY DEF SerializeClaims
    <2> HIDE DEF altered, h, p
    <2>3. ~Fits(altered) BY <2>1, <2>2 DEF Fits, Verifies
    <2> QED BY <2>3, Zenon DEF altered
  <1>6. CASE how = "header reordered"
    <2>1. altered.header = Append(Tail(h), Head(h)) /\ altered.over = <<h, p>>
      BY <1>6, Zenon DEF Altered, Compact
    <2>2. Append(Tail(h), Head(h)) # h
      <3>1. h[1].name = "alg" /\ Append(Tail(h), Head(h))[1].name = "typ"
        BY DEF SerializeHeader, Member
      <3> QED BY <3>1, Zenon
    <2> HIDE DEF altered, h, p
    <2>3. ~Fits(altered) BY <2>1, <2>2 DEF Fits, Verifies
    <2> QED BY <2>3, Zenon DEF altered
  <1> QED BY <1>1, <1>2, <1>3, <1>4, <1>5, <1>6, Zenon DEF Alterations

\* What fits is for this verifier, and under the key it knows.
LEMMA FitsIsMeant ==
  ASSUME NEW c, NEW key, Fits(Compact(c, key))
  PROVE  Meets(c) /\ key = PublicKeys[Kid]
  <1> DEFINE text == Compact(c, key)
             read == Claims(SerializeClaims(c))
  <1>1. text.header = SerializeHeader /\ text.payload = SerializeClaims(c) /\ text.key = key
    BY Zenon DEF Compact
  <1> HIDE DEF text
  <1>2. Verifies(text) /\ Meets(Claims(text.payload)) BY Zenon DEF Fits, text
  <1>3. key = PublicKeys[Kid] BY <1>1, <1>2, HeaderValues, Zenon DEF Verifies
  <1>4. /\ read.audience = c.audience /\ read.purpose = c.purpose
        /\ read.capabilities = c.capabilities
    BY ClaimValues
  <1>5. Meets(read) BY <1>1, <1>2, Zenon
  <1> HIDE DEF read
  <1>6. Meets(c) BY <1>4, <1>5, Zenon DEF Meets
  <1> QED BY <1>3, <1>6, Zenon

LEMMA TakenStep ==
  ASSUME VerifierInv, WellSigned, [VerifierNext]_verifierVars, -Skew <= Offset, Offset <= Skew
  PROVE  [\A t \in Threads : verifications'[t] # verifications[t] =>
             LET a == assertions[verifications'[t].jti]
                 meant == verifications'[t].text = "whole" /\ Meets(a.claims) /\ a.key = PublicKeys[Kid]
             IN  /\ verifications'[t].result = "refused" /\ meant => clock < a.issuedAt \/ clock >= a.expiresAt
                 /\ verifications'[t].result = "checked" => meant]_verifierVars
  <1> SUFFICES ASSUME NEW t \in Threads, verifications'[t] # verifications[t]
               PROVE  LET a == assertions[verifications'[t].jti]
                          meant == verifications'[t].text = "whole" /\ Meets(a.claims) /\ a.key = PublicKeys[Kid]
                      IN  /\ verifications'[t].result = "refused" /\ meant => clock < a.issuedAt \/ clock >= a.expiresAt
                          /\ verifications'[t].result = "checked" => meant
    OBVIOUS
  <1>1. CASE \E j \in Jtis, how \in Alterations : CheckAssertion(t, j, how)
    <2>1. PICK j \in Jtis, how \in Alterations : CheckAssertion(t, j, how) BY <1>1, Zenon
    <2> DEFINE a == assertions[j]
               fits == Presented(j, how) \in Fitting
               meant == TextAfter(how) = "whole" /\ Meets(a.claims) /\ a.key = PublicKeys[Kid]
    <2>2. verifications'[t] = [jti |-> j, now |-> Now, text |-> TextAfter(how),
                       result |-> IF fits /\ InTime(a, Now) THEN "checked" ELSE "refused"]
      BY <2>1, Zenon DEF CheckAssertion, VerifierInv, VerifierTypeOK
    <2>3. a \in Assertions /\ Signed(j) BY <2>1, Zenon DEF CheckAssertion, VerifierInv, VerifierTypeOK, Signed
    <2>4. a.issuedAt \in Nat /\ a.expiresAt \in Nat BY <2>3, Zenon DEF Assertions
    <2>5. a.expiresAt = a.issuedAt + Ttl /\ ClaimsValid(a.claims) BY <2>3, Zenon DEF WellSigned
    <2>6. clock \in Nat /\ Now = clock + Offset BY DEF VerifierInv, VerifierTypeOK, Now
    <2>7. a.claims \in ClaimSets /\ a.key \in Ed25519 BY <2>3, Zenon DEF Assertions
    <2>8. fits <=> Fits(Altered(Compact(a.claims, a.key), how))
      BY <2>7, Zenon DEF Presented, Fitting
    <2>9. meant => fits
      <3> SUFFICES ASSUME meant PROVE Fits(Altered(Compact(a.claims, a.key), how)) BY <2>8, Zenon
      <3>1. how = "none" BY Zenon DEF TextAfter
      <3>2. Altered(Compact(a.claims, a.key), how) = Compact(a.claims, PublicKeys[Kid])
        BY <3>1, Zenon DEF Altered
      <3> QED BY <2>5, <3>2, ReaderTakesWhatWriterWrote, Zenon
    <2>10. fits => meant
      <3> SUFFICES ASSUME fits PROVE meant OBVIOUS
      <3>1. how = "none" BY <2>8, AlteredNeverFits, Zenon
      <3>2. Fits(Compact(a.claims, a.key)) BY <2>8, <3>1, Zenon DEF Altered
      <3> QED BY <3>1, <3>2, FitsIsMeant, Zenon DEF TextAfter
    <2>11. ~InTime(a, Now) => clock < a.issuedAt \/ clock >= a.expiresAt
      BY <2>4, <2>5, <2>6, SMTT(30) DEF InTime
    <2>12. /\ verifications'[t].jti = j /\ verifications'[t].text = TextAfter(how)
           /\ verifications'[t].result = IF fits /\ InTime(a, Now) THEN "checked" ELSE "refused"
      BY <2>2
    <2> HIDE DEF fits
    <2> QED BY <2>9, <2>10, <2>11, <2>12, Zenon
  <1>2. CASE \E s \in Threads : RecordAssertion(s)
    <2>1. PICK s \in Threads : RecordAssertion(s) BY <1>2, Zenon
    <2>2. verifications[s] \in Verifications BY <2>1, Zenon DEF RecordAssertion, VerifierInv, VerifierTypeOK
    <2>3. PICK r \in {"replayed", "accepted"} : verifications' = [verifications EXCEPT ![s].result = r]
      BY <2>1, Zenon DEF RecordAssertion, ResultOf
    <2>4. t = s BY <2>3, Zenon DEF VerifierInv, VerifierTypeOK
    <2>5. verifications'[t].result \in {"replayed", "accepted"}
      BY <2>2, <2>3, <2>4, Zenon DEF VerifierInv, VerifierTypeOK, Verifications
    <2> QED BY <2>5, Zenon
  <1>3. CASE \E s \in Threads, j \in Jtis, how \in Alterations : s # t /\ CheckAssertion(s, j, how)
    BY <1>3, Zenon DEF CheckAssertion, VerifierInv, VerifierTypeOK
  <1>4. CASE verifications' = verifications BY <1>4, Zenon
  <1> QED BY <1>1, <1>2, <1>3, <1>4, Zenon DEF VerifierNext, Tick, ReplaceKeyFile, Sign, verifierVars

\* verify() takes exactly what is meant for it: as long as the two clocks differ by no
\* more than the skew, a whole assertion in its life is never refused, and one that
\* was altered, is for another or is under another key is never taken.
THEOREM SkewIsTolerated ==
  ASSUME -Skew <= Offset, Offset <= Skew
  PROVE  VerifierSpec => TakenAsSigned
  BY VerifierInductive, WellSignedHolds, TakenStep, PTL DEF VerifierSpec, TakenAsSigned

=============================================================================
