--------------------------- MODULE AccountsProofs ---------------------------
(***************************************************************************)
(* The account invariants for any number of accounts, sessions and         *)
(* concurrent requests, failed writes and restarts included; and what a    *)
(* refused update may leave in memory that the disk does not have.         *)
(***************************************************************************)
EXTENDS Accounts, TLAPS

\* Setup is complete exactly when it has succeeded once, and state.json knows.
SetupRecorded ==
    /\ disk.setup = setup
    /\ founded = IF setup THEN 1 ELSE 0

\* An account of an administrator stays one through every refused update,
\* since only a user's own role can be left behind, and only as "admin".
IInv == TypeOK /\ SetupRecorded /\ AdminRemains /\ SessionsRevoked

\* The pieces of the type invariant that a step disturbs.
StoreType == users \in Table /\ setup \in BOOLEAN /\ disk \in [setup : BOOLEAN, users : Table]
RequestsType ==
    /\ req \in [Request -> RequestState]
    /\ \A r \in Request :
          /\ req[r].at \in {"verify", "session", "admin"} => req[r].actor \in Id
          /\ req[r].at \in {"verify", "session"} => req[r].hash # 0
SessionsType == sessions \in [Token -> Session \cup {None}]

\* The type invariant is made of these.
LEMMA TypeParts ==
    TypeOK <=> /\ StoreType /\ RequestsType /\ SessionsType
               /\ hashes \in 0..MaxHash /\ founded \in Nat
BY Zenon DEF TypeOK, StoreType, RequestsType, SessionsType

\* The store is empty at the start.
LEMMA InitEstablishes == Init => IInv
<1> SUFFICES ASSUME Init PROVE IInv
    BY Zenon
<1> USE AccountsConstants DEF Init
<1>1. req \in [Request -> RequestState]
    BY DEF Idle, At, RequestState
<1>2. RequestsType
    BY <1>1, Zenon DEF RequestsType, Idle, At
<1>3. StoreType
    BY Zenon DEF StoreType, Table
<1>4. SessionsType /\ hashes \in 0..MaxHash /\ founded \in Nat
    BY DEF SessionsType
<1>5. SetupRecorded /\ AdminRemains /\ SessionsRevoked
    BY Zenon DEF SetupRecorded, AdminRemains, SessionsRevoked
<1> QED BY <1>2, <1>3, <1>4, <1>5, TypeParts, Zenon DEF IInv

\* A commit leaves a store.
LEMMA CommitType ==
    ASSUME NEW accounts \in Table, NEW done \in BOOLEAN, Commit(accounts, done)
    PROVE  StoreType'
BY Zenon DEF Commit, StoreType

\* A table stays one when an account is put into it.
LEMMA PutType ==
    ASSUME StoreType, NEW i \in Id, NEW a \in Account \cup {None}
    PROVE  [users EXCEPT ![i] = a] \in Table
BY Zenon DEF StoreType, Table

\* A request stays one when it goes on ...
LEMMA BecomeType ==
    ASSUME RequestsType, NEW r \in Request,
           NEW step \in {"idle", "setup", "verify", "session", "audit", "admin", "logout"},
           NEW who \in Id \cup {None}, NEW hash \in 0..MaxHash, NEW token \in Token \cup {None},
           Become(r, At(step, who, hash, token)),
           step \in {"verify", "session", "admin"} => who \in Id,
           step \in {"verify", "session"} => hash # 0
    PROVE  RequestsType'
<1>1. At(step, who, hash, token) \in RequestState
    BY Zenon DEF At, RequestState
<1> QED BY <1>1, Zenon DEF RequestsType, Become, At

\* ... and when it ends.
LEMMA EndType ==
    ASSUME RequestsType, NEW r \in Request, Become(r, Idle) \/ Become(r, Auditing)
    PROVE  RequestsType'
BY AccountsConstants, BecomeType DEF Idle, Auditing

\* Dropping tokens leaves a table of sessions.
LEMMA DropType ==
    ASSUME SessionsType, NEW tokens, Drop(tokens)
    PROVE  SessionsType'
BY Zenon DEF SessionsType, Drop

\* A new hash is one of those there are.
LEMMA HashType ==
    ASSUME hashes \in 0..MaxHash, NewHash
    PROVE  hashes' \in 1..MaxHash
BY AccountsConstants DEF NewHash

\* A new user is an account.
LEMMA NewUserType ==
    ASSUME NEW n \in Username, NEW d \in Display, NEW role \in Role, NEW hash \in 1..MaxHash
    PROVE  NewUser(n, d, role, hash) \in Account
BY Zenon DEF NewUser, Account

\* What the stages of an update make of a record.
LEMMA Stages ==
    ASSUME NEW u \in Account, NEW upd \in Update, NEW id, NEW by, NEW hash \in 0..MaxHash,
           ~NameRefused(upd)
    PROVE  /\ Named(u, upd) \in Account
           /\ Named(u, upd).role = u.role
           /\ Named(u, upd).disabled = u.disabled
           /\ Named(u, upd).hash = u.hash
           /\ ~RoleRefused(id, by, upd) =>
                /\ Ranked(u, upd) \in Account
                /\ Ranked(u, upd).role = IF upd.role = None THEN u.role ELSE upd.role
                /\ Ranked(u, upd).disabled = u.disabled
                /\ Ranked(u, upd).hash = u.hash
           /\ ~RoleRefused(id, by, upd) /\ (upd.password = "new" => hash # 0) =>
                /\ Updated(u, upd, hash) \in Account
                /\ Updated(u, upd, hash).hash = IF upd.password = "new" THEN hash ELSE u.hash
<1> USE AccountsConstants
<1>1. /\ Named(u, upd) \in Account
      /\ Named(u, upd).role = u.role
      /\ Named(u, upd).disabled = u.disabled
      /\ Named(u, upd).hash = u.hash
    BY Zenon DEF NameRefused, Named, Update, Account
<1>2. ASSUME ~RoleRefused(id, by, upd)
      PROVE  /\ Ranked(u, upd) \in Account
             /\ Ranked(u, upd).role = IF upd.role = None THEN u.role ELSE upd.role
             /\ Ranked(u, upd).disabled = u.disabled
             /\ Ranked(u, upd).hash = u.hash
    BY <1>1, <1>2, Zenon DEF RoleRefused, Ranked, Update, Account
<1>3. ASSUME ~RoleRefused(id, by, upd), upd.password = "new" => hash # 0
      PROVE  /\ Updated(u, upd, hash) \in Account
             /\ Updated(u, upd, hash).hash = IF upd.password = "new" THEN hash ELSE u.hash
    <2> DEFINE v == Ranked(u, upd)
               off == IF upd.disabled = None THEN v.disabled ELSE upd.disabled
               h == IF upd.password = "new" THEN hash ELSE v.hash
    <2>1. v \in Account /\ v.hash = u.hash
        BY <1>2, <1>3, Zenon
    <2>2. off \in BOOLEAN
        BY <2>1, Zenon DEF Update, Account
    <2>3. h \in 1..MaxHash /\ h = IF upd.password = "new" THEN hash ELSE u.hash
        BY <1>3, <2>1 DEF Account
    <2>4. Updated(u, upd, hash) = [v EXCEPT !.disabled = off, !.hash = h]
        BY <2>1, Zenon DEF Updated, Account
    <2> HIDE DEF v, off, h
    <2> QED BY <2>1, <2>2, <2>3, <2>4, Zenon DEF Account
<1> QED BY <1>1, <1>2, <1>3, Zenon

\* Every step keeps the types.
LEMMA TypePreserved == TypeOK /\ [Next]_vars => TypeOK'
<1> SUFFICES ASSUME TypeOK, [Next]_vars PROVE TypeOK'
    BY Zenon
<1>0. /\ StoreType /\ RequestsType /\ SessionsType
      /\ hashes \in 0..MaxHash /\ founded \in Nat
    BY TypeParts, Zenon
<1>t. ASSUME StoreType', RequestsType', SessionsType', hashes' \in 0..MaxHash, founded' \in Nat
      PROVE  TypeOK'
    BY <1>t, Zenon DEF TypeOK, StoreType, RequestsType, SessionsType
<1>u. /\ UNCHANGED store => StoreType'
      /\ UNCHANGED sessions => SessionsType'
      /\ UNCHANGED req => RequestsType'
    BY <1>0, Zenon DEF store, StoreType, SessionsType, RequestsType
<1> USE AccountsConstants, <1>0
<1>1. ASSUME NEW r \in Request, SetupBegin(r) PROVE TypeOK'
    BY <1>1, <1>t, <1>u, BecomeType DEF SetupBegin
<1>2. ASSUME NEW r \in Request, CreateInitialAdmin(r) PROVE TypeOK'
    <2>1. CASE Become(r, Idle) /\ UNCHANGED <<store, hashes, founded>>
        BY <1>2, <1>t, <1>u, <2>1, EndType, Zenon DEF CreateInitialAdmin
    <2>2. CASE NewHash /\ founded' = founded + 1
               /\ \E i \in Id, n \in Username, d \in Display :
                     /\ Commit([users EXCEPT ![i] = NewUser(n, d, "admin", hashes')], TRUE)
                     /\ Become(r, At("session", i, hashes', None))
        <3>1. PICK i \in Id, n \in Username, d \in Display :
                     /\ Commit([users EXCEPT ![i] = NewUser(n, d, "admin", hashes')], TRUE)
                     /\ Become(r, At("session", i, hashes', None))
            BY <2>2, Zenon
        <3>2. hashes' \in 1..MaxHash
            BY <2>2, HashType, Zenon
        <3>3. StoreType'
            BY <3>1, <3>2, NewUserType, PutType, CommitType, Zenon
        <3>4. RequestsType'
            BY <3>1, <3>2, BecomeType
        <3> QED BY <1>2, <1>t, <1>u, <2>2, <3>2, <3>3, <3>4 DEF CreateInitialAdmin
    <2> QED BY <1>2, <2>1, <2>2, Zenon DEF CreateInitialAdmin
<1>3. ASSUME NEW r \in Request, NEW n \in Username, LoginBegin(r, n) PROVE TypeOK'
    <2>1. PICK i \in Existing : Become(r, At("verify", i, users[i].hash, None))
        BY <1>3, Zenon DEF LoginBegin
    <2>2. i \in Id /\ users[i].hash \in 1..MaxHash
        BY Zenon DEF Existing, StoreType, Table, Account
    <2> QED BY <1>3, <1>t, <1>u, <2>1, <2>2, BecomeType DEF LoginBegin
<1>4. ASSUME NEW r \in Request, LoginFinish(r) PROVE TypeOK'
    <2>1. req[r].actor \in Id /\ req[r].hash \in 1..MaxHash
        BY <1>4 DEF LoginFinish, RequestsType, RequestState
    <2>2. RequestsType'
        BY <1>4, <2>1, BecomeType, EndType DEF LoginFinish
    <2>3. StoreType'
        <3>1. users \in Table /\ setup \in BOOLEAN
            BY Zenon DEF StoreType
        <3> QED BY <1>4, <1>u, <3>1, CommitType, Zenon DEF LoginFinish
    <2> QED BY <1>4, <1>t, <1>u, <2>2, <2>3, Zenon DEF LoginFinish
<1>5. ASSUME NEW r \in Request, NEW t \in Token, CreateSession(r, t) PROVE TypeOK'
    <2>1. req[r].actor \in Id /\ req[r].hash \in 1..MaxHash
        BY <1>5 DEF CreateSession, RequestsType, RequestState
    <2>2. SessionsType'
        BY <1>5, <2>1, Zenon DEF CreateSession, SessionsType, Session
    <2> QED BY <1>5, <1>t, <1>u, <2>2, EndType, Zenon DEF CreateSession
<1>6. ASSUME NEW r \in Request, NEW n \in Username, NEW d \in Display, NEW role \in Role,
             CreateUser(r, n, d, role)
      PROVE  TypeOK'
    <2>1. CASE Become(r, Idle) /\ UNCHANGED <<store, hashes>>
        BY <1>6, <1>t, <1>u, <2>1, EndType, Zenon DEF CreateUser
    <2>2. CASE /\ NewHash
               /\ \E i \in Id \ Existing :
                     Commit([users EXCEPT ![i] = NewUser(n, d, role, hashes')], setup)
               /\ Become(r, Auditing)
        <3>1. PICK i \in Id : Commit([users EXCEPT ![i] = NewUser(n, d, role, hashes')], setup)
            BY <2>2, Zenon
        <3>2. hashes' \in 1..MaxHash
            BY <2>2, HashType, Zenon
        <3>3. StoreType'
            <4>1. setup \in BOOLEAN
                BY Zenon DEF StoreType
            <4> QED BY <3>1, <3>2, <4>1, NewUserType, PutType, CommitType, Zenon
        <3> QED BY <1>6, <1>t, <1>u, <2>2, <3>2, <3>3, EndType DEF CreateUser
    <2> QED BY <1>6, <2>1, <2>2, Zenon DEF CreateUser
<1>7. ASSUME NEW id \in Existing PROVE users[id] \in Account
    BY Zenon DEF Existing, StoreType, Table
<1>8. ASSUME NEW r \in Request, NEW id \in Id, NEW upd \in Update, UpdateRefused(r, id, upd)
      PROVE  TypeOK'
    <2>1. users' \in Table
        <3>1. users \in Table
            BY Zenon DEF StoreType
        <3> QED BY <1>7, <1>8, <3>1, PutType, Stages DEF UpdateRefused
    <2>2. StoreType'
        BY <1>8, <2>1, Zenon DEF UpdateRefused, StoreType
    <2> QED BY <1>8, <1>t, <1>u, <2>2, EndType, Zenon DEF UpdateRefused
<1>9. ASSUME NEW r \in Request, NEW id \in Id, NEW upd \in Update, UpdateUser(r, id, upd)
      PROVE  TypeOK'
    <2>1. hashes' \in 0..MaxHash /\ (upd.password = "new" => hashes' # 0)
        BY <1>9, HashType DEF UpdateUser
    <2>2. StoreType'
        <3>1. Updated(users[id], upd, hashes') \in Account
            BY <1>7, <1>9, <2>1, Stages, Zenon DEF UpdateUser
        <3>2. setup \in BOOLEAN
            BY Zenon DEF StoreType
        <3> QED BY <1>9, <1>u, <3>1, <3>2, PutType, CommitType, Zenon DEF UpdateUser
    <2>3. SessionsType'
        <3>1. CASE UNCHANGED sessions
            BY <1>u, <3>1, Zenon
        <3>2. ASSUME NEW t \in Token, upd.password = "new", sessions[t] # None
              PROVE  [sessions[t] EXCEPT !.hash = hashes'] \in Session
            BY <2>1, <3>2 DEF SessionsType, Session
        <3> QED BY <1>9, <3>1, <3>2 DEF UpdateUser, SessionsType
    <2> QED BY <1>9, <1>t, <2>1, <2>2, <2>3, EndType, Zenon DEF UpdateUser
<1>10. ASSUME NEW r \in Request, NEW id \in Id, DeleteUser(r, id) PROVE TypeOK'
    <2>1. StoreType'
        <3>1. setup \in BOOLEAN
            BY Zenon DEF StoreType
        <3> QED BY <1>10, <1>u, <3>1, PutType, CommitType, Zenon DEF DeleteUser
    <2> QED BY <1>10, <1>t, <1>u, <2>1, EndType, DropType, Zenon DEF DeleteUser
<1>11. ASSUME NEW r \in Request, RequestFails(r) \/ Audit(r) \/ Logout(r) PROVE TypeOK'
    BY <1>11, <1>t, <1>u, EndType, DropType, Zenon DEF RequestFails, Audit, Logout
<1>12. ASSUME NEW r \in Request, NEW t \in Token, Authorize(r, t) PROVE TypeOK'
    <2>1. sessions[t].user \in Id
        BY <1>12, Zenon DEF Authorize, SessionsType, Session
    <2>2. RequestsType'
        BY <1>12, <1>u, <2>1, BecomeType, SMTT(30) DEF Authorize
    <2> QED BY <1>12, <1>t, <1>u, <2>2, DropType, Zenon DEF Authorize
<1>13. ASSUME NEW t \in Token, Expire(t) PROVE TypeOK'
    BY <1>13, <1>t, <1>u, DropType, Zenon DEF Expire
<1>14. CASE Restart
    <2>1. StoreType' /\ SessionsType'
        BY <1>14, Zenon DEF Restart, StoreType, SessionsType
    <2>2. req' \in [Request -> RequestState]
        BY <1>14 DEF Restart, Idle, At, RequestState
    <2>3. RequestsType'
        BY <1>14, <2>2, Zenon DEF Restart, RequestsType, Idle, At
    <2> QED BY <1>14, <1>t, <2>1, <2>3, Zenon DEF Restart
<1>15. CASE UNCHANGED vars
    BY <1>15, <1>t, <1>u, Zenon DEF vars, store
<1> QED BY <1>1, <1>2, <1>3, <1>4, <1>5, <1>6, <1>8, <1>9, <1>10, <1>11, <1>12, <1>13, <1>14,
           <1>15, Zenon DEF Next, SetupStep, LoginStep, UserStep

\* None is no record: it is no account and no session.
LEMMA NoneNoAccount == None \notin Account /\ None \notin Session
BY AccountsConstants, Zenon

\* A commit of accounts with an administrator leaves one, in memory and on disk.
LEMMA CommitAdmin ==
    ASSUME NEW accounts \in Table, NEW done \in BOOLEAN, Commit(accounts, done),
           done => EnsureAdmin(accounts)
    PROVE  AdminRemains' /\ disk'.setup = setup'
BY Zenon DEF Commit, AdminRemains, EnsureAdmin, Usable

\* Every step keeps an administrator once there is one.
LEMMA AdminPreserved == IInv /\ [Next]_vars => AdminRemains' /\ SetupRecorded'
<1> SUFFICES ASSUME IInv, [Next]_vars PROVE AdminRemains' /\ SetupRecorded'
    BY Zenon
<1> USE AccountsConstants
<1>0. StoreType /\ hashes \in 0..MaxHash /\ AdminRemains /\ SetupRecorded
    BY TypeParts, Zenon DEF IInv
<1>a. setup => EnsureAdmin(users)
    BY <1>0, Zenon DEF AdminRemains, EnsureAdmin, Usable
<1>b. users \in Table /\ setup \in BOOLEAN
    BY <1>0, Zenon DEF StoreType
<1>u. ASSUME UNCHANGED <<store, founded>> PROVE AdminRemains' /\ SetupRecorded'
    BY <1>u, <1>0, Zenon DEF store, AdminRemains, SetupRecorded
<1>1. ASSUME NEW r \in Request, CreateInitialAdmin(r) PROVE AdminRemains' /\ SetupRecorded'
    <2>1. CASE UNCHANGED <<store, hashes, founded>>
        BY <1>u, <2>1, Zenon
    <2>2. CASE /\ ~setup
               /\ NewHash
               /\ \E i \in Id, n \in Username, d \in Display :
                     Commit([users EXCEPT ![i] = NewUser(n, d, "admin", hashes')], TRUE)
               /\ founded' = founded + 1
        <3>1. PICK i \in Id, n \in Username, d \in Display :
                     Commit([users EXCEPT ![i] = NewUser(n, d, "admin", hashes')], TRUE)
            BY <2>2, Zenon
        <3>2. NewUser(n, d, "admin", hashes') \in Account
            BY <1>0, <2>2, HashType, NewUserType, Zenon
        <3>3. [users EXCEPT ![i] = NewUser(n, d, "admin", hashes')] \in Table
            BY <1>0, <3>2, PutType, Zenon
        <3>4. EnsureAdmin([users EXCEPT ![i] = NewUser(n, d, "admin", hashes')])
            BY <1>b, <3>2, NoneNoAccount, Zenon DEF EnsureAdmin, Usable, NewUser, Table
        <3>5. AdminRemains' /\ disk'.setup = setup'
            BY <3>1, <3>3, <3>4, CommitAdmin, Zenon
        <3> QED BY <1>0, <2>2, <3>1, <3>5 DEF SetupRecorded, Commit
    <2> QED BY <1>1, <2>1, <2>2, Zenon DEF CreateInitialAdmin
<1>2. ASSUME NEW r \in Request, LoginFinish(r) PROVE AdminRemains' /\ SetupRecorded'
    <2>1. CASE Commit(users, setup)
        BY <1>0, <1>2, <1>a, <1>b, <2>1, CommitAdmin, Zenon DEF LoginFinish, SetupRecorded, Commit
    <2> QED BY <1>2, <1>u, <2>1, Zenon DEF LoginFinish
<1>3. ASSUME NEW r \in Request, NEW n \in Username, NEW d \in Display, NEW role \in Role,
             CreateUser(r, n, d, role)
      PROVE  AdminRemains' /\ SetupRecorded'
    <2>1. CASE UNCHANGED store
        BY <1>3, <1>u, <2>1, Zenon DEF CreateUser
    <2>2. ASSUME NEW i \in Id \ Existing, NewHash,
                 Commit([users EXCEPT ![i] = NewUser(n, d, role, hashes')], setup)
          PROVE  AdminRemains' /\ SetupRecorded'
        <3>1. [users EXCEPT ![i] = NewUser(n, d, role, hashes')] \in Table
            BY <1>0, <2>2, HashType, NewUserType, PutType, Zenon
        <3>2. setup => EnsureAdmin([users EXCEPT ![i] = NewUser(n, d, role, hashes')])
            BY <1>a, <1>b, Zenon DEF EnsureAdmin, Usable, Existing, Table
        <3> QED BY <1>0, <1>3, <1>b, <2>2, <3>1, <3>2, CommitAdmin, Zenon DEF CreateUser, SetupRecorded, Commit
    <2> QED BY <1>3, <2>1, <2>2, Zenon DEF CreateUser
<1>4. ASSUME NEW r \in Request, NEW id \in Id, NEW upd \in Update, UpdateRefused(r, id, upd)
      PROVE  AdminRemains' /\ SetupRecorded'
    <2>1. users[id] \in Account
        BY <1>4, <1>b, Zenon DEF UpdateRefused, Existing, Table
    <2>2. SetupRecorded'
        BY <1>0, <1>4, Zenon DEF UpdateRefused, SetupRecorded
    <2>3. ASSUME setup PROVE EnsureAdmin(users')
        <3>1. PICK i \in Id : Usable(users[i]) /\ users[i].role = "admin"
            BY <1>a, <2>3, Zenon DEF EnsureAdmin
        <3>2. CASE i # id \/ UNCHANGED users
            BY <1>4, <1>b, <3>1, <3>2, Zenon DEF UpdateRefused, Table, EnsureAdmin
        <3>3. ASSUME i = id, NEW new \in Account, new.role = "admin",
                     new.disabled = users[id].disabled, users' = [users EXCEPT ![id] = new]
              PROVE  EnsureAdmin(users')
            BY <1>b, <3>1, <3>3, NoneNoAccount, Zenon DEF Table, Usable, EnsureAdmin
        <3>4. CASE /\ i = id /\ ~NameRefused(upd)
                   /\ users' = [users EXCEPT ![id] = Named(users[id], upd)]
            BY <1>0, <2>1, <3>1, <3>3, <3>4, Stages, ZenonT(30)
        <3>5. CASE /\ i = id /\ ~NameRefused(upd)
                   /\ SelfDisabled(id, req[r].actor, upd)
                   /\ ~RoleRefused(id, req[r].actor, upd)
                   /\ users' = [users EXCEPT ![id] = Ranked(users[id], upd)]
            <4>1. upd.role \in {None, "admin"}
                BY <3>5, Zenon DEF SelfDisabled, RoleRefused
            <4>2. Ranked(users[id], upd) \in Account /\ Ranked(users[id], upd).role = "admin"
                  /\ Ranked(users[id], upd).disabled = users[id].disabled
                BY <1>0, <2>1, <3>1, <3>5, <4>1, Stages
            <4> QED BY <3>3, <3>5, <4>2, Zenon
        <3> QED BY <1>4, <3>2, <3>4, <3>5, Zenon DEF UpdateRefused
    <2> QED BY <1>0, <1>4, <2>2, <2>3, Zenon DEF AdminRemains, EnsureAdmin, Usable, UpdateRefused
<1>5. ASSUME NEW r \in Request, NEW id \in Id, NEW upd \in Update, UpdateUser(r, id, upd)
      PROVE  AdminRemains' /\ SetupRecorded'
    <2>1. CASE UNCHANGED store
        BY <1>5, <1>u, <2>1, Zenon DEF UpdateUser
    <2>2. CASE /\ EnsureAdmin([users EXCEPT ![id] = Updated(users[id], upd, hashes')])
               /\ Commit([users EXCEPT ![id] = Updated(users[id], upd, hashes')], setup)
        <3>1. [users EXCEPT ![id] = Updated(users[id], upd, hashes')] \in Table
            BY <2>2, TypePreserved, Zenon DEF Commit, IInv, TypeOK
        <3> QED BY <1>0, <1>5, <1>b, <2>2, <3>1, CommitAdmin, Zenon DEF UpdateUser, SetupRecorded, Commit
    <2> QED BY <1>5, <2>1, <2>2, Zenon DEF UpdateUser
<1>6. ASSUME NEW r \in Request, NEW id \in Id, DeleteUser(r, id)
      PROVE  AdminRemains' /\ SetupRecorded'
    <2>1. CASE UNCHANGED store
        BY <1>6, <1>u, <2>1, Zenon DEF DeleteUser
    <2>2. CASE /\ EnsureAdmin([users EXCEPT ![id] = None])
               /\ Commit([users EXCEPT ![id] = None], setup)
        <3>1. [users EXCEPT ![id] = None] \in Table
            BY <2>2, TypePreserved, Zenon DEF Commit, IInv, TypeOK
        <3> QED BY <1>0, <1>6, <1>b, <2>2, <3>1, CommitAdmin, Zenon DEF DeleteUser, SetupRecorded, Commit
    <2> QED BY <1>6, <2>1, <2>2, Zenon DEF DeleteUser
<1>7. CASE Restart
    BY <1>0, <1>7, Zenon DEF Restart, AdminRemains, SetupRecorded
<1>8. ASSUME NEW r \in Request,
             \/ SetupBegin(r) \/ RequestFails(r) \/ Audit(r) \/ Logout(r)
             \/ \E n \in Username : LoginBegin(r, n)
             \/ \E t \in Token : CreateSession(r, t) \/ Authorize(r, t)
      PROVE  AdminRemains' /\ SetupRecorded'
    BY <1>8, <1>u, Zenon DEF SetupBegin, RequestFails, Audit, Logout, LoginBegin, CreateSession, Authorize
<1>9. ASSUME NEW t \in Token, Expire(t) PROVE AdminRemains' /\ SetupRecorded'
    BY <1>9, <1>u, Zenon DEF Expire
<1>10. CASE UNCHANGED vars
    BY <1>10, <1>u, Zenon DEF vars, store
<1> QED BY <1>1, <1>2, <1>3, <1>4, <1>5, <1>6, <1>7, <1>8, <1>9, <1>10, Zenon
        DEF Next, SetupStep, LoginStep, UserStep

\* Every step keeps the sessions to those whose account still grants them.
LEMMA SessionsPreserved == IInv /\ [Next]_vars => SessionsRevoked'
<1> SUFFICES ASSUME IInv, [Next]_vars PROVE SessionsRevoked'
    BY Zenon
<1> USE AccountsConstants
<1>0. /\ StoreType /\ RequestsType /\ SessionsType /\ SessionsRevoked
      /\ hashes \in 0..MaxHash
    BY TypeParts, Zenon DEF IInv
<1>b. users \in Table /\ sessions \in [Token -> Session \cup {None}]
    BY <1>0, Zenon DEF StoreType, SessionsType
<1>d. ASSUME UNCHANGED users, NEW tokens, UNCHANGED sessions \/ Drop(tokens)
      PROVE  SessionsRevoked'
    BY <1>0, <1>b, <1>d, Zenon DEF SessionsRevoked, Drop, Usable
\* an account that appears where there was none disturbs no session
<1>n. ASSUME NEW i \in Id, users[i] = None, NEW new \in Account,
             users' = [users EXCEPT ![i] = new], UNCHANGED sessions
      PROVE  SessionsRevoked'
    BY <1>0, <1>b, <1>n, Zenon DEF SessionsRevoked, Usable, Session, Table
<1>1. ASSUME NEW r \in Request, CreateInitialAdmin(r) PROVE SessionsRevoked'
    <2>1. CASE UNCHANGED store
        BY <1>1, <1>d, <2>1, Zenon DEF CreateInitialAdmin, store
    <2>2. ASSUME Existing = {}, NewHash, NEW i \in Id, NEW n \in Username, NEW d \in Display,
                 Commit([users EXCEPT ![i] = NewUser(n, d, "admin", hashes')], TRUE)
          PROVE  SessionsRevoked'
        BY <1>0, <1>1, <1>n, <2>2, HashType, NewUserType, Zenon DEF CreateInitialAdmin, Commit, Existing
    <2> QED BY <1>1, <2>1, <2>2, Zenon DEF CreateInitialAdmin
<1>2. ASSUME NEW r \in Request, NEW t \in Token, CreateSession(r, t) PROVE SessionsRevoked'
    BY <1>0, <1>2, <1>b, Zenon DEF CreateSession, SessionsRevoked, store, Usable
<1>3. ASSUME NEW r \in Request, NEW n \in Username, NEW d \in Display, NEW role \in Role,
             CreateUser(r, n, d, role)
      PROVE  SessionsRevoked'
    <2>1. CASE UNCHANGED store
        BY <1>3, <1>d, <2>1, Zenon DEF CreateUser, store
    <2>2. ASSUME NEW i \in Id \ Existing, NewHash,
                 Commit([users EXCEPT ![i] = NewUser(n, d, role, hashes')], setup)
          PROVE  SessionsRevoked'
        BY <1>0, <1>3, <1>n, <2>2, HashType, NewUserType, Zenon DEF CreateUser, Commit, Existing
    <2> QED BY <1>3, <2>1, <2>2, Zenon DEF CreateUser
<1>4. ASSUME NEW r \in Request, NEW id \in Id, NEW upd \in Update, UpdateRefused(r, id, upd)
      PROVE  SessionsRevoked'
    <2>1. users[id] \in Account
        BY <1>4, <1>b, Zenon DEF UpdateRefused, Existing, Table
    <2>2. ASSUME NEW new \in Account, users' = [users EXCEPT ![id] = new],
                 new.disabled = users[id].disabled, new.hash = users[id].hash
          PROVE  SessionsRevoked'
        BY <1>0, <1>4, <1>b, <2>1, <2>2, NoneNoAccount, Zenon
           DEF UpdateRefused, SessionsRevoked, Usable, Session, Table
    <2>3. CASE UNCHANGED users
        BY <1>4, <1>d, <2>3, Zenon DEF UpdateRefused
    <2>4. CASE ~NameRefused(upd) /\ users' = [users EXCEPT ![id] = Named(users[id], upd)]
        BY <1>0, <2>1, <2>2, <2>4, Stages, Zenon
    <2>5. CASE /\ ~NameRefused(upd) /\ ~RoleRefused(id, req[r].actor, upd)
               /\ users' = [users EXCEPT ![id] = Ranked(users[id], upd)]
        BY <1>0, <2>1, <2>2, <2>5, Stages, Zenon
    <2> QED BY <1>4, <2>3, <2>4, <2>5, Zenon DEF UpdateRefused
<1>5. ASSUME NEW r \in Request, NEW id \in Id, NEW upd \in Update, UpdateUser(r, id, upd)
      PROVE  SessionsRevoked'
    <2> DEFINE changed == upd.password = "new"
               new == Updated(users[id], upd, hashes')
               by == req[r].actor
    <2>1. CASE UNCHANGED store /\ UNCHANGED sessions
        BY <1>d, <2>1, Zenon DEF store
    <2>2. CASE /\ users' = [users EXCEPT ![id] = new]
               /\ sessions' = [t \in Token |->
                     IF t \in Revoked(id, by, new.disabled, changed) THEN None
                     ELSE IF changed /\ sessions[t] # None /\ sessions[t].user = id /\ id = by
                     THEN [sessions[t] EXCEPT !.hash = hashes'] ELSE sessions[t]]
        <3>1. hashes' \in 0..MaxHash /\ (changed => hashes' # 0)
            BY <1>0, <1>5, HashType DEF UpdateUser
        <3>2. users[id] \in Account
            BY <1>5, <1>b, Zenon DEF UpdateUser, Existing, Table
        <3>3. new \in Account /\ new.hash = IF changed THEN hashes' ELSE users[id].hash
            BY <1>5, <3>1, <3>2, Stages DEF UpdateUser
        <3> HIDE DEF new, by, changed
        <3>4. SUFFICES ASSUME NEW t \in Token, sessions'[t] # None, ~sessions'[t].late
                       PROVE  Usable(users'[sessions'[t].user])
                              /\ users'[sessions'[t].user].hash = sessions'[t].hash
            BY Zenon DEF SessionsRevoked
        <3>5. sessions[t] \in Session /\ t \notin Revoked(id, by, new.disabled, changed)
            BY <1>b, <2>2, <3>4, Zenon
        <3>6. CASE sessions[t].user # id
            BY <1>0, <1>b, <2>2, <3>4, <3>5, <3>6, Zenon DEF SessionsRevoked, Session, Table
        <3>7. CASE sessions[t].user = id
            <4>1. ~new.disabled /\ (changed => id = by)
                BY <3>4, <3>5, <3>7, NoneNoAccount, Zenon DEF Revoked
            <4>2. sessions'[t].user = id /\ ~sessions[t].late
                  /\ sessions'[t].hash = IF changed THEN hashes' ELSE sessions[t].hash
                BY <2>2, <3>4, <3>5, <3>7, <4>1, NoneNoAccount, Zenon DEF Session
            <4>3. users[id].hash = sessions[t].hash
                BY <1>0, <3>5, <3>7, <4>2, NoneNoAccount, Zenon DEF SessionsRevoked
            <4> QED BY <1>b, <2>2, <3>3, <4>1, <4>2, <4>3, NoneNoAccount, Zenon DEF Usable, Table
        <3> QED BY <3>6, <3>7, Zenon
    <2> QED BY <1>5, <2>1, <2>2, Zenon DEF UpdateUser, Commit
<1>6. ASSUME NEW r \in Request, NEW id \in Id, DeleteUser(r, id) PROVE SessionsRevoked'
    <2>1. CASE UNCHANGED store /\ UNCHANGED sessions
        BY <1>d, <2>1, Zenon DEF store
    <2>2. CASE /\ users' = [users EXCEPT ![id] = None]
               /\ Drop({t \in Token : sessions[t] # None /\ sessions[t].user = id})
        BY <1>0, <1>b, <2>2, Zenon DEF SessionsRevoked, Drop, Session, Usable, Table
    <2> QED BY <1>6, <2>1, <2>2, Zenon DEF DeleteUser, Commit
<1>7. CASE Restart
    BY <1>7, Zenon DEF Restart, SessionsRevoked
<1>8. ASSUME NEW r \in Request,
             \/ SetupBegin(r) \/ RequestFails(r) \/ Audit(r) \/ Logout(r) \/ LoginFinish(r)
             \/ \E n \in Username : LoginBegin(r, n)
             \/ \E t \in Token : Authorize(r, t)
      PROVE  SessionsRevoked'
    BY <1>8, <1>d, Zenon DEF SetupBegin, RequestFails, Audit, Logout, LoginFinish, LoginBegin, Authorize,
                      store, Commit
<1>9. ASSUME NEW t \in Token, Expire(t) PROVE SessionsRevoked'
    BY <1>9, <1>d, Zenon DEF Expire, store
<1>10. CASE UNCHANGED vars
    BY <1>10, <1>d, Zenon DEF vars
<1> QED BY <1>1, <1>2, <1>3, <1>4, <1>5, <1>6, <1>7, <1>8, <1>9, <1>10, Zenon
        DEF Next, SetupStep, LoginStep, UserStep

\* The invariant holds in every reachable state.
LEMMA Invariance == Spec => []IInv
<1>1. IInv /\ [Next]_vars => IInv'
    BY TypePreserved, AdminPreserved, SessionsPreserved, Zenon DEF IInv
<1> QED BY <1>1, InitEstablishes, PTL DEF Spec

\* However the requests of any number of administrators interleave, and
\* whatever principal they act with, ensureAdminLocked keeps an enabled
\* administrator, in memory and on disk.
THEOREM AnAdminRemains == Spec => []AdminRemains
<1>1. IInv => AdminRemains BY DEF IInv
<1> QED BY <1>1, Invariance, PTL

\* createInitialAdmin's second check makes first-boot setup succeed once.
THEOREM SetupHappensOnce == Spec => []SetupOnce
<1>1. IInv => SetupOnce BY DEF IInv, SetupRecorded, SetupOnce, TypeOK
<1> QED BY <1>1, Invariance, PTL

\* updateUser and deleteUser end the sessions that rest on what they change.
THEOREM SessionsAreRevoked == Spec => []SessionsRevoked
<1>1. IInv => SessionsRevoked BY DEF IInv
<1> QED BY <1>1, Invariance, PTL

----------------------------------------------------------------------------
\* A table is not behind itself.
LEMMA BehindItself == ASSUME NEW u PROVE SameButRefused(u, u)
BY Zenon DEF SameButRefused

\* The record after an early return of updateUser.
LEMMA BehindRefused ==
    ASSUME NEW u \in Account, NEW v, NEW new \in Account, SameButRefused(u, v),
           new.name = u.name, new.disabled = u.disabled, new.hash = u.hash,
           new.role \in {u.role, "admin"}
    PROVE  SameButRefused(new, v)
BY NoneNoAccount, Zenon DEF SameButRefused

\* The stages of an update keep the name.
LEMMA StageNames ==
    ASSUME NEW u \in Account, NEW upd \in Update
    PROVE  Named(u, upd).name = u.name /\ Ranked(u, upd).name = u.name
BY DEF Named, Ranked, Account

\* After a commit the disk is what is in memory.
LEMMA CommitKeepsUp == ASSUME NEW accounts, NEW done, Commit(accounts, done) PROVE DiskKeepsUp'
<1>1. disk'.setup = setup' /\ disk'.users = users'
    BY Zenon DEF Commit
<1> QED BY <1>1, BehindItself, Zenon DEF DiskKeepsUp

\* Every step keeps the disk up.
LEMMA KeepsUpPreserved == IInv /\ DiskKeepsUp /\ [Next]_vars => DiskKeepsUp'
<1> SUFFICES ASSUME IInv, DiskKeepsUp, [Next]_vars PROVE DiskKeepsUp'
    BY Zenon
<1>t. hashes \in 0..MaxHash /\ users \in Table
    BY Zenon DEF IInv, TypeOK
<1>u. ASSUME UNCHANGED store PROVE DiskKeepsUp'
    BY <1>u, Zenon DEF store, DiskKeepsUp
<1>1. ASSUME NEW r \in Request, NEW id \in Id, NEW upd \in Update, UpdateRefused(r, id, upd)
      PROVE  DiskKeepsUp'
    <2>1. users[id] \in Account
        BY <1>1, <1>t, Zenon DEF UpdateRefused, Existing, Table
    <2>2. ASSUME NEW new \in Account, users' = [users EXCEPT ![id] = new],
                 new.name = users[id].name, new.disabled = users[id].disabled,
                 new.hash = users[id].hash, new.role \in {users[id].role, "admin"}
          PROVE  DiskKeepsUp'
        <3>1. SameButRefused(new, disk.users[id])
            BY <2>1, <2>2, BehindRefused, Zenon DEF DiskKeepsUp
        <3>2. \A i \in Id : SameButRefused(users'[i], disk.users[i])
            BY <1>t, <2>2, <3>1, Zenon DEF Table, DiskKeepsUp
        <3>3. disk' = disk /\ setup' = setup
            BY <1>1, Zenon DEF UpdateRefused
        <3> QED BY <3>2, <3>3, Zenon DEF DiskKeepsUp
    <2>3. CASE UNCHANGED users
        BY <1>1, <1>u, <2>3, Zenon DEF UpdateRefused, store
    <2>4. CASE ~NameRefused(upd) /\ users' = [users EXCEPT ![id] = Named(users[id], upd)]
        BY <1>t, <2>1, <2>2, <2>4, Stages, StageNames, Zenon
    <2>5. CASE /\ ~NameRefused(upd) /\ ~RoleRefused(id, req[r].actor, upd)
               /\ SelfDisabled(id, req[r].actor, upd)
               /\ users' = [users EXCEPT ![id] = Ranked(users[id], upd)]
        <3>1. upd.role \in {None, "admin"}
            BY <2>5, Zenon DEF SelfDisabled, RoleRefused
        <3>2. /\ Ranked(users[id], upd) \in Account
              /\ Ranked(users[id], upd).role = IF upd.role = None THEN users[id].role ELSE upd.role
              /\ Ranked(users[id], upd).disabled = users[id].disabled
              /\ Ranked(users[id], upd).hash = users[id].hash
            BY <1>t, <2>1, <2>5, Stages, Zenon
        <3>3. Ranked(users[id], upd).role \in {users[id].role, "admin"}
            BY <3>1, <3>2, Zenon
        <3> QED BY <2>1, <2>2, <2>5, <3>2, <3>3, StageNames, Zenon
    <2> QED BY <1>1, <2>3, <2>4, <2>5, Zenon DEF UpdateRefused
<1>2. CASE Restart
    <2>1. users' = disk.users /\ setup' = disk.setup /\ disk' = disk
        BY <1>2, Zenon DEF Restart
    <2> QED BY <2>1, BehindItself, Zenon DEF DiskKeepsUp
<1>3. ASSUME NEW r \in Request,
             \/ CreateInitialAdmin(r) \/ LoginFinish(r)
             \/ \E n \in Username, d \in Display, role \in Role : CreateUser(r, n, d, role)
             \/ \E id \in Id, upd \in Update : UpdateUser(r, id, upd)
             \/ \E id \in Id : DeleteUser(r, id)
      PROVE  DiskKeepsUp'
    BY <1>3, <1>u, CommitKeepsUp, Zenon DEF CreateInitialAdmin, LoginFinish, CreateUser, UpdateUser, DeleteUser
<1>4. ASSUME NEW r \in Request,
             \/ SetupBegin(r) \/ RequestFails(r) \/ Audit(r) \/ Logout(r)
             \/ \E n \in Username : LoginBegin(r, n)
             \/ \E t \in Token : CreateSession(r, t) \/ Authorize(r, t)
      PROVE  DiskKeepsUp'
    BY <1>4, <1>u, Zenon DEF SetupBegin, RequestFails, Audit, Logout, LoginBegin, CreateSession, Authorize
<1>5. ASSUME NEW t \in Token, Expire(t) PROVE DiskKeepsUp'
    BY <1>5, <1>u, Zenon DEF Expire
<1>6. CASE UNCHANGED vars
    BY <1>6, <1>u, Zenon DEF vars, store
<1> QED BY <1>1, <1>2, <1>3, <1>4, <1>5, <1>6, Zenon DEF Next, SetupStep, LoginStep, UserStep

\* Every method of the store ends with memory and state.json equal, except
\* the early returns of updateUser, and those leave names, passwords and
\* disabled flags alone: a restart brings every account back with them.
THEOREM DiskStaysCurrent == Spec => []DiskKeepsUp
<1>1. Init => DiskKeepsUp
    <2>1. ASSUME Init PROVE disk.setup = setup /\ disk.users = users
        BY <2>1, Zenon DEF Init
    <2> QED BY <2>1, BehindItself, Zenon DEF DiskKeepsUp
<1> QED BY <1>1, KeepsUpPreserved, Invariance, PTL DEF Spec
=============================================================================
