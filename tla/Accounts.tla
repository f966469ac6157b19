------------------------------ MODULE Accounts ------------------------------
(***************************************************************************)
(* Accounts, sessions and access control of the Control Center             *)
(* (internal/control/store.go and the user handlers of controller.go).     *)
(*                                                                         *)
(* store.mu makes one store method one step, except authenticate, which    *)
(* releases it to verify the password.  An HTTP handler calls several      *)
(* methods, so requests interleave between them: the principal that        *)
(* require looked up may be stale when the handler acts on it.             *)
(***************************************************************************)
EXTENDS Naturals, FiniteSets

CONSTANTS Id,        \* user IDs; their number bounds the accounts ever made
          Username,
          Display,   \* display names
          Role,
          Token,     \* session tokens
          Request,   \* requests that run concurrently
          MaxHash,   \* password hashes ever computed
          None,      \* no account, no session, a field the update leaves out
          Bad,       \* an update's value that validation refuses
          Faults     \* subset of {"save", "crash"}

Account == [name : Username, display : Display, role : Role, disabled : BOOLEAN,
            hash : 1..MaxHash]

Table == [Id -> Account \cup {None}]

NewUser(n, d, role, hash) ==
    [name |-> n, display |-> d, role |-> role, disabled |-> FALSE, hash |-> hash]

\* late: the account no longer matched the login when the session was made.
Session == [user : Id, hash : 1..MaxHash, late : BOOLEAN]

ASSUME AccountsConstants ==
    /\ "admin" \in Role
    /\ \A x \in {None, Bad} : x \notin Role /\ x \notin Display
    /\ None # Bad
    /\ None \notin Account /\ None \notin Session
    /\ MaxHash \in Nat
    /\ Faults \subseteq {"save", "crash"}

VARIABLES
    users,     \* store.state.Users: account of each ID, or None
    setup,     \* store.state.SetupCompleted
    disk,      \* state.json
    sessions,  \* store.sessions, or None
    hashes,    \* hashes computed so far; a salt makes each one new
    req,       \* the requests in progress
    founded    \* how many first-boot setups succeeded

store == <<users, setup, disk>>
vars == <<users, setup, disk, sessions, hashes, req, founded>>

Update == [display : Display \cup {None, Bad}, role : Role \cup {None, Bad},
           disabled : BOOLEAN \cup {None}, password : {"new", None, Bad}]

Existing == {i \in Id : users[i] # None}

Usable(u) == u # None /\ ~u.disabled

\* A request: where it is, the user it acts for as require or authenticate saw
\* it, the hash a login verified its password against, and the session token
\* it came with.
RequestState ==
    [at : {"idle", "setup", "verify", "session", "audit", "admin", "logout"},
     actor : Id \cup {None}, hash : 0..MaxHash, cookie : Token \cup {None}]
At(step, who, hash, token) == [at |-> step, actor |-> who, hash |-> hash, cookie |-> token]
Idle == At("idle", None, 0, None)
Auditing == At("audit", None, 0, None)

Become(r, state) == req' = [req EXCEPT ![r] = state]

Init ==
    /\ users = [i \in Id |-> None]
    /\ setup = FALSE
    /\ disk = [setup |-> FALSE, users |-> [i \in Id |-> None]]
    /\ sessions = [t \in Token |-> None]
    /\ hashes = 0
    /\ req = [r \in Request |-> Idle]
    /\ founded = 0

\* hashPassword with a fresh salt; MaxHash bounds the run
NewHash == hashes < MaxHash /\ hashes' = hashes + 1

\* Mutant: a failed write leaves the new accounts in memory.
CommitWithoutUndo(accounts, done) ==
    /\ users' = accounts
    /\ setup' = done
    /\ \/ disk' = [setup |-> done, users |-> accounts]
       \/ "save" \in Faults /\ UNCHANGED disk

\* The state a method builds and saveLocked writes.  When the write fails the
\* method puts `before` back, so nothing changes.
Commit(accounts, done) ==
    /\ users' = accounts
    /\ setup' = done
    /\ disk' = [setup |-> done, users |-> accounts]

\* Mutant: a disabled administrator counts.
AdminOfAnyKind(accounts) ==
    \E i \in Id : accounts[i] # None /\ accounts[i].role = "admin"

\* ensureAdminLocked
EnsureAdmin(accounts) ==
    \E i \in Id : Usable(accounts[i]) /\ accounts[i].role = "admin"

\* Mutant: sessions survive a change of the password.
RevokeDisabledOnly(id, by, disabled, changed) ==
    {t \in Token : sessions[t] # None /\ sessions[t].user = id /\ disabled}

\* the sessions updateUser drops: an administrator who changes their own
\* password keeps theirs
Revoked(id, by, disabled, changed) ==
    {t \in Token : /\ sessions[t] # None
                   /\ sessions[t].user = id
                   /\ disabled \/ (changed /\ id # by)}

Drop(tokens) == sessions' = [t \in Token |-> IF t \in tokens THEN None ELSE sessions[t]]

----------------------------------------------------------------------------
\* handleSetupComplete checks setupCompleted ...
SetupBegin(r) ==
    /\ req[r].at = "idle"
    /\ ~(setup /\ Existing # {})
    /\ Become(r, At("setup", None, 0, None))
    /\ UNCHANGED <<store, sessions, hashes, founded>>

\* Mutant: createInitialAdmin relies on the handler's check.
SetupUnchecked(r) ==
    /\ req[r].at = "setup"
    /\ NewHash
    /\ \E i \in Id \ Existing, n \in Username, d \in Display :
          /\ Commit([users EXCEPT ![i] = NewUser(n, d, "admin", hashes')], TRUE)
          /\ Become(r, At("session", i, hashes', None))
    /\ founded' = founded + 1
    /\ UNCHANGED sessions

\* ... and createInitialAdmin checks again under the lock
CreateInitialAdmin(r) ==
    /\ req[r].at = "setup"
    /\ \/ /\ ~setup /\ Existing = {}
          /\ NewHash
          /\ \E i \in Id, n \in Username, d \in Display :
                /\ Commit([users EXCEPT ![i] = NewUser(n, d, "admin", hashes')], TRUE)
                /\ Become(r, At("session", i, hashes', None))
          /\ founded' = founded + 1
       \/ /\ setup \/ Existing # {} \/ "save" \in Faults
          /\ Become(r, Idle)
          /\ UNCHANGED <<store, hashes, founded>>
    /\ UNCHANGED sessions

\* authenticate, first half: the ID and hash stored under the user name.  An
\* unknown name is verified against a dummy hash and fails; so does a name
\* that is locked out (see LoginThrottle).
LoginBegin(r, n) ==
    /\ req[r].at = "idle"
    /\ setup
    /\ \E i \in Existing :
          /\ users[i].name = n
          /\ Become(r, At("verify", i, users[i].hash, None))
    /\ UNCHANGED <<store, sessions, hashes, founded>>

\* authenticate, second half: the record must still be there, enabled and with
\* the same hash.  A valid login saves the state (LastLoginAt), with whatever
\* else is in memory.
LoginFinish(r) ==
    /\ req[r].at = "verify"
    /\ \/ /\ Usable(users[req[r].actor])
          /\ users[req[r].actor].hash = req[r].hash
          /\ Commit(users, setup)
          /\ Become(r, At("session", req[r].actor, req[r].hash, None))
       \/ Become(r, Auditing) /\ UNCHANGED store
    /\ UNCHANGED <<sessions, hashes, founded>>

\* createSession does not look at the account again
CreateSession(r, t) ==
    LET u == users[req[r].actor]
    IN  /\ req[r].at = "session"
        /\ sessions[t] = None
        /\ sessions' = [sessions EXCEPT ![t] =
                          [user |-> req[r].actor, hash |-> req[r].hash,
                           late |-> ~Usable(u) \/ u.hash # req[r].hash]]
        /\ Become(r, Auditing)
        /\ UNCHANGED <<store, hashes, founded>>

\* audit, the last call of a handler; an error is ignored
Audit(r) ==
    /\ req[r].at = "audit"
    /\ Become(r, Idle)
    /\ UNCHANGED <<store, sessions, hashes, founded>>

\* Sessions expire (pruneSessionsLocked).
Expire(t) ==
    /\ sessions[t] # None
    /\ Drop({t})
    /\ UNCHANGED <<store, hashes, req, founded>>

\* require: sessionPrincipal looks the account up; it drops the session of an
\* account that is gone or disabled.  From here on the handler acts for the
\* role it saw.
Authorize(r, t) ==
    /\ req[r].at = "idle"
    /\ sessions[t] # None
    /\ LET u == users[sessions[t].user]
       IN  \/ /\ Usable(u)
              /\ \/ /\ u.role = "admin"
                    /\ Become(r, At("admin", sessions[t].user, 0, None))
                 \/ Become(r, At("logout", None, 0, t))
              /\ UNCHANGED sessions
           \/ /\ ~Usable(u)
              /\ Drop({t})
              /\ UNCHANGED req
    /\ UNCHANGED <<store, hashes, founded>>

Logout(r) ==
    /\ req[r].at = "logout"
    /\ Drop({req[r].cookie})
    /\ Become(r, Auditing)
    /\ UNCHANGED <<store, hashes, founded>>

\* The body does not decode, the account does not exist, or the write of the
\* new state fails: the handler answers with an error and nothing changes.
RequestFails(r) ==
    /\ req[r].at = "admin"
    /\ Become(r, Idle)
    /\ UNCHANGED <<store, sessions, hashes, founded>>

\* createUser; a taken name is refused
CreateUser(r, n, d, role) ==
    /\ req[r].at = "admin"
    /\ \/ /\ \A i \in Existing : users[i].name # n
          /\ NewHash
          /\ \E i \in Id \ Existing :
                Commit([users EXCEPT ![i] = NewUser(n, d, role, hashes')], setup)
          /\ Become(r, Auditing)
       \/ /\ \E i \in Existing : users[i].name = n
          /\ Become(r, Idle)
          /\ UNCHANGED <<store, hashes>>
    /\ UNCHANGED <<sessions, founded>>

\* updateUser edits the record in place, field by field.  Named is the record
\* after the display name, Ranked after the role.
Named(u, upd) ==
    [u EXCEPT !.display = IF upd.display = None THEN @ ELSE upd.display]
Ranked(u, upd) ==
    [Named(u, upd) EXCEPT !.role = IF upd.role = None THEN @ ELSE upd.role]

NameRefused(upd) == upd.display = Bad
RoleRefused(id, by, upd) == upd.role = Bad \/ (id = by /\ upd.role \notin {None, "admin"})
SelfDisabled(id, by, upd) == id = by /\ upd.disabled = TRUE

\* The early returns: the fields edited before them stay edited, in memory
\* only.
UpdateRefused(r, id, upd) ==
    /\ req[r].at = "admin"
    /\ id \in Existing
    /\ \/ NameRefused(upd) /\ UNCHANGED users
       \/ /\ ~NameRefused(upd) /\ RoleRefused(id, req[r].actor, upd)
          /\ users' = [users EXCEPT ![id] = Named(@, upd)]
       \/ /\ ~NameRefused(upd) /\ ~RoleRefused(id, req[r].actor, upd)
          /\ SelfDisabled(id, req[r].actor, upd)
          /\ users' = [users EXCEPT ![id] = Ranked(@, upd)]
    /\ Become(r, Idle)
    /\ UNCHANGED <<setup, disk, sessions, hashes, founded>>

Updated(u, upd, hash) ==
    [Ranked(u, upd) EXCEPT !.disabled = IF upd.disabled = None THEN @ ELSE upd.disabled,
                           !.hash = IF upd.password = "new" THEN hash ELSE @]

\* The update passes its field checks; a bad password or the loss of the last
\* administrator still undoes it as a whole.  The sessions an administrator
\* keeps after changing their own password rest on the new one.
UpdateUser(r, id, upd) ==
    LET changed == upd.password = "new"
        new == Updated(users[id], upd, hashes')
        kept(t) == sessions[t] # None /\ sessions[t].user = id /\ id = req[r].actor
    IN  /\ req[r].at = "admin"
        /\ id \in Existing
        /\ ~NameRefused(upd)
        /\ ~RoleRefused(id, req[r].actor, upd)
        /\ ~SelfDisabled(id, req[r].actor, upd)
        /\ IF changed THEN NewHash ELSE UNCHANGED hashes
        /\ \/ /\ upd.password # Bad
              /\ EnsureAdmin([users EXCEPT ![id] = new])
              /\ Commit([users EXCEPT ![id] = new], setup)
              /\ sessions' = [t \in Token |->
                    IF t \in Revoked(id, req[r].actor, new.disabled, changed) THEN None
                    ELSE IF changed /\ kept(t) THEN [sessions[t] EXCEPT !.hash = hashes']
                    ELSE sessions[t]]
              /\ Become(r, Auditing)
           \/ /\ upd.password = Bad \/ ~EnsureAdmin([users EXCEPT ![id] = new])
              /\ Become(r, Idle)
              /\ UNCHANGED <<store, sessions>>
        /\ UNCHANGED founded

\* deleteUser
DeleteUser(r, id) ==
    LET rest == [users EXCEPT ![id] = None]
    IN  /\ req[r].at = "admin"
        /\ id \in Existing
        /\ \/ /\ id # req[r].actor
              /\ EnsureAdmin(rest)
              /\ Commit(rest, setup)
              /\ Drop({t \in Token : sessions[t] # None /\ sessions[t].user = id})
              /\ Become(r, Auditing)
           \/ /\ id = req[r].actor \/ ~EnsureAdmin(rest)
              /\ Become(r, Idle)
              /\ UNCHANGED <<store, sessions>>
        /\ UNCHANGED <<hashes, founded>>

\* The process dies and openStore loads state.json; sessions are lost.
Restart ==
    /\ "crash" \in Faults
    /\ users' = disk.users
    /\ setup' = disk.setup
    /\ sessions' = [t \in Token |-> None]
    /\ req' = [r \in Request |-> Idle]
    /\ UNCHANGED <<disk, hashes, founded>>

SetupStep(r) == SetupBegin(r) \/ CreateInitialAdmin(r)
LoginStep(r) == \/ \E n \in Username : LoginBegin(r, n)
                \/ LoginFinish(r)
                \/ \E t \in Token : CreateSession(r, t)
UserStep(r) ==
    \/ \E n \in Username, d \in Display, role \in Role : CreateUser(r, n, d, role)
    \/ \E id \in Id, upd \in Update : UpdateRefused(r, id, upd) \/ UpdateUser(r, id, upd)
    \/ \E id \in Id : DeleteUser(r, id)
    \/ RequestFails(r)

Next ==
    \/ \E r \in Request : SetupStep(r) \/ LoginStep(r) \/ UserStep(r) \/ Logout(r) \/ Audit(r)
    \/ \E r \in Request, t \in Token : Authorize(r, t)
    \/ \E t \in Token : Expire(t)
    \/ Restart

Spec == Init /\ [][Next]_vars

----------------------------------------------------------------------------
TypeOK ==
    /\ users \in Table
    /\ setup \in BOOLEAN
    /\ disk \in [setup : BOOLEAN, users : Table]
    /\ sessions \in [Token -> Session \cup {None}]
    /\ hashes \in 0..MaxHash
    /\ req \in [Request -> RequestState]
    /\ \A r \in Request : req[r].at \in {"verify", "session", "admin"} => req[r].actor \in Id
    /\ \A r \in Request : req[r].at \in {"verify", "session"} => req[r].hash # 0
    /\ founded \in Nat

\* "At least one enabled administrator must remain" (docs/CONTROL_CENTER.md),
\* in memory and in state.json: two administrators who demote, disable or
\* delete each other at the same time, failed writes, rejected updates and
\* restarts included.
AdminRemains ==
    /\ setup => \E i \in Id : users[i] # None /\ users[i].role = "admin" /\ ~users[i].disabled
    /\ disk.setup => \E i \in Id : /\ disk.users[i] # None
                                   /\ disk.users[i].role = "admin"
                                   /\ ~disk.users[i].disabled

\* First-boot setup succeeds at most once, however many requests passed
\* handleSetupComplete's first check.
SetupOnce == founded <= 1

\* Disabling or deleting an account, and resetting its password, ends its
\* sessions: every session rests on the current password of an enabled
\* account, except one whose login was past authenticate at that moment.
SessionsRevoked ==
    \A t \in Token :
        (sessions[t] # None /\ ~sessions[t].late) =>
            LET u == users[sessions[t].user]
            IN  Usable(u) /\ u.hash = sessions[t].hash

\* What a refused update may leave behind, u in memory and v in state.json: a
\* display name, or an administrator's role.
SameButRefused(u, v) ==
    \/ u = None /\ v = None
    \/ /\ u # None /\ v # None
       /\ u.name = v.name /\ u.disabled = v.disabled /\ u.hash = v.hash
       /\ u.role \in {v.role, "admin"}

\* A restart brings every account back with its name, its password and its
\* disabled flag, and demotes nobody but an administrator a refused update
\* made.
DiskKeepsUp == disk.setup = setup /\ \A i \in Id : SameButRefused(users[i], disk.users[i])

\* "Audit records cover authentication and every privileged change"
\* (docs/CONTROL_CENTER.md): whoever changes an account goes on to audit it.
ChangeIsAudited ==
    [][users' # users => \E r \in Request : req'[r].at # req[r].at /\ req'[r].at \in {"session", "audit"}]_vars
=============================================================================
