------------------------------ MODULE Sessions ------------------------------
(***************************************************************************)
(* The users and sessions tables, the wall clock, and the closures that    *)
(* src/src/auth/session.rs runs on them.  Every closure runs under the     *)
(* connection mutex of src/src/db.rs, so each is one atomic formula here;  *)
(* the module Gateway interleaves them as the requests do.                 *)
(***************************************************************************)
EXTENDS Rbac, Integers, FiniteSets

CONSTANTS
  Users,           \* the row ids the users table may ever hold
  Admin,           \* the id that seeding an empty table creates
  Tokens,          \* the UUID v4 values login may draw; bounds the logins
  SessionTimeout,  \* session_timeout_minutes `as i64`: negative beyond i64::MAX
  MaxInstant,      \* the last instant a chrono timestamp can represent
  MaxParsed,       \* the last instant whose text parses: the end of year 9999
  MaxTime,         \* bound of the model: the clock stops here
  ClockMayStepBack,\* whether the host clock may be set back
  EditRoles        \* the roles an administrator hands out

ASSUME SessionsAssumption ==
  /\ Admin \in Users
  /\ SessionTimeout \in Int
  /\ MaxInstant \in Nat
  /\ MaxParsed \in 0 .. MaxInstant
  /\ MaxTime \in Nat \ {0}
  /\ ClockMayStepBack \in BOOLEAN
  /\ EditRoles \subseteq Roles

VARIABLES
  users,     \* the users table
  sessions,  \* the sessions table: a set of rows
  issued,    \* history: token, user and life of every session ever created
  now        \* what Utc::now() returns

tables == <<users, sessions, issued>>

\* "none": never inserted; "deleted": AUTOINCREMENT never gives the id again.
UserStatus == {"none", "active", "inactive", "deleted"}

\* The columns that decide a request; last_login_at is only ever displayed.
\* A history tells the accounts of an id apart: how many it has had so far.
User == [status : UserStatus, role : Roles, life : Nat]

SessionRow == [token : Tokens, user : Users, expires : Int, revoked : BOOLEAN]

Exists(u) == users[u].status \in {"active", "inactive"}

SessionsTypeOK ==
  /\ users \in [Users -> User]
  /\ sessions \subseteq SessionRow
  /\ issued \subseteq Tokens \X Users \X Nat
  /\ now \in Nat

EmptyUsers == [u \in Users |-> [status |-> "none", role |-> "client", life |-> 0]]

\* The tables of a fresh database once the first boot has seeded it.
SessionsInit ==
  /\ users = [EmptyUsers EXCEPT ![Admin] = [status |-> "active", role |-> "admin", life |-> 1]]
  /\ sessions = {}
  /\ issued = {}
  /\ now = 1

-----------------------------------------------------------------------------
(* login: the closure of session::login, from its row lookup on.           *)

\* A row exists, is_active is set and the hash verifies (nondeterministic).
MayLogIn(u) == users[u].status = "active"

\* now + Duration::minutes(timeout) panics beyond the representable range.
ExpiryOverflows == now + SessionTimeout \notin -MaxInstant .. MaxInstant

\* Assumed of the uuid crate: a UUID v4 repeats no earlier one.
Fresh(t) == \A i \in issued : i[1] # t

\* INSERT INTO sessions, a statement of its own: it stays when the UPDATE of
\* users.last_login_at that follows it in the closure fails.
InsertSession(u, t) ==
  /\ Fresh(t)
  /\ sessions' = sessions \cup {[token |-> t, user |-> u,
                                 expires |-> now + SessionTimeout,
                                 revoked |-> FALSE]}
  /\ issued' = issued \cup {<<t, u, users[u].life>>}
  /\ UNCHANGED <<users, now>>

(* validate_session and revoke_session.                                    *)

\* Mutant for LogoutIsFinal: the lookup forgets AND is_revoked = 0.
AnyRows(t) == {s \in sessions : s.token = t}

\* SELECT ... WHERE token_hash = ?1 AND is_revoked = 0.
UnrevokedRows(t) == {s \in sessions : s.token = t /\ ~s.revoked}

\* expires_at is compared only if its text parses.  to_rfc3339 writes years before 0
\* and after 9999 with a sign, which parse_from_rfc3339 refuses.
Parses(i) == i \in 0 .. MaxParsed

\* Mutants for GrantedWithinRequest and RefusedForCause: one instant off.
ExpiredLate(s) == Parses(s.expires) /\ s.expires + 1 < now
ExpiredEarly(s) == Parses(s.expires) /\ s.expires <= now

\* The check is exp < Utc::now(): a session is still good at its last instant, and
\* one whose expires_at does not parse is good for ever.
Expired(s) == Parses(s.expires) /\ s.expires < now

\* The first SELECT of validate_session and the check of what it returns: the user
\* of the session, as a set with at most one member.
SessionUsers(t) == {s.user : s \in {q \in UnrevokedRows(t) : ~Expired(q)}}

\* The second SELECT, of the users table as it is by then.
Loads(u) == users'[u].status = "active"

\* Mutants: a logout that toggles the flag (DeadTokensStayDead), and one that
\* expires the row instead of flagging it (LogoutIsFinal, gateway_ends).
ToggleSession(t) ==
  /\ sessions' = {IF s.token = t THEN [s EXCEPT !.revoked = ~@] ELSE s :
                    s \in sessions}
  /\ UNCHANGED <<users, issued, now>>

ExpireSession(t) ==
  /\ sessions' = {IF s.token = t THEN [s EXCEPT !.expires = now - 1] ELSE s :
                    s \in sessions}
  /\ UNCHANGED <<users, issued, now>>

RevokeSession(t) ==
  /\ sessions' = {IF s.token = t THEN [s EXCEPT !.revoked = TRUE] ELSE s :
                    s \in sessions}
  /\ UNCHANGED <<users, issued, now>>

\* Mutant for TokenNamesItsUser: without AUTOINCREMENT a deleted id is free again.
IdIsFree(u) == ~Exists(u)

\* INTEGER PRIMARY KEY AUTOINCREMENT: no id is given twice.
IdIsNew(u) == users[u].status = "none"

\* INSERT INTO users, by create_user or by another client.
InsertUser(u, st, role) ==
  /\ IdIsNew(u)
  /\ users' = [users EXCEPT ![u] = [status |-> st, role |-> role, life |-> @.life + 1]]

\* create_user("admin", .., Role::Admin).
CreateAdmin(u) == InsertUser(u, "active", "admin")

\* seed_admin_if_empty: only when COUNT(*) FROM users = 0.
\* Nothing can be seeded once the pool Users is used up (a bound of the model).
SeedAdminIfEmpty ==
  /\ \/ /\ \A v \in Users : ~Exists(v)
        /\ \E u \in Users : CreateAdmin(u)
     \/ /\ \/ \E v \in Users : Exists(v)
           \/ \A v \in Users : users[v].status # "none"
        /\ UNCHANGED users
  /\ UNCHANGED <<sessions, issued, now>>

-----------------------------------------------------------------------------
(* The environment.                                                        *)

\* An administrator edits users with another SQLite client: no endpoint does.
EditUser(u) ==
  \/ \E st \in {"active", "inactive"}, role \in EditRoles :
       /\ \/ InsertUser(u, st, role)
          \/ /\ Exists(u)
             /\ users' = [users EXCEPT ![u].status = st, ![u].role = role]
       /\ UNCHANGED <<sessions, issued, now>>
  \/ \* ON DELETE CASCADE takes the user's sessions along, if that client turned
     \* foreign_keys on: the pragma belongs to a connection.
     /\ Exists(u)
     /\ users' = [users EXCEPT ![u].status = "deleted"]
     /\ sessions' \in {sessions, {s \in sessions : s.user # u}}
     /\ UNCHANGED <<issued, now>>

\* That client is not under the mutex: it may write between two statements of a
\* closure (once, as a bound of the model).
Between ==
  \/ UNCHANGED <<tables, now>>
  \/ \E v \in Users : EditUser(v)

Tick ==
  /\ now < MaxTime
  /\ now' = now + 1
  /\ UNCHANGED tables

ClockStepsBack ==
  /\ ClockMayStepBack
  /\ now' \in 1 .. (now - 1)
  /\ UNCHANGED tables
=============================================================================
