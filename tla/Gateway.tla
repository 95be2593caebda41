------------------------------ MODULE Gateway -------------------------------
(***************************************************************************)
(* The request pipeline: login, the AuthUser extractor, require_permission *)
(* and the handler behind them, as concurrent axum tasks over the one      *)
(* SQLite connection (src/src/api/mod.rs, auth/mod.rs, db.rs, main.rs).    *)
(*                                                                         *)
(* A request waits at each `.await`.  Its pc names what it waits for: the  *)
(* extractor's closure ("validate"), the rest of its own client's body     *)
(* ("body", which axum reads after AuthUser and before the handler), or    *)
(* the handler's closure or child process ("effect").  From one await to   *)
(* the next the task reads only its own snapshot of the user; any other    *)
(* request, edit, crash or disconnect may fall between.                    *)
(***************************************************************************)
EXTENDS Sessions

CONSTANTS
  Requests,      \* the requests in flight at a time: slots, reused
  Guarded,       \* the permissions whose handlers are requested
  RouterBuilds,  \* whether the linked axum takes the paths of api::router
  None           \* no token, no user, no role

ASSUME GatewayAssumption ==
  /\ Guarded \subseteq Permission
  /\ RouterBuilds \in BOOLEAN
  /\ None \notin Tokens \cup Users \cup Roles

VARIABLES
  req,       \* the request in each slot
  up,        \* whether the process serves
  poisoned,  \* whether the Mutex<Connection> is poisoned
  loggedOut, \* history: tokens whose logout was answered ok to its client
  seen       \* history: what held for a request at some moment since it arrived

vars == <<users, sessions, issued, now, req, up, poisoned, loggedOut, seen>>

\* "me" is authenticated only; a permission stands for its handlers.
Ops == {"login", "logout", "me"} \cup Guarded

\* The handlers whose body is a db.call; the others run a child process.
DbPermissions == {"ViewAllTickets", "CreateTicket", "ManageTickets",
                  "ViewAnalytics", "ViewAuditLog"}

NeedsDb(op) == op \in {"login", "logout"} \cup DbPermissions

\* Whether the handler takes Json<..>; of the handlers of two permissions, some do.
BodyOf(op) ==
  {b \in BOOLEAN :
     /\ op \in {"login", "CreateTicket", "ManageTickets", "ManageIds", "ManageServices"} => b
     /\ b => op \in {"login", "CreateTicket", "ManageTickets", "ManageIds",
                     "ManageServices", "ManageFirewall", "ManageAntivirus"}}

Request ==
  [ pc     : {"idle", "validate", "body", "effect", "respond"},
    op     : Ops,
    token  : Tokens \cup {None},   \* the cookie presented
    user   : Users \cup {None},    \* login: the name; then: AuthUser's id
    role   : Roles \cup {None},    \* AuthUser's snapshot of the role
    life   : Nat,                  \* history: which account of that id it is
    status : {"none", "ok", "bad_request", "unauthorized", "forbidden", "error"},
    open   : BOOLEAN,              \* the client is still connected
    late   : BOOLEAN,              \* arrived after its token's logout answer
    fault  : BOOLEAN ]             \* the database call failed

Idle == [pc |-> "idle", op |-> "me", token |-> None, user |-> None, role |-> None,
         life |-> 0, status |-> "none", open |-> FALSE, late |-> FALSE, fault |-> FALSE]

Nothing == [named |-> {}, entitled |-> {}, lapse |-> FALSE]

Init ==
  /\ SessionsInit
  /\ req = [r \in Requests |-> Idle]
  /\ up = RouterBuilds
  /\ poisoned = FALSE
  /\ loggedOut = {}
  /\ seen = [r \in Requests |-> Nothing]

-----------------------------------------------------------------------------
\* A response nobody waits for is dropped with its task.
Answer(r, st) ==
  req' = [req EXCEPT ![r] = IF @.open THEN [@ EXCEPT !.pc = "respond", !.status = st]
                            ELSE Idle]

\* The handler of login takes nothing but the body.
LoginArrives(r, u) ==
  /\ up
  /\ req[r].pc = "idle"
  /\ req' = [req EXCEPT ![r] = [Idle EXCEPT !.pc = "body", !.op = "login",
                                            !.user = u, !.open = TRUE]]
  /\ UNCHANGED <<tables, now, up, poisoned, loggedOut>>

\* Any other request: its handler takes AuthUser, so the extractor runs first.
\* It refuses a request without the cookie at once.
Arrives(r, op, t) ==
  /\ up
  /\ req[r].pc = "idle"
  /\ req' = [req EXCEPT ![r] = [Idle EXCEPT !.pc = IF t = None THEN "respond" ELSE "validate",
                                            !.status = IF t = None THEN "unauthorized"
                                                       ELSE "none",
                                            !.op = op,
                                            !.token = t, !.open = TRUE,
                                            !.late = t \in loggedOut]]
  /\ UNCHANGED <<tables, now, up, poisoned, loggedOut>>

\* AuthUser::from_request_parts finds no session, or no active user for it: 401.
Refuse(r) ==
  /\ req[r].pc = "validate"
  /\ ~poisoned
  /\ \/ SessionUsers(req[r].token) = {} /\ UNCHANGED <<tables, now>>
     \/ \E u \in SessionUsers(req[r].token) : Between /\ ~Loads(u)
  /\ Answer(r, "unauthorized")
  /\ UNCHANGED <<up, poisoned, loggedOut>>

\* require_permission reads the snapshot only.
Permitted(op, role) == op \in {"login", "logout", "me"} \/ HasPermission(role, op)

\* The handler's first lines, up to its first await: me has none.
Begin(x) ==
  IF ~Permitted(x.op, x.role) THEN [x EXCEPT !.pc = "respond", !.status = "forbidden"]
  ELSE IF x.op = "me" THEN [x EXCEPT !.pc = "respond", !.status = "ok"]
  ELSE [x EXCEPT !.pc = "effect"]

\* What the extractor leaves in the request: the user as loaded.
Recognised(x, u) ==
  [x EXCEPT !.user = u, !.role = users'[u].role, !.life = users'[u].life]

\* Mutant for PoisonFailsClosed: the lock is taken although it is poisoned.
AdmitPoisoned(r) ==
  /\ req[r].pc = "validate"
  /\ UNCHANGED <<tables, now, up, poisoned, loggedOut>>
  /\ \E u \in SessionUsers(req[r].token) :
       req' = [req EXCEPT ![r] = Begin(Recognised(@, u))]

\* The extractor finds the user; the handler begins at once, unless axum still
\* has to read the body for it.
Admit(r) ==
  /\ req[r].pc = "validate"
  /\ ~poisoned
  /\ Between
  /\ \E u \in SessionUsers(req[r].token), body \in BodyOf(req[r].op) :
       /\ Loads(u)
       /\ req' = [req EXCEPT ![r] = IF body THEN [Recognised(@, u) EXCEPT !.pc = "body"]
                                    ELSE Begin(Recognised(@, u))]
  /\ UNCHANGED <<up, poisoned, loggedOut>>

\* The client sends the rest of its body, whenever it likes: no layer of main
\* limits the time.
BodyArrives(r) ==
  /\ req[r].pc = "body"
  /\ req' = [req EXCEPT ![r] = Begin(@)]
  /\ UNCHANGED <<tables, now, up, poisoned, loggedOut>>

\* The body is no JSON of that type: 400, 415 or 422, before any 403.
BodyRefused(r) ==
  /\ req[r].pc = "body"
  /\ Answer(r, "bad_request")
  /\ UNCHANGED <<tables, now, up, poisoned, loggedOut>>

\* The closure of the logout handler.
Logout(r) ==
  /\ req[r].pc = "effect" /\ req[r].op = "logout"
  /\ ~poisoned
  /\ RevokeSession(req[r].token)
  /\ Answer(r, "ok")
  /\ UNCHANGED <<up, poisoned, loggedOut>>

\* The body of a guarded handler; what it does is modelled elsewhere.
Act(r) ==
  /\ req[r].pc = "effect" /\ req[r].op \in Guarded
  /\ NeedsDb(req[r].op) => ~poisoned
  /\ \E st \in {"ok", "error"} : Answer(r, st)
  /\ UNCHANGED <<tables, now, up, poisoned, loggedOut>>

LoginRefused(r) ==
  /\ req[r].pc = "effect" /\ req[r].op = "login"
  /\ ~poisoned
  /\ Answer(r, "unauthorized")
  /\ UNCHANGED <<tables, now, up, poisoned, loggedOut>>

\* The closure may still fail after its INSERT: the client then reads an error,
\* and the session nobody knows stays in the table.
LoginCreates(r) ==
  /\ req[r].pc = "effect" /\ req[r].op = "login"
  /\ ~poisoned
  /\ MayLogIn(req[r].user)
  /\ ~ExpiryOverflows
  /\ \E t \in Tokens : InsertSession(req[r].user, t)
  /\ \E st \in {"ok", "error"} : Answer(r, st)
  /\ UNCHANGED <<up, poisoned, loggedOut>>

\* The expiry overflows: the closure panics while its thread holds the mutex.
LoginPanics(r) ==
  /\ req[r].pc = "effect" /\ req[r].op = "login"
  /\ ~poisoned
  /\ MayLogIn(req[r].user)
  /\ ExpiryOverflows
  /\ poisoned' = TRUE
  /\ Answer(r, "error")
  /\ UNCHANGED <<tables, now, up, loggedOut>>

\* Mutant for DatabaseAnswers: nothing answers for a poisoned mutex.
FailsUnpoisoned(r) ==
  /\ \/ req[r].pc = "validate"
     \/ req[r].pc = "effect" /\ NeedsDb(req[r].op)
  /\ ~poisoned
  /\ req' = [req EXCEPT ![r] = Idle]
  /\ UNCHANGED <<tables, now, up, poisoned, loggedOut>>

\* db.call returns Err: SQLite failed, or the mutex is poisoned.  The extractor
\* turns that into 401, the handlers into 500.
CallFails(r) ==
  /\ \/ req[r].pc = "validate"
     \/ req[r].pc = "effect" /\ NeedsDb(req[r].op)
  /\ req' = [req EXCEPT ![r] =
               IF ~@.open THEN Idle
               ELSE [@ EXCEPT !.pc = "respond", !.fault = TRUE,
                              !.status = IF req[r].pc = "validate"
                                         THEN "unauthorized" ELSE "error"]]
  /\ UNCHANGED <<tables, now, up, poisoned, loggedOut>>

\* The response reaches the client.
Respond(r) ==
  /\ req[r].pc = "respond"
  /\ req' = [req EXCEPT ![r] = Idle]
  /\ loggedOut' = IF req[r].op = "logout" /\ req[r].status = "ok"
                  THEN loggedOut \cup {req[r].token} ELSE loggedOut
  /\ UNCHANGED <<tables, now, up, poisoned>>

\* Mutant for TypeOK: the slot keeps what the last request left in it.
DisconnectKeeps(r) ==
  /\ req[r].pc # "idle" /\ req[r].open
  /\ req' = [req EXCEPT ![r].open = FALSE,
                        ![r].pc = IF @ = "effect" THEN @ ELSE "idle"]
  /\ UNCHANGED <<tables, now, up, poisoned, loggedOut>>

\* The client goes away and its task is dropped at its await.  A closure or a
\* child process already started still runs to its end.
Disconnect(r) ==
  /\ req[r].pc # "idle" /\ req[r].open
  /\ req' = [req EXCEPT ![r] = IF @.pc = "effect" THEN [@ EXCEPT !.open = FALSE] ELSE Idle]
  /\ UNCHANGED <<tables, now, up, poisoned, loggedOut>>

\* The process dies: requests and the poison flag go, committed rows stay.
Crash ==
  /\ up
  /\ up' = FALSE
  /\ req' = [r \in Requests |-> Idle]
  /\ poisoned' = FALSE
  /\ UNCHANGED <<tables, now, loggedOut>>

\* main: open, migrate (CREATE IF NOT EXISTS), seed; then api::router(), which
\* panics if axum refuses one of its paths; only then serve.
Restart ==
  /\ ~up
  /\ up' = RouterBuilds
  /\ SeedAdminIfEmpty
  /\ UNCHANGED <<req, poisoned, loggedOut>>

Environment ==
  /\ \/ \E u \in Users : EditUser(u)
     \/ Tick
     \/ ClockStepsBack
  /\ UNCHANGED <<req, up, poisoned, loggedOut>>

Handle(r) ==
  \/ Refuse(r)
  \/ Admit(r)
  \/ Logout(r)
  \/ Act(r)
  \/ LoginRefused(r)
  \/ LoginCreates(r)
  \/ LoginPanics(r)
  \/ CallFails(r)
  \/ Respond(r)

Step ==
  \/ \E r \in Requests :
       \/ \E u \in Users : LoginArrives(r, u)
       \/ \E op \in Ops \ {"login"}, t \in Tokens \cup {None} : Arrives(r, op, t)
       \/ BodyArrives(r)
       \/ BodyRefused(r)
       \/ Handle(r)
       \/ Disconnect(r)
  \/ Crash
  \/ Restart
  \/ Environment

-----------------------------------------------------------------------------
(* The observer.  It restates what a session is worth from the rows alone, *)
(* independently of the closures, and keeps for each request the users its *)
(* token named at some moment since its arrival, those of them who then or *)
(* later were active with the right role, and whether it named nobody.     *)

Names(t, u) ==
  \E s \in sessions :
    /\ s.token = t /\ s.user = u /\ ~s.revoked
    /\ s.expires \in 0 .. MaxParsed => now <= s.expires

Named(r) == {u \in Users : Names(req[r].token, u)}

Active == {u \in Users : users[u].status = "active"}

Entitled(r) ==
  {u \in Active : req[r].op \in Guarded => HasPermission(users[u].role, req[r].op)}

Lapse(r) == Named(r) \cap Active = {}

Observe ==
  seen' = [r \in Requests |->
    LET named == seen[r].named \cup Named(r)'
    IN  IF req'[r].pc = "idle" THEN Nothing
        ELSE [named    |-> named,
              entitled |-> seen[r].entitled \cup (named \cap Entitled(r)'),
              lapse    |-> seen[r].lapse \/ Lapse(r)']]

Next == Step /\ Observe

\* The request waits for a closure: neither for its client nor for a child.
AwaitsDb(r) == \/ req[r].pc = "validate"
               \/ req[r].pc = "effect" /\ NeedsDb(req[r].op)

\* The blocking pool runs every closure and tokio polls every task it wakes;
\* nothing obliges a client, the clock, an administrator or a child process.
Fairness == \A r \in Requests : WF_vars(AwaitsDb(r) /\ Handle(r) /\ Observe)

Spec == Init /\ [][Next]_vars /\ Fairness

-----------------------------------------------------------------------------
\* Types of the variables this module adds to the tables; a slot keeps nothing of
\* the request it served, a handler that runs or waits for its body knows its
\* user, and a request without a token waits for nothing and is never answered ok.
WellFormed(x) ==
  /\ x.pc = "idle" => x = Idle
  /\ x.pc \in {"body", "effect"} => x.user \in Users
  /\ x.pc = "body" /\ x.op # "login" => x.role \in Roles
  /\ x.op # "login" /\ x.token = None => /\ x.pc \in {"idle", "respond"}
                                        /\ x.status # "ok"

Seen == [named : SUBSET Users, entitled : SUBSET Users, lapse : BOOLEAN]

TypeOK ==
  /\ SessionsTypeOK
  /\ req \in [Requests -> Request]
  /\ \A r \in Requests : WellFormed(req[r])
  /\ up \in BOOLEAN
  /\ poisoned \in BOOLEAN
  /\ loggedOut \subseteq Tokens
  /\ seen \in [Requests -> Seen]

\* The extractor has recognised the request's user; its handler runs or has run.
Known(r) == req[r].op # "login" /\ req[r].user # None

Admitted(r) == /\ req[r].op # "login"
               /\ \/ req[r].pc = "effect"
                  \/ req[r].pc = "respond" /\ req[r].status = "ok"

\* A handler runs for a request only as a user whom its token named, by a session
\* neither revoked nor expired, at some moment since the request arrived, and who
\* then or later had an active account with the permission.  The snapshot it acts
\* on may be stale, and as old as the client's body is slow, but never older than
\* its own request; an expires_at that does not parse counts as never expiring
\* (validate_session, AuthUser, require_permission).
GrantedWithinRequest ==
  \A r \in Requests : Admitted(r) => req[r].user \in seen[r].entitled

\* The converse: a 401 that no database failure explains is deserved, since at
\* some moment since its arrival the request had no good session.  Sessions thus
\* survive restarts, other logins and other users' logouts (validate_session).
RefusedForCause ==
  \A r \in Requests :
    /\ req[r].pc = "respond" /\ req[r].op # "login"
    /\ req[r].status = "unauthorized" /\ ~req[r].fault
    => seen[r].lapse

\* Once a client has read the answer to its logout, no request that arrives
\* later with that token is recognised, whatever was in flight, crashed or was
\* edited in between, and even if the clock is set back (revoke_session).
LogoutIsFinal == \A r \in Requests : req[r].late => ~Known(r)

\* A token stands for one account for ever: a request is recognised only as the
\* very account whose login created its token, although accounts are deleted with
\* their sessions left behind, and ids are given to new ones, the admin of the
\* next boot among them (AUTOINCREMENT of users.id, validate_session).
TokenNamesItsUser ==
  \A r \in Requests : Known(r) => <<req[r].token, req[r].user, req[r].life>> \in issued

Dead(t) == (\E i \in issued : i[1] = t) /\ UnrevokedRows(t) = {}

\* A token whose session was revoked, or deleted with its user, never has an
\* unrevoked row again (no closure clears is_revoked or reissues a token).
DeadTokensStayDead == [][\A t \in Tokens : Dead(t) => Dead(t)']_vars

\* After a panic under the mutex every db.call fails until the process is
\* restarted: no user is recognised, no session created or revoked by the
\* server, and only a crash clears the flag (Database::with_conn).
PoisonFailsClosed ==
  [][poisoned =>
       /\ \A r \in Requests : req[r].pc = "validate" => ~Known(r)'
       /\ issued' = issued
       /\ {s \in sessions' : s.revoked} \subseteq {s \in sessions : s.revoked}
       /\ poisoned' \/ ~up']_vars

\* rbac.rs lists "User roles in descending privilege order" and calls a numeric
\* level "higher = more privileged": nobody should be forbidden what a role of a
\* lower level may do.
HigherRolesAreMorePrivileged ==
  \A r \in Requests :
    req[r].pc = "respond" /\ req[r].status = "forbidden" =>
      \A role \in Roles :
        Level[role] < Level[req[r].role] => ~HasPermission(role, req[r].op)

\* Every request that waits for the database gets out of that wait, however the
\* database fails, and on a poisoned mutex too (Database::call, with_conn).
DatabaseAnswers == \A r \in Requests : AwaitsDb(r) ~> ~AwaitsDb(r)
=============================================================================
