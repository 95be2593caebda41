--------------------------- MODULE GatewayProofs ----------------------------
(***************************************************************************)
(* What the module Gateway promises, proved for every set of users, tokens *)
(* and requests, every timeout and every clock.                            *)
(***************************************************************************)
EXTENDS Gateway, TLAPS

\* What TypeOK says of the slots.
Slots ==
  /\ req \in [Requests -> Request]
  /\ \A r \in Requests : WellFormed(req[r])

Statuses == {"none", "ok", "bad_request", "unauthorized", "forbidden", "error"}

-----------------------------------------------------------------------------
(* Typing.                                                                 *)

LEMMA IdleTyped == Idle \in Request /\ WellFormed(Idle)
BY DEF Idle, Request, Ops, WellFormed

\* Every action on a slot writes one typed request into it.
LEMMA SlotTyped ==
  ASSUME Slots, NEW r \in Requests, NEW x \in Request,
         WellFormed(x),
         req' = [req EXCEPT ![r] = x]
  PROVE  Slots'
BY DEF Slots

LEMMA AnswerTyped ==
  ASSUME Slots, NEW r \in Requests, NEW st \in Statuses, Answer(r, st),
         req[r].pc \in {"validate", "body", "effect"}
  PROVE  Slots'
<1> DEFINE x == IF req[r].open THEN [req[r] EXCEPT !.pc = "respond", !.status = st] ELSE Idle
<1>1. x \in Request /\ WellFormed(x)
  <2>1. CASE ~req[r].open
    BY <2>1, IdleTyped
  <2>2. CASE req[r].open
    <3>1. x = [req[r] EXCEPT !.pc = "respond", !.status = st]
      BY <2>2
    <3>2. req[r] \in Request
      BY DEF Slots
    <3>3. x \in Request
      BY <3>1, <3>2 DEF Request, Statuses
    <3>4. WellFormed(req[r])
      BY DEF Slots
    <3>5. WellFormed(x)
      BY <3>1, <3>2, <3>4 DEF Request, WellFormed
    <3> QED BY <3>3, <3>5
  <2> QED BY <2>1, <2>2
<1>2. req' = [req EXCEPT ![r] = x]
  BY DEF Answer
<1> HIDE DEF x
<1> QED BY <1>1, <1>2, SlotTyped

LEMMA SeenTyped ==
  ASSUME Observe, seen \in [Requests -> Seen]
  PROVE  seen' \in [Requests -> Seen]
<1> DEFINE cell(r) ==
      LET named == seen[r].named \cup Named(r)'
      IN  IF req'[r].pc = "idle" THEN Nothing
          ELSE [named    |-> named,
                entitled |-> seen[r].entitled \cup (named \cap Entitled(r)'),
                lapse    |-> seen[r].lapse \/ Lapse(r)']
<1>1. seen' = [r \in Requests |-> cell(r)]
  BY DEF Observe
<1>2. ASSUME NEW r \in Requests
      PROVE  cell(r) \in Seen
  <2>1. seen[r].named \subseteq Users /\ seen[r].entitled \subseteq Users
    BY DEF Seen
  <2>2. Named(r)' \subseteq Users /\ Entitled(r)' \subseteq Users
    BY DEF Named, Entitled, Active
  <2>3. (seen[r].lapse \/ Lapse(r)') \in BOOLEAN
    OBVIOUS
  <2> QED BY <2>1, <2>2, <2>3 DEF Seen, Nothing
<1> HIDE DEF cell
<1> QED BY <1>1, <1>2

\* A handler that begins is refused, done, or waits for its own await.
LEMMA BeginTyped ==
  ASSUME NEW x \in Request, x.user \in Users, x.op # "login" => x.token # None
  PROVE  Begin(x) \in Request /\ WellFormed(Begin(x))
<1>1. ASSUME NEW pc \in {"effect", "respond"}, NEW st \in Statuses
      PROVE  /\ [x EXCEPT !.pc = pc, !.status = st] \in Request
             /\ WellFormed([x EXCEPT !.pc = pc, !.status = st])
  BY <1>1 DEF Request, Statuses, WellFormed
<1>2. /\ [x EXCEPT !.pc = "effect"] \in Request
      /\ WellFormed([x EXCEPT !.pc = "effect"])
  BY DEF Request, WellFormed
<1> QED BY <1>1, <1>2 DEF Begin, Statuses

LEMMA InsertSessionTyped ==
  ASSUME SessionsTypeOK, NEW u \in Users, NEW t \in Tokens, InsertSession(u, t)
  PROVE  SessionsTypeOK'
<1>1. now + SessionTimeout \in Int
  BY SessionsAssumption DEF SessionsTypeOK
<1>2. [token |-> t, user |-> u, expires |-> now + SessionTimeout, revoked |-> FALSE]
        \in SessionRow
  BY <1>1 DEF SessionRow
<1>3. sessions' \subseteq SessionRow
  BY <1>2 DEF InsertSession, SessionsTypeOK
<1>4. issued' \subseteq Tokens \X Users \X Nat
  <2>1. users[u].life \in Nat
    BY DEF SessionsTypeOK, User
  <2> QED BY <2>1 DEF InsertSession, SessionsTypeOK
<1> QED BY <1>3, <1>4 DEF InsertSession, SessionsTypeOK

LEMMA RevokeSessionTyped ==
  ASSUME SessionsTypeOK, NEW t \in Tokens, RevokeSession(t)
  PROVE  SessionsTypeOK'
<1>1. ASSUME NEW s \in sessions
      PROVE  (IF s.token = t THEN [s EXCEPT !.revoked = TRUE] ELSE s) \in SessionRow
  BY DEF SessionsTypeOK, SessionRow
<1> QED BY <1>1 DEF RevokeSession, SessionsTypeOK

LEMMA InsertUserTyped ==
  ASSUME users \in [Users -> User], NEW u \in Users, NEW st \in UserStatus, NEW role \in Roles,
         InsertUser(u, st, role)
  PROVE  users' \in [Users -> User]
<1>1. [status |-> st, role |-> role, life |-> users[u].life + 1] \in User
  BY DEF User
<1> QED BY <1>1 DEF InsertUser

LEMMA EditUserTyped ==
  ASSUME SessionsTypeOK, NEW u \in Users, EditUser(u)
  PROVE  SessionsTypeOK'
<1>1. ASSUME NEW st \in {"active", "inactive"}, NEW role \in EditRoles,
             \/ InsertUser(u, st, role)
             \/ Exists(u) /\ users' = [users EXCEPT ![u].status = st, ![u].role = role],
             UNCHANGED <<sessions, issued, now>>
      PROVE  SessionsTypeOK'
  <2>1. role \in Roles /\ st \in UserStatus
    BY SessionsAssumption DEF UserStatus
  <2>2. users' \in [Users -> User]
    <3>1. CASE InsertUser(u, st, role)
      BY <2>1, <3>1, InsertUserTyped DEF SessionsTypeOK
    <3>2. CASE users' = [users EXCEPT ![u].status = st, ![u].role = role]
      <4>1. [users[u] EXCEPT !.status = st, !.role = role] \in User
        BY <2>1 DEF SessionsTypeOK, User
      <4> QED BY <3>2, <4>1 DEF SessionsTypeOK
    <3> QED BY <1>1, <3>1, <3>2
  <2> QED BY <1>1, <2>2 DEF SessionsTypeOK
<1>2. CASE /\ Exists(u)
           /\ users' = [users EXCEPT ![u].status = "deleted"]
           /\ sessions' \in {sessions, {s \in sessions : s.user # u}}
           /\ UNCHANGED <<issued, now>>
  <2>1. users' \in [Users -> User]
    BY <1>2 DEF SessionsTypeOK, User, UserStatus
  <2> QED BY <1>2, <2>1 DEF SessionsTypeOK
<1> QED BY <1>1, <1>2 DEF EditUser

LEMMA BetweenTyped ==
  ASSUME SessionsTypeOK, Between
  PROVE  SessionsTypeOK'
<1>1. CASE UNCHANGED <<tables, now>>
  BY <1>1 DEF tables, SessionsTypeOK
<1> QED BY <1>1, EditUserTyped DEF Between

LEMMA SeedTyped ==
  ASSUME SessionsTypeOK, SeedAdminIfEmpty
  PROVE  SessionsTypeOK'
<1>1. users' \in [Users -> User]
  <2>1. CASE UNCHANGED users
    BY <2>1 DEF SessionsTypeOK
  <2>2. ASSUME NEW u \in Users, InsertUser(u, "active", "admin")
        PROVE  users' \in [Users -> User]
    BY <2>2, InsertUserTyped DEF SessionsTypeOK, UserStatus, Roles
  <2> QED BY <2>1, <2>2 DEF SeedAdminIfEmpty, CreateAdmin
<1> QED BY <1>1 DEF SeedAdminIfEmpty, SessionsTypeOK

\* What the typing of one step needs: everything but the observer.
CoreTypes ==
  /\ SessionsTypeOK
  /\ Slots
  /\ up \in BOOLEAN
  /\ poisoned \in BOOLEAN
  /\ loggedOut \subseteq Tokens

LEMMA ArrivalsTyped ==
  ASSUME CoreTypes, NEW r \in Requests,
         \/ \E u \in Users : LoginArrives(r, u)
         \/ \E op \in Ops \ {"login"}, t \in Tokens \cup {None} : Arrives(r, op, t)
  PROVE  CoreTypes'
<1>1. ASSUME NEW u \in Users, LoginArrives(r, u)
      PROVE  CoreTypes'
  <2> DEFINE x == [Idle EXCEPT !.pc = "body", !.op = "login", !.user = u, !.open = TRUE]
  <2>1. x \in Request /\ WellFormed(x)
    BY DEF Idle, Request, Ops, WellFormed
  <2>2. req' = [req EXCEPT ![r] = x]
    BY <1>1 DEF LoginArrives
  <2>3. Slots'
    <3> HIDE DEF x
    <3> QED BY <2>1, <2>2, SlotTyped DEF CoreTypes
  <2> QED BY <1>1, <2>3 DEF LoginArrives, CoreTypes, tables, SessionsTypeOK
<1>2. ASSUME NEW op \in Ops \ {"login"}, NEW t \in Tokens \cup {None}, Arrives(r, op, t)
      PROVE  CoreTypes'
  <2> DEFINE x == [Idle EXCEPT !.pc = IF t = None THEN "respond" ELSE "validate",
                               !.status = IF t = None THEN "unauthorized" ELSE "none",
                               !.op = op, !.token = t, !.open = TRUE,
                               !.late = t \in loggedOut]
  <2>1. x \in Request /\ WellFormed(x)
    <3>1. (t \in loggedOut) \in BOOLEAN
      OBVIOUS
    <3> QED BY <3>1 DEF Idle, Request, WellFormed
  <2>2. req' = [req EXCEPT ![r] = x]
    BY <1>2 DEF Arrives
  <2>3. Slots'
    <3> HIDE DEF x
    <3> QED BY <2>1, <2>2, SlotTyped DEF CoreTypes
  <2> QED BY <1>2, <2>3 DEF Arrives, CoreTypes, tables, SessionsTypeOK
<1> QED BY <1>1, <1>2

\* What Admit makes of a request x that names u.
Beginning(x, u, body) ==
  IF body THEN [Recognised(x, u) EXCEPT !.pc = "body"] ELSE Begin(Recognised(x, u))

LEMMA AdmitBegins ==
  ASSUME req \in [Requests -> Request], NEW r \in Requests, Admit(r)
  PROVE  \E u \in SessionUsers(req[r].token), body \in BOOLEAN :
           /\ Loads(u)
           /\ req' = [req EXCEPT ![r] = Beginning(req[r], u, body)]
           /\ req'[r] = Beginning(req[r], u, body)
BY DEF Admit, BodyOf, Beginning

LEMMA AdmitTyped ==
  ASSUME CoreTypes, NEW r \in Requests, Admit(r)
  PROVE  SessionsTypeOK' /\ Slots'
<1>0. SessionsTypeOK'
  BY BetweenTyped DEF Admit, CoreTypes
<1>1. PICK u \in SessionUsers(req[r].token), body \in BOOLEAN :
        req' = [req EXCEPT ![r] = Beginning(req[r], u, body)]
  BY AdmitBegins DEF CoreTypes, Slots
<1>2. u \in Users
  BY DEF SessionUsers, UnrevokedRows, CoreTypes, SessionsTypeOK, SessionRow
<1>3. users'[u].role \in Roles /\ users'[u].life \in Nat
  BY <1>0, <1>2 DEF SessionsTypeOK, User
<1>4. req[r] \in Request /\ WellFormed(req[r]) /\ req[r].pc = "validate"
  BY DEF Admit, CoreTypes, Slots
<1> DEFINE x == Recognised(req[r], u)
<1>5. /\ x \in Request /\ x.user = u /\ x.role = users'[u].role
      /\ x.op = req[r].op /\ x.token = req[r].token /\ x.pc = "validate"
  BY <1>2, <1>3, <1>4 DEF Recognised, Request
<1>6. x.op # "login" => x.token # None
  BY <1>4, <1>5 DEF WellFormed
<1>7. Beginning(req[r], u, body) \in Request /\ WellFormed(Beginning(req[r], u, body))
  <2> HIDE DEF x
  <2>1. /\ [x EXCEPT !.pc = "body"] \in Request
        /\ WellFormed([x EXCEPT !.pc = "body"])
    BY <1>2, <1>3, <1>5, <1>6 DEF Request, WellFormed
  <2>2. Begin(x) \in Request /\ WellFormed(Begin(x))
    BY <1>2, <1>5, <1>6, BeginTyped
  <2> QED BY <2>1, <2>2 DEF Beginning, x
<1> QED BY <1>0, <1>1, <1>7, SlotTyped DEF CoreTypes

\* The rest of the body comes, or is refused.
LEMMA BodyTyped ==
  ASSUME CoreTypes, NEW r \in Requests, BodyArrives(r) \/ BodyRefused(r)
  PROVE  CoreTypes'
<1>1. /\ req[r] \in Request /\ WellFormed(req[r]) /\ req[r].pc = "body"
  BY DEF BodyArrives, BodyRefused, CoreTypes, Slots
<1>2. CASE BodyArrives(r)
  <2>1. Begin(req[r]) \in Request /\ WellFormed(Begin(req[r]))
    BY <1>1, BeginTyped DEF WellFormed
  <2>2. Slots'
    BY <1>2, <2>1, SlotTyped DEF BodyArrives, CoreTypes
  <2> QED BY <1>2, <2>2 DEF BodyArrives, CoreTypes, tables, SessionsTypeOK
<1>3. CASE BodyRefused(r)
  BY <1>3, AnswerTyped DEF BodyRefused, CoreTypes, tables, SessionsTypeOK, Statuses
<1> QED BY <1>2, <1>3

LEMMA HandleTyped ==
  ASSUME CoreTypes, NEW r \in Requests, Handle(r)
  PROVE  CoreTypes'
<1> USE DEF CoreTypes, tables
<1>0. req[r] \in Request
  BY DEF Slots
<1>1. CASE Refuse(r)
  <2>1. SessionsTypeOK'
    BY <1>1, BetweenTyped DEF Refuse, SessionsTypeOK
  <2> QED BY <1>1, <2>1, AnswerTyped DEF Refuse, Statuses
<1>2. CASE Admit(r)
  BY <1>2, AdmitTyped DEF Admit
<1>3. CASE Logout(r)
  <2>1. Slots'
    BY <1>3, AnswerTyped DEF Logout, Statuses
  <2>2. CASE req[r].token \in Tokens
    BY <1>3, <2>1, <2>2, RevokeSessionTyped DEF Logout
  <2>3. CASE req[r].token \notin Tokens
    <3>1. sessions' = sessions
      BY <1>3, <2>3 DEF Logout, RevokeSession, SessionsTypeOK, SessionRow
    <3> QED BY <1>3, <2>1, <3>1 DEF Logout, RevokeSession, SessionsTypeOK
  <2> QED BY <2>2, <2>3
<1>4. CASE Act(r)
  BY <1>4, AnswerTyped DEF Act, SessionsTypeOK, Statuses
<1>5. CASE LoginRefused(r)
  BY <1>5, AnswerTyped DEF LoginRefused, SessionsTypeOK, Statuses
<1>6. CASE LoginCreates(r)
  <2>1. Slots'
    BY <1>6, AnswerTyped DEF LoginCreates, Statuses
  <2>2. req[r].user \in Users
    BY <1>6 DEF LoginCreates, Slots, WellFormed
  <2> QED BY <1>6, <2>1, <2>2, InsertSessionTyped DEF LoginCreates
<1>7. CASE LoginPanics(r)
  BY <1>7, AnswerTyped DEF LoginPanics, SessionsTypeOK, Statuses
<1>8. CASE CallFails(r)
  <2> DEFINE st == IF req[r].pc = "validate" THEN "unauthorized" ELSE "error"
             x == IF ~req[r].open THEN Idle
                  ELSE [req[r] EXCEPT !.pc = "respond", !.fault = TRUE, !.status = st]
  <2>1. x \in Request /\ WellFormed(x)
    <3>1. CASE ~req[r].open
      BY <3>1, IdleTyped
    <3>2. CASE req[r].open
      <4>1. x = [req[r] EXCEPT !.pc = "respond", !.fault = TRUE, !.status = st]
        BY <3>2
      <4>2. WellFormed(req[r]) /\ req[r].pc \in {"validate", "effect"}
        BY <1>8 DEF CallFails, Slots
      <4> QED BY <1>0, <4>1, <4>2 DEF Request, WellFormed
    <3> QED BY <3>1, <3>2
  <2>2. req' = [req EXCEPT ![r] = x]
    BY <1>8 DEF CallFails, Slots
  <2> HIDE DEF x
  <2> QED BY <1>8, <2>1, <2>2, SlotTyped DEF CallFails, SessionsTypeOK
<1>9. CASE Respond(r)
  <2>1. Slots'
    BY <1>9, IdleTyped, SlotTyped DEF Respond
  <2>2. loggedOut' \subseteq Tokens
    BY <1>9, <1>0 DEF Respond, Slots, WellFormed, Request
  <2> QED BY <1>9, <2>1, <2>2 DEF Respond, SessionsTypeOK
<1> QED BY <1>1, <1>2, <1>3, <1>4, <1>5, <1>6, <1>7, <1>8, <1>9 DEF Handle

LEMMA DisconnectTyped ==
  ASSUME Slots, NEW r \in Requests, Disconnect(r)
  PROVE  Slots'
<1> DEFINE x == IF req[r].pc = "effect" THEN [req[r] EXCEPT !.open = FALSE] ELSE Idle
<1>1. x \in Request /\ WellFormed(x)
  <2>1. req[r] \in Request /\ WellFormed(req[r])
    BY DEF Slots
  <2>2. CASE req[r].pc = "effect"
    BY <2>1, <2>2 DEF Request, WellFormed
  <2>3. CASE req[r].pc # "effect"
    BY <2>3, IdleTyped
  <2> QED BY <2>2, <2>3
<1>2. req' = [req EXCEPT ![r] = x]
  BY DEF Disconnect, Slots
<1> HIDE DEF x
<1> QED BY <1>1, <1>2, SlotTyped

LEMMA StepTyped ==
  ASSUME CoreTypes, Step
  PROVE  CoreTypes'
<1>1. ASSUME NEW r \in Requests,
             \/ \E u \in Users : LoginArrives(r, u)
             \/ \E op \in Ops \ {"login"}, t \in Tokens \cup {None} : Arrives(r, op, t)
      PROVE  CoreTypes'
  BY <1>1, ArrivalsTyped
<1>2. ASSUME NEW r \in Requests, Handle(r)
      PROVE  CoreTypes'
  BY <1>2, HandleTyped
<1>7. ASSUME NEW r \in Requests, BodyArrives(r) \/ BodyRefused(r)
      PROVE  CoreTypes'
  BY <1>7, BodyTyped
<1>3. ASSUME NEW r \in Requests, Disconnect(r)
      PROVE  CoreTypes'
  BY <1>3, DisconnectTyped DEF Disconnect, CoreTypes, tables, SessionsTypeOK
<1>4. CASE Crash
  BY <1>4, IdleTyped DEF Crash, CoreTypes, tables, SessionsTypeOK, Slots
<1>5. CASE Restart
  BY <1>5, SeedTyped, GatewayAssumption DEF Restart, CoreTypes, Slots
<1>6. CASE Environment
  <2>1. CASE \E u \in Users : EditUser(u)
    BY <1>6, <2>1, EditUserTyped DEF Environment, CoreTypes, Slots
  <2>2. CASE Tick
    BY <1>6, <2>2 DEF Environment, Tick, CoreTypes, Slots, tables, SessionsTypeOK
  <2>3. CASE ClockStepsBack
    BY <1>6, <2>3 DEF Environment, ClockStepsBack, CoreTypes, Slots, tables, SessionsTypeOK
  <2> QED BY <1>6, <2>1, <2>2, <2>3 DEF Environment
<1> QED BY <1>1, <1>2, <1>3, <1>4, <1>5, <1>6, <1>7 DEF Step

LEMMA TypeOKSplit == TypeOK <=> CoreTypes /\ seen \in [Requests -> Seen]
BY DEF TypeOK, CoreTypes, Slots

\* Every reachable state is well typed; in particular no handler runs without a
\* user, and a slot keeps nothing of the request it served.
THEOREM Typing == Spec => []TypeOK
<1>1. Init => TypeOK
  <2> SUFFICES ASSUME Init
               PROVE  TypeOK
    OBVIOUS
  <2>1. SessionsTypeOK
    <3>1. EmptyUsers \in [Users -> User]
      BY DEF EmptyUsers, User, UserStatus, Roles
    <3>2. users \in [Users -> User]
      BY <3>1, SessionsAssumption DEF Init, SessionsInit, User, UserStatus, Roles
    <3> QED BY <3>2 DEF Init, SessionsInit, SessionsTypeOK
  <2>2. Slots
    BY IdleTyped DEF Init, Slots
  <2>3. Nothing \in Seen
    BY DEF Nothing, Seen
  <2> QED BY <2>1, <2>2, <2>3, GatewayAssumption DEF Init, TypeOK, Slots
<1>2. TypeOK /\ [Next]_vars => TypeOK'
  <2> SUFFICES ASSUME TypeOK, [Next]_vars
               PROVE  TypeOK'
    OBVIOUS
  <2>1. CASE Next
    BY <2>1, TypeOKSplit, StepTyped, SeenTyped DEF Next, TypeOK, CoreTypes, Slots
  <2>2. CASE UNCHANGED vars
    BY <2>2 DEF vars, TypeOK, SessionsTypeOK
  <2> QED BY <2>1, <2>2
<1> QED BY <1>1, <1>2, PTL DEF Spec

-----------------------------------------------------------------------------
(* A token is dead for ever once it is dead.                               *)

\* What every step does to the two tables of sessions.
TokensMonotone ==
  /\ issued \subseteq issued'
  /\ \A t \in Tokens : Dead(t) => Dead(t)'

LEMMA InsertMonotone ==
  ASSUME SessionsTypeOK, NEW u \in Users, NEW t \in Tokens, InsertSession(u, t)
  PROVE  TokensMonotone
<1>1. ASSUME NEW d \in Tokens, Dead(d)
      PROVE  Dead(d)'
  <2>1. d # t
    BY <1>1 DEF Dead, InsertSession, Fresh
  <2>2. UnrevokedRows(d)' = {}
    BY <1>1, <2>1 DEF Dead, UnrevokedRows, InsertSession
  <2> QED BY <1>1, <2>2 DEF Dead, InsertSession
<1> QED BY <1>1 DEF TokensMonotone, InsertSession

LEMMA RevokeMonotone ==
  ASSUME SessionsTypeOK, NEW t, RevokeSession(t)
  PROVE  TokensMonotone /\ UnrevokedRows(t)' = {}
<1>1. \A n \in sessions' : ~n.revoked => n \in sessions /\ n.token # t
  <2> SUFFICES ASSUME NEW n \in sessions', ~n.revoked
               PROVE  n \in sessions /\ n.token # t
    OBVIOUS
  <2>1. PICK s \in sessions : n = IF s.token = t THEN [s EXCEPT !.revoked = TRUE] ELSE s
    BY DEF RevokeSession
  <2>2. s \in SessionRow
    BY DEF SessionsTypeOK
  <2>3. s.token # t
    BY <2>1, <2>2 DEF SessionRow
  <2> QED BY <2>1, <2>3
<1>2. UnrevokedRows(t)' = {}
  BY <1>1 DEF UnrevokedRows
<1>3. ASSUME NEW d \in Tokens, Dead(d)
      PROVE  Dead(d)'
  <2>1. UnrevokedRows(d)' = {}
    BY <1>1, <1>3 DEF UnrevokedRows, Dead
  <2> QED BY <1>3, <2>1 DEF Dead, RevokeSession
<1> QED BY <1>2, <1>3 DEF TokensMonotone, RevokeSession

LEMMA FewerMonotone ==
  ASSUME issued' = issued, sessions' \subseteq sessions
  PROVE  TokensMonotone
<1>1. ASSUME NEW d \in Tokens, Dead(d)
      PROVE  Dead(d)'
  BY <1>1 DEF Dead, UnrevokedRows
<1> QED BY <1>1 DEF TokensMonotone

\* Another client, and what it writes between two statements.
LEMMA EditsOnlyDelete ==
  ASSUME Between \/ \E u \in Users : EditUser(u)
  PROVE  issued' = issued /\ sessions' \subseteq sessions /\ now' = now
BY DEF Between, EditUser, tables

\* The two operations on the tables of sessions, among all the steps.
LEMMA SessionsSteps ==
  ASSUME Step
  PROVE  \/ issued' = issued /\ sessions' \subseteq sessions
         \/ \E r \in Requests : Logout(r) \/ LoginCreates(r)
<1>1. ASSUME NEW r \in Requests, Handle(r), ~Logout(r), ~LoginCreates(r)
      PROVE  issued' = issued /\ sessions' \subseteq sessions
  <2>1. CASE Refuse(r) \/ Admit(r)
    <3>1. UNCHANGED tables \/ Between
      BY <2>1 DEF Refuse, Admit
    <3> QED BY <3>1, EditsOnlyDelete DEF tables
  <2>2. CASE ~(Refuse(r) \/ Admit(r))
    BY <1>1, <2>2 DEF Handle, Act, LoginRefused, LoginPanics, CallFails, Respond, tables
  <2> QED BY <2>1, <2>2
<1>2. Restart \/ Crash \/ Tick \/ ClockStepsBack => UNCHANGED <<sessions, issued>>
  BY DEF Restart, SeedAdminIfEmpty, Crash, Tick, ClockStepsBack, tables
<1>3. ASSUME NEW r \in Requests, Disconnect(r) \/ BodyArrives(r) \/ BodyRefused(r)
      PROVE  UNCHANGED <<sessions, issued>>
  BY <1>3 DEF Disconnect, BodyArrives, BodyRefused, tables
<1>4. ASSUME NEW r \in Requests, NEW u \in Users, LoginArrives(r, u)
      PROVE  UNCHANGED <<sessions, issued>>
  BY <1>4 DEF LoginArrives, tables
<1>5. ASSUME NEW r \in Requests, NEW op, NEW t, Arrives(r, op, t)
      PROVE  UNCHANGED <<sessions, issued>>
  BY <1>5 DEF Arrives, tables
<1> QED BY <1>1, <1>2, <1>3, <1>4, <1>5, EditsOnlyDelete DEF Step, Environment

LEMMA StepMonotone ==
  ASSUME TypeOK, Step
  PROVE  TokensMonotone
<1>1. ASSUME NEW r \in Requests, Logout(r)
      PROVE  TokensMonotone
  BY <1>1, RevokeMonotone DEF Logout, TypeOK
<1>2. ASSUME NEW r \in Requests, LoginCreates(r)
      PROVE  TokensMonotone
  BY <1>2, InsertMonotone DEF LoginCreates, TypeOK, WellFormed
<1>3. CASE issued' = issued /\ sessions' \subseteq sessions
  BY <1>3, FewerMonotone
<1> QED BY <1>1, <1>2, <1>3, SessionsSteps

\* A token whose session was revoked or deleted never has an unrevoked row again.
THEOREM DeadForEver == Spec => DeadTokensStayDead
<1>1. TypeOK /\ [Next]_vars => [\A t \in Tokens : Dead(t) => Dead(t)']_vars
  BY StepMonotone DEF Next, TokensMonotone
<1> QED BY <1>1, Typing, PTL DEF Spec, DeadTokensStayDead

-----------------------------------------------------------------------------
(* What one step can do to one slot.                                       *)

LogoutDone(q) == req[q].pc = "respond" /\ req[q].op = "logout" /\ req[q].status = "ok"

\* What require_permission asks of the snapshot.
Allowed(q) == Permitted(req[q].op, req[q].role)

Refused(q) == /\ req[q].pc = "respond" /\ req[q].op # "login"
              /\ req[q].status = "unauthorized" /\ ~req[q].fault

\* The request in slot q is still the same request, of the same user.
Same(q) ==
  /\ req'[q].op = req[q].op /\ req'[q].token = req[q].token /\ req'[q].user = req[q].user
  /\ req'[q].role = req[q].role /\ req'[q].life = req[q].life /\ req'[q].late = req[q].late

\* A user is recognised by Admit alone; a handler begins in Admit, or once the body has
\* come, and only if the snapshot allows it; a logout is done by Logout alone; a request
\* is late only if its token had been logged out when it arrived; and a 401 that no
\* failure explains is written by Refuse, or for a request without a token.
SlotStep(q) ==
  /\ Known(q)' => \/ Admit(q)
                  \/ Known(q) /\ Same(q)
  /\ Admitted(q)' => \/ Admit(q)
                     \/ Admitted(q) /\ Same(q)
                     \/ req[q].pc = "body" /\ Allowed(q) /\ Same(q)
  /\ LogoutDone(q)' => Same(q) /\ (LogoutDone(q) \/ Logout(q))
  /\ req'[q].late => \/ req[q].late /\ req'[q].token = req[q].token
                     \/ req'[q].token \in loggedOut
  /\ req'[q].pc = "validate" => req'[q].user = None \/ req'[q] = req[q]
  /\ Refused(q)' => \/ Refused(q)
                    \/ Refuse(q) /\ req'[q].token = req[q].token
                    \/ req'[q].token = None

LEMMA SameStep ==
  ASSUME NEW q \in Requests, req'[q] = req[q]
  PROVE  SlotStep(q)
BY DEF SlotStep, Same, Known, Admitted, LogoutDone, Refused

LEMMA IdleStep ==
  ASSUME NEW q \in Requests, req'[q] = Idle
  PROVE  SlotStep(q)
BY DEF SlotStep, Known, Admitted, LogoutDone, Refused, Idle

\* An answer that is neither ok for a request that was not admitted, nor the
\* first ok of a logout, nor a 401 of anything but Refuse.
LEMMA AnswerStep ==
  ASSUME TypeOK, NEW q \in Requests, NEW st \in Statuses, Answer(q, st),
         req[q].pc \in {"validate", "body", "effect"},
         st = "ok" => req[q].op = "login" \/ Admitted(q),
         st = "ok" /\ req[q].op = "logout" => Logout(q),
         st = "unauthorized" => req[q].op = "login" \/ Refuse(q)
  PROVE  SlotStep(q)
<1>1. req[q] \in Request
  BY DEF TypeOK
<1>2. CASE ~req[q].open
  <2>1. req'[q] = Idle
    BY <1>2 DEF Answer, TypeOK
  <2> QED BY <2>1, IdleStep
<1>3. CASE req[q].open
  <2>1. req'[q] = [req[q] EXCEPT !.pc = "respond", !.status = st]
    BY <1>3 DEF Answer, TypeOK
  <2>2. Same(q) /\ req'[q].pc = "respond" /\ req'[q].status = st
    BY <1>1, <2>1 DEF Request, Same
  <2> QED BY <2>2 DEF SlotStep, Same, Known, Admitted, LogoutDone, Refused
<1> QED BY <1>2, <1>3

\* What the first lines of a handler make of a request.
LEMMA BeginFacts ==
  ASSUME NEW x \in Request
  PROVE  /\ Begin(x).op = x.op /\ Begin(x).token = x.token /\ Begin(x).user = x.user
         /\ Begin(x).role = x.role /\ Begin(x).life = x.life /\ Begin(x).late = x.late
         /\ Begin(x).pc \in {"effect", "respond"}
         /\ \/ Permitted(x.op, x.role)
            \/ Begin(x).pc = "respond" /\ Begin(x).status = "forbidden"
         /\ Begin(x).pc = "respond" =>
              \/ Begin(x).status = "forbidden"
              \/ Begin(x).status = "ok" /\ x.op = "me"
<1>1. CASE ~Permitted(x.op, x.role)
  <2>1. Begin(x) = [x EXCEPT !.pc = "respond", !.status = "forbidden"]
    BY <1>1 DEF Begin
  <2> QED BY <2>1 DEF Request
<1>2. CASE Permitted(x.op, x.role) /\ x.op = "me"
  <2>1. Begin(x) = [x EXCEPT !.pc = "respond", !.status = "ok"]
    BY <1>2 DEF Begin
  <2> QED BY <1>2, <2>1 DEF Request
<1>3. CASE Permitted(x.op, x.role) /\ x.op # "me"
  <2>1. Begin(x) = [x EXCEPT !.pc = "effect"]
    BY <1>3 DEF Begin
  <2> QED BY <1>3, <2>1 DEF Request
<1> QED BY <1>1, <1>2, <1>3

\* What Admit makes of a slot.
LEMMA AdmitFacts ==
  ASSUME TypeOK, NEW q \in Requests, Admit(q)
  PROVE  /\ req'[q].token = req[q].token /\ req'[q].op = req[q].op
         /\ req'[q].late = req[q].late
         /\ req'[q].user \in SessionUsers(req[q].token) /\ req'[q].user \in Users
         /\ Loads(req'[q].user)
         /\ req'[q].role = users'[req'[q].user].role
         /\ req'[q].life = users'[req'[q].user].life
         /\ req'[q].pc \in {"body", "effect", "respond"}
         /\ Admitted(q)' => Allowed(q)'
         /\ ~LogoutDone(q)' /\ ~Refused(q)'
<1>1. PICK u \in SessionUsers(req[q].token), body \in BOOLEAN :
        Loads(u) /\ req'[q] = Beginning(req[q], u, body)
  BY AdmitBegins DEF TypeOK
<1> DEFINE x == Recognised(req[q], u)
<1>2. SessionsTypeOK'
  BY BetweenTyped DEF Admit, TypeOK
<1>3. u \in Users
  BY DEF SessionUsers, UnrevokedRows, TypeOK, SessionsTypeOK, SessionRow
<1>4. users'[u].role \in Roles /\ users'[u].life \in Nat
  BY <1>2, <1>3 DEF SessionsTypeOK, User
<1>5. req[q] \in Request /\ req[q].pc = "validate"
  BY DEF Admit, TypeOK
<1>6. /\ x \in Request /\ x.user = u /\ x.role = users'[u].role /\ x.life = users'[u].life
      /\ x.op = req[q].op /\ x.token = req[q].token /\ x.late = req[q].late
  BY <1>3, <1>4, <1>5 DEF Recognised, Request
<1>7. CASE body
  <2> HIDE DEF x
  <2>1. req'[q] = [x EXCEPT !.pc = "body"]
    BY <1>1, <1>7 DEF Beginning, x
  <2>2. /\ req'[q].pc = "body" /\ req'[q].token = x.token /\ req'[q].op = x.op
        /\ req'[q].late = x.late /\ req'[q].user = x.user /\ req'[q].role = x.role
        /\ req'[q].life = x.life
    BY <1>6, <2>1 DEF Request
  <2> QED BY <1>1, <1>3, <1>6, <2>2 DEF Admitted, LogoutDone, Refused
<1>8. CASE ~body
  <2> HIDE DEF x
  <2>1. req'[q] = Begin(x)
    BY <1>1, <1>8 DEF Beginning, x
  <2>2. /\ req'[q].token = x.token /\ req'[q].op = x.op
        /\ req'[q].late = x.late /\ req'[q].user = x.user /\ req'[q].role = x.role
        /\ req'[q].life = x.life
        /\ req'[q].pc \in {"effect", "respond"}
        /\ \/ Permitted(x.op, x.role)
           \/ req'[q].pc = "respond" /\ req'[q].status = "forbidden"
        /\ req'[q].pc = "respond" =>
              \/ req'[q].status = "forbidden"
              \/ req'[q].status = "ok" /\ x.op = "me"
    BY <1>6, <2>1, BeginFacts
  <2>3. Admitted(q)' => Allowed(q)'
    BY <2>2 DEF Admitted, Allowed
  <2>4. ~LogoutDone(q)' /\ ~Refused(q)'
    BY <2>2 DEF LogoutDone, Refused
  <2> QED BY <1>1, <1>3, <1>6, <2>2, <2>3, <2>4
<1> QED BY <1>7, <1>8

LEMMA HandleStep ==
  ASSUME TypeOK, NEW q \in Requests, Handle(q)
  PROVE  SlotStep(q)
<1>0. req[q] \in Request
  BY DEF TypeOK
<1>1. CASE Refuse(q)
  BY <1>1, AnswerStep DEF Refuse, Statuses
<1>2. CASE Admit(q)
  BY <1>2, AdmitFacts DEF SlotStep
<1>3. CASE Logout(q)
  BY <1>3, AnswerStep DEF Logout, Statuses, Admitted
<1>4. CASE Act(q)
  <2>1. req[q].op \notin {"login", "logout"}
    BY <1>4, GatewayAssumption DEF Act, Permission
  <2> QED BY <1>4, <2>1, AnswerStep DEF Act, Statuses, Admitted
<1>5. CASE LoginRefused(q)
  BY <1>5, AnswerStep DEF LoginRefused, Statuses
<1>6. CASE LoginCreates(q)
  BY <1>6, AnswerStep DEF LoginCreates, Statuses
<1>7. CASE LoginPanics(q)
  BY <1>7, AnswerStep DEF LoginPanics, Statuses
<1>8. CASE CallFails(q)
  <2>1. CASE ~req[q].open
    <3>1. req'[q] = Idle
      BY <1>8, <2>1 DEF CallFails, TypeOK
    <3> QED BY <3>1, IdleStep
  <2>2. CASE req[q].open
    <3>1. req'[q] = [req[q] EXCEPT !.pc = "respond", !.fault = TRUE,
                              !.status = IF req[q].pc = "validate"
                                         THEN "unauthorized" ELSE "error"]
      BY <1>8, <2>2 DEF CallFails, TypeOK
    <3>2. /\ Same(q) /\ req'[q].pc = "respond" /\ req'[q].fault
          /\ req'[q].status \in {"unauthorized", "error"}
      BY <1>0, <3>1 DEF Request, Same
    <3> QED BY <3>2 DEF SlotStep, Same, Known, Admitted, LogoutDone, Refused
  <2> QED BY <2>1, <2>2
<1>9. CASE Respond(q)
  <2>1. req'[q] = Idle
    BY <1>9 DEF Respond, TypeOK
  <2> QED BY <2>1, IdleStep
<1> QED BY <1>1, <1>2, <1>3, <1>4, <1>5, <1>6, <1>7, <1>8, <1>9 DEF Handle

LEMMA BodyStep ==
  ASSUME TypeOK, NEW q \in Requests, BodyArrives(q) \/ BodyRefused(q)
  PROVE  SlotStep(q)
<1>0. req[q] \in Request /\ req[q].pc = "body"
  BY DEF TypeOK, BodyArrives, BodyRefused
<1>1. CASE BodyRefused(q)
  BY <1>1, AnswerStep DEF BodyRefused, Statuses
<1>2. CASE BodyArrives(q)
  <2>1. req'[q] = Begin(req[q])
    BY <1>2 DEF BodyArrives, TypeOK
  <2>2. /\ Same(q) /\ req'[q].pc \in {"effect", "respond"}
        /\ \/ Allowed(q)
           \/ req'[q].pc = "respond" /\ req'[q].status = "forbidden"
        /\ req'[q].pc = "respond" =>
             \/ req'[q].status = "forbidden"
             \/ req'[q].status = "ok" /\ req[q].op = "me"
    BY <1>0, <2>1, BeginFacts DEF Same, Allowed
  <2> QED BY <1>0, <2>2 DEF SlotStep, Same, Known, Admitted, LogoutDone, Refused
<1> QED BY <1>1, <1>2

LEMMA OtherSlots ==
  ASSUME TypeOK, NEW r, NEW q \in Requests, q # r,
         Handle(r) \/ BodyArrives(r) \/ BodyRefused(r) \/ Disconnect(r)
  PROVE  req'[q] = req[q]
BY DEF TypeOK, Handle, Refuse, Admit, Logout, Act, LoginRefused, LoginCreates, LoginPanics,
       CallFails, Respond, BodyArrives, BodyRefused, Disconnect, Answer

LEMMA EveryStep ==
  ASSUME TypeOK, Step, NEW q \in Requests
  PROVE  SlotStep(q)
<1>1. ASSUME NEW r \in Requests, Handle(r) \/ BodyArrives(r) \/ BodyRefused(r)
      PROVE  SlotStep(q)
  BY <1>1, HandleStep, BodyStep, OtherSlots, SameStep
<1>2. ASSUME NEW r \in Requests, Disconnect(r)
      PROVE  SlotStep(q)
  <2>1. CASE q # r
    BY <1>2, <2>1, OtherSlots, SameStep
  <2>2. CASE q = r /\ req[q].pc = "effect"
    <3>1. req'[q] = [req[q] EXCEPT !.open = FALSE] /\ req[q] \in Request
      BY <1>2, <2>2 DEF Disconnect, TypeOK
    <3>2. Same(q) /\ req'[q].pc = req[q].pc /\ req'[q].status = req[q].status
      BY <3>1 DEF Request, Same
    <3> QED BY <2>2, <3>2 DEF SlotStep, Same, Known, Admitted, LogoutDone, Refused
  <2>3. CASE q = r /\ req[q].pc # "effect"
    <3>1. req'[q] = Idle
      BY <1>2, <2>3 DEF Disconnect, TypeOK
    <3> QED BY <3>1, IdleStep
  <2> QED BY <2>1, <2>2, <2>3
<1>3. ASSUME NEW r \in Requests, NEW u \in Users, LoginArrives(r, u)
      PROVE  SlotStep(q)
  <2>1. CASE q # r
    BY <1>3, <2>1, SameStep DEF LoginArrives, TypeOK
  <2>2. CASE q = r
    <3>1. req'[q] = [Idle EXCEPT !.pc = "body", !.op = "login", !.user = u, !.open = TRUE]
      BY <1>3, <2>2 DEF LoginArrives, TypeOK
    <3>2. req'[q].pc = "body" /\ req'[q].op = "login" /\ ~req'[q].late
      BY <3>1 DEF Idle
    <3> QED BY <3>2 DEF SlotStep, Known, Admitted, LogoutDone, Refused
  <2> QED BY <2>1, <2>2
<1>4. ASSUME NEW r \in Requests, NEW op \in Ops \ {"login"}, NEW t \in Tokens \cup {None},
             Arrives(r, op, t)
      PROVE  SlotStep(q)
  <2>1. CASE q # r
    BY <1>4, <2>1, SameStep DEF Arrives, TypeOK
  <2>2. CASE q = r
    <3>1. req'[q] = [Idle EXCEPT !.pc = IF t = None THEN "respond" ELSE "validate",
                               !.status = IF t = None THEN "unauthorized" ELSE "none",
                               !.op = op, !.token = t, !.open = TRUE,
                               !.late = t \in loggedOut]
      BY <1>4, <2>2 DEF Arrives, TypeOK
    <3>2. /\ req'[q].late = (t \in loggedOut) /\ req'[q].token = t /\ req'[q].user = None
          /\ req'[q].pc = IF t = None THEN "respond" ELSE "validate"
          /\ req'[q].status = IF t = None THEN "unauthorized" ELSE "none"
      BY <3>1 DEF Idle
    <3> QED BY <3>2 DEF SlotStep, Known, Admitted, LogoutDone, Refused
  <2> QED BY <2>1, <2>2
<1>5. CASE Crash
  BY <1>5, IdleStep DEF Crash
<1>6. CASE Restart \/ Environment
  BY <1>6, SameStep DEF Restart, Environment
<1> QED BY <1>1, <1>2, <1>3, <1>4, <1>5, <1>6 DEF Step

-----------------------------------------------------------------------------
(* The inductive invariant of the tokens.                                  *)

\* An id is given once, so the account that a session was made for is the only one its
\* user's id ever had: all lives are the first.
OneLife == \A u \in Users : users[u].life = IF users[u].status = "none" THEN 0 ELSE 1

RowsIssued == \A s \in sessions : <<s.token, s.user, 1>> \in issued

OneUser == \A i, j \in issued : i[1] = j[1] => i[2] = j[2]

\* LogoutIsFinal alone is not inductive: a late request may still be waiting for
\* its validation, which will fail only because its token is dead by then.
LogoutsKill ==
  /\ \A t \in loggedOut : Dead(t)
  /\ \A r \in Requests : LogoutDone(r) => Dead(req[r].token)

LateIsLoggedOut == \A r \in Requests : req[r].late => req[r].token \in loggedOut

Unrecognised == \A r \in Requests : req[r].pc = "validate" => ~Known(r)

TokensInv ==
  /\ OneLife
  /\ RowsIssued
  /\ OneUser
  /\ TokenNamesItsUser
  /\ LogoutsKill
  /\ LateIsLoggedOut
  /\ LogoutIsFinal
  /\ Unrecognised

LEMMA OneLifeEdit ==
  ASSUME SessionsTypeOK, OneLife,
         Between \/ (\E v \in Users : EditUser(v)) \/ SeedAdminIfEmpty
  PROVE  OneLife'
<1>1. ASSUME NEW v \in Users, NEW st \in {"active", "inactive"}, NEW role, InsertUser(v, st, role)
      PROVE  OneLife'
  <2>1. /\ users[v].life = 0
        /\ users' = [users EXCEPT ![v] = [status |-> st, role |-> role, life |-> users[v].life + 1]]
    BY <1>1 DEF InsertUser, IdIsNew, OneLife
  <2> QED BY <2>1 DEF OneLife, SessionsTypeOK
<1>2. ASSUME NEW v \in Users, NEW st \in {"active", "inactive"}, NEW role, Exists(v),
             users' = [users EXCEPT ![v].status = st, ![v].role = role]
      PROVE  OneLife'
  BY <1>2 DEF OneLife, SessionsTypeOK, User, Exists
<1>3. ASSUME NEW v \in Users, Exists(v), users' = [users EXCEPT ![v].status = "deleted"]
      PROVE  OneLife'
  BY <1>3 DEF OneLife, SessionsTypeOK, User, Exists
<1>4. ASSUME UNCHANGED users
      PROVE  OneLife'
  BY <1>4 DEF OneLife
<1>5. ASSUME NEW v \in Users, EditUser(v)
      PROVE  OneLife'
  BY <1>1, <1>2, <1>3, <1>5 DEF EditUser
<1>6. CASE SeedAdminIfEmpty
  BY <1>1, <1>4, <1>6 DEF SeedAdminIfEmpty, CreateAdmin
<1> QED BY <1>4, <1>5, <1>6 DEF Between, tables

LEMMA OneLifeStep ==
  ASSUME TypeOK, OneLife, Step
  PROVE  OneLife'
<1>0. UNCHANGED users => OneLife'
  BY DEF OneLife
<1>1. ASSUME NEW r \in Requests, Handle(r)
      PROVE  OneLife'
  <2>1. UNCHANGED users \/ Between
    BY <1>1 DEF Handle, Refuse, Admit, Logout, RevokeSession, Act, LoginRefused, LoginCreates,
                InsertSession, LoginPanics, CallFails, Respond, tables
  <2> QED BY <1>0, <2>1, OneLifeEdit DEF TypeOK
<1>2. ASSUME NEW r \in Requests, Disconnect(r) \/ BodyArrives(r) \/ BodyRefused(r)
      PROVE  OneLife'
  BY <1>0, <1>2 DEF Disconnect, BodyArrives, BodyRefused, tables
<1>3. ASSUME NEW r \in Requests, NEW u \in Users, LoginArrives(r, u)
      PROVE  OneLife'
  BY <1>0, <1>3 DEF LoginArrives, tables
<1>4. ASSUME NEW r \in Requests, NEW op, NEW t, Arrives(r, op, t)
      PROVE  OneLife'
  BY <1>0, <1>4 DEF Arrives, tables
<1>5. CASE Restart
  BY <1>5, OneLifeEdit DEF Restart, TypeOK
<1>6. CASE Crash \/ Environment
  BY <1>0, <1>6, OneLifeEdit DEF Crash, Environment, Tick, ClockStepsBack, tables, TypeOK
<1> QED BY <1>1, <1>2, <1>3, <1>4, <1>5, <1>6 DEF Step

LEMMA TablesStep ==
  ASSUME TypeOK, OneLife, RowsIssued, OneUser, Step
  PROVE  RowsIssued' /\ OneUser'
<1>1. ASSUME NEW r \in Requests, Logout(r)
      PROVE  RowsIssued' /\ OneUser'
  <2>1. ASSUME NEW n \in sessions'
        PROVE  <<n.token, n.user, 1>> \in issued
    <3>1. PICK s \in sessions :
            n = IF s.token = req[r].token THEN [s EXCEPT !.revoked = TRUE] ELSE s
      BY <1>1 DEF Logout, RevokeSession
    <3>2. s \in SessionRow
      BY DEF TypeOK, SessionsTypeOK
    <3>3. n.token = s.token /\ n.user = s.user
      BY <3>1, <3>2 DEF SessionRow
    <3> QED BY <3>3 DEF RowsIssued
  <2> QED BY <1>1, <2>1 DEF Logout, RevokeSession, RowsIssued, OneUser
<1>2. ASSUME NEW r \in Requests, LoginCreates(r)
      PROVE  RowsIssued' /\ OneUser'
  <2>1. PICK t \in Tokens : InsertSession(req[r].user, t)
    BY <1>2 DEF LoginCreates
  <2>0. users[req[r].user].life = 1
    BY <1>2 DEF LoginCreates, MayLogIn, OneLife, TypeOK, WellFormed
  <2>2. RowsIssued'
    <3> SUFFICES ASSUME NEW s \in sessions'
                 PROVE  <<s.token, s.user, 1>> \in issued'
      BY DEF RowsIssued
    <3>1. CASE s \in sessions
      BY <2>1, <3>1 DEF InsertSession, RowsIssued
    <3>2. CASE s.token = t /\ s.user = req[r].user
      BY <2>0, <2>1, <3>2 DEF InsertSession
    <3> QED BY <2>1, <3>1, <3>2 DEF InsertSession
  <2>3. OneUser'
    BY <2>1 DEF InsertSession, Fresh, OneUser
  <2> QED BY <2>2, <2>3
<1>3. CASE issued' = issued /\ sessions' \subseteq sessions
  BY <1>3 DEF RowsIssued, OneUser
<1> QED BY <1>1, <1>2, <1>3, SessionsSteps

LEMMA LoggedOutStep ==
  ASSUME Step
  PROVE  /\ loggedOut \subseteq loggedOut'
         /\ \A t \in loggedOut' :
              t \in loggedOut \/ \E r \in Requests : LogoutDone(r) /\ t = req[r].token
<1>1. ASSUME NEW r \in Requests, Respond(r)
      PROVE  /\ loggedOut \subseteq loggedOut'
             /\ \A t \in loggedOut' :
                  t \in loggedOut \/ \E q \in Requests : LogoutDone(q) /\ t = req[q].token
  BY <1>1 DEF Respond, LogoutDone
<1>2. ASSUME NEW r \in Requests, Handle(r), ~Respond(r)
      PROVE  loggedOut' = loggedOut
  BY <1>2 DEF Handle, Refuse, Admit, Logout, Act, LoginRefused, LoginCreates, LoginPanics,
              CallFails
<1>3. ASSUME NEW r \in Requests, NEW u \in Users, LoginArrives(r, u)
      PROVE  loggedOut' = loggedOut
  BY <1>3 DEF LoginArrives
<1>4. ASSUME NEW r \in Requests, NEW op, NEW t, Arrives(r, op, t)
      PROVE  loggedOut' = loggedOut
  BY <1>4 DEF Arrives
<1>5. ASSUME NEW r \in Requests, Disconnect(r) \/ BodyArrives(r) \/ BodyRefused(r)
      PROVE  loggedOut' = loggedOut
  BY <1>5 DEF Disconnect, BodyArrives, BodyRefused
<1>6. Crash \/ Restart \/ Environment => loggedOut' = loggedOut
  BY DEF Crash, Restart, Environment
<1> QED BY <1>1, <1>2, <1>3, <1>4, <1>5, <1>6 DEF Step

LEMMA LogoutsKillStep ==
  ASSUME TypeOK, TokenNamesItsUser, LogoutsKill, Step
  PROVE  LogoutsKill'
<1>1. TokensMonotone
  BY StepMonotone
<1>2. ASSUME NEW r \in Requests, LogoutDone(r)
      PROVE  req[r].token \in Tokens
  BY <1>2 DEF LogoutDone, TypeOK, WellFormed, Request
<1>3. ASSUME NEW t \in loggedOut'
      PROVE  Dead(t)'
  BY <1>1, <1>2, LoggedOutStep DEF LogoutsKill, TokensMonotone, TypeOK
<1>4. ASSUME NEW r \in Requests, LogoutDone(r)'
      PROVE  Dead(req[r].token)'
  <2>1. Same(r) /\ (LogoutDone(r) \/ Logout(r))
    BY <1>4, EveryStep DEF SlotStep
  <2>2. PICK t : t = req[r].token /\ t = req'[r].token
    BY <2>1 DEF Same
  <2>3. Dead(t)'
    <3>1. CASE LogoutDone(r)
      BY <1>1, <1>2, <2>2, <3>1 DEF LogoutsKill, TokensMonotone
    <3>2. CASE Logout(r)
      <4>1. UnrevokedRows(t)' = {}
        BY <2>2, <3>2, RevokeMonotone DEF Logout, TypeOK
      <4>2. Known(r)
        BY <3>2, GatewayAssumption DEF Logout, Known, TypeOK, WellFormed
      <4>3. <<t, req[r].user, req[r].life>> \in issued'
        BY <1>1, <2>2, <4>2 DEF TokenNamesItsUser, TokensMonotone
      <4> QED BY <4>1, <4>3 DEF Dead
    <3> QED BY <2>1, <3>1, <3>2
  <2> QED BY <2>2, <2>3 DEF Dead, UnrevokedRows
<1> QED BY <1>3, <1>4 DEF LogoutsKill

LEMMA TokensStep ==
  ASSUME TypeOK, TokensInv, Step
  PROVE  TokensInv'
<1> USE DEF TokensInv
<1>1. OneLife' /\ RowsIssued' /\ OneUser' /\ TokensMonotone
  BY OneLifeStep, TablesStep, StepMonotone
<1>2. TokenNamesItsUser'
  <2> SUFFICES ASSUME NEW r \in Requests, Known(r)'
               PROVE  <<req'[r].token, req'[r].user, req'[r].life>> \in issued'
    BY DEF TokenNamesItsUser
  <2>1. CASE Admit(r)
    <3>1. /\ req'[r].token = req[r].token /\ req'[r].user \in SessionUsers(req[r].token)
          /\ req'[r].user \in Users
          /\ Loads(req'[r].user) /\ req'[r].life = users'[req'[r].user].life
      BY <2>1, AdmitFacts
    <3>2. <<req'[r].token, req'[r].user, 1>> \in issued'
      BY <1>1, <3>1 DEF SessionUsers, UnrevokedRows, RowsIssued, TokensMonotone
    <3>3. req'[r].life = 1
      BY <1>1, <3>1 DEF Loads, OneLife
    <3> QED BY <3>2, <3>3
  <2>2. CASE Known(r) /\ Same(r)
    BY <1>1, <2>2 DEF TokenNamesItsUser, Same, TokensMonotone
  <2> QED BY <2>1, <2>2, EveryStep DEF SlotStep
<1>3. LogoutsKill'
  BY LogoutsKillStep
<1>4. LateIsLoggedOut'
  BY EveryStep, LoggedOutStep DEF LateIsLoggedOut, SlotStep
<1>5. LogoutIsFinal'
  <2> SUFFICES ASSUME NEW r \in Requests, req'[r].late, Known(r)'
               PROVE  FALSE
    BY DEF LogoutIsFinal, Known
  <2>1. CASE Admit(r)
    <3>1. req'[r].token = req[r].token /\ SessionUsers(req[r].token) # {}
      BY <2>1, AdmitFacts
    <3>2. UnrevokedRows(req[r].token) # {}
      BY <3>1 DEF SessionUsers
    <3>3. req[r].token \in loggedOut
      BY <3>1, EveryStep DEF SlotStep, LateIsLoggedOut
    <3> QED BY <3>2, <3>3 DEF LogoutsKill, Dead
  <2>2. CASE Known(r) /\ Same(r)
    BY <2>2 DEF LogoutIsFinal, Same
  <2> QED BY <2>1, <2>2, EveryStep DEF SlotStep
<1>6. Unrecognised'
  BY EveryStep DEF Unrecognised, SlotStep, Known
<1> QED BY <1>1, <1>2, <1>3, <1>4, <1>5, <1>6

LEMMA TokensInvariant == Spec => []TokensInv
<1>1. Init => TokensInv
  <2> SUFFICES ASSUME Init PROVE TokensInv
    OBVIOUS
  <2>1. OneLife
    BY SessionsAssumption DEF Init, SessionsInit, EmptyUsers, OneLife
  <2>2. \A r \in Requests : ~Known(r) /\ ~LogoutDone(r) /\ ~req[r].late
    BY DEF Init, Idle, Known, LogoutDone
  <2> QED BY <2>1, <2>2 DEF Init, SessionsInit, TokensInv, RowsIssued, OneUser,
             TokenNamesItsUser, LogoutsKill, LateIsLoggedOut, LogoutIsFinal, Unrecognised
<1>2. TypeOK /\ TokensInv /\ [Next]_vars => TokensInv'
  <2> SUFFICES ASSUME TypeOK, TokensInv, [Next]_vars
               PROVE  TokensInv'
    OBVIOUS
  <2>1. CASE Next
    BY <2>1, TokensStep DEF Next
  <2>2. CASE UNCHANGED vars
    BY <2>2 DEF vars, TokensInv, OneLife, RowsIssued, OneUser, TokenNamesItsUser, Known,
                LogoutsKill, LogoutDone, LateIsLoggedOut, LogoutIsFinal, Unrecognised, Dead,
                UnrevokedRows
  <2> QED BY <2>1, <2>2
<1> QED BY <1>1, <1>2, Typing, PTL DEF Spec

\* Once a client has read that its logout succeeded, no request that arrives
\* later with the token is recognised.
THEOREM LogoutsAreFinal == Spec => []LogoutIsFinal
BY TokensInvariant, PTL DEF TokensInv

\* A request is recognised only as the very account whose login created its token,
\* whatever is deleted, left behind and seeded again.
THEOREM TokensNameOneUser == Spec => []TokenNamesItsUser
BY TokensInvariant, PTL DEF TokensInv

-----------------------------------------------------------------------------
(* Nothing is granted on rights older than the request.                    *)

\* The observer is up to date; whom the snapshot allows it has seen entitled, also
\* while the client's body keeps the handler waiting; and a handler that runs has
\* passed the gate.
GrantsInv ==
  \A r \in Requests :
    /\ req[r].pc # "idle" => Named(r) \subseteq seen[r].named
    /\ Known(r) /\ Allowed(r) => req[r].user \in seen[r].entitled
    /\ Admitted(r) => Known(r) /\ Allowed(r)

\* A row that the lookup takes for good names its user to the observer.
LEMMA LookupNames ==
  ASSUME TypeOK, NEW t, NEW u \in SessionUsers(t)
  PROVE  Names(t, u) /\ u \in Users
<1>1. PICK s \in sessions : s.token = t /\ s.user = u /\ ~s.revoked /\ ~Expired(s)
  BY DEF SessionUsers, UnrevokedRows
<1>2. s.expires \in Int /\ now \in Int /\ s.user \in Users
  BY DEF TypeOK, SessionsTypeOK, SessionRow
<1>3. s.expires \in 0 .. MaxParsed => now <= s.expires
  BY <1>1, <1>2 DEF Expired, Parses
<1> QED BY <1>1, <1>2, <1>3 DEF Names

LEMMA GrantedStep ==
  ASSUME TypeOK, TypeOK', GrantsInv, Next
  PROVE  GrantsInv'
<1> SUFFICES ASSUME NEW r \in Requests
             PROVE  /\ req'[r].pc # "idle" => Named(r)' \subseteq seen'[r].named
                    /\ Known(r)' /\ Allowed(r)' => req'[r].user \in seen'[r].entitled
                    /\ Admitted(r)' => Known(r)' /\ Allowed(r)'
  BY DEF GrantsInv
<1> DEFINE named == seen[r].named \cup Named(r)'
<1>1. req'[r].pc # "idle" =>
        /\ seen'[r].named = named
        /\ seen'[r].entitled = seen[r].entitled \cup (named \cap Entitled(r)')
  BY DEF Next, Observe
<1>2. Known(r)' => req'[r].pc # "idle"
  BY DEF Known, TypeOK, WellFormed, Idle
<1>3. CASE Admit(r)
  <2> DEFINE u == req'[r].user
  <2>1. /\ u \in SessionUsers(req[r].token) /\ u \in Users /\ Loads(u)
        /\ req'[r].op = req[r].op /\ req'[r].role = users'[u].role
        /\ req'[r].pc \in {"body", "effect", "respond"}
        /\ Admitted(r)' => Allowed(r)'
    BY <1>3, AdmitFacts
  <2>2. u \in seen[r].named
    BY <1>3, <2>1, LookupNames DEF Admit, GrantsInv, Named
  <2>3. Allowed(r)' => u \in Entitled(r)'
    <3>1. u \in Active'
      BY <2>1 DEF Loads, Active
    <3>2. Allowed(r)' /\ req'[r].op \in Guarded => HasPermission(users'[u].role, req'[r].op)
      BY <2>1, GatewayAssumption DEF Allowed, Permitted, Permission
    <3> QED BY <3>1, <3>2 DEF Entitled, HasPermission
  <2>4. Admitted(r)' => Known(r)'
    BY <2>1, GatewayAssumption DEF Admitted, Known
  <2> QED BY <1>1, <2>1, <2>2, <2>3, <2>4
<1>4. CASE ~Admit(r)
  <2>1. Known(r)' /\ Allowed(r)' => req'[r].user \in seen'[r].entitled
    BY <1>1, <1>2, <1>4, EveryStep DEF Next, SlotStep, Same, Allowed, GrantsInv
  <2>2. Admitted(r)' => Known(r)' /\ Allowed(r)'
    <3>1. CASE Admitted(r) /\ Same(r)
      BY <3>1 DEF Same, Known, Allowed, GrantsInv
    <3>2. CASE req[r].pc = "body" /\ Allowed(r) /\ Same(r) /\ Admitted(r)'
      <4>1. req[r].user \in Users
        BY <3>2 DEF TypeOK, WellFormed
      <4> QED BY <3>2, <4>1, GatewayAssumption DEF Same, Known, Allowed, Admitted
    <3> QED BY <1>4, <3>1, <3>2, EveryStep DEF Next, SlotStep
  <2> QED BY <1>1, <2>1, <2>2
<1> QED BY <1>3, <1>4

\* A handler runs only as a user whom its token named since its request arrived, and who
\* then or later was active and entitled.
THEOREM GrantsAreFresh == Spec => []GrantedWithinRequest
<1>1. Init => GrantsInv
  BY DEF Init, GrantsInv, Known, Admitted, Idle
<1>2. TypeOK /\ TypeOK' /\ GrantsInv /\ [Next]_vars => GrantsInv'
  <2> SUFFICES ASSUME TypeOK, TypeOK', GrantsInv, [Next]_vars PROVE GrantsInv'
    OBVIOUS
  <2>1. CASE UNCHANGED vars
    BY <2>1 DEF vars, GrantsInv, Known, Admitted, Allowed, Named, Names
  <2> QED BY <2>1, GrantedStep
<1>3. GrantsInv => GrantedWithinRequest
  BY DEF GrantsInv, GrantedWithinRequest
<1> QED BY <1>1, <1>2, <1>3, Typing, PTL DEF Spec

-----------------------------------------------------------------------------
(* A refusal has a cause.                                                  *)

\* What Refuse saw was a moment without a good session, or is one now: its lookup found
\* no row, or one, of a user who is not active by the time of the second SELECT.
LEMMA RefusedLapse ==
  ASSUME TypeOK, TokensInv, NEW q \in Requests, Refuse(q), req'[q].token = req[q].token
  PROVE  Lapse(q)'
<1> DEFINE t == req[q].token
<1> SUFFICES ASSUME NEW v \in Users, Names(t, v)', users'[v].status = "active"
             PROVE  FALSE
  BY DEF Lapse, Named, Active
<1>1. sessions' \subseteq sessions /\ now' = now
  BY EditsOnlyDelete DEF Refuse, tables
<1>2. PICK s \in sessions : /\ s.token = t /\ s.user = v /\ ~s.revoked
                            /\ s.expires \in 0 .. MaxParsed => now <= s.expires
  BY <1>1 DEF Names
<1>3. s.expires \in Int /\ now \in Int
  BY DEF TypeOK, SessionsTypeOK, SessionRow
<1>4. ~Expired(s)
  BY <1>2, <1>3 DEF Expired, Parses
<1>5. v \in SessionUsers(t)
  BY <1>2, <1>4 DEF SessionUsers, UnrevokedRows
<1>6. PICK u \in SessionUsers(t) : ~Loads(u)
  BY <1>5 DEF Refuse
<1>7. <<t, u, 1>> \in issued /\ <<t, v, 1>> \in issued
  BY <1>5, <1>6 DEF SessionUsers, UnrevokedRows, TokensInv, RowsIssued
<1>8. u = v
  BY <1>7 DEF TokensInv, OneUser
<1> QED BY <1>6, <1>8 DEF Loads

LEMMA RefusedPreserved ==
  ASSUME TypeOK, TypeOK', TokensInv, RefusedForCause, Next
  PROVE  RefusedForCause'
<1> SUFFICES ASSUME NEW r \in Requests, Refused(r)'
             PROVE  seen'[r].lapse
  BY DEF RefusedForCause, Refused
<1>1. seen'[r].lapse = (seen[r].lapse \/ Lapse(r)')
  BY DEF Next, Observe, Refused
<1>2. CASE Refused(r)
  BY <1>1, <1>2 DEF RefusedForCause, Refused
<1>3. CASE Refuse(r) /\ req'[r].token = req[r].token
  BY <1>1, <1>3, RefusedLapse
<1>4. CASE req'[r].token = None
  <2>1. \A s \in sessions' : s.token # None
    BY GatewayAssumption DEF TypeOK, SessionsTypeOK, SessionRow
  <2>2. Lapse(r)'
    BY <1>4, <2>1 DEF Lapse, Named, Names
  <2> QED BY <1>1, <2>2
<1> QED BY <1>2, <1>3, <1>4, EveryStep DEF SlotStep, Next

\* A 401 that no database failure explains answers a request that had no good
\* session at some moment since its arrival.
THEOREM RefusalsHaveACause == Spec => []RefusedForCause
<1>1. Init => RefusedForCause
  BY DEF Init, RefusedForCause, Idle
<1>2. TypeOK /\ TypeOK' /\ TokensInv /\ RefusedForCause /\ [Next]_vars => RefusedForCause'
  BY RefusedPreserved DEF vars, RefusedForCause
<1> QED BY <1>1, <1>2, Typing, TokensInvariant, PTL DEF Spec

-----------------------------------------------------------------------------
(* A poisoned mutex fails closed.                                          *)

LEMMA PoisonStep ==
  ASSUME TypeOK, TokensInv, Step, poisoned
  PROVE  /\ \A r \in Requests : req[r].pc = "validate" => ~Known(r)'
         /\ issued' = issued
         /\ {s \in sessions' : s.revoked} \subseteq {s \in sessions : s.revoked}
         /\ poisoned' \/ ~up'
<1>1. ASSUME NEW r \in Requests, req[r].pc = "validate"
      PROVE  ~Known(r)'
  <2>1. ~Known(r) /\ ~Admit(r)
    BY <1>1 DEF TokensInv, Unrecognised, Admit
  <2> QED BY <2>1, EveryStep DEF SlotStep
<1>2. \A r \in Requests : ~Logout(r) /\ ~LoginCreates(r)
  BY DEF Logout, LoginCreates
<1>4. issued' = issued /\ sessions' \subseteq sessions
  BY <1>2, SessionsSteps
<1>5. ASSUME NEW r \in Requests,
             Handle(r) \/ BodyArrives(r) \/ BodyRefused(r) \/ Disconnect(r)
      PROVE  poisoned'
  BY <1>5 DEF Handle, Refuse, Admit, Logout, Act, LoginRefused, LoginCreates, LoginPanics,
              CallFails, Respond, BodyArrives, BodyRefused, Disconnect
<1>6. ASSUME NEW r \in Requests, NEW u, LoginArrives(r, u)
      PROVE  poisoned'
  BY <1>6 DEF LoginArrives
<1>7. ASSUME NEW r \in Requests, NEW op, NEW t, Arrives(r, op, t)
      PROVE  poisoned'
  BY <1>7 DEF Arrives
<1>8. Crash \/ Restart \/ Environment => poisoned' \/ ~up'
  BY DEF Crash, Restart, Environment
<1>9. poisoned' \/ ~up'
  BY <1>5, <1>6, <1>7, <1>8 DEF Step
<1> QED BY <1>1, <1>4, <1>9

\* After a panic under the mutex the server recognises nobody, creates and revokes
\* nothing, and only a crash ends that.
THEOREM PoisonedIsClosed == Spec => PoisonFailsClosed
<1> DEFINE Closed ==
      poisoned =>
        /\ \A r \in Requests : req[r].pc = "validate" => ~Known(r)'
        /\ issued' = issued
        /\ {s \in sessions' : s.revoked} \subseteq {s \in sessions : s.revoked}
        /\ poisoned' \/ ~up'
<1>1. TypeOK /\ TokensInv /\ [Next]_vars => [Closed]_vars
  BY PoisonStep DEF Next
<1> QED BY <1>1, Typing, TokensInvariant, PTL DEF Spec, PoisonFailsClosed
=============================================================================
