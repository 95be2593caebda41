--------------------------- MODULE TicketsProofs ----------------------------
(***************************************************************************)
(* What the module Tickets promises, proved for every set of users and     *)
(* requests, every input and any number of tickets and comments.           *)
(***************************************************************************)
EXTENDS Tickets, SequenceTheorems, TLAPS

-----------------------------------------------------------------------------
(* Typing.                                                                 *)

Answers == {"none", "ok", "error", "not_found"}

LEMMA NoPatchTyped == NoPatch \in Patch
BY DEF NoPatch, Patch

LEMMA IdleTyped == Idle \in Request
BY NoPatchTyped DEF Idle, Request, Order

LEMMA AnsweredTyped ==
  ASSUME NEW x \in Request, NEW st \in Answers
  PROVE  Answered(x, st) \in Request
<1>1. CASE ~x.open
  BY <1>1, IdleTyped DEF Answered
<1>2. CASE x.open
  BY <1>2 DEF Answered, Request, Answers
<1> QED BY <1>1, <1>2

LEMMA AnswerTyped ==
  ASSUME req \in [Requests -> Request], NEW r \in Requests, NEW st \in Answers, Answer(r, st)
  PROVE  req' \in [Requests -> Request]
BY AnsweredTyped DEF Answer

\* Every ticket and comment keeps its place: a row is only ever appended.
LEMMA AppendTyped ==
  ASSUME NEW S, NEW s \in Seq(S), NEW x \in S
  PROVE  /\ Append(s, x) \in Seq(S)
         /\ DOMAIN s \subseteq DOMAIN Append(s, x)
         /\ \A i \in DOMAIN s : Append(s, x)[i] = s[i]
         /\ \A i \in DOMAIN Append(s, x) : i \in DOMAIN s \/ Append(s, x)[i] = x
<1>1. /\ Append(s, x) \in Seq(S)
      /\ Len(Append(s, x)) = Len(s) + 1
      /\ \A i \in 1 .. Len(s) : Append(s, x)[i] = s[i]
      /\ Append(s, x)[Len(s) + 1] = x
  BY AppendProperties
<1>2. /\ DOMAIN s = 1 .. Len(s) /\ Len(s) \in Nat
      /\ DOMAIN Append(s, x) = 1 .. (Len(s) + 1)
  BY <1>1, LenProperties
<1>3. ASSUME NEW i \in 1 .. (Len(s) + 1)
      PROVE  i \in 1 .. Len(s) \/ i = Len(s) + 1
  BY <1>2
<1> QED BY <1>1, <1>2, <1>3

\* A statement of an update writes one typed row.
LEMMA SetTyped ==
  ASSUME people \subseteq Users, NEW row \in Ticket, NEW patch \in Patch,
         NEW s \in DOMAIN Order, Allowed(patch, s)
  PROVE  /\ Set(row, patch, s) \in Ticket
         /\ Set(row, patch, s).by = row.by
         /\ Set(row, patch, s).assignee \in people \cup {row.assignee}
<1>1. s \in {"status", "stamp", "priority", "assignee"}
  BY DEF Order
<1>2. CASE s = "status"
  BY <1>2 DEF Set, Allowed, Ticket
<1>3. CASE s = "priority"
  BY <1>3 DEF Set, Allowed, Ticket
<1>4. CASE s = "assignee"
  BY <1>4 DEF Set, Allowed, Ticket
<1>5. CASE s = "stamp"
  BY <1>5 DEF Set, Allowed, Ticket
<1> QED BY <1>1, <1>2, <1>3, <1>4, <1>5

LEMMA NewTicketTyped ==
  ASSUME NEW p \in Priorities, NEW u \in Users
  PROVE  [status |-> "open", priority |-> p, assignee |-> Keep,
          by |-> u, resolved |-> FALSE, closed |-> FALSE] \in Ticket
BY DEF Ticket, Statuses

LEMMA StatementTyped ==
  ASSUME TypeOK, NEW r \in Requests, UpdateStatement(r)
  PROVE  /\ TypeOK'
         /\ DOMAIN tickets' = DOMAIN tickets
         /\ \A t \in DOMAIN tickets : /\ tickets'[t].by = tickets[t].by
                                      /\ tickets'[t].assignee \in people \cup {tickets[t].assignee}
<1>1. PICK s \in req[r].todo :
        /\ req[r].ticket \in DOMAIN tickets => Allowed(req[r].patch, s)
        /\ tickets' = [t \in DOMAIN tickets |->
             IF t = req[r].ticket THEN Set(tickets[t], req[r].patch, s) ELSE tickets[t]]
        /\ req' = [req EXCEPT ![r].todo = @ \ {s}]
  BY DEF UpdateStatement
<1>2. req[r] \in Request
  BY DEF TypeOK
<1>3. req[r].patch \in Patch /\ s \in DOMAIN Order
  BY <1>2 DEF Request
<1>4. ASSUME NEW t \in DOMAIN tickets
      PROVE  /\ tickets'[t] \in Ticket
             /\ tickets'[t].by = tickets[t].by
             /\ tickets'[t].assignee \in people \cup {tickets[t].assignee}
  <2>1. tickets[t] \in Ticket
    BY ElementOfSeq, LenProperties DEF TypeOK
  <2> QED BY <1>1, <1>3, <2>1, SetTyped DEF TypeOK
<1>5. tickets' \in Seq(Ticket) /\ DOMAIN tickets' = DOMAIN tickets
  <2>1. DOMAIN tickets = 1 .. Len(tickets) /\ Len(tickets) \in Nat
    BY LenProperties DEF TypeOK
  <2>2. tickets' \in [1 .. Len(tickets) -> Ticket]
    BY <1>1, <1>4, <2>1
  <2>3. tickets' \in Seq(Ticket)
    BY <2>1, <2>2, SeqDef
  <2> QED BY <2>1, <2>2, <2>3
<1>6. req' \in [Requests -> Request]
  <2>1. [req[r] EXCEPT !.todo = @ \ {s}] \in Request
    BY <1>2 DEF Request
  <2> QED BY <1>1, <2>1 DEF TypeOK
<1>7. UNCHANGED <<people, comments, up, torn, settled>> /\ lock' = r
  BY DEF UpdateStatement
<1> QED BY <1>4, <1>5, <1>6, <1>7 DEF TypeOK

\* UpdateArrives for one user, ticket and patch.
NewUpdate(r, u, t, patch) ==
  /\ up
  /\ req[r].pc = "idle"
  /\ req' = [q \in Requests |->
       IF q = r
       THEN [Idle EXCEPT !.pc = "call", !.op = "update", !.user = u, !.open = TRUE,
                         !.ticket = t, !.patch = patch, !.todo = StatementsOf(patch),
                         !.alone = Alone(t)]
       ELSE [req[q] EXCEPT !.alone = @ /\ ~Updates(q, t)]]
  /\ settled' = [settled EXCEPT ![t] = NoPatch]
  /\ UNCHANGED <<people, tickets, comments, lock, up, torn>>

LEMMA NewUpdates ==
  ASSUME NEW r, UpdateArrives(r)
  PROVE  \E u \in people, t \in 1 .. MaxTickets, patch \in Patch : NewUpdate(r, u, t, patch)
BY Zenon DEF UpdateArrives, NewUpdate

LEMMA ArrivalsTyped ==
  ASSUME TypeOK, NEW r \in Requests,
         CreateArrives(r) \/ UpdateArrives(r) \/ GetArrives(r) \/ CommentArrives(r)
  PROVE  TypeOK'
<1>1. CASE CreateArrives(r)
  <2>1. PICK u \in people, p \in PriorityInputs :
          Arrives(r, [Idle EXCEPT !.pc = "call", !.op = "create", !.user = u, !.open = TRUE,
                                  !.patch.priority = p])
    BY <1>1 DEF CreateArrives
  <2> DEFINE x == [Idle EXCEPT !.pc = "call", !.op = "create", !.user = u, !.open = TRUE,
                               !.patch.priority = p]
  <2>2. [NoPatch EXCEPT !.priority = p] \in Patch
    BY DEF NoPatch, Patch
  <2>3. x = [Idle EXCEPT !.pc = "call", !.op = "create", !.user = u, !.open = TRUE,
                         !.patch = [NoPatch EXCEPT !.priority = p]]
    BY DEF Idle
  <2>4. x \in Request
    BY <2>2, <2>3, IdleTyped DEF Request, TypeOK
  <2> HIDE DEF x
  <2> QED BY <2>1, <2>4 DEF Arrives, TypeOK, x
<1>2. CASE UpdateArrives(r)
  <2>1. PICK u \in people, t \in 1 .. MaxTickets, patch \in Patch : NewUpdate(r, u, t, patch)
    BY <1>2, NewUpdates
  <2>2. StatementsOf(patch) \in SUBSET DOMAIN Order
    BY DEF StatementsOf, Fields, Order
  <2>3. Alone(t) \in BOOLEAN /\ t \in Nat /\ u \in Users
    BY DEF TypeOK, Alone
  <2>4. [Idle EXCEPT !.pc = "call", !.op = "update", !.user = u, !.open = TRUE, !.ticket = t,
                     !.patch = patch, !.todo = StatementsOf(patch), !.alone = Alone(t)] \in Request
    BY <2>2, <2>3, IdleTyped DEF Request
  <2>5. ASSUME NEW q \in Requests
        PROVE  [req[q] EXCEPT !.alone = @ /\ ~Updates(q, t)] \in Request
    <3>1. req[q] \in Request
      BY DEF TypeOK
    <3> QED BY <3>1 DEF Request
  <2>6. req' \in [Requests -> Request]
    BY <2>1, <2>4, <2>5 DEF NewUpdate
  <2> QED BY <2>1, <2>6, NoPatchTyped DEF NewUpdate, TypeOK
<1>3. ASSUME NEW op \in {"get", "comment"}, NEW u \in people, NEW t \in 1 .. MaxTickets
      PROVE  [Idle EXCEPT !.pc = "call", !.op = op, !.user = u, !.open = TRUE,
                          !.ticket = t] \in Request
  <2>1. u \in Users /\ t \in Nat
    BY TicketsAssumption DEF TypeOK
  <2>2. op \in {"none", "create", "update", "get", "get_comments", "comment"}
    OBVIOUS
  <2> QED BY <2>1, <2>2, IdleTyped DEF Request
<1>4. ASSUME NEW x \in Request, Arrives(r, x)
      PROVE  TypeOK'
  BY <1>4 DEF Arrives, TypeOK
<1>5. CASE GetArrives(r)
  BY <1>3, <1>4, <1>5 DEF GetArrives
<1>6. CASE CommentArrives(r)
  BY <1>3, <1>4, <1>6 DEF CommentArrives
<1> QED BY <1>1, <1>2, <1>5, <1>6

LEMMA ReadsTyped ==
  ASSUME TypeOK, NEW r \in Requests, GetTicket(r) \/ GetComments(r)
  PROVE  TypeOK'
<1>0. req[r] \in Request
  BY DEF TypeOK
<1>1. \A t : CommentsOf(t) \in SUBSET Nat
  BY LenProperties DEF CommentsOf, TypeOK
<1>2. CASE GetTicket(r)
  <2>1. [req[r] EXCEPT !.op = "get_comments", !.known = CommentsOf(req[r].ticket)] \in Request
    BY <1>0, <1>1 DEF Request
  <2>2. req' \in [Requests -> Request]
    BY <1>2, <2>1, AnswerTyped, IdleTyped DEF GetTicket, Answers, TypeOK
  <2> QED BY <1>2, <2>2 DEF GetTicket, TypeOK
<1>3. CASE GetComments(r)
  <2>1. [req[r] EXCEPT !.read = CommentsOf(req[r].ticket)] \in Request
    BY <1>0, <1>1 DEF Request
  <2>2. req' \in [Requests -> Request]
    BY <1>3, <2>1, AnsweredTyped DEF GetComments, Answers, TypeOK
  <2> QED BY <1>3, <2>2 DEF GetComments, TypeOK
<1> QED BY <1>2, <1>3

LEMMA HandleTyped ==
  ASSUME TypeOK, NEW r \in Requests, Handle(r)
  PROVE  TypeOK'
<1>0. req[r] \in Request
  BY DEF TypeOK
<1>1. CASE Create(r)
  <2>1. tickets' \in Seq(Ticket)
    BY <1>1, NewTicketTyped, AppendTyped DEF Create, TypeOK
  <2>2. req' \in [Requests -> Request]
    BY <1>1, AnswerTyped DEF Create, Answers, TypeOK
  <2> QED BY <1>1, <2>1, <2>2 DEF Create, TypeOK
<1>2. CASE UpdateStatement(r)
  BY <1>2, StatementTyped
<1>3. CASE UpdateReturns(r)
  <2>1. req' \in [Requests -> Request]
    BY <1>3, AnswerTyped DEF UpdateReturns, Answers, TypeOK
  <2> QED BY <1>3, <2>1 DEF UpdateReturns, TypeOK
<1>4. CASE UpdateFails(r)
  <2>1. req' \in [Requests -> Request]
    BY <1>4, AnswerTyped DEF UpdateFails, Answers, TypeOK
  <2>2. Stopped \subseteq Nat
    BY DEF Stopped, TypeOK, Request
  <2> QED BY <1>4, <2>1, <2>2 DEF UpdateFails, TypeOK
<1>5. CASE GetTicket(r) \/ GetComments(r)
  BY <1>5, ReadsTyped
<1>6. CASE AddComment(r)
  <2>1. [ticket |-> req[r].ticket, by |-> req[r].user] \in Comment
    BY <1>0, <1>6 DEF AddComment, Comment, Request, TypeOK
  <2>2. comments' \in Seq(Comment)
    BY <1>6, <2>1, AppendTyped DEF AddComment, TypeOK
  <2>3. req' \in [Requests -> Request]
    BY <1>6, AnswerTyped DEF AddComment, Answers, TypeOK
  <2> QED BY <1>6, <2>2, <2>3 DEF AddComment, TypeOK
<1>7. CASE CallFails(r)
  <2>1. req' \in [Requests -> Request]
    BY <1>7, AnswerTyped DEF CallFails, Answers, TypeOK
  <2> QED BY <1>7, <2>1 DEF CallFails, TypeOK
<1>8. CASE Respond(r)
  <2>1. req[r].patch \in Patch
    BY <1>0 DEF Request
  <2>2. settled' \in [1 .. MaxTickets -> Patch]
    BY <1>8, <2>1 DEF Respond, TypeOK
  <2> QED BY <1>8, <2>2, IdleTyped DEF Respond, TypeOK
<1> QED BY <1>1, <1>2, <1>3, <1>4, <1>5, <1>6, <1>7, <1>8 DEF Handle

LEMMA NextTyped ==
  ASSUME TypeOK, [Next]_vars
  PROVE  TypeOK'
<1>1. ASSUME NEW r \in Requests, Disconnect(r)
      PROVE  TypeOK'
  <2>1. req[r] \in Request
    BY DEF TypeOK
  <2>2. [req[r] EXCEPT !.open = FALSE] \in Request
    BY <2>1 DEF Request
  <2> QED BY <1>1, <2>2, IdleTyped DEF Disconnect, TypeOK
<1>2. CASE Crash
  <2>1. Stopped \subseteq Nat
    BY DEF Stopped, TypeOK, Request
  <2> QED BY <1>2, <2>1, IdleTyped DEF Crash, TypeOK
<1>3. CASE Restart
  BY <1>3 DEF Restart, TypeOK
<1>4. ASSUME NEW u \in Users, DeleteUser(u)
      PROVE  TypeOK'
  BY <1>4 DEF DeleteUser, TypeOK
<1>5. CASE UNCHANGED vars
  BY <1>5 DEF vars, TypeOK
<1> QED BY <1>1, <1>2, <1>3, <1>4, <1>5, ArrivalsTyped, HandleTyped DEF Next

\* Every reachable state is well typed: a row holds a status and a priority the
\* CHECK constraints allow, whatever strings clients send.
THEOREM Typing == Spec => []TypeOK
<1>1. Init => TypeOK
  <2>1. /\ <<>> \in Seq(Ticket) /\ <<>> \in Seq(Comment)
    BY EmptySeq
  <2> QED BY <2>1, IdleTyped, NoPatchTyped DEF Init, TypeOK, NothingSettled
<1>2. TypeOK /\ [Next]_vars => TypeOK'
  BY NextTyped
<1> QED BY <1>1, <1>2, PTL DEF Spec

-----------------------------------------------------------------------------
(* References.  With TypeOK they are inductive: each statement checks its  *)
(* own, and a user who is referred to is not deleted.                      *)

LEMMA RowsFixed ==
  ASSUME ReferencesHold, UNCHANGED <<people, tickets, comments>>
  PROVE  ReferencesHold'
BY DEF ReferencesHold

LEMMA ReferencesStep ==
  ASSUME TypeOK, ReferencesHold, [Next]_vars
  PROVE  ReferencesHold'
<1>1. ASSUME NEW r \in Requests, Create(r)
      PROVE  ReferencesHold'
  <2> DEFINE x == [status |-> "open", priority |-> req[r].patch.priority, assignee |-> Keep,
                   by |-> req[r].user, resolved |-> FALSE, closed |-> FALSE]
  <2>1. x \in Ticket /\ x.by \in people /\ x.assignee = Keep
    BY <1>1, NewTicketTyped DEF Create, TypeOK
  <2>2. tickets' = Append(tickets, x) /\ UNCHANGED <<people, comments>>
    BY <1>1 DEF Create
  <2> HIDE DEF x
  <2>3. /\ DOMAIN tickets \subseteq DOMAIN tickets'
        /\ \A t \in DOMAIN tickets : tickets'[t] = tickets[t]
        /\ \A t \in DOMAIN tickets' : t \in DOMAIN tickets \/ tickets'[t] = x
    BY <2>1, <2>2, AppendTyped DEF TypeOK
  <2> QED BY <2>1, <2>2, <2>3 DEF ReferencesHold
<1>2. ASSUME NEW r \in Requests, UpdateStatement(r)
      PROVE  ReferencesHold'
  BY <1>2, StatementTyped DEF ReferencesHold, UpdateStatement
<1>3. ASSUME NEW r \in Requests, AddComment(r)
      PROVE  ReferencesHold'
  <2> DEFINE x == [ticket |-> req[r].ticket, by |-> req[r].user]
  <2>1. x \in Comment /\ x.by \in people /\ x.ticket \in DOMAIN tickets
    BY <1>3 DEF AddComment, Comment, Request, TypeOK
  <2>2. comments' = Append(comments, x) /\ UNCHANGED <<people, tickets>>
    BY <1>3 DEF AddComment
  <2> HIDE DEF x
  <2>3. \A c \in DOMAIN comments' : \/ c \in DOMAIN comments /\ comments'[c] = comments[c]
                                    \/ comments'[c] = x
    BY <2>1, <2>2, AppendTyped DEF TypeOK
  <2> QED BY <2>1, <2>2, <2>3 DEF ReferencesHold
<1>4. ASSUME NEW r \in Requests, Handle(r), ~Create(r), ~UpdateStatement(r), ~AddComment(r)
      PROVE  UNCHANGED <<people, tickets, comments>>
  BY <1>4 DEF Handle, UpdateReturns, UpdateFails, GetTicket, GetComments, CallFails, Respond
<1>5. ASSUME NEW r \in Requests,
             \/ CreateArrives(r) \/ UpdateArrives(r) \/ GetArrives(r) \/ CommentArrives(r)
             \/ Disconnect(r)
      PROVE  UNCHANGED <<people, tickets, comments>>
  BY <1>5 DEF CreateArrives, UpdateArrives, GetArrives, CommentArrives, Arrives, Disconnect
<1>6. Crash \/ Restart \/ UNCHANGED vars => UNCHANGED <<people, tickets, comments>>
  BY DEF Crash, Restart, vars
<1>7. ASSUME NEW u \in Users, DeleteUser(u)
      PROVE  ReferencesHold'
  BY <1>7 DEF DeleteUser, ReferencesHold
<1> QED BY <1>1, <1>2, <1>3, <1>4, <1>5, <1>6, <1>7, RowsFixed DEF Next

\* The REFERENCES of tickets and comments hold in every state, whoever deletes
\* users while requests that carry their ids are in flight.
THEOREM References == Spec => []ReferencesHold
<1>1. Init => ReferencesHold
  BY DEF Init, ReferencesHold
<1>2. TypeOK /\ ReferencesHold /\ [Next]_vars => ReferencesHold'
  BY ReferencesStep
<1> QED BY <1>1, <1>2, Typing, PTL DEF Spec

-----------------------------------------------------------------------------
(* The stamps.  StampFollowsStatus is not inductive: it does not say that  *)
(* the stamp an update will write is the one of the status it wrote.       *)

Final == {"resolved", "closed"}

Updating(q) == Calls(q, "update")

\* The mutex is held part-way by an update only.
LockHeld == lock # Keep => lock \in Requests /\ Updating(lock)

\* A stamp still to be written belongs to the status of the patch, and a status
\* still to be written has its stamp ahead of it.
StampAhead ==
  \A q \in Requests : Updating(q) =>
    /\ "stamp" \in req[q].todo => req[q].patch.status \in Final
    /\ "stamp" \in req[q].todo /\ lock # q => "status" \in req[q].todo
    /\ "status" \in req[q].todo /\ req[q].patch.status \in Final => "stamp" \in req[q].todo

\* Between the two statements the row has the status of the patch.
StatusWritten ==
  \A q \in Requests :
    /\ lock = q /\ "stamp" \in req[q].todo /\ "status" \notin req[q].todo
    /\ req[q].ticket \in DOMAIN tickets
    => tickets[req[q].ticket].status = req[q].patch.status

StampInv ==
  /\ LockHeld
  /\ StampAhead
  /\ StatusWritten
  /\ StampFollowsStatus

Stamped(row) == /\ row.status = "resolved" => row.resolved
                /\ row.status = "closed" => row.closed

\* A step that starts no update, runs no statement of one and ends none.
Undisturbed ==
  /\ \A q \in Requests : Updating(q) =>
       /\ Updating(q)'
       /\ req'[q].todo = req[q].todo /\ req'[q].patch = req[q].patch
       /\ req'[q].ticket = req[q].ticket
  /\ \A q \in Requests : Updating(q)' => Updating(q)

Quiet ==
  /\ lock' = lock
  /\ torn' = torn
  /\ Undisturbed
  /\ \A t \in DOMAIN tickets' : \/ t \in DOMAIN tickets /\ tickets'[t] = tickets[t]
                                \/ lock = Keep /\ tickets'[t].status = "open"

LEMMA QuietStep ==
  ASSUME StampInv, Quiet
  PROVE  StampInv'
<1>1. LockHeld'
  BY DEF StampInv, LockHeld, Quiet, Undisturbed
<1>2. StampAhead'
  BY DEF StampInv, StampAhead, Quiet, Undisturbed
<1>3. StatusWritten'
  BY TicketsAssumption DEF StampInv, StatusWritten, LockHeld, Quiet, Undisturbed
<1>4. StampFollowsStatus'
  <2> SUFFICES ASSUME NEW t \in DOMAIN tickets', ~Stamped(tickets'[t]), t \notin torn'
               PROVE  \E r \in Requests : r = lock' /\ req'[r].ticket = t /\ "stamp" \in req'[r].todo
    BY DEF StampFollowsStatus, Stamped
  <2>1. t \in DOMAIN tickets /\ tickets'[t] = tickets[t] /\ t \notin torn
    BY DEF Quiet, Stamped
  <2>2. PICK r \in Requests : r = lock /\ req[r].ticket = t /\ "stamp" \in req[r].todo
    BY <2>1 DEF StampInv, StampFollowsStatus, Stamped
  <2>3. Updating(r)
    BY <2>2, TicketsAssumption DEF StampInv, LockHeld
  <2> QED BY <2>2, <2>3 DEF Quiet, Undisturbed
<1> QED BY <1>1, <1>2, <1>3, <1>4 DEF StampInv

\* Slots that are not part of an update come and go without touching one.
LEMMA OtherSlot ==
  ASSUME TypeOK, NEW r \in Requests, NEW x, req' = [req EXCEPT ![r] = x],
         ~Updating(r), ~(x.pc = "call" /\ x.op = "update")
  PROVE  Undisturbed
BY DEF TypeOK, Undisturbed, Updating, Calls

LEMMA OtherAnswer ==
  ASSUME TypeOK, NEW r \in Requests, NEW st, NEW x \in Request,
         req' = [req EXCEPT ![r] = Answered(x, st)], ~Updating(r)
  PROVE  Undisturbed
<1>1. Answered(x, st).pc # "call"
  BY DEF Answered, Idle, Request
<1> QED BY <1>1, OtherSlot

LEMMA QuietHandle ==
  ASSUME TypeOK, LockHeld, NEW r \in Requests, Handle(r),
         ~UpdateStatement(r), ~UpdateReturns(r), ~UpdateFails(r)
  PROVE  Quiet
<1>0. req[r] \in Request
  BY DEF TypeOK
<1>1. CASE Create(r)
  <2> DEFINE x == [status |-> "open", priority |-> req[r].patch.priority, assignee |-> Keep,
                   by |-> req[r].user, resolved |-> FALSE, closed |-> FALSE]
  <2>1. x \in Ticket /\ x.status = "open"
    BY <1>1, NewTicketTyped DEF Create, TypeOK
  <2>2. tickets' = Append(tickets, x) /\ UNCHANGED <<lock, torn>>
    BY <1>1 DEF Create
  <2> HIDE DEF x
  <2>3. \A t \in DOMAIN tickets' : \/ t \in DOMAIN tickets /\ tickets'[t] = tickets[t]
                                   \/ tickets'[t] = x
    BY <2>1, <2>2, AppendTyped DEF TypeOK
  <2>4. ~Updating(r)
    BY <1>1 DEF Create, Updating, Calls
  <2>5. lock = Keep
    BY <1>1, <2>4 DEF Create, Acquires, LockHeld
  <2>6. Undisturbed
    BY <1>0, <1>1, <2>4, OtherAnswer DEF Create, Answer
  <2> QED BY <2>1, <2>2, <2>3, <2>5, <2>6 DEF Quiet
<1>2. CASE GetTicket(r)
  <2>1. ~Updating(r)
    BY <1>2 DEF GetTicket, Updating, Calls
  <2>2. ASSUME \E st \in Answers : Answer(r, st)
        PROVE  Undisturbed
    BY <1>0, <2>1, <2>2, OtherAnswer DEF Answer
  <2>3. ASSUME req' = [req EXCEPT ![r] = Idle]
        PROVE  Undisturbed
    BY <2>1, <2>3, OtherSlot DEF Idle
  <2>4. ASSUME req' = [req EXCEPT ![r] = [@ EXCEPT !.op = "get_comments",
                                                   !.known = CommentsOf(req[r].ticket)]]
        PROVE  Undisturbed
    <3> DEFINE x == [req[r] EXCEPT !.op = "get_comments", !.known = CommentsOf(req[r].ticket)]
    <3>1. x.op = "get_comments"
      BY <1>0 DEF Request
    <3>2. req' = [req EXCEPT ![r] = x]
      BY <2>4
    <3> HIDE DEF x
    <3> QED BY <2>1, <3>1, <3>2, OtherSlot
  <2>5. Undisturbed
    BY <1>2, <2>2, <2>3, <2>4 DEF GetTicket, Answers
  <2> QED BY <1>2, <2>5 DEF GetTicket, Quiet
<1>3. CASE GetComments(r)
  <2> DEFINE x == [req[r] EXCEPT !.read = CommentsOf(req[r].ticket)]
  <2>1. ~Updating(r)
    BY <1>3 DEF GetComments, Updating, Calls
  <2>2. x \in Request
    <3>1. CommentsOf(req[r].ticket) \subseteq Nat
      BY LenProperties DEF CommentsOf, TypeOK
    <3> QED BY <1>0, <3>1 DEF Request
  <2>3. req' = [req EXCEPT ![r] = Answered(x, "ok")]
    BY <1>3 DEF GetComments
  <2> HIDE DEF x
  <2>4. Undisturbed
    BY <2>1, <2>2, <2>3, OtherAnswer
  <2> QED BY <1>3, <2>4 DEF GetComments, Quiet
<1>4. CASE AddComment(r) \/ CallFails(r)
  <2>1. ~Updating(r)
    BY <1>4 DEF AddComment, CallFails, Updating, Calls
  <2>2. Undisturbed
    BY <1>0, <1>4, <2>1, OtherAnswer DEF AddComment, CallFails, Answer
  <2> QED BY <1>4, <2>2 DEF AddComment, CallFails, Quiet
<1>5. CASE Respond(r)
  <2>1. ~Updating(r) /\ req' = [req EXCEPT ![r] = Idle]
    BY <1>5 DEF Respond, Updating, Calls
  <2>2. Undisturbed
    BY <2>1, OtherSlot DEF Idle
  <2> QED BY <1>5, <2>2 DEF Respond, Quiet
<1> QED BY <1>1, <1>2, <1>3, <1>4, <1>5 DEF Handle

LEMMA QuietDisconnect ==
  ASSUME TypeOK, NEW r \in Requests, Disconnect(r)
  PROVE  Quiet
<1>1. req[r] \in Request
  BY DEF TypeOK
<1>2. CASE req[r].pc = "call"
  <2> DEFINE x == [req[r] EXCEPT !.open = FALSE]
  <2>1. req' = [req EXCEPT ![r] = x]
    BY <1>2 DEF Disconnect
  <2>2. /\ x.pc = req[r].pc /\ x.op = req[r].op /\ x.todo = req[r].todo
        /\ x.patch = req[r].patch /\ x.ticket = req[r].ticket
    BY <1>1 DEF Request
  <2> HIDE DEF x
  <2>3. Undisturbed
    BY <2>1, <2>2 DEF TypeOK, Undisturbed, Updating, Calls
  <2> QED BY <2>3 DEF Disconnect, Quiet
<1>3. CASE req[r].pc # "call"
  <2>1. ~Updating(r) /\ req' = [req EXCEPT ![r] = Idle]
    BY <1>3 DEF Disconnect, Updating, Calls
  <2>2. Undisturbed
    BY <2>1, OtherSlot DEF Idle
  <2> QED BY <2>2 DEF Disconnect, Quiet
<1> QED BY <1>2, <1>3

LEMMA QuietArrival ==
  ASSUME TypeOK, NEW r \in Requests, CreateArrives(r) \/ GetArrives(r) \/ CommentArrives(r)
  PROVE  Quiet
<1>1. ASSUME NEW x, Arrives(r, x), x.op # "update"
      PROVE  Quiet
  <2>1. Undisturbed
    BY <1>1, OtherSlot DEF Arrives, Updating, Calls
  <2> QED BY <1>1, <2>1 DEF Arrives, Quiet
<1>2. ASSUME NEW u, NEW p
      PROVE  [Idle EXCEPT !.pc = "call", !.op = "create", !.user = u, !.open = TRUE,
                          !.patch.priority = p].op = "create"
  BY DEF Idle
<1>3. ASSUME NEW op \in {"get", "comment"}, NEW u, NEW t,
             Arrives(r, [Idle EXCEPT !.pc = "call", !.op = op, !.user = u, !.open = TRUE,
                                     !.ticket = t])
      PROVE  Quiet
  <2>1. [Idle EXCEPT !.pc = "call", !.op = op, !.user = u, !.open = TRUE,
                     !.ticket = t].op = op
    BY DEF Idle
  <2> QED BY <1>1, <1>3, <2>1
<1>4. CASE CreateArrives(r)
  BY <1>1, <1>2, <1>4 DEF CreateArrives
<1>5. CASE GetArrives(r)
  BY <1>3, <1>5 DEF GetArrives
<1>6. CASE CommentArrives(r)
  BY <1>3, <1>6 DEF CommentArrives
<1> QED BY <1>4, <1>5, <1>6

\* The five actions that are not quiet.
LEMMA StampArrives ==
  ASSUME TypeOK, StampInv, NEW r \in Requests, UpdateArrives(r)
  PROVE  StampInv'
<1>1. PICK patch \in Patch : req'[r].patch = patch /\ req'[r].todo = StatementsOf(patch)
  <2>1. PICK u \in people, t \in 1 .. MaxTickets, patch \in Patch : NewUpdate(r, u, t, patch)
    BY NewUpdates
  <2> QED BY <2>1 DEF NewUpdate, Idle
<1>2. "status" \in Fields /\ "stamp" \notin Fields
  BY DEF Fields
<1>3. Keep \notin Final
  BY TicketsAssumption DEF Final, Statuses
<1>4. /\ "stamp" \in req'[r].todo <=> req'[r].patch.status \in Final
      /\ "stamp" \in req'[r].todo => "status" \in req'[r].todo
  BY <1>1, <1>2, <1>3 DEF Final, StatementsOf
<1>5. lock # r /\ lock' = lock /\ torn' = torn /\ tickets' = tickets
  BY TicketsAssumption DEF UpdateArrives, StampInv, LockHeld, Updating, Calls
<1>6. ASSUME NEW q \in Requests, q # r
      PROVE  /\ Updating(q)' = Updating(q)
             /\ req'[q].todo = req[q].todo /\ req'[q].patch = req[q].patch
             /\ req'[q].ticket = req[q].ticket
  <2>1. req[q] \in Request
    BY DEF TypeOK
  <2>2. PICK t \in 1 .. MaxTickets : req'[q] = [req[q] EXCEPT !.alone = @ /\ ~Updates(q, t)]
    BY <1>6 DEF UpdateArrives
  <2> QED BY <2>1, <2>2 DEF Request, Updating, Calls
<1>7. LockHeld'
  BY <1>5, <1>6 DEF StampInv, LockHeld
<1>8. StampAhead'
  BY <1>4, <1>5, <1>6 DEF StampInv, StampAhead
<1>9. StatusWritten'
  BY <1>5, <1>6 DEF StampInv, StatusWritten
<1>10. StampFollowsStatus'
  BY <1>5, <1>6 DEF StampInv, StampFollowsStatus
<1> QED BY <1>7, <1>8, <1>9, <1>10 DEF StampInv

LEMMA StampStatement ==
  ASSUME TypeOK, StampInv, NEW r \in Requests, UpdateStatement(r)
  PROVE  StampInv'
<1> DEFINE x == req[r]
<1>1. PICK s \in x.todo :
        /\ \A o \in x.todo : Order[s] <= Order[o]
        /\ tickets' = [t \in DOMAIN tickets |->
             IF t = x.ticket THEN Set(tickets[t], x.patch, s) ELSE tickets[t]]
        /\ req' = [req EXCEPT ![r].todo = @ \ {s}]
  BY DEF UpdateStatement
<1>2. x \in Request /\ Updating(r) /\ lock \in {Keep, r} /\ lock' = r /\ torn' = torn
  BY DEF UpdateStatement, Updating, Acquires, TypeOK
<1>3. /\ req'[r].todo = x.todo \ {s} /\ req'[r].patch = x.patch
      /\ req'[r].ticket = x.ticket /\ Updating(r)'
      /\ \A q \in Requests : q # r => req'[q] = req[q]
  BY <1>1, <1>2 DEF TypeOK, Request, Updating, Calls
<1>4. s \in {"status", "stamp", "priority", "assignee"}
  BY <1>2 DEF Request, Order
<1>5. "status" \in x.todo => s = "status"
  BY <1>1, <1>4 DEF Order
<1>6. LockHeld'
  BY <1>2, <1>3 DEF LockHeld
<1>7. StampAhead'
  <2>1. ASSUME NEW q \in Requests, q # r
        PROVE  /\ lock # q
               /\ Updating(q)' => Updating(q)
    BY <1>2, <1>3, <2>1, TicketsAssumption DEF Updating, Calls
  <2>2. /\ "stamp" \in x.todo => x.patch.status \in Final
        /\ "status" \in x.todo /\ x.patch.status \in Final => "stamp" \in x.todo
    BY <1>2 DEF StampInv, StampAhead
  <2>3. /\ "stamp" \in req'[r].todo => req'[r].patch.status \in Final
        /\ "status" \notin req'[r].todo
    BY <1>3, <1>5, <2>2
  <2> QED BY <1>2, <1>3, <2>1, <2>3 DEF StampInv, StampAhead
<1>8. StatusWritten'
  <2> SUFFICES ASSUME "stamp" \in req'[r].todo, x.ticket \in DOMAIN tickets
               PROVE  tickets'[x.ticket].status = x.patch.status
    BY <1>1, <1>2, <1>3 DEF StatusWritten
  <2>1. tickets[x.ticket] \in Ticket
    BY ElementOfSeq, LenProperties DEF TypeOK
  <2>2. CASE s = "status"
    BY <1>1, <2>1, <2>2 DEF Set, Ticket
  <2>3. CASE s # "status"
    <3>1. "status" \notin x.todo /\ "stamp" \in x.todo /\ s # "stamp"
      BY <1>3, <1>5, <2>3
    <3>2. lock = r
      BY <1>2, <3>1 DEF StampInv, StampAhead
    <3>3. tickets[x.ticket].status = x.patch.status
      BY <3>1, <3>2 DEF StampInv, StatusWritten
    <3>4. Set(tickets[x.ticket], x.patch, s).status = tickets[x.ticket].status
      BY <1>4, <2>1, <2>3, <3>1 DEF Set, Ticket
    <3> QED BY <1>1, <3>3, <3>4
  <2> QED BY <2>2, <2>3
<1>9. StampFollowsStatus'
  <2> SUFFICES ASSUME NEW t \in DOMAIN tickets', ~Stamped(tickets'[t]), t \notin torn'
               PROVE  t = x.ticket /\ "stamp" \in req'[r].todo
    BY <1>2, <1>3 DEF StampFollowsStatus, Stamped
  <2>1. t \in DOMAIN tickets /\ tickets[t] \in Ticket
    BY <1>1, ElementOfSeq, LenProperties DEF TypeOK
  <2>2. t = x.ticket
    <3> SUFFICES ASSUME t # x.ticket
                 PROVE  FALSE
      OBVIOUS
    <3>1. ~Stamped(tickets[t])
      BY <1>1, <2>1
    <3>2. PICK q \in Requests : q = lock /\ req[q].ticket = t
      BY <1>2, <2>1, <3>1 DEF StampInv, StampFollowsStatus, Stamped
    <3> QED BY <1>2, <3>2, TicketsAssumption
  <2>3. tickets'[t] = Set(tickets[t], x.patch, s)
    BY <1>1, <2>1, <2>2
  <2>4. CASE s = "status"
    <3>1. tickets'[t].status = x.patch.status
      BY <2>1, <2>3, <2>4 DEF Set, Ticket
    <3>2. x.patch.status \in Final
      BY <3>1 DEF Stamped, Final
    <3>3. "stamp" \in x.todo
      BY <1>2, <2>4, <3>2 DEF StampInv, StampAhead
    <3> QED BY <1>3, <2>2, <2>4, <3>3
  <2>5. CASE s = "stamp"
    <3>1. "status" \notin x.todo
      BY <1>5, <2>5
    <3>2. lock = r /\ tickets[t].status = x.patch.status
      BY <1>2, <2>1, <2>2, <2>5, <3>1 DEF StampInv, StampAhead, StatusWritten
    <3>3. Stamped(tickets'[t])
      BY <2>1, <2>3, <2>5, <3>2 DEF Set, Ticket, Stamped
    <3> QED BY <3>3
  <2>6. CASE s \in {"priority", "assignee"}
    <3>1. ~Stamped(tickets[t])
      BY <2>1, <2>3, <2>6 DEF Set, Ticket, Stamped
    <3>2. PICK q \in Requests : q = lock /\ req[q].ticket = t /\ "stamp" \in req[q].todo
      BY <1>2, <2>1, <3>1 DEF StampInv, StampFollowsStatus, Stamped
    <3>3. q = r
      BY <1>2, <3>2, TicketsAssumption
    <3> QED BY <1>3, <2>2, <2>6, <3>2, <3>3
  <2> QED BY <1>4, <2>4, <2>5, <2>6
<1> QED BY <1>6, <1>7, <1>8, <1>9 DEF StampInv

\* An update that ends, well or badly: what it leaves unstamped is torn.
LEMMA StampEnds ==
  ASSUME TypeOK, StampInv, NEW r \in Requests, UpdateReturns(r) \/ UpdateFails(r)
  PROVE  StampInv'
<1>1. /\ lock \in {Keep, r} /\ lock' = Keep /\ tickets' = tickets /\ torn \subseteq torn'
  BY DEF UpdateReturns, UpdateFails, Acquires
<1>2. PICK st \in Answers : req' = [req EXCEPT ![r] = Answered(req[r], st)]
  BY DEF UpdateReturns, UpdateFails, Answer, Answers
<1>3. Answered(req[r], st).pc # "call"
  BY DEF Answered, Idle, Request, TypeOK
<1>4. ~Updating(r)' /\ \A q \in Requests : q # r => req'[q] = req[q]
  BY <1>2, <1>3 DEF TypeOK, Updating, Calls
<1>5. LockHeld' /\ StatusWritten'
  BY <1>1, TicketsAssumption DEF LockHeld, StatusWritten
<1>6. StampAhead'
  BY <1>1, <1>4, TicketsAssumption DEF StampInv, StampAhead, Updating, Calls
<1>7. StampFollowsStatus'
  <2> SUFFICES ASSUME NEW t \in DOMAIN tickets, ~Stamped(tickets[t]), t \notin torn
               PROVE  t \in torn'
    BY <1>1 DEF StampFollowsStatus, Stamped
  <2>1. PICK q \in Requests : q = lock /\ req[q].ticket = t /\ "stamp" \in req[q].todo
    BY DEF StampInv, StampFollowsStatus, Stamped
  <2>2. q = r
    BY <1>1, <2>1, TicketsAssumption
  <2>3. UpdateFails(r)
    BY <2>1, <2>2 DEF UpdateReturns
  <2>4. t \in Stopped
    BY <2>1 DEF Stopped
  <2> QED BY <2>3, <2>4 DEF UpdateFails
<1> QED BY <1>5, <1>6, <1>7 DEF StampInv

LEMMA StampCrash ==
  ASSUME TypeOK, StampInv, Crash
  PROVE  StampInv'
<1>1. /\ lock' = Keep /\ tickets' = tickets /\ torn' = torn \cup Stopped
      /\ \A q \in Requests : ~Updating(q)'
  BY DEF Crash, Idle, Updating, Calls
<1>2. LockHeld' /\ StatusWritten' /\ StampAhead'
  BY <1>1, TicketsAssumption DEF LockHeld, StatusWritten, StampAhead
<1>3. StampFollowsStatus'
  <2> SUFFICES ASSUME NEW t \in DOMAIN tickets, ~Stamped(tickets[t]), t \notin torn
               PROVE  t \in Stopped
    BY <1>1 DEF StampFollowsStatus, Stamped
  <2>1. PICK q \in Requests : q = lock /\ req[q].ticket = t /\ "stamp" \in req[q].todo
    BY DEF StampInv, StampFollowsStatus, Stamped
  <2> QED BY <2>1 DEF Stopped
<1> QED BY <1>2, <1>3 DEF StampInv

LEMMA StampStep ==
  ASSUME TypeOK, StampInv, [Next]_vars
  PROVE  StampInv'
<1>1. ASSUME NEW r \in Requests, Handle(r)
      PROVE  StampInv'
  BY <1>1, QuietHandle, QuietStep, StampStatement, StampEnds DEF StampInv
<1>2. ASSUME NEW r \in Requests, Disconnect(r)
      PROVE  StampInv'
  BY <1>2, QuietDisconnect, QuietStep
<1>3. ASSUME NEW r \in Requests, CreateArrives(r) \/ GetArrives(r) \/ CommentArrives(r)
      PROVE  StampInv'
  BY <1>3, QuietArrival, QuietStep
<1>4. Restart \/ UNCHANGED vars \/ (\E u \in Users : DeleteUser(u)) => Quiet
  BY DEF Restart, DeleteUser, vars, Quiet, Undisturbed, Updating, Calls
<1> QED BY <1>1, <1>2, <1>3, <1>4, QuietStep, StampArrives, StampCrash DEF Next

\* Outside the update that set it, the status of a ticket lacks its stamp only
\* after an update of that ticket stopped part-way.
THEOREM Stamps == Spec => []StampFollowsStatus
<1>1. Init => StampInv
  BY TicketsAssumption DEF Init, Idle, StampInv, LockHeld, StampAhead, StatusWritten,
     StampFollowsStatus, Updating, Calls
<1>2. TypeOK /\ StampInv /\ [Next]_vars => StampInv'
  BY StampStep
<1>3. StampInv => StampFollowsStatus
  BY DEF StampInv
<1> QED BY <1>1, <1>2, <1>3, Typing, PTL DEF Spec

-----------------------------------------------------------------------------
(* Two-step reads.  CommentsNoOlderThanTicket speaks of the answer; between *)
(* the two calls it is the table that holds what was there at the first.    *)

CommentsInv ==
  /\ \A q \in Requests : Calls(q, "get_comments") =>
       req[q].known \subseteq CommentsOf(req[q].ticket)
  /\ CommentsNoOlderThanTicket

\* A step after which a slot reads comments only if it did so before, with the same notes.
SameReads(q) ==
  req'[q].op = "get_comments" =>
    /\ req[q].op = "get_comments"
    /\ req'[q].pc = req[q].pc /\ req'[q].answer = req[q].answer
    /\ req'[q].ticket = req[q].ticket
    /\ req'[q].known = req[q].known /\ req'[q].read = req[q].read

\* No comment is ever lost or moved to another ticket.
CommentsKept == \A t : CommentsOf(t) \subseteq CommentsOf(t)'

LEMMA CommentsOnlyAdded ==
  ASSUME TypeOK, [Next]_vars
  PROVE  CommentsKept
<1>1. ASSUME NEW r \in Requests, AddComment(r)
      PROVE  CommentsKept
  <2> DEFINE x == [ticket |-> req[r].ticket, by |-> req[r].user]
  <2>1. x \in Comment
    BY <1>1 DEF AddComment, Comment, Request, TypeOK
  <2>2. comments' = Append(comments, x)
    BY <1>1 DEF AddComment
  <2> HIDE DEF x
  <2>3. \A c \in DOMAIN comments : c \in DOMAIN comments' /\ comments'[c] = comments[c]
    BY <2>1, <2>2, AppendTyped DEF TypeOK
  <2> QED BY <2>3 DEF CommentsKept, CommentsOf
<1>2. comments' = comments => CommentsKept
  BY DEF CommentsKept, CommentsOf
<1>3. ASSUME NEW r \in Requests, Handle(r), ~AddComment(r)
      PROVE  comments' = comments
  BY <1>3 DEF Handle, Create, UpdateStatement, UpdateReturns, UpdateFails, GetTicket,
     GetComments, CallFails, Respond
<1>4. ASSUME NEW r \in Requests,
             \/ CreateArrives(r) \/ UpdateArrives(r) \/ GetArrives(r) \/ CommentArrives(r)
             \/ Disconnect(r)
      PROVE  comments' = comments
  BY <1>4 DEF CreateArrives, UpdateArrives, GetArrives, CommentArrives, Arrives, Disconnect
<1>5. Crash \/ Restart \/ UNCHANGED vars \/ (\E u \in Users : DeleteUser(u))
        => comments' = comments
  BY DEF Crash, Restart, vars, DeleteUser
<1> QED BY <1>1, <1>2, <1>3, <1>4, <1>5 DEF Next

LEMMA CommentsKeptInv ==
  ASSUME CommentsInv, CommentsKept, \A q \in Requests : SameReads(q)
  PROVE  CommentsInv'
BY DEF CommentsInv, CommentsNoOlderThanTicket, Calls, CommentsKept, SameReads

\* A slot that turns to something else than reading comments.
LEMMA OtherReads ==
  ASSUME TypeOK, NEW r \in Requests, NEW x, req' = [req EXCEPT ![r] = x],
         x.op # "get_comments"
  PROVE  \A q \in Requests : SameReads(q)
BY DEF TypeOK, SameReads

LEMMA AnsweredOp ==
  ASSUME NEW x \in Request, NEW st
  PROVE  /\ Answered(x, st) = Idle \/ Answered(x, st).op = x.op
         /\ Answered(x, st).pc # "call"
BY DEF Answered, Idle, Request

LEMMA ReadsLeft ==
  ASSUME TypeOK, NEW r \in Requests, req' = [req EXCEPT ![r] = Idle]
  PROVE  \A q \in Requests : SameReads(q)
<1>1. Idle.op # "get_comments"
  BY DEF Idle
<1> QED BY <1>1, OtherReads

LEMMA OtherReadsAnswer ==
  ASSUME TypeOK, NEW r \in Requests, NEW st, Answer(r, st), req[r].op # "get_comments"
  PROVE  \A q \in Requests : SameReads(q)
<1>1. req[r] \in Request
  BY DEF TypeOK
<1>2. Answered(req[r], st).op # "get_comments"
  BY <1>1, AnsweredOp DEF Idle
<1> QED BY <1>2, OtherReads DEF Answer

LEMMA ReadsHandled ==
  ASSUME TypeOK, CommentsInv, NEW r \in Requests, GetTicket(r) \/ GetComments(r) \/ CallFails(r)
  PROVE  CommentsInv'
<1>0. req[r] \in Request /\ CommentsOf(req[r].ticket) \subseteq Nat
  BY LenProperties DEF CommentsOf, TypeOK
<1>1. CommentsKept
  BY DEF CommentsKept, CommentsOf, GetTicket, GetComments, CallFails
<1>2. ASSUME \A q \in Requests \ {r} : req'[q] = req[q],
             (Calls(r, "get_comments") =>
                req[r].known \subseteq CommentsOf(req[r].ticket))',
             req'[r].pc = "respond" /\ req'[r].op = "get_comments" /\ req'[r].answer = "ok" =>
               req'[r].known \subseteq req'[r].read
      PROVE  CommentsInv'
  BY <1>1, <1>2 DEF CommentsInv, CommentsNoOlderThanTicket, Calls, CommentsKept
<1>3. CASE GetTicket(r)
  <2>1. ASSUME NEW st, Answer(r, st)
        PROVE  CommentsInv'
    <3>1. req[r].op # "get_comments"
      BY <1>3 DEF GetTicket, Calls
    <3> QED BY <1>1, <2>1, <3>1, OtherReadsAnswer, CommentsKeptInv
  <2>2. ASSUME req' = [req EXCEPT ![r] = Idle]
        PROVE  CommentsInv'
    BY <1>1, <2>2, ReadsLeft, CommentsKeptInv
  <2>3. ASSUME req' = [req EXCEPT ![r] = [@ EXCEPT !.op = "get_comments",
                                                   !.known = CommentsOf(req[r].ticket)]]
        PROVE  CommentsInv'
    <3> DEFINE x == [req[r] EXCEPT !.op = "get_comments", !.known = CommentsOf(req[r].ticket)]
    <3>1. x.pc = "call" /\ x.known = CommentsOf(req[r].ticket) /\ x.ticket = req[r].ticket
      BY <1>0, <1>3 DEF Request, GetTicket, Calls
    <3>2. req' = [req EXCEPT ![r] = x]
      BY <2>3
    <3> HIDE DEF x
    <3>3. req'[r] = x /\ \A q \in Requests \ {r} : req'[q] = req[q]
      BY <3>2 DEF TypeOK
    <3> QED BY <1>1, <1>2, <3>1, <3>3 DEF CommentsKept
  <2> QED BY <1>3, <2>1, <2>2, <2>3 DEF GetTicket
<1>4. CASE GetComments(r)
  <2> DEFINE x == [req[r] EXCEPT !.read = CommentsOf(req[r].ticket)]
  <2>1. x \in Request /\ x.read = CommentsOf(req[r].ticket) /\ x.known = req[r].known
    BY <1>0 DEF Request
  <2>2. req' = [req EXCEPT ![r] = Answered(x, "ok")]
    BY <1>4 DEF GetComments
  <2> HIDE DEF x
  <2>3. Answered(x, "ok") = Idle \/ (/\ Answered(x, "ok").known = x.known
                                     /\ Answered(x, "ok").read = x.read)
    BY <2>1 DEF Answered, Request
  <2>4. req'[r] = Answered(x, "ok") /\ \A q \in Requests \ {r} : req'[q] = req[q]
    BY <2>2 DEF TypeOK
  <2>5. req[r].known \subseteq CommentsOf(req[r].ticket)
    BY <1>4 DEF CommentsInv, GetComments
  <2>6. Answered(x, "ok").pc # "call"
    BY <2>1, AnsweredOp
  <2> QED BY <1>2, <2>1, <2>3, <2>4, <2>5, <2>6 DEF Idle, Calls
<1>5. CASE CallFails(r)
  <2>1. req'[r] = Answered(req[r], "error") /\ \A q \in Requests \ {r} : req'[q] = req[q]
    BY <1>5 DEF CallFails, Answer, TypeOK
  <2>2. Answered(req[r], "error").pc # "call" /\ Answered(req[r], "error").answer # "ok"
    BY <1>0 DEF Answered, Idle, Request
  <2> QED BY <1>2, <2>1, <2>2 DEF Calls
<1> QED BY <1>3, <1>4, <1>5

LEMMA CommentsStep ==
  ASSUME TypeOK, CommentsInv, [Next]_vars
  PROVE  CommentsInv'
<1>0. CommentsKept
  BY CommentsOnlyAdded
<1>1. ASSUME \A q \in Requests : SameReads(q)
      PROVE  CommentsInv'
  BY <1>0, <1>1, CommentsKeptInv
<1>2. ASSUME NEW r \in Requests, Handle(r), ~GetTicket(r), ~GetComments(r), ~CallFails(r)
      PROVE  \A q \in Requests : SameReads(q)
  <2>1. CASE UpdateStatement(r)
    <3>1. PICK s : req' = [req EXCEPT ![r].todo = @ \ {s}]
      BY <2>1 DEF UpdateStatement
    <3>2. req'[r].op = "update" /\ \A q \in Requests \ {r} : req'[q] = req[q]
      BY <2>1, <3>1 DEF UpdateStatement, Calls, TypeOK, Request
    <3> QED BY <3>2 DEF SameReads
  <2>2. CASE Respond(r)
    BY <2>2, ReadsLeft DEF Respond
  <2>3. CASE Create(r) \/ UpdateReturns(r) \/ UpdateFails(r) \/ AddComment(r)
    <3>1. req[r].op # "get_comments" /\ \E st : Answer(r, st)
      BY <2>3 DEF Create, UpdateReturns, UpdateFails, AddComment, Calls
    <3> QED BY <3>1, OtherReadsAnswer
  <2> QED BY <1>2, <2>1, <2>2, <2>3 DEF Handle
<1>3. ASSUME NEW r \in Requests, Disconnect(r)
      PROVE  \A q \in Requests : SameReads(q)
  <2>1. req'[r] = Idle \/ req'[r] = [req[r] EXCEPT !.open = FALSE]
    BY <1>3 DEF Disconnect, TypeOK
  <2>2. \A q \in Requests \ {r} : req'[q] = req[q]
    BY <1>3 DEF Disconnect, TypeOK
  <2>3. req[r] \in Request
    BY DEF TypeOK
  <2> QED BY <2>1, <2>2, <2>3 DEF SameReads, Idle, Request
<1>4. ASSUME NEW r \in Requests, UpdateArrives(r)
      PROVE  \A q \in Requests : SameReads(q)
  <2>1. PICK u \in people, t \in 1 .. MaxTickets, patch \in Patch : NewUpdate(r, u, t, patch)
    BY <1>4, NewUpdates
  <2>2. req'[r].op = "update"
    BY <2>1 DEF NewUpdate, Idle
  <2>3. ASSUME NEW q \in Requests, q # r
        PROVE  SameReads(q)
    <3>1. req[q] \in Request /\ req'[q] = [req[q] EXCEPT !.alone = @ /\ ~Updates(q, t)]
      BY <2>1, <2>3 DEF NewUpdate, TypeOK
    <3> QED BY <3>1 DEF SameReads, Request
  <2> QED BY <2>2, <2>3 DEF SameReads
<1>5. ASSUME NEW r \in Requests, CreateArrives(r) \/ GetArrives(r) \/ CommentArrives(r)
      PROVE  \A q \in Requests : SameReads(q)
  <2>1. ASSUME NEW x, Arrives(r, x), x.op # "get_comments"
        PROVE  \A q \in Requests : SameReads(q)
    BY <2>1, OtherReads DEF Arrives
  <2>2. ASSUME NEW u, NEW p
        PROVE  [Idle EXCEPT !.pc = "call", !.op = "create", !.user = u, !.open = TRUE,
                            !.patch.priority = p].op = "create"
    BY DEF Idle
  <2>3. ASSUME NEW op \in {"get", "comment"}, NEW u, NEW t
        PROVE  [Idle EXCEPT !.pc = "call", !.op = op, !.user = u, !.open = TRUE,
                            !.ticket = t].op = op
    BY DEF Idle
  <2>4. CASE CreateArrives(r)
    BY <2>1, <2>2, <2>4 DEF CreateArrives
  <2>5. CASE GetArrives(r)
    BY <2>1, <2>3, <2>5 DEF GetArrives
  <2>6. CASE CommentArrives(r)
    BY <2>1, <2>3, <2>6 DEF CommentArrives
  <2> QED BY <1>5, <2>4, <2>5, <2>6
<1>6. Crash => \A q \in Requests : SameReads(q)
  BY DEF Crash, SameReads, Idle
<1>7. Restart \/ UNCHANGED vars \/ (\E u \in Users : DeleteUser(u))
        => \A q \in Requests : SameReads(q)
  BY DEF Restart, DeleteUser, vars, SameReads
<1> QED BY <1>1, <1>2, <1>3, <1>4, <1>5, <1>6, <1>7, ReadsHandled DEF Next, Handle

\* Whoever is shown a ticket is shown every comment that was there when its row was
\* read, however many comments, updates and crashes fall between the two calls.
THEOREM ReadsAreComplete == Spec => []CommentsNoOlderThanTicket
<1>1. Init => CommentsInv
  BY DEF Init, Idle, CommentsInv, CommentsNoOlderThanTicket, Calls
<1>2. TypeOK /\ CommentsInv /\ [Next]_vars => CommentsInv'
  BY CommentsStep
<1>3. CommentsInv => CommentsNoOlderThanTicket
  BY DEF CommentsInv
<1> QED BY <1>1, <1>2, <1>3, Typing, PTL DEF Spec

-----------------------------------------------------------------------------
(* Acknowledged updates.  AcknowledgedUpdatesStay is not inductive: it      *)
(* does not say what an update has written when it comes to be settled.     *)

IsUpdate(q) == req[q].op = "update"

\* An update that has its ticket to itself shares it with no other.
OneAlone ==
  \A q, o \in Requests :
    IsUpdate(q) /\ IsUpdate(o) /\ req[q].ticket = req[o].ticket /\ q # o => ~req[q].alone

\* What an update of the ticket arrived to change is settled no more.
UnsettledInUpdate == \A q \in Requests : IsUpdate(q) => settled[req[q].ticket] = NoPatch

\* Only rows that are there are settled or updated by somebody who is alone.
RowsSettled ==
  /\ DOMAIN tickets \subseteq 1 .. MaxTickets
  /\ \A t \in 1 .. MaxTickets : t \notin DOMAIN tickets => settled[t] = NoPatch
  /\ \A q \in Requests : IsUpdate(q) /\ req[q].alone => req[q].ticket \in DOMAIN tickets

\* What an update alone with its ticket has behind it is in the row: each statement it
\* has run, and every one once its answer is ok.
Behind(q, f) ==
  \/ req[q].pc = "call" /\ f \notin req[q].todo
  \/ req[q].pc = "respond" /\ req[q].answer = "ok"

FieldsWritten ==
  \A q \in Requests, f \in Fields :
    IsUpdate(q) /\ req[q].alone /\ Behind(q, f) /\ req[q].patch[f] # Keep
      => tickets[req[q].ticket][f] = req[q].patch[f]

UpdatesInv ==
  /\ OneAlone
  /\ UnsettledInUpdate
  /\ RowsSettled
  /\ FieldsWritten
  /\ AcknowledgedUpdatesStay

\* A step after which a slot is an update only if it was this one before, with no more
\* behind it than it had.
SameUpdate(q) ==
  IsUpdate(q)' =>
    /\ IsUpdate(q)
    /\ req'[q].ticket = req[q].ticket /\ req'[q].patch = req[q].patch
    /\ req'[q].alone => req[q].alone
    /\ \A f \in Fields : Behind(q, f)' => Behind(q, f)

\* A step that adds rows at most.
RowsKept ==
  /\ DOMAIN tickets' \subseteq 1 .. MaxTickets
  /\ \A t \in DOMAIN tickets : t \in DOMAIN tickets' /\ tickets'[t] = tickets[t]

LEMMA NothingPatched == \A f \in Fields : NoPatch[f] = Keep
BY DEF NoPatch, Fields

LEMMA UpdatesKept ==
  ASSUME UpdatesInv, RowsKept, settled' = settled, \A q \in Requests : SameUpdate(q)
  PROVE  UpdatesInv'
<1>1. ASSUME NEW q \in Requests, IsUpdate(q)'
      PROVE  /\ IsUpdate(q) /\ req'[q].ticket = req[q].ticket /\ req'[q].patch = req[q].patch
             /\ req'[q].alone => req[q].alone
             /\ \A f \in Fields : Behind(q, f)' => Behind(q, f)
  BY <1>1 DEF SameUpdate
<1>2. OneAlone'
  BY <1>1 DEF UpdatesInv, OneAlone
<1>3. UnsettledInUpdate'
  BY <1>1 DEF UpdatesInv, UnsettledInUpdate
<1>4. RowsSettled'
  BY <1>1 DEF UpdatesInv, RowsSettled, RowsKept
<1>5. FieldsWritten'
  BY <1>1 DEF UpdatesInv, FieldsWritten, RowsSettled, RowsKept
<1>6. AcknowledgedUpdatesStay'
  BY NothingPatched DEF UpdatesInv, AcknowledgedUpdatesStay, RowsSettled, RowsKept
<1> QED BY <1>2, <1>3, <1>4, <1>5, <1>6 DEF UpdatesInv

\* The rows that are there stay, but for the statements of an update.
LEMMA RowsOnlyAdded ==
  ASSUME TypeOK, RowsSettled, [Next]_vars, \A r \in Requests : ~UpdateStatement(r)
  PROVE  RowsKept
<1>1. ASSUME NEW r \in Requests, Create(r)
      PROVE  RowsKept
  <2> DEFINE x == [status |-> "open", priority |-> req[r].patch.priority, assignee |-> Keep,
                   by |-> req[r].user, resolved |-> FALSE, closed |-> FALSE]
  <2>1. x \in Ticket
    BY <1>1, NewTicketTyped DEF Create, TypeOK
  <2>2. tickets' = Append(tickets, x) /\ Len(tickets) < MaxTickets
    BY <1>1 DEF Create
  <2> HIDE DEF x
  <2>3. \A t \in DOMAIN tickets : t \in DOMAIN tickets' /\ tickets'[t] = tickets[t]
    BY <2>1, <2>2, AppendTyped DEF TypeOK
  <2>4. tickets \in Seq(Ticket) /\ Len(tickets) \in Nat /\ tickets' \in Seq(Ticket)
        /\ Len(tickets') = Len(tickets) + 1
    BY <2>1, <2>2, AppendProperties, LenProperties DEF TypeOK
  <2>5. DOMAIN tickets' = 1 .. (Len(tickets) + 1)
    BY <2>4, LenProperties
  <2>6. DOMAIN tickets' \subseteq 1 .. MaxTickets
    BY <2>2, <2>4, <2>5, TicketsAssumption
  <2> QED BY <2>3, <2>6 DEF RowsKept
<1>2. tickets' = tickets => RowsKept
  BY DEF RowsSettled, RowsKept
<1>3. ASSUME NEW r \in Requests, Handle(r), ~Create(r)
      PROVE  tickets' = tickets
  BY <1>3 DEF Handle, AddComment, UpdateReturns, UpdateFails, GetTicket,
     GetComments, CallFails, Respond
<1>4. ASSUME NEW r \in Requests,
             \/ CreateArrives(r) \/ UpdateArrives(r) \/ GetArrives(r) \/ CommentArrives(r)
             \/ Disconnect(r)
      PROVE  tickets' = tickets
  BY <1>4 DEF CreateArrives, UpdateArrives, GetArrives, CommentArrives, Arrives, Disconnect
<1>5. Crash \/ Restart \/ UNCHANGED vars \/ (\E u \in Users : DeleteUser(u))
        => tickets' = tickets
  BY DEF Crash, Restart, vars, DeleteUser
<1> QED BY <1>1, <1>2, <1>3, <1>4, <1>5 DEF Next

\* Slots that are no update, or are none any more.
LEMMA NoUpdate ==
  ASSUME TypeOK, NEW r \in Requests, NEW x, req' = [req EXCEPT ![r] = x], x.op # "update"
  PROVE  \A q \in Requests : SameUpdate(q)
<1>1. \A q \in Requests : q # r => req'[q] = req[q]
  OBVIOUS
<1>2. ~IsUpdate(r)'
  BY DEF IsUpdate, TypeOK
<1> QED BY <1>1, <1>2 DEF SameUpdate, IsUpdate, Behind

LEMMA NoUpdateAnswer ==
  ASSUME TypeOK, NEW r \in Requests, NEW x \in Request, NEW st, x.op # "update",
         req' = [req EXCEPT ![r] = Answered(x, st)]
  PROVE  \A q \in Requests : SameUpdate(q)
<1>1. Answered(x, st).op # "update"
  BY AnsweredOp DEF Idle
<1> QED BY <1>1, NoUpdate

LEMMA UpdateLeft ==
  ASSUME TypeOK, NEW r \in Requests, req' = [req EXCEPT ![r] = Idle]
  PROVE  \A q \in Requests : SameUpdate(q)
<1>1. Idle.op # "update"
  BY DEF Idle
<1> QED BY <1>1, NoUpdate

LEMMA UpdatesElsewhere ==
  ASSUME TypeOK, NEW r \in Requests, Handle(r),
         ~UpdateStatement(r), ~UpdateReturns(r), ~Respond(r)
  PROVE  settled' = settled /\ \A q \in Requests : SameUpdate(q)
<1>0. req[r] \in Request
  BY DEF TypeOK
<1>1. CASE UpdateFails(r)
  <2>1. req'[r] = Answered(req[r], "error") /\ \A q \in Requests \ {r} : req'[q] = req[q]
    BY <1>1 DEF UpdateFails, Answer, TypeOK
  <2>2. \/ Answered(req[r], "error") = Idle
        \/ /\ Answered(req[r], "error").ticket = req[r].ticket
           /\ Answered(req[r], "error").patch = req[r].patch
           /\ Answered(req[r], "error").alone = req[r].alone
    BY <1>0 DEF Answered, Request
  <2>3. /\ Answered(req[r], "error").pc # "call"
        /\ Answered(req[r], "error").answer # "ok"
    BY <1>0 DEF Answered, Idle, Request
  <2>4. IsUpdate(r) /\ Idle.op # "update"
    BY <1>1 DEF UpdateFails, Calls, IsUpdate, Idle
  <2>5. SameUpdate(r)
    BY <2>1, <2>2, <2>3, <2>4 DEF SameUpdate, IsUpdate, Behind
  <2>6. \A q \in Requests \ {r} : SameUpdate(q)
    BY <2>1 DEF SameUpdate, IsUpdate, Behind
  <2> QED BY <1>1, <2>5, <2>6 DEF UpdateFails
<1>2. CASE GetTicket(r)
  <2>1. req[r].op # "update"
    BY <1>2 DEF GetTicket, Calls
  <2>2. ASSUME NEW st, Answer(r, st)
        PROVE  \A q \in Requests : SameUpdate(q)
    BY <1>0, <2>1, <2>2, NoUpdateAnswer DEF Answer
  <2>3. ASSUME req' = [req EXCEPT ![r] = [@ EXCEPT !.op = "get_comments",
                                                   !.known = CommentsOf(req[r].ticket)]]
        PROVE  \A q \in Requests : SameUpdate(q)
    <3> DEFINE x == [req[r] EXCEPT !.op = "get_comments", !.known = CommentsOf(req[r].ticket)]
    <3>1. x.op = "get_comments"
      BY <1>0 DEF Request
    <3>2. req' = [req EXCEPT ![r] = x]
      BY <2>3
    <3> HIDE DEF x
    <3> QED BY <3>1, <3>2, NoUpdate
  <2> QED BY <1>2, <2>2, <2>3, UpdateLeft DEF GetTicket
<1>3. CASE GetComments(r)
  <2> DEFINE x == [req[r] EXCEPT !.read = CommentsOf(req[r].ticket)]
  <2>1. x \in Request /\ x.op = "get_comments"
    <3>1. CommentsOf(req[r].ticket) \subseteq Nat
      BY LenProperties DEF CommentsOf, TypeOK
    <3> QED BY <1>0, <1>3, <3>1 DEF Request, GetComments, Calls
  <2>2. req' = [req EXCEPT ![r] = Answered(x, "ok")]
    BY <1>3 DEF GetComments
  <2> HIDE DEF x
  <2> QED BY <1>3, <2>1, <2>2, NoUpdateAnswer DEF GetComments
<1>4. CASE Create(r) \/ AddComment(r) \/ CallFails(r)
  <2>1. req[r].op # "update" /\ \E st : Answer(r, st)
    BY <1>4 DEF Create, AddComment, CallFails, Calls
  <2>2. \A q \in Requests : SameUpdate(q)
    BY <1>0, <2>1, NoUpdateAnswer DEF Answer
  <2> QED BY <1>4, <2>2 DEF Create, AddComment, CallFails
<1> QED BY <1>1, <1>2, <1>3, <1>4 DEF Handle

LEMMA UpdatesOutside ==
  ASSUME TypeOK, NEW r \in Requests,
         CreateArrives(r) \/ GetArrives(r) \/ CommentArrives(r) \/ Disconnect(r)
  PROVE  settled' = settled /\ \A q \in Requests : SameUpdate(q)
<1>1. ASSUME NEW x, Arrives(r, x), x.op # "update"
      PROVE  settled' = settled /\ \A q \in Requests : SameUpdate(q)
  BY <1>1, NoUpdate DEF Arrives
<1>2. ASSUME NEW u, NEW p
      PROVE  [Idle EXCEPT !.pc = "call", !.op = "create", !.user = u, !.open = TRUE,
                          !.patch.priority = p].op = "create"
  BY DEF Idle
<1>3. ASSUME NEW op \in {"get", "comment"}, NEW u, NEW t
      PROVE  [Idle EXCEPT !.pc = "call", !.op = op, !.user = u, !.open = TRUE,
                          !.ticket = t].op = op
  BY DEF Idle
<1>4. CASE CreateArrives(r)
  BY <1>1, <1>2, <1>4 DEF CreateArrives
<1>5. CASE GetArrives(r)
  BY <1>1, <1>3, <1>5 DEF GetArrives
<1>6. CASE CommentArrives(r)
  BY <1>1, <1>3, <1>6 DEF CommentArrives
<1>7. CASE Disconnect(r)
  <2>1. CASE req[r].pc # "call"
    BY <1>7, <2>1, UpdateLeft DEF Disconnect
  <2>2. CASE req[r].pc = "call"
    <3>1. req[r] \in Request /\ req'[r] = [req[r] EXCEPT !.open = FALSE]
          /\ \A q \in Requests \ {r} : req'[q] = req[q]
      BY <1>7, <2>2 DEF Disconnect, TypeOK
    <3>2. /\ req'[r].op = req[r].op /\ req'[r].pc = req[r].pc /\ req'[r].todo = req[r].todo
          /\ req'[r].ticket = req[r].ticket /\ req'[r].patch = req[r].patch
          /\ req'[r].alone = req[r].alone /\ req'[r].answer = req[r].answer
      BY <3>1 DEF Request
    <3> QED BY <1>7, <3>1, <3>2 DEF Disconnect, SameUpdate, IsUpdate, Behind
  <2> QED BY <2>1, <2>2
<1> QED BY <1>4, <1>5, <1>6, <1>7

\* An update arrives: its ticket is settled no more, and whoever updates it is not alone.
LEMMA UpdatesBegun ==
  ASSUME TypeOK, UpdatesInv, NEW r \in Requests, UpdateArrives(r)
  PROVE  UpdatesInv'
<1>1. PICK u \in people, t \in 1 .. MaxTickets, patch \in Patch : NewUpdate(r, u, t, patch)
  BY NewUpdates
<1>2. /\ settled' = [settled EXCEPT ![t] = NoPatch]
      /\ settled \in [1 .. MaxTickets -> Patch]
      /\ tickets' = tickets
  BY <1>1 DEF NewUpdate, TypeOK
<1>3. /\ req'[r].op = "update" /\ req'[r].ticket = t /\ req'[r].pc = "call"
      /\ req'[r].alone = Alone(t) /\ req'[r].patch = patch /\ req'[r].todo = StatementsOf(patch)
  BY <1>1 DEF NewUpdate, Idle
<1>4. ASSUME NEW q \in Requests, q # r
      PROVE  /\ req'[q].op = req[q].op /\ req'[q].ticket = req[q].ticket
             /\ req'[q].patch = req[q].patch /\ req'[q].pc = req[q].pc
             /\ req'[q].answer = req[q].answer /\ req'[q].todo = req[q].todo
             /\ req'[q].alone => req[q].alone /\ ~Updates(q, t)
  <2>1. req[q] \in Request /\ req'[q] = [req[q] EXCEPT !.alone = @ /\ ~Updates(q, t)]
    BY <1>1, <1>4 DEF NewUpdate, TypeOK
  <2> QED BY <2>1 DEF Request
<1>5. Alone(t) => t \in DOMAIN tickets /\ \A q \in Requests : ~Updates(q, t)
  BY DEF Alone
<1>6. OneAlone'
  <2> SUFFICES ASSUME NEW q \in Requests, NEW o \in Requests, IsUpdate(q)', IsUpdate(o)',
                      req'[q].ticket = req'[o].ticket, q # o, req'[q].alone
               PROVE  FALSE
    BY DEF OneAlone
  <2>1. CASE q = r
    BY <1>3, <1>4, <1>5, <2>1 DEF IsUpdate, Updates
  <2>2. CASE o = r
    BY <1>3, <1>4, <2>2 DEF IsUpdate, Updates
  <2>3. CASE q # r /\ o # r
    BY <1>4, <2>3 DEF UpdatesInv, OneAlone, IsUpdate
  <2> QED BY <2>1, <2>2, <2>3
<1>7. UnsettledInUpdate'
  <2> SUFFICES ASSUME NEW q \in Requests, IsUpdate(q)'
               PROVE  settled'[req'[q].ticket] = NoPatch
    BY DEF UnsettledInUpdate
  <2>1. CASE req'[q].ticket = t
    BY <1>2, <2>1
  <2>2. CASE req'[q].ticket # t
    BY <1>2, <1>3, <1>4, <2>2 DEF UpdatesInv, UnsettledInUpdate, IsUpdate
  <2> QED BY <2>1, <2>2
<1>8. RowsSettled'
  BY <1>2, <1>3, <1>4, <1>5 DEF UpdatesInv, RowsSettled, IsUpdate
<1>9. FieldsWritten'
  <2> SUFFICES ASSUME NEW q \in Requests, NEW f \in Fields,
                      IsUpdate(q)', req'[q].alone, Behind(q, f)', req'[q].patch[f] # Keep
               PROVE  tickets[req'[q].ticket][f] = req'[q].patch[f]
    BY <1>2 DEF FieldsWritten
  <2>1. CASE q = r
    <3>1. f \in StatementsOf(patch)
      BY <1>3, <2>1 DEF StatementsOf
    <3> QED BY <1>3, <2>1, <3>1 DEF Behind
  <2>2. CASE q # r
    BY <1>4, <2>2 DEF UpdatesInv, FieldsWritten, IsUpdate, Behind
  <2> QED BY <2>1, <2>2
<1>10. AcknowledgedUpdatesStay'
  <2> SUFFICES ASSUME NEW o \in DOMAIN tickets, NEW f \in Fields, settled'[o][f] # Keep
               PROVE  tickets[o][f] = settled'[o][f]
    BY <1>2 DEF AcknowledgedUpdatesStay
  <2>1. o # t /\ settled'[o] = settled[o]
    BY <1>2, NothingPatched
  <2> QED BY <2>1 DEF UpdatesInv, AcknowledgedUpdatesStay
<1> QED BY <1>6, <1>7, <1>8, <1>9, <1>10 DEF UpdatesInv

LEMMA SetWrites ==
  ASSUME NEW row \in Ticket, NEW patch, NEW s \in DOMAIN Order, NEW f \in Fields
  PROVE  Set(row, patch, s)[f] = IF f = s THEN patch[f] ELSE row[f]
<1>1. f \in {"status", "priority", "assignee"} /\ s \in {"status", "stamp", "priority", "assignee"}
  BY DEF Fields, Order
<1>2. CASE s = "status"
  BY <1>1, <1>2 DEF Set, Ticket
<1>3. CASE s = "priority"
  BY <1>1, <1>3 DEF Set, Ticket
<1>4. CASE s = "assignee"
  BY <1>1, <1>4 DEF Set, Ticket
<1>5. CASE s = "stamp"
  BY <1>1, <1>5 DEF Set, Ticket
<1> QED BY <1>1, <1>2, <1>3, <1>4, <1>5

\* A statement runs: if its update is alone, nobody else is behind in this row.
LEMMA UpdatesAdvance ==
  ASSUME TypeOK, UpdatesInv, NEW r \in Requests, UpdateStatement(r)
  PROVE  UpdatesInv'
<1> DEFINE x == req[r]
<1>1. PICK s \in x.todo :
        /\ tickets' = [t \in DOMAIN tickets |->
             IF t = x.ticket THEN Set(tickets[t], x.patch, s) ELSE tickets[t]]
        /\ req' = [req EXCEPT ![r].todo = @ \ {s}]
  BY DEF UpdateStatement
<1>2. x \in Request /\ x.op = "update" /\ x.pc = "call" /\ settled' = settled
  BY DEF UpdateStatement, Calls, TypeOK
<1>3. /\ req'[r].todo = x.todo \ {s} /\ req'[r].patch = x.patch /\ req'[r].ticket = x.ticket
      /\ req'[r].op = x.op /\ req'[r].pc = x.pc /\ req'[r].alone = x.alone
      /\ req'[r].answer = x.answer
      /\ \A q \in Requests : q # r => req'[q] = req[q]
  BY <1>1, <1>2 DEF TypeOK, Request
<1>4. s \in DOMAIN Order /\ x.patch \in Patch
  BY <1>2 DEF Request
<1>5. ASSUME NEW t \in DOMAIN tickets, NEW f \in Fields
      PROVE  /\ t # x.ticket \/ f # s => tickets'[t][f] = tickets[t][f]
             /\ t = x.ticket /\ f = s => tickets'[t][f] = x.patch[f]
  <2>1. tickets[t] \in Ticket
    BY ElementOfSeq, LenProperties DEF TypeOK
  <2>2. CASE t # x.ticket
    BY <1>1, <2>2
  <2>3. CASE t = x.ticket
    <3>1. tickets'[t] = Set(tickets[t], x.patch, s)
      BY <1>1, <2>3
    <3> QED BY <1>4, <2>1, <2>3, <3>1, SetWrites
  <2> QED BY <2>2, <2>3
<1>6. DOMAIN tickets' = DOMAIN tickets
  BY <1>1
<1>7. OneAlone' /\ UnsettledInUpdate' /\ RowsSettled'
  BY <1>2, <1>3, <1>6 DEF UpdatesInv, OneAlone, UnsettledInUpdate, RowsSettled, IsUpdate
<1>8. FieldsWritten'
  <2> SUFFICES ASSUME NEW q \in Requests, NEW f \in Fields,
                      IsUpdate(q)', req'[q].alone, Behind(q, f)', req'[q].patch[f] # Keep
               PROVE  tickets'[req'[q].ticket][f] = req'[q].patch[f]
    BY DEF FieldsWritten
  <2>1. /\ IsUpdate(q) /\ req[q].alone /\ req[q].patch = req'[q].patch
        /\ req[q].ticket = req'[q].ticket
    BY <1>2, <1>3 DEF IsUpdate
  <2>2. req[q].ticket \in DOMAIN tickets
    BY <2>1 DEF UpdatesInv, RowsSettled
  <2>3. CASE q = r
    <3>1. f = s \/ Behind(q, f)
      BY <1>2, <1>3, <2>3 DEF Behind
    <3>2. f # s => tickets[req[q].ticket][f] = req[q].patch[f]
      BY <2>1, <3>1 DEF UpdatesInv, FieldsWritten
    <3> QED BY <1>5, <2>1, <2>2, <2>3, <3>2
  <2>4. CASE q # r
    <3>1. req[q].ticket # x.ticket
      BY <1>2, <2>1, <2>4 DEF UpdatesInv, OneAlone, IsUpdate
    <3>2. tickets[req[q].ticket][f] = req[q].patch[f]
      BY <1>3, <2>1, <2>4 DEF UpdatesInv, FieldsWritten, Behind
    <3> QED BY <1>5, <2>1, <2>2, <3>1, <3>2
  <2> QED BY <2>3, <2>4
<1>9. AcknowledgedUpdatesStay'
  <2> SUFFICES ASSUME NEW t \in DOMAIN tickets, NEW f \in Fields, settled[t][f] # Keep
               PROVE  tickets'[t][f] = settled[t][f]
    BY <1>2, <1>6 DEF AcknowledgedUpdatesStay
  <2>1. t # x.ticket
    BY <1>2, NothingPatched DEF UpdatesInv, UnsettledInUpdate, IsUpdate
  <2> QED BY <1>5, <2>1 DEF UpdatesInv, AcknowledgedUpdatesStay
<1> QED BY <1>7, <1>8, <1>9 DEF UpdatesInv

\* The closure has run every statement: all of the patch is behind it.
LEMMA UpdatesEnd ==
  ASSUME TypeOK, UpdatesInv, NEW r \in Requests, UpdateReturns(r)
  PROVE  UpdatesInv'
<1>1. /\ req[r] \in Request /\ req[r].todo = {} /\ IsUpdate(r) /\ req[r].pc = "call"
      /\ req'[r] = Answered(req[r], "ok") /\ \A q \in Requests \ {r} : req'[q] = req[q]
      /\ UNCHANGED <<tickets, settled>>
  BY DEF UpdateReturns, Calls, IsUpdate, Answer, TypeOK
<1>2. \/ Answered(req[r], "ok") = Idle
      \/ /\ Answered(req[r], "ok").ticket = req[r].ticket
         /\ Answered(req[r], "ok").patch = req[r].patch
         /\ Answered(req[r], "ok").alone = req[r].alone
  BY <1>1 DEF Answered, Request
<1>3. \A f \in Fields : Behind(r, f)
  BY <1>1 DEF Behind
<1>4. SameUpdate(r)
  BY <1>1, <1>2, <1>3 DEF SameUpdate, IsUpdate, Idle
<1>5. \A q \in Requests \ {r} : SameUpdate(q)
  BY <1>1 DEF SameUpdate, IsUpdate, Behind
<1>6. RowsKept
  BY <1>1 DEF UpdatesInv, RowsSettled, RowsKept
<1> QED BY <1>1, <1>4, <1>5, <1>6, UpdatesKept

\* The answer reaches the client: what an update alone with its ticket has set is settled.
LEMMA UpdatesSettle ==
  ASSUME TypeOK, UpdatesInv, NEW r \in Requests, Respond(r)
  PROVE  UpdatesInv'
<1>1. /\ tickets' = tickets /\ req' = [req EXCEPT ![r] = Idle]
      /\ \A q \in Requests \ {r} : req'[q] = req[q]
      /\ settled \in [1 .. MaxTickets -> Patch]
  BY DEF Respond, TypeOK
<1>2. \A q \in Requests : SameUpdate(q)
  BY <1>1, UpdateLeft
<1>3. RowsKept
  BY <1>1 DEF UpdatesInv, RowsSettled, RowsKept
<1>4. CASE settled' = settled
  BY <1>2, <1>3, <1>4, UpdatesKept
<1>5. CASE settled' # settled
  <2> DEFINE t == req[r].ticket
  <2>1. /\ IsUpdate(r) /\ req[r].answer = "ok" /\ req[r].alone /\ req[r].pc = "respond"
        /\ settled' = [settled EXCEPT ![t] = req[r].patch]
    BY <1>5 DEF Respond, IsUpdate
  <2>2. t \in DOMAIN tickets /\ DOMAIN tickets \subseteq 1 .. MaxTickets
    BY <2>1 DEF UpdatesInv, RowsSettled
  <2>3. ASSUME NEW q \in Requests, IsUpdate(q)'
        PROVE  q # r /\ req'[q] = req[q] /\ IsUpdate(q) /\ req[q].ticket # t
    <3>1. q # r
      BY <1>1, <2>3 DEF IsUpdate, Idle, TypeOK
    <3> QED BY <1>1, <2>1, <2>3, <3>1 DEF UpdatesInv, OneAlone, IsUpdate
  <2>4. OneAlone'
    BY <2>3 DEF UpdatesInv, OneAlone
  <2>5. UnsettledInUpdate'
    BY <1>1, <2>1, <2>3 DEF UpdatesInv, UnsettledInUpdate
  <2>6. RowsSettled'
    BY <1>1, <2>1, <2>2, <2>3 DEF UpdatesInv, RowsSettled
  <2>7. FieldsWritten'
    BY <1>1, <2>3 DEF UpdatesInv, FieldsWritten, Behind
  <2>8. AcknowledgedUpdatesStay'
    <3> SUFFICES ASSUME NEW o \in DOMAIN tickets, NEW f \in Fields, settled'[o][f] # Keep
                 PROVE  tickets[o][f] = settled'[o][f]
      BY <1>1 DEF AcknowledgedUpdatesStay
    <3>1. CASE o = t
      <4>1. settled'[o] = req[r].patch
        BY <1>1, <2>1, <2>2, <3>1
      <4> QED BY <2>1, <3>1, <4>1 DEF UpdatesInv, FieldsWritten, Behind
    <3>2. CASE o # t
      BY <1>1, <2>1, <3>2 DEF UpdatesInv, AcknowledgedUpdatesStay
    <3> QED BY <3>1, <3>2
  <2> QED BY <2>4, <2>5, <2>6, <2>7, <2>8 DEF UpdatesInv
<1> QED BY <1>4, <1>5

LEMMA UpdatesStep ==
  ASSUME TypeOK, UpdatesInv, [Next]_vars
  PROVE  UpdatesInv'
<1>1. ASSUME \A r \in Requests : ~UpdateStatement(r), settled' = settled,
             \A q \in Requests : SameUpdate(q)
      PROVE  UpdatesInv'
  <2>1. RowsKept
    BY <1>1, RowsOnlyAdded DEF UpdatesInv
  <2> QED BY <1>1, <2>1, UpdatesKept
<1>2. CASE \E r \in Requests : UpdateStatement(r)
  BY <1>2, UpdatesAdvance
<1>3. ASSUME \A r \in Requests : ~UpdateStatement(r)
      PROVE  UpdatesInv'
  <2>1. ASSUME NEW r \in Requests, Handle(r)
        PROVE  UpdatesInv'
    BY <1>1, <1>3, <2>1, UpdatesElsewhere, UpdatesEnd, UpdatesSettle
  <2>2. ASSUME NEW r \in Requests,
               CreateArrives(r) \/ GetArrives(r) \/ CommentArrives(r) \/ Disconnect(r)
        PROVE  UpdatesInv'
    BY <1>1, <1>3, <2>2, UpdatesOutside
  <2>3. Crash => settled' = settled /\ \A q \in Requests : SameUpdate(q)
    BY DEF Crash, SameUpdate, IsUpdate, Idle
  <2>4. Restart \/ UNCHANGED vars \/ (\E u \in Users : DeleteUser(u))
          => settled' = settled /\ \A q \in Requests : SameUpdate(q)
    BY DEF Restart, DeleteUser, vars, SameUpdate, IsUpdate, Behind
  <2> QED BY <1>1, <1>3, <2>1, <2>2, <2>3, <2>4, UpdatesBegun DEF Next
<1> QED BY <1>2, <1>3

\* What an acknowledged update has set stays until the next update of the ticket
\* arrives, for any number of tickets, requests, failures and crashes.
THEOREM UpdatesStay == Spec => []AcknowledgedUpdatesStay
<1>1. Init => UpdatesInv
  BY EmptySeq, NothingPatched DEF Init, Idle, NothingSettled, UpdatesInv, OneAlone,
     UnsettledInUpdate, RowsSettled, FieldsWritten, AcknowledgedUpdatesStay, IsUpdate
<1>2. TypeOK /\ UpdatesInv /\ [Next]_vars => UpdatesInv'
  BY UpdatesStep
<1>3. UpdatesInv => AcknowledgedUpdatesStay
  BY DEF UpdatesInv
<1> QED BY <1>1, <1>2, <1>3, Typing, PTL DEF Spec
=============================================================================
