------------------------------ MODULE Tickets -------------------------------
(***************************************************************************)
(* The ticketing system: the closures of src/src/tickets/mod.rs and the    *)
(* handlers of src/src/api/mod.rs that call them.  A closure of one        *)
(* statement is atomic.  That of `update` runs up to four statements, each *)
(* its own transaction: it keeps the connection mutex in between, but the  *)
(* process may die there, and another SQLite client may write.             *)
(***************************************************************************)
EXTENDS Naturals, Sequences

CONSTANTS
  Users,           \* user ids a request may carry or name
  Requests,        \* slots for the requests in flight
  StatusInputs,    \* the strings clients send as a status,
  PriorityInputs,  \*   as a priority,
  AssigneeInputs,  \*   as an assignee
  Keep,            \* a field the PATCH leaves out; NULL; nobody
  MaxTickets,      \* bounds of the model: how many rows the two tables
  MaxComments      \*   may hold

\* The CHECK constraints of the table.
Statuses == {"open", "in_progress", "resolved", "closed"}
Priorities == {"low", "medium", "high", "critical"}

ASSUME TicketsAssumption ==
  /\ MaxTickets \in Nat /\ MaxComments \in Nat
  /\ AssigneeInputs \subseteq Users
  /\ Keep \notin Users \cup Requests \cup StatusInputs \cup PriorityInputs
  /\ Keep \notin Statuses \cup Priorities

VARIABLES
  people,    \* the ids in the users table
  tickets,   \* the tickets table, by id
  comments,  \* the ticket_comments table, by id
  req,       \* the request in each slot
  lock,      \* the slot whose update is part-way, or Keep
  up,        \* whether the process is running
  torn,      \* history: tickets an update of which stopped part-way
  settled    \* history: what an undisturbed, acknowledged update set, per ticket

vars == <<people, tickets, comments, req, lock, up, torn, settled>>

\* The fields of a PATCH and, between them, the stamp that follows the status.
Fields == {"status", "priority", "assignee"}
Order == [status |-> 1, stamp |-> 2, priority |-> 3, assignee |-> 4]

\* resolved and closed: whether resolved_at and closed_at are set.
Ticket == [ status   : Statuses,
            priority : Priorities,
            assignee : Users \cup {Keep},
            by       : Users,
            resolved : BOOLEAN,
            closed   : BOOLEAN ]

Comment == [ticket : Nat, by : Users]

Patch == [ status   : StatusInputs \cup {Keep},
           priority : PriorityInputs \cup {Keep},
           assignee : AssigneeInputs \cup {Keep} ]

NoPatch == [status |-> Keep, priority |-> Keep, assignee |-> Keep]

Request ==
  [ pc     : {"idle", "call", "respond"},
    op     : {"none", "create", "update", "get", "get_comments", "comment"},
    user   : Users \cup {Keep},
    ticket : Nat,
    patch  : Patch,
    todo   : SUBSET DOMAIN Order,   \* the statements of an update still to run
    open   : BOOLEAN,               \* the client is still connected
    answer : {"none", "ok", "error", "not_found"},
    read   : SUBSET Nat,            \* the comments read
    known  : SUBSET Nat,            \* history: those there when the row was read
    alone  : BOOLEAN ]              \* history: no other update of its ticket

\* AuthUser was extracted before: a request starts with its user's id.
Idle == [pc |-> "idle", op |-> "none", user |-> Keep, ticket |-> 0, patch |-> NoPatch,
         todo |-> {}, open |-> FALSE, answer |-> "none",
         read |-> {}, known |-> {}, alone |-> FALSE]

NothingSettled == [t \in 1 .. MaxTickets |-> NoPatch]

Init ==
  /\ people = Users
  /\ tickets = <<>>
  /\ comments = <<>>
  /\ req = [r \in Requests |-> Idle]
  /\ lock = Keep
  /\ up = TRUE
  /\ torn = {}
  /\ settled = NothingSettled

-----------------------------------------------------------------------------
Answered(x, st) == IF x.open THEN [x EXCEPT !.pc = "respond", !.answer = st, !.todo = {}]
                   ELSE Idle

Answer(r, st) == req' = [req EXCEPT ![r] = Answered(@, st)]

Calls(r, op) == req[r].pc = "call" /\ req[r].op = op

\* The connection is free for this slot's closure.
Acquires(r) == lock \in {Keep, r}

Arrives(r, x) ==
  /\ up
  /\ req[r].pc = "idle"
  /\ req' = [req EXCEPT ![r] = x]
  /\ UNCHANGED <<people, tickets, comments, lock, up, torn, settled>>

CreateArrives(r) ==
  \E u \in people, p \in PriorityInputs :
    Arrives(r, [Idle EXCEPT !.pc = "call", !.op = "create", !.user = u, !.open = TRUE,
                            !.patch.priority = p])

\* A patch touches t: the slot's own history notes whether it had t to itself.
Updates(q, t) == req[q].op = "update" /\ req[q].ticket = t

Alone(t) == t \in DOMAIN tickets /\ \A q \in Requests : ~Updates(q, t)

\* The statements an update runs for a patch.
StatementsOf(patch) ==
  {f \in Fields : patch[f] # Keep} \cup
  {s \in {"stamp"} : patch.status \in {"resolved", "closed"}}

UpdateArrives(r) ==
  \E u \in people, t \in 1 .. MaxTickets, patch \in Patch :
    /\ up
    /\ req[r].pc = "idle"
    /\ req' = [q \in Requests |->
         IF q = r
         THEN [Idle EXCEPT !.pc = "call", !.op = "update", !.user = u, !.open = TRUE,
                           !.ticket = t, !.patch = patch,
                           !.todo = StatementsOf(patch),
                           !.alone = Alone(t)]
         ELSE [req[q] EXCEPT !.alone = @ /\ ~Updates(q, t)]]
    /\ settled' = [settled EXCEPT ![t] = NoPatch]
    /\ UNCHANGED <<people, tickets, comments, lock, up, torn>>

GetArrives(r) ==
  \E u \in people, t \in 1 .. MaxTickets :
    Arrives(r, [Idle EXCEPT !.pc = "call", !.op = "get", !.user = u, !.open = TRUE,
                            !.ticket = t])

CommentArrives(r) ==
  \E u \in people, t \in 1 .. MaxTickets :
    Arrives(r, [Idle EXCEPT !.pc = "call", !.op = "comment", !.user = u, !.open = TRUE,
                            !.ticket = t])

-----------------------------------------------------------------------------
\* Mutant for TypeOK: the CHECK on priority is missing.
CreateUnchecked(r) ==
  /\ Calls(r, "create") /\ Acquires(r)
  /\ req[r].user \in people
  /\ Len(tickets) < MaxTickets
  /\ tickets' = Append(tickets,
       [status |-> "open", priority |-> req[r].patch.priority, assignee |-> Keep,
        by |-> req[r].user, resolved |-> FALSE, closed |-> FALSE])
  /\ Answer(r, "ok")
  /\ UNCHANGED <<people, comments, lock, up, torn, settled>>

\* tickets::create: the CHECK on priority, the REFERENCES of created_by.
Create(r) ==
  /\ Calls(r, "create") /\ Acquires(r)
  /\ req[r].patch.priority \in Priorities
  /\ req[r].user \in people
  /\ Len(tickets) < MaxTickets
  /\ tickets' = Append(tickets,
       [status |-> "open", priority |-> req[r].patch.priority, assignee |-> Keep,
        by |-> req[r].user, resolved |-> FALSE, closed |-> FALSE])
  /\ Answer(r, "ok")
  /\ UNCHANGED <<people, comments, lock, up, torn, settled>>

\* tickets::update, one statement at a time, in the order of the source.
Allowed(patch, s) ==
  CASE s = "status"   -> patch.status \in Statuses
    [] s = "priority" -> patch.priority \in Priorities
    [] s = "assignee" -> patch.assignee \in people
    [] s = "stamp"    -> TRUE

\* Mutant for StampFollowsStatus: closing a ticket sets resolved_at.
SetOneStamp(row, patch, s) ==
  CASE s = "status"   -> [row EXCEPT !.status = patch.status]
    [] s = "priority" -> [row EXCEPT !.priority = patch.priority]
    [] s = "assignee" -> [row EXCEPT !.assignee = patch.assignee]
    [] s = "stamp"    -> [row EXCEPT !.resolved = TRUE]

Set(row, patch, s) ==
  CASE s = "status"   -> [row EXCEPT !.status = patch.status]
    [] s = "priority" -> [row EXCEPT !.priority = patch.priority]
    [] s = "assignee" -> [row EXCEPT !.assignee = patch.assignee]
    [] s = "stamp"    -> [row EXCEPT !.resolved = @ \/ patch.status = "resolved",
                                     !.closed   = @ \/ patch.status = "closed"]

\* An id without a row: UPDATE changes nothing, checks nothing and succeeds.
UpdateStatement(r) ==
  LET x == req[r] IN
  /\ Calls(r, "update") /\ Acquires(r)
  /\ \E s \in x.todo :
       /\ \A o \in x.todo : Order[s] <= Order[o]
       /\ x.ticket \in DOMAIN tickets => Allowed(x.patch, s)
       /\ tickets' = [t \in DOMAIN tickets |->
                        IF t = x.ticket THEN Set(tickets[t], x.patch, s) ELSE tickets[t]]
       /\ req' = [req EXCEPT ![r].todo = @ \ {s}]
  /\ lock' = r
  /\ UNCHANGED <<people, comments, up, torn, settled>>

UpdateReturns(r) ==
  /\ Calls(r, "update") /\ Acquires(r)
  /\ req[r].todo = {}
  /\ Answer(r, "ok")
  /\ lock' = Keep
  /\ UNCHANGED <<people, tickets, comments, up, torn, settled>>

\* What the statements run so far leave of an update that stops here.
Stopped == {req[r].ticket : r \in {q \in Requests : q = lock /\ req[q].todo # {}}}

\* Mutants: the error is swallowed (AcknowledgedUpdatesStay), the lock is never
\* released (MutexIsReleased).
UpdateSwallows(r) ==
  /\ Calls(r, "update") /\ Acquires(r)
  /\ req[r].todo # {} \/ lock = Keep
  /\ Answer(r, "ok")
  /\ lock' = Keep
  /\ torn' = torn \cup Stopped
  /\ UNCHANGED <<people, tickets, comments, up, settled>>

UpdateKeepsLock(r) ==
  /\ Calls(r, "update") /\ Acquires(r)
  /\ req[r].todo # {} \/ lock = Keep
  /\ Answer(r, "error")
  /\ torn' = torn \cup Stopped
  /\ UNCHANGED <<people, tickets, comments, lock, up, settled>>

\* The mutex is poisoned, or a statement fails and `?` leaves the closure: what
\* ran before it stays.
UpdateFails(r) ==
  /\ Calls(r, "update") /\ Acquires(r)
  /\ req[r].todo # {} \/ lock = Keep
  /\ Answer(r, "error")
  /\ lock' = Keep
  /\ torn' = torn \cup Stopped
  /\ UNCHANGED <<people, tickets, comments, up, settled>>

CommentsOf(t) == {c \in DOMAIN comments : comments[c].ticket = t}

\* get_ticket: tickets::get and, in a second call, tickets::get_comments.
GetTicket(r) ==
  /\ Calls(r, "get") /\ Acquires(r)
  /\ \/ /\ req[r].ticket \notin DOMAIN tickets
        /\ Answer(r, "not_found")
     \/ /\ req[r].ticket \in DOMAIN tickets
        /\ req' = [req EXCEPT ![r] = IF @.open THEN [@ EXCEPT !.op = "get_comments",
                                                              !.known = CommentsOf(req[r].ticket)]
                                     ELSE Idle]
  /\ UNCHANGED <<people, tickets, comments, lock, up, torn, settled>>

\* Mutant for CommentsNoOlderThanTicket: only the reader's own comments.
GetOwnComments(r) ==
  /\ Calls(r, "get_comments") /\ Acquires(r)
  /\ req' = [req EXCEPT ![r] =
        Answered([@ EXCEPT !.read = {c \in CommentsOf(req[r].ticket) :
                                       comments[c].by = req[r].user}], "ok")]
  /\ UNCHANGED <<people, tickets, comments, lock, up, torn, settled>>

GetComments(r) ==
  /\ Calls(r, "get_comments") /\ Acquires(r)
  /\ req' = [req EXCEPT ![r] = Answered([@ EXCEPT !.read = CommentsOf(req[r].ticket)], "ok")]
  /\ UNCHANGED <<people, tickets, comments, lock, up, torn, settled>>

\* Mutant for ReferencesHold: the connection forgets PRAGMA foreign_keys=ON.
AddCommentUnchecked(r) ==
  /\ Calls(r, "comment") /\ Acquires(r)
  /\ Len(comments) < MaxComments
  /\ comments' = Append(comments, [ticket |-> req[r].ticket, by |-> req[r].user])
  /\ Answer(r, "ok")
  /\ UNCHANGED <<people, tickets, lock, up, torn, settled>>

\* tickets::add_comment: the two REFERENCES of the row.
AddComment(r) ==
  /\ Calls(r, "comment") /\ Acquires(r)
  /\ req[r].ticket \in DOMAIN tickets
  /\ req[r].user \in people
  /\ Len(comments) < MaxComments
  /\ comments' = Append(comments, [ticket |-> req[r].ticket, by |-> req[r].user])
  /\ Answer(r, "ok")
  /\ UNCHANGED <<people, tickets, lock, up, torn, settled>>

\* Any other closure: its statement violates a constraint, or SQLite fails.
CallFails(r) ==
  /\ req[r].pc = "call" /\ req[r].op # "update" /\ Acquires(r)
  /\ Answer(r, "error")
  /\ UNCHANGED <<people, tickets, comments, lock, up, torn, settled>>

Respond(r) ==
  /\ req[r].pc = "respond"
  /\ settled' = IF req[r].op = "update" /\ req[r].answer = "ok" /\ req[r].alone
                THEN [settled EXCEPT ![req[r].ticket] = req[r].patch] ELSE settled
  /\ req' = [req EXCEPT ![r] = Idle]
  /\ UNCHANGED <<people, tickets, comments, lock, up, torn>>

\* The closure of a request whose client has gone still runs.
Disconnect(r) ==
  /\ req[r].pc # "idle" /\ req[r].open
  /\ req' = [req EXCEPT ![r] = IF @.pc = "call" THEN [@ EXCEPT !.open = FALSE] ELSE Idle]
  /\ UNCHANGED <<people, tickets, comments, lock, up, torn, settled>>

Crash ==
  /\ up
  /\ up' = FALSE
  /\ req' = [r \in Requests |-> Idle]
  /\ lock' = Keep
  /\ torn' = torn \cup Stopped
  /\ UNCHANGED <<people, tickets, comments, settled>>

Restart ==
  /\ ~up
  /\ up' = TRUE
  /\ UNCHANGED <<people, tickets, comments, req, lock, torn, settled>>

\* Another SQLite client deletes a user.  It enforces foreign keys too: none of
\* these references has an ON DELETE action, so a row that is referred to stays.
DeleteUser(u) ==
  /\ u \in people
  /\ \A t \in DOMAIN tickets : u \notin {tickets[t].by, tickets[t].assignee}
  /\ \A c \in DOMAIN comments : comments[c].by # u
  /\ people' = people \ {u}
  /\ UNCHANGED <<tickets, comments, req, lock, up, torn, settled>>

Handle(r) ==
  \/ Create(r)
  \/ UpdateStatement(r)
  \/ UpdateReturns(r)
  \/ UpdateFails(r)
  \/ GetTicket(r)
  \/ GetComments(r)
  \/ AddComment(r)
  \/ CallFails(r)
  \/ Respond(r)

Next ==
  \/ \E r \in Requests :
       \/ CreateArrives(r)
       \/ UpdateArrives(r)
       \/ GetArrives(r)
       \/ CommentArrives(r)
       \/ Handle(r)
       \/ Disconnect(r)
  \/ Crash
  \/ Restart
  \/ \E u \in Users : DeleteUser(u)

\* The blocking pool runs every closure that can proceed.
Spec == Init /\ [][Next]_vars /\ \A r \in Requests : WF_vars(Handle(r))

-----------------------------------------------------------------------------
TypeOK ==
  /\ people \subseteq Users
  /\ tickets \in Seq(Ticket)
  /\ comments \in Seq(Comment)
  /\ req \in [Requests -> Request]
  /\ lock \in Requests \cup {Keep}
  /\ up \in BOOLEAN
  /\ torn \subseteq Nat
  /\ settled \in [1 .. MaxTickets -> Patch]

\* The three REFERENCES hold in every state, although a request carries the id of
\* a user who may be deleted before its closure runs, and an update may be cut
\* short by another client's delete, a failure or a crash.
ReferencesHold ==
  /\ \A t \in DOMAIN tickets : /\ tickets[t].by \in people
                               /\ tickets[t].assignee \in people \cup {Keep}
  /\ \A c \in DOMAIN comments : /\ comments[c].by \in people
                                /\ comments[c].ticket \in DOMAIN tickets

\* The stamp of a status is missing only while the update that set the status
\* holds the mutex, or after one that stopped part-way (tickets::update).
StampFollowsStatus ==
  \A t \in DOMAIN tickets :
    \/ /\ tickets[t].status = "resolved" => tickets[t].resolved
       /\ tickets[t].status = "closed" => tickets[t].closed
    \/ t \in torn
    \/ \E r \in Requests : r = lock /\ req[r].ticket = t /\ "stamp" \in req[r].todo

\* An update that was acknowledged, and that no other update of the ticket
\* overlapped, has set every field it named, and they stay until the next one
\* arrives: across crashes, disconnected clients and failing neighbours.
AcknowledgedUpdatesStay ==
  \A t \in DOMAIN tickets, f \in Fields :
    settled[t][f] # Keep => tickets[t][f] = settled[t][f]

\* get_ticket reads the row and the comments in two calls, in this order: whoever
\* is answered reads every comment that was there when the row was read, so a
\* status is never shown without the comments that preceded it.
CommentsNoOlderThanTicket ==
  \A r \in Requests :
    req[r].pc = "respond" /\ req[r].op = "get_comments" /\ req[r].answer = "ok" =>
      req[r].known \subseteq req[r].read

\* "Set timestamps for status transitions" (tickets::update): outside a running
\* update, a resolved ticket has its resolved_at.
ResolvedIsStamped ==
  lock = Keep =>
    \A t \in DOMAIN tickets : tickets[t].status = "resolved" => tickets[t].resolved

\* Whoever takes the connection gives it back: an update that fails, or whose
\* client has gone, releases the mutex (the guard of Database::with_conn).  The
\* mutex is not fair, so nothing is said of who gets it next.
MutexIsReleased == lock # Keep ~> lock = Keep
=============================================================================
