------------------------------ MODULE Firewall ------------------------------
(***************************************************************************)
(* The endpoints of api/firewall.rs over executor/command.rs: a request    *)
(* that passes validation runs one `ufw` as a child process and turns its  *)
(* exit status or its output into an answer.  ufw itself, its rules and    *)
(* who else runs it are the environment.  A slot of req is one task with   *)
(* its child: a client that goes away drops the task but not the child     *)
(* (no kill_on_drop), which keeps the slot until it ends.  Requests start  *)
(* where AuthUser and require_permission have let them through (Gateway).  *)
(***************************************************************************)
EXTENDS Naturals, Sequences, SequencesExt

CONSTANTS
  Slots,      \* tasks and their children
  Clients,    \* who lists rules, and deletes what is listed
  Rules,      \* the rules there may be
  Junk,       \* arguments that the validation lets through and ufw refuses
  MaxNumber,  \* the numbers a client may send are 0 .. MaxNumber
  DashesFirst, \* the line under the heads of the columns starts with its dashes
  None

FirewallAssumption ==
  /\ Junk \notin Rules /\ None \notin Rules \cup {Junk}
  /\ None \notin Clients
  /\ MaxNumber \in Nat /\ DashesFirst \in BOOLEAN

VARIABLES
  active,     \* ufw: is it enabled
  rules,      \* ufw: the rules, in their order
  req,        \* the tasks
  listing     \* the last listing each client has read

vars == <<active, rules, req, listing>>

-----------------------------------------------------------------------------
(* The output of `ufw status numbered`, line by line, and what is read in it. *)

Line(k, n, x) == [kind |-> k, number |-> n, rule |-> x]

\* A remark without a number may stand in the place of the rules when there are none;
\* blank lines and the heads of the columns are left out.
Printed ==
  LET heads == <<Line("active", 0, None),
                 Line(IF DashesFirst THEN "dashes" ELSE "indented", 0, None)>>
  IN IF ~active THEN {<<Line("inactive", 0, None)>>}
     ELSE {heads \o [i \in 1 .. Len(rules) |-> Line("rule", i, rules[i])]}
          \cup (IF rules = <<>> THEN {heads \o <<Line("note", 0, None)>>} ELSE {})

\* Mutant for DeletesWhatIsListed: rules are numbered by their line.
ParseByLine(text) ==
  [active |-> text # <<>> /\ text[1].kind = "active",
   rules |-> {[number |-> i - 1, rule |-> text[i].rule] :
                i \in {k \in 1 .. Len(text) : text[k].kind = "rule"}}]

\* parse_ufw_status reads the lines below one that starts with dashes.
Below(text) ==
  {k \in 1 .. Len(text) : /\ text[k].kind \in {"rule", "note"}
                          /\ \E d \in 1 .. k - 1 : text[d].kind = "dashes"}

\* parse_rule_line: each is a rule, under the number in its brackets; one without counts
\* on from the lines before it.
Parse(text) ==
  [active |-> text # <<>> /\ text[1].kind = "active",
   rules |-> {[number |-> IF text[i].number # 0 THEN text[i].number
                          ELSE Cardinality({k \in Below(text) : k < i}) + 1,
               rule |-> text[i].rule] : i \in Below(text)}]

-----------------------------------------------------------------------------
\* took and base are history: whether the command did what was asked, and what the rules
\* were for the ufw behind a listing that shows any, also the listing that a delete has
\* its number from.
NoListing == [active |-> FALSE, rules |-> {}]

Idle == [pc |-> "idle", by |-> None, op |-> None, rule |-> None, number |-> 0,
         open |-> FALSE, success |-> FALSE, out |-> <<>>, answer |-> None,
         shown |-> NoListing, took |-> FALSE, base |-> <<>>]

Init ==
  /\ active \in BOOLEAN
  /\ rules = <<>>
  /\ req = [r \in Slots |-> Idle]
  /\ listing = [c \in Clients |-> [rules |-> {}, base |-> <<>>]]

Started(c, op) == [Idle EXCEPT !.pc = "running", !.by = c, !.op = op, !.open = TRUE]

StatusArrives(r, c) ==
  /\ req[r] = Idle
  /\ req' = [req EXCEPT ![r] = Started(c, "status")]
  /\ UNCHANGED <<active, rules, listing>>

\* add_rule validates its fields in turn; the first one refused answers 400 and nothing
\* runs.  What the filters let through may be junk to ufw all the same.
AddArrives(r, c) ==
  /\ req[r] = Idle
  /\ \E valid \in BOOLEAN, x \in Rules \cup {Junk} :
       req' = [req EXCEPT ![r] =
         IF valid THEN [Started(c, "add") EXCEPT !.rule = x]
         ELSE [Started(c, "add") EXCEPT !.pc = "answered", !.answer = "bad_request"]]
  /\ UNCHANGED <<active, rules, listing>>

ListedAt(c, n) ==
  LET e == {x \in listing[c].rules : x.number = n}
  IN IF e = {} THEN None ELSE (CHOOSE x \in e : TRUE).rule

\* delete_rule: a number, whatever the client has read under it.
DeleteArrives(r, c) ==
  /\ req[r] = Idle
  /\ \E n \in 0 .. MaxNumber :
       req' = [req EXCEPT ![r] =
         [Started(c, "delete") EXCEPT
            !.number = n, !.rule = ListedAt(c, n),
            !.base = IF ListedAt(c, n) = None THEN <<>> ELSE listing[c].base]]
  /\ UNCHANGED <<active, rules, listing>>

ToggleArrives(r, c) ==
  /\ req[r] = Idle
  /\ \E op \in {"enable", "disable"} : req' = [req EXCEPT ![r] = Started(c, op)]
  /\ UNCHANGED <<active, rules, listing>>

-----------------------------------------------------------------------------
Runs(r, op) == req[r].pc = "running" /\ req[r].op = op

\* Is the command of q done, going by the state ufw leaves behind?
Done(q) ==
  CASE q.op = "status"  -> TRUE
    [] q.op = "add"     -> q.rule \in Range(rules')
    [] q.op = "delete"  -> Len(rules') = Len(rules) - 1
    [] q.op = "enable"  -> active'
    [] q.op = "disable" -> ~active'

\* The child ends, with this exit status and output; nobody reads those of a dropped task.
Exits(r, ok, text) ==
  req' = [req EXCEPT ![r] =
    IF ~req[r].open THEN Idle
    ELSE [req[r] EXCEPT !.pc = "exited", !.success = ok, !.out = text,
                        !.took = Done(req[r]), !.rule = None, !.number = 0,
                        !.base = IF req[r].op = "status" /\ active THEN rules ELSE <<>>]]

UfwStatus(r) ==
  /\ Runs(r, "status")
  /\ \E text \in Printed : Exits(r, TRUE, text)
  /\ UNCHANGED <<active, rules, listing>>

UfwAdd(r) ==
  /\ Runs(r, "add") /\ req[r].rule \in Rules
  /\ rules' = IF req[r].rule \in Range(rules) THEN rules ELSE Append(rules, req[r].rule)
  /\ Exits(r, TRUE, <<>>)
  /\ UNCHANGED <<active, listing>>

UfwDelete(r) ==
  /\ Runs(r, "delete") /\ req[r].number \in 1 .. Len(rules)
  /\ rules' = RemoveAt(rules, req[r].number)
  /\ Exits(r, TRUE, <<>>)
  /\ UNCHANGED <<active, listing>>

UfwToggle(r) ==
  /\ Runs(r, "enable") \/ Runs(r, "disable")
  /\ active' = (req[r].op = "enable")
  /\ Exits(r, TRUE, <<>>)
  /\ UNCHANGED <<rules, listing>>

\* It refuses, is not allowed or is killed: output goes to stderr, the status is not 0.
UfwFails(r) ==
  /\ req[r].pc = "running"
  /\ UNCHANGED <<active, rules, listing>>
  /\ Exits(r, FALSE, <<>>)

\* exec returns Err and the handler 500: there is no child.
ExecFails(r) ==
  /\ req[r].pc = "running" /\ req[r].open
  /\ req' = [req EXCEPT ![r].pc = "answered", ![r].answer = "error"]
  /\ UNCHANGED <<active, rules, listing>>

\* The handler goes on: a status is parsed whatever the exit status.
Answers(r) ==
  /\ req[r].pc = "exited"
  /\ req' = [req EXCEPT ![r] = [@ EXCEPT !.pc = "answered", !.out = <<>>,
       !.answer = IF req[r].op = "status" \/ req[r].success THEN "ok" ELSE "failed",
       !.shown = IF req[r].op = "status" THEN Parse(req[r].out) ELSE NoListing]]
  /\ UNCHANGED <<active, rules, listing>>

\* The client reads the answer.
Respond(r) ==
  /\ req[r].pc = "answered"
  /\ listing' = IF req[r].op = "status" /\ req[r].answer = "ok"
                THEN [listing EXCEPT ![req[r].by] =
                        [rules |-> req[r].shown.rules, base |-> req[r].base]]
                ELSE listing
  /\ req' = [req EXCEPT ![r] = Idle]
  /\ UNCHANGED <<active, rules>>

Dropped(q) == IF q.pc = "running" THEN [q EXCEPT !.open = FALSE] ELSE Idle

\* The client goes away.
Disconnect(r) ==
  /\ req[r].open
  /\ req' = [req EXCEPT ![r] = Dropped(@)]
  /\ UNCHANGED <<active, rules, listing>>

\* The server dies; its children do not.
Crash ==
  /\ \E r \in Slots : req[r].open
  /\ req' = [r \in Slots |-> Dropped(req[r])]
  /\ UNCHANGED <<active, rules, listing>>

\* Somebody runs ufw by hand.
Administrator ==
  /\ \/ \E x \in Rules \ Range(rules) : rules' = Append(rules, x) /\ UNCHANGED active
     \/ \E i \in 1 .. Len(rules) : rules' = RemoveAt(rules, i) /\ UNCHANGED active
     \/ active' = ~active /\ UNCHANGED rules
  /\ UNCHANGED <<req, listing>>

Arrives(r, c) ==
  StatusArrives(r, c) \/ AddArrives(r, c) \/ DeleteArrives(r, c) \/ ToggleArrives(r, c)

Ufw(r) == UfwStatus(r) \/ UfwAdd(r) \/ UfwDelete(r) \/ UfwToggle(r) \/ UfwFails(r)

Next ==
  \/ \E r \in Slots :
       \/ \E c \in Clients : Arrives(r, c)
       \/ Ufw(r) \/ ExecFails(r) \/ Answers(r) \/ Respond(r) \/ Disconnect(r)
  \/ Crash
  \/ Administrator

Spec == Init /\ [][Next]_vars
-----------------------------------------------------------------------------
Lines == [kind : {"active", "inactive", "dashes", "indented", "rule", "note"},
          number : Nat, rule : Rules \cup {None}]
Entries == [number : Nat, rule : Rules \cup {None}]

\* A task whose client has gone has nothing but its child.
TypeOK ==
  /\ active \in BOOLEAN
  /\ rules \in Seq(Rules)
  /\ req \in [Slots -> [pc : {"idle", "running", "exited", "answered"}, by : Clients \cup {None},
                        op : {None, "status", "add", "delete", "enable", "disable"},
                        rule : Rules \cup {Junk, None}, number : 0 .. MaxNumber,
                        open : BOOLEAN, success : BOOLEAN, out : Seq(Lines),
                        answer : {None, "ok", "failed", "error", "bad_request"},
                        shown : [active : BOOLEAN, rules : SUBSET Entries],
                        took : BOOLEAN, base : Seq(Rules)]]
  /\ \A r \in Slots : /\ req[r].pc = "idle" => req[r] = Idle
                      /\ ~req[r].open => req[r].pc \in {"idle", "running"}
  /\ listing \in [Clients -> [rules : SUBSET Entries, base : Seq(Rules)]]

RemovesAsListed ==
  \A r \in Slots :
    /\ Runs(r, "delete") /\ req'[r] # req[r] /\ rules' # rules
    /\ req[r].rule # None /\ req[r].base = rules
    => \E i \in DOMAIN rules : /\ rules[i] = req[r].rule /\ rules' = RemoveAt(rules, i)
                              /\ req[r].rule \notin Range(rules')

\* Rules are deleted by position, and the position is read in a listing that may be old:
\* a delete by a number that its listing shows removes the rule shown under it, and no
\* other, if the rules are still those that the listing was made from (get_status,
\* delete_rule).
DeletesWhatIsListed == [][RemovesAsListed]_vars

\* {"ok": true} means that the command of this very request did what was asked, whatever
\* other requests, abandoned children and administrators did around it.
OkMeansDone ==
  \A r \in Slots : req[r].pc = "answered" /\ req[r].answer = "ok" => req[r].took
=============================================================================
