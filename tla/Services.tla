------------------------------- MODULE Services -------------------------------
(***************************************************************************)
(* The endpoints of api/services.rs: lists and details that are read from  *)
(* what systemctl prints, whatever its exit status, and actions answered   *)
(* by that status.  systemd and its units are the environment: a restart   *)
(* stops the unit and starts it again, units fail and come back, and the   *)
(* child of a request that is dropped goes on.                             *)
(***************************************************************************)
EXTENDS Naturals

CONSTANTS
  Slots,   \* tasks, each with its child
  Units,   \* units that are loaded
  Loose,   \* those of them of which systemctl exits 0 and does less than it was asked:
           \* of type oneshot, never active, or without [Install], never enabled
  Absent,  \* a name of no unit
  Option,  \* an option by its form, such as --version
  None

ServicesAssumption ==
  /\ Loose \subseteq Units
  /\ {Absent, Option, None} \cap Units = {}
  /\ Absent # Option /\ None \notin {Absent, Option}

VARIABLES
  active,   \* systemd: the units that run
  enabled,  \* systemd: the units that are enabled
  req,      \* the tasks
  past      \* history: the pairs (active, enabled) of each unit since each request arrived

vars == <<active, enabled, req, past>>

\* What is_valid_service_name lets through.
Named == Units \cup {Absent, Option}

State(u, a, e) == [active |-> u \in a, enabled |-> u \in e]
Unknown == [active |-> None, enabled |-> FALSE]

\* lines is what a list has printed: a function from units to states.
Idle == [pc |-> "idle", op |-> None, unit |-> None, open |-> FALSE,
         shown |-> Unknown, lines |-> {}, answer |-> None]

Init ==
  /\ active \in SUBSET Units /\ enabled \in SUBSET Units
  /\ req = [r \in Slots |-> Idle]
  /\ past = [r \in Slots |-> [u \in Named |-> {}]]

\* The observer sees each state, of the units that a request is about, that it lives
\* through.
Observe ==
  past' = [r \in Slots |-> [u \in Named |->
    IF req'[r] = Idle \/ req'[r].unit \notin {None, u} THEN {}
    ELSE past[r][u] \cup {State(u, active, enabled), State(u, active', enabled')}]]

Set(r, q) == req' = [req EXCEPT ![r] = q]
Answered(r, a) == Set(r, [req[r] EXCEPT !.pc = "answered", !.answer = a])
Runs(r, op) == req[r].pc = "running" /\ req[r].op = op
Same == UNCHANGED <<active, enabled>>

Actions == {"start", "stop", "restart", "enable", "disable"}

-----------------------------------------------------------------------------
\* A list has no argument; is_valid_service_name knows the characters of a name and no
\* more, and answers 400 before anything runs.
Arrives(r) ==
  /\ req[r] = Idle
  /\ \/ Set(r, [Idle EXCEPT !.pc = "running", !.op = "list", !.open = TRUE])
     \/ \E op \in Actions \cup {"show"} :
          \/ \E u \in Named :
               Set(r, [Idle EXCEPT !.pc = "running", !.op = op, !.unit = u, !.open = TRUE])
          \/ Set(r, [Idle EXCEPT !.pc = "answered", !.op = op, !.open = TRUE,
                                 !.answer = "bad_request"])
  /\ Same

\* Mutant for ReportsHeld: UnitFileState is compared with the wrong word.
ShowStatic(r) ==
  /\ Runs(r, "show")
  /\ \/ Set(r, [req[r] EXCEPT !.pc = "answered", !.answer = "info",
                  !.shown = [active |-> req[r].unit \in active,
                             enabled |-> req[r].unit \notin enabled]])
     \/ Answered(r, "info")
  /\ Same

\* get_service: one reply of systemd, to which a name of no unit is inactive; or
\* something else, which is parsed to "unknown".
Show(r) ==
  /\ Runs(r, "show")
  /\ \/ /\ req[r].unit # Option
        /\ Set(r, [req[r] EXCEPT !.pc = "answered", !.answer = "info",
                     !.shown = State(req[r].unit, active, enabled)])
     \/ Answered(r, "info")
  /\ Same

\* list_services: the active states of all units at once; parse_service_list does not
\* learn what is enabled and answers false.
List(r) ==
  /\ Runs(r, "list")
  /\ \/ Set(r, [req[r] EXCEPT !.pc = "answered", !.answer = "list",
                  !.lines = {[unit |-> u, active |-> u \in active, enabled |-> FALSE]
                               : u \in Units}])
     \/ Answered(r, "list")
  /\ Same

\* Nobody reads the exit status of a child whose task was dropped.
Exits(r, a) == IF req[r].open THEN Answered(r, a) ELSE Set(r, Idle)

\* What a start, or an enable, makes of a set of units.
Joined(s, u) == {s \cup {u}} \cup (IF u \in Loose THEN {s} ELSE {})

ActionSucceeds(r) ==
  /\ req[r].pc = "running" /\ req[r].unit \in Units
  /\ \/ /\ req[r].op \in {"start", "restart"}
        /\ req[r].op = "restart" => req[r].unit \notin active
        /\ active' \in Joined(active, req[r].unit) /\ UNCHANGED enabled
     \/ req[r].op = "stop" /\ active' = active \ {req[r].unit} /\ UNCHANGED enabled
     \/ req[r].op = "enable" /\ enabled' \in Joined(enabled, req[r].unit) /\ UNCHANGED active
     \/ req[r].op = "disable" /\ enabled' = enabled \ {req[r].unit} /\ UNCHANGED active
  /\ Exits(r, "ok")

\* systemctl takes an option for what it is, and exits 0 with nothing done.
OptionSucceeds(r) ==
  /\ req[r].pc = "running" /\ req[r].op \in Actions /\ req[r].unit = Option
  /\ Exits(r, "ok")
  /\ Same

\* The first half of a restart.
RestartStops(r) ==
  /\ Runs(r, "restart") /\ req[r].unit \in active
  /\ active' = active \ {req[r].unit}
  /\ UNCHANGED <<enabled, req>>

\* Mutant for OkMeansDone: the exit status is not read.
ActionFailsOk(r) ==
  /\ req[r].pc = "running" /\ req[r].op \in Actions
  /\ Exits(r, "ok")
  /\ Same

ActionFails(r) ==
  /\ req[r].pc = "running" /\ req[r].op \in Actions
  /\ Exits(r, "failed")
  /\ Same

\* exec returns Err: 500.
ExecFails(r) ==
  /\ req[r].pc = "running" /\ req[r].open
  /\ Answered(r, "error")
  /\ Same

Respond(r) ==
  /\ req[r].pc = "answered"
  /\ Set(r, Idle)
  /\ Same

\* Mutant for TypeOK: the task of a list outlives its client.
DisconnectKeeps(r) ==
  /\ req[r].open
  /\ Set(r, IF req[r].pc = "running" THEN [req[r] EXCEPT !.open = FALSE] ELSE Idle)
  /\ Same

\* The client goes away; only a child that acts still matters.
Disconnect(r) ==
  /\ req[r].open
  /\ Set(r, IF req[r].pc = "running" /\ req[r].op \in Actions
            THEN [req[r] EXCEPT !.open = FALSE] ELSE Idle)
  /\ Same

\* Units fail and are started, and administrators enable and disable them.
Systemd ==
  /\ \E u \in Units :
       \/ active' = (IF u \in active THEN active \ {u} ELSE active \cup {u}) /\ UNCHANGED enabled
       \/ enabled' = (IF u \in enabled THEN enabled \ {u} ELSE enabled \cup {u}) /\ UNCHANGED active
  /\ UNCHANGED req

Next ==
  /\ \/ \E r \in Slots :
          \/ Arrives(r) \/ Show(r) \/ List(r)
          \/ ActionSucceeds(r) \/ OptionSucceeds(r) \/ RestartStops(r) \/ ActionFails(r)
          \/ ExecFails(r) \/ Respond(r) \/ Disconnect(r)
     \/ Systemd
  /\ Observe

Spec == Init /\ [][Next]_vars

-----------------------------------------------------------------------------
\* A task whose client has gone has at most a child that acts.
TypeOK ==
  /\ active \subseteq Units /\ enabled \subseteq Units
  /\ req \in [Slots -> [pc : {"idle", "running", "answered"},
                        op : {None, "list", "show"} \cup Actions, unit : Named \cup {None},
                        open : BOOLEAN, shown : [active : BOOLEAN \cup {None}, enabled : BOOLEAN],
                        lines : SUBSET [unit : Units, active : BOOLEAN, enabled : {FALSE}],
                        answer : {None, "list", "info", "ok", "failed", "error", "bad_request"}]]
  /\ \A r \in Slots :
       ~req[r].open => req[r] = Idle \/ (req[r].pc = "running" /\ req[r].op \in Actions)

Is(r, a) == req[r].pc = "answered" /\ req[r].answer = a

\* What is shown of a unit was so, in all its parts, at one moment since the request
\* arrived, also in the middle of a restart, unless nothing is known; a list may say so
\* of what is active (get_service, list_services).
ReportsHeld ==
  \A r \in Slots :
    /\ Is(r, "info") => req[r].shown = Unknown \/ req[r].shown \in past[r][req[r].unit]
    /\ Is(r, "list") => \A l \in req[r].lines :
                          \E s \in past[r][l.unit] : s.active = l.active

\* {"ok": true} to an action, unless it was on an option: it was on a unit, and that was
\* in the state asked for at some moment within the request, and down in the course of a
\* restart; nobody is told so much of the start, or the enabling, of a loose unit.
OkMeansDone ==
  \A r \in Slots : Is(r, "ok") /\ req[r].unit # Option =>
    LET u == req[r].unit
        p == past[r][u]
    IN /\ u \in Units
       /\ req[r].op \in {"start", "restart"} => u \in Loose \/ \E s \in p : s.active
       /\ req[r].op \in {"stop", "restart"} => \E s \in p : ~s.active
       /\ req[r].op = "enable" => u \in Loose \/ \E s \in p : s.enabled
       /\ req[r].op = "disable" => \E s \in p : ~s.enabled
=============================================================================
