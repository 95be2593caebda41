--------------------------------- MODULE Ids ---------------------------------
(***************************************************************************)
(* The endpoints of api/ids.rs: an overview that runs `fail2ban-client`    *)
(* once for the daemon, once for the list of jails and once for each jail, *)
(* and bans and unbans by hand.  fail2ban, which bans and unbans on its    *)
(* own, is the environment, and how it lays out its output a constant.  A  *)
(* child and the code up to the next child are one step, since nothing in  *)
(* between is shared.  Requests start where AuthUser and                   *)
(* require_permission have let them through (Gateway).                     *)
(***************************************************************************)
EXTENDS Naturals, FiniteSets

CONSTANTS
  Slots,   \* tasks with the child they wait for
  Jails,
  V4, V6,  \* the addresses, by what separates their groups
  Head6,   \* the text of an IPv6 address before its first colon
  ListAtSecondColon,  \* "Jail list:" is followed, in its line, by one more colon
  BareList,           \* nothing but blanks precedes "Banned IP list:" in its line
  None

IdsAssumption ==
  /\ ListAtSecondColon \in BOOLEAN /\ BareList \in BOOLEAN
  /\ V4 \cap V6 = {} /\ Head6 \notin V4 \cup V6
  /\ None \notin Jails \cup V4 \cup V6

VARIABLES
  up,      \* fail2ban: does it answer
  jails,   \* fail2ban: the jails it runs
  bans,    \* fail2ban: pairs of a jail and an address
  req,     \* the tasks
  ever,    \* history: what was banned at some moment since each request arrived,
  always   \* and at every moment

vars == <<up, jails, bans, req, ever, always>>
fail2ban == <<up, jails, bans>>

Addresses == V4 \cup V6
Pairs == Jails \X Addresses

\* fault is history: a command failed although fail2ban could have answered.
Idle == [pc |-> "idle", op |-> None, jail |-> None, ip |-> None, open |-> FALSE,
         todo |-> {}, shown |-> {}, answer |-> None, fault |-> FALSE]

Init ==
  /\ up \in BOOLEAN /\ jails = Jails /\ bans = {}
  /\ req = [r \in Slots |-> Idle]
  /\ ever = [r \in Slots |-> {}]
  /\ always = [r \in Slots |-> {}]

\* The observer sees each state of fail2ban that a request lives through.
Observe ==
  LET live(r) == req'[r].pc # "idle"
      begins(r) == req[r] = Idle
  IN /\ ever' = [r \in Slots |->
          IF ~live(r) THEN {} ELSE bans' \cup (IF begins(r) THEN bans ELSE ever[r])]
     /\ always' = [r \in Slots |->
          IF ~live(r) THEN {} ELSE bans' \cap (IF begins(r) THEN bans ELSE always[r])]

Set(r, q) == req' = [req EXCEPT ![r] = q]
Answered(r, a) == Set(r, [req[r] EXCEPT !.pc = "answered", !.answer = a, !.todo = {}])
Waits(r, c) == req[r].pc = c

-----------------------------------------------------------------------------
(* GET /api/ids *)

StatusArrives(r) ==
  /\ req[r] = Idle
  /\ Set(r, [Idle EXCEPT !.pc = "ping", !.op = "status", !.open = TRUE])
  /\ UNCHANGED fail2ban

\* `ping` fails because the daemon is down, or for a reason of its own.
Ping(r) ==
  /\ Waits(r, "ping")
  /\ \/ up /\ Set(r, [req[r] EXCEPT !.pc = "list"])
     \/ Set(r, [req[r] EXCEPT !.pc = "answered", !.answer = "down", !.fault = up])
  /\ UNCHANGED fail2ban

\* parse_jail_list takes what stands between the second and the third colon of the
\* line with "Jail list:".
Listed == IF ListAtSecondColon THEN jails ELSE {}

\* It is given whatever `status` printed: nothing if it failed.
ListJails(r) ==
  /\ Waits(r, "list")
  /\ \/ up /\ Set(r, [req[r] EXCEPT !.pc = "jail", !.todo = Listed])
     \/ Set(r, [req[r] EXCEPT !.pc = "jail", !.fault = TRUE])
  /\ UNCHANGED fail2ban

BannedIn(j) == {b[2] : b \in {x \in bans : x[1] = j}}

\* A line that starts with "Banned IP list:" is cut at the next colon: an IPv6 address
\* leaves its first group, and hides the addresses after it in fail2ban's order.
Readings(ips) ==
  IF ~BareList THEN {{}}
  ELSE IF ips \cap V6 = {} THEN {ips} ELSE {s \cup {Head6} : s \in SUBSET (ips \ V6)}

\* parse_jail_status of the output for j, which may be gone by now.
Read(j) == {{j} \X s : s \in Readings(BannedIn(j))}

JailStatus(r) ==
  /\ Waits(r, "jail")
  /\ \E j \in req[r].todo :
       \/ /\ up /\ j \in jails
          /\ \E s \in Read(j) :
               Set(r, [req[r] EXCEPT !.todo = @ \ {j}, !.shown = @ \cup s])
       \/ Set(r, [req[r] EXCEPT !.todo = @ \ {j}, !.fault = @ \/ (up /\ j \in jails)])
  /\ UNCHANGED fail2ban

\* Mutant for StableBansAreListed: the loop stops short of the last jail.
StatusEnds(r) ==
  /\ Waits(r, "jail") /\ Cardinality(req[r].todo) <= 1
  /\ Answered(r, "overview")
  /\ UNCHANGED fail2ban

StatusReturns(r) ==
  /\ Waits(r, "jail") /\ req[r].todo = {}
  /\ Answered(r, "overview")
  /\ UNCHANGED fail2ban

-----------------------------------------------------------------------------
(* POST /api/ids/ban and /api/ids/unban *)

\* is_valid_jail_name and is_valid_ip, which know the form of both and no more.
CommandArrives(r) ==
  /\ req[r] = Idle
  /\ \E op \in {"ban", "unban"}, j \in Jails, ip \in Addresses, valid \in BOOLEAN :
       LET q == [Idle EXCEPT !.op = op, !.jail = j, !.ip = ip, !.open = TRUE]
       IN Set(r, IF valid THEN [q EXCEPT !.pc = "set"]
                 ELSE [q EXCEPT !.pc = "answered", !.answer = "bad_request"])
  /\ UNCHANGED fail2ban

\* Nobody reads the exit status of a child whose task was dropped.
Exits(r, a) == IF req[r].open THEN Answered(r, a) ELSE Set(r, Idle)

SetBan(r) ==
  /\ Waits(r, "set") /\ up /\ req[r].jail \in jails
  /\ bans' = IF req[r].op = "ban" THEN bans \cup {<<req[r].jail, req[r].ip>>}
             ELSE bans \ {<<req[r].jail, req[r].ip>>}
  /\ Exits(r, "ok")
  /\ UNCHANGED <<up, jails>>

SetFails(r) ==
  /\ Waits(r, "set")
  /\ Exits(r, "failed")
  /\ UNCHANGED fail2ban

-----------------------------------------------------------------------------
\* exec returns Err: 500, and an overview is given up.
ExecFails(r) ==
  /\ req[r].open /\ (req[r].pc \in {"ping", "list", "set"} \/ req[r].todo # {})
  /\ Answered(r, "error")
  /\ UNCHANGED fail2ban

Respond(r) ==
  /\ Waits(r, "answered")
  /\ Set(r, Idle)
  /\ UNCHANGED fail2ban

\* What is left of a task: only a child that sets something still matters.
Dropped(q) == IF q.pc = "set" THEN [q EXCEPT !.open = FALSE] ELSE Idle

Disconnect(r) ==
  /\ req[r].open
  /\ Set(r, Dropped(req[r]))
  /\ UNCHANGED fail2ban

Crash ==
  /\ \E r \in Slots : req[r].open
  /\ req' = [r \in Slots |-> Dropped(req[r])]
  /\ UNCHANGED fail2ban

\* fail2ban bans, lets bans run out, and starts and stops jails or itself; a stopped
\* jail has no bans.
Fail2Ban ==
  /\ \/ \E b \in Pairs : /\ up /\ b[1] \in jails
                         /\ bans' = IF b \in bans THEN bans \ {b} ELSE bans \cup {b}
                         /\ UNCHANGED <<up, jails>>
     \/ \E j \in jails : /\ jails' = jails \ {j}
                         /\ bans' = {b \in bans : b[1] # j}
                         /\ UNCHANGED up
     \/ \E j \in Jails \ jails : jails' = jails \cup {j} /\ UNCHANGED <<up, bans>>
     \/ up' = ~up /\ bans' = {} /\ UNCHANGED jails
  /\ UNCHANGED req

Overview(r) == StatusArrives(r) \/ Ping(r) \/ ListJails(r) \/ JailStatus(r) \/ StatusReturns(r)

Command(r) == CommandArrives(r) \/ SetBan(r) \/ SetFails(r)

Step ==
  \/ \E r \in Slots : Overview(r) \/ Command(r) \/ ExecFails(r) \/ Respond(r) \/ Disconnect(r)
  \/ Crash
  \/ Fail2Ban

Next == Step /\ Observe

Spec == Init /\ [][Next]_vars

-----------------------------------------------------------------------------
\* A task whose client has gone has at most a child that sets something.
TypeOK ==
  /\ up \in BOOLEAN /\ jails \subseteq Jails /\ bans \subseteq jails \X Addresses
  /\ req \in [Slots -> [pc : {"idle", "ping", "list", "jail", "set", "answered"},
                        op : {None, "status", "ban", "unban"},
                        jail : Jails \cup {None}, ip : Addresses \cup {None},
                        open : BOOLEAN, todo : SUBSET Jails,
                        shown : SUBSET (Jails \X (Addresses \cup {Head6})),
                        answer : {None, "overview", "down", "ok", "failed", "error", "bad_request"},
                        fault : BOOLEAN]]
  /\ \A r \in Slots : ~req[r].open => req[r].pc = "set" \/ req[r] = Idle
  /\ ever \in [Slots -> SUBSET Pairs] /\ always \in [Slots -> SUBSET Pairs]

Overviewed(r) == req[r].pc = "answered" /\ req[r].answer = "overview"

\* An IPv4 address is listed under a jail only if that jail had it banned at some
\* moment since the request arrived, although jails stop and bans come and go between
\* the commands an overview is put together from (get_status).
ListedBansHeld ==
  \A r \in Slots : Overviewed(r) => req[r].shown \cap (Jails \X V4) \subseteq ever[r]

\* An overview is one of fail2ban's jails: a ban that holds for as long as the request
\* lives is listed, if no command fails and no IPv6 address is banned next to it
\* (get_status, parse_jail_list, parse_jail_status).
OverviewsAreComplete ==
  \A r \in Slots : Overviewed(r) /\ ~req[r].fault =>
    \A b \in always[r] :
      b \in req[r].shown \/ \E c \in ever[r] : c[1] = b[1] /\ c[2] \in V6

\* They are for a layout that the parsers read.
StableBansAreListed == ListAtSecondColon /\ BareList => OverviewsAreComplete

\* {"ok": true} to a ban or unban: it was so at some moment within the request.
OkMeansSet ==
  \A r \in Slots : req[r].pc = "answered" /\ req[r].answer = "ok" =>
    IF req[r].op = "ban" THEN <<req[r].jail, req[r].ip>> \in ever[r]
    ELSE <<req[r].jail, req[r].ip>> \notin always[r]
=============================================================================
