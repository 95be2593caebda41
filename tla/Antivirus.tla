------------------------------ MODULE Antivirus ------------------------------
(***************************************************************************)
(* The endpoints of api/antivirus.rs: the state of clamd from two          *)
(* commands, a scan whose report is what the child printed, and an update  *)
(* of the definitions.  clamd, the files and the definitions are the       *)
(* environment.  A scan goes from file to file while files are infected    *)
(* and cleaned; clamdscan exits 0 if it found nothing, 1 if it did and 2   *)
(* if it could not scan, and the handler does not look at that.            *)
(***************************************************************************)
EXTENDS Naturals

CONSTANTS
  Slots,   \* tasks, each with the child it waits for
  Paths,   \* the files of the directory that is scanned
  None

AntivirusAssumption == None \notin Paths

VARIABLES
  up,        \* clamd: does it answer
  infected,  \* the files a scan would report
  current,   \* are the definitions those that are published
  req,       \* the tasks
  ever,      \* history: what was infected at some moment since each request arrived,
  always,    \* and at every moment
  wasCurrent \* history: were the definitions current at some moment since

vars == <<up, infected, current, req, ever, always, wasCurrent>>
host == <<up, infected, current>>

\* passed is what the child has looked at, found what it printed; status is its exit
\* status, which a scan's handler has at hand.
Idle == [pc |-> "idle", op |-> None, open |-> FALSE, passed |-> {}, found |-> {},
         status |-> 0, running |-> FALSE, answer |-> None]

Init ==
  /\ up \in BOOLEAN /\ infected = {} /\ current \in BOOLEAN
  /\ req = [r \in Slots |-> Idle]
  /\ ever = [r \in Slots |-> {}] /\ always = [r \in Slots |-> {}]
  /\ wasCurrent = [r \in Slots |-> FALSE]

\* The observer sees each state of the host that a request lives through.
Observe ==
  LET live(r) == req'[r] # Idle
      begins(r) == req[r] = Idle
  IN /\ ever' = [r \in Slots |->
          IF live(r) THEN infected' \cup (IF begins(r) THEN infected ELSE ever[r]) ELSE {}]
     /\ always' = [r \in Slots |->
          IF live(r) THEN infected' \cap (IF begins(r) THEN infected ELSE always[r]) ELSE {}]
     /\ wasCurrent' = [r \in Slots |-> live(r) /\ (current \/ current' \/ wasCurrent[r])]

Set(r, q) == req' = [req EXCEPT ![r] = q]
Answered(r, a) == Set(r, [req[r] EXCEPT !.pc = "answered", !.answer = a])
Waits(r, c) == req[r].pc = c

Arrives(r, op, c) ==
  /\ req[r] = Idle
  /\ Set(r, [Idle EXCEPT !.pc = c, !.op = op, !.open = TRUE])
  /\ UNCHANGED host

-----------------------------------------------------------------------------
(* GET /api/antivirus *)

StatusArrives(r) == Arrives(r, "status", "ping")

\* `ping` fails, or cannot be run: the daemon is not running.
Ping(r) ==
  /\ Waits(r, "ping")
  /\ \E success \in {FALSE, up} : Set(r, [req[r] EXCEPT !.pc = "version", !.running = success])
  /\ UNCHANGED host

\* `--version`, whose failures only empty the answer.
Version(r) == Waits(r, "version") /\ Answered(r, "status") /\ UNCHANGED host

-----------------------------------------------------------------------------
(* POST /api/antivirus/scan *)

\* The path is resolved: 400 if there is none, 403 below /proc, /sys and /dev.
ScanArrives(r) ==
  \/ Arrives(r, "scan", "scan")
  \/ /\ req[r] = Idle
     /\ Set(r, [Idle EXCEPT !.pc = "answered", !.op = "scan", !.open = TRUE, !.answer = "refused"])
     /\ UNCHANGED host

\* Mutant for StableThreatsAreReported: the report is cut at its first line.
ScanFileOnce(r) ==
  /\ Waits(r, "scan") /\ up
  /\ \E p \in Paths \ req[r].passed :
       Set(r, [req[r] EXCEPT !.passed = @ \cup {p},
                 !.found = IF @ = {} /\ p \in infected THEN {p} ELSE @])
  /\ UNCHANGED host

\* The child looks at one more file; parse_clam_output takes every FOUND line.
ScanFile(r) ==
  /\ Waits(r, "scan") /\ up
  /\ \E p \in Paths \ req[r].passed :
       Set(r, [req[r] EXCEPT !.passed = @ \cup {p}, !.found = @ \cup ({p} \cap infected)])
  /\ UNCHANGED host

\* The child ends, in the end or by an error, and the handler answers 200.
ScanEnds(r) ==
  /\ Waits(r, "scan")
  /\ \E s \in 0 .. 2 :
       /\ s < 2 => req[r].passed = Paths /\ (s = 1) = (req[r].found # {})
       /\ Set(r, [req[r] EXCEPT !.pc = "answered", !.answer = "report", !.status = s])
  /\ UNCHANGED host

-----------------------------------------------------------------------------
(* POST /api/antivirus/update *)

UpdateArrives(r) == Arrives(r, "update", "update")

\* Nobody reads the exit status of a child whose task was dropped.
Exits(r, a) == IF req[r].open THEN Answered(r, a) ELSE Set(r, Idle)

Update(r) ==
  /\ Waits(r, "update")
  /\ current' = TRUE
  /\ Exits(r, "ok")
  /\ UNCHANGED <<up, infected>>

UpdateFails(r) == Waits(r, "update") /\ Exits(r, "failed") /\ UNCHANGED host

-----------------------------------------------------------------------------
\* exec returns Err: 500.  The status endpoint takes it for "not running" instead.
ExecFails(r) ==
  /\ req[r].open /\ (Waits(r, "scan") \/ Waits(r, "update"))
  /\ Answered(r, "error")
  /\ UNCHANGED host

Respond(r) == Waits(r, "answered") /\ Set(r, Idle) /\ UNCHANGED host

\* The client goes away: of the children, only an update still changes something.
Disconnect(r) ==
  /\ req[r].open
  /\ Set(r, IF Waits(r, "update") THEN [req[r] EXCEPT !.open = FALSE] ELSE Idle)
  /\ UNCHANGED host

\* clamd stops and starts, files are infected and cleaned, definitions published.
Others ==
  /\ \/ up' = ~up /\ UNCHANGED <<infected, current>>
     \/ /\ \E p \in Paths : infected' = IF p \in infected THEN infected \ {p} ELSE infected \cup {p}
        /\ UNCHANGED <<up, current>>
     \/ current /\ current' = FALSE /\ UNCHANGED <<up, infected>>
  /\ UNCHANGED req

Status(r) == StatusArrives(r) \/ Ping(r) \/ Version(r)
Scan(r) == ScanArrives(r) \/ ScanFile(r) \/ ScanEnds(r)
Definitions(r) == UpdateArrives(r) \/ Update(r) \/ UpdateFails(r)

Next ==
  /\ \/ \E r \in Slots :
          Status(r) \/ Scan(r) \/ Definitions(r) \/ ExecFails(r) \/ Respond(r) \/ Disconnect(r)
     \/ Others
  /\ Observe

Spec == Init /\ [][Next]_vars

-----------------------------------------------------------------------------
\* A task whose client has gone has at most a child that updates.
TypeOK ==
  /\ up \in BOOLEAN /\ current \in BOOLEAN /\ infected \subseteq Paths
  /\ req \in [Slots -> [pc : {"idle", "ping", "version", "scan", "update", "answered"},
                        op : {None, "status", "scan", "update"}, open : BOOLEAN,
                        passed : SUBSET Paths, found : SUBSET Paths, status : 0 .. 2,
                        running : BOOLEAN,
                        answer : {None, "status", "report", "refused", "ok", "failed", "error"}]]
  /\ \A r \in Slots : req[r].found \subseteq req[r].passed
  /\ \A r \in Slots : ~req[r].open => req[r].pc = "update" \/ req[r] = Idle

Is(r, a) == req[r].pc = "answered" /\ req[r].answer = a

\* A report of a scan that ended by itself names every file that was infected for as long
\* as the request lived, and none that never was (scan, parse_clam_output).
StableThreatsAreReported ==
  \A r \in Slots : Is(r, "report") /\ req[r].status < 2 =>
    always[r] \subseteq req[r].found /\ req[r].found \subseteq ever[r]

\* {"ok": true} to an update: the definitions were the published ones at some moment
\* within the request.
OkMeansUpdated == \A r \in Slots : Is(r, "ok") => wasCurrent[r]
=============================================================================
