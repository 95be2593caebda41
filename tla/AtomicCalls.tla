----------------------------- MODULE AtomicCalls -----------------------------
(***************************************************************************)
(* What whoever awaits Database::call may count on, whatever threads and   *)
(* locks lie below: closures take effect one at a time, each on what the   *)
(* ones before it left; an answer other than a failure comes from a        *)
(* closure that ran to its end; a failure or a crash cuts at most the one  *)
(* closure short, between two of its statements; after a panic nothing     *)
(* more takes effect.  Gateway takes this for granted; DbMutex implements  *)
(* it.                                                                     *)
(***************************************************************************)
EXTENDS Naturals

CONSTANTS
  Calls,       \* the calls in flight at a time: slots, reused
  Contents,    \* the contents of the database
  Fresh,       \* those it starts with
  Statements,  \* the statements of a closure
  After,       \* After[s][k]: what k statements of a closure leave of contents s
  None, Failed \* no answer yet; the answer Err

AtomicAssumption ==
  /\ Fresh \in Contents
  /\ Statements \in Nat
  /\ After \in [Contents -> [0 .. Statements -> Contents]]
  /\ \A s \in Contents : After[s][0] = s
  /\ None \notin Contents /\ Failed \notin Contents

VARIABLES
  db,        \* what the closures that took effect have left
  phase,     \* of each call; an "orphan" runs for a caller that has gone
  answer,    \* what a call returned: the contents its closure found
  poisoned   \* a closure panicked: every later call fails

vars == <<db, phase, answer, poisoned>>

Init ==
  /\ db = Fresh
  /\ phase = [c \in Calls |-> "idle"]
  /\ answer = [c \in Calls |-> None]
  /\ poisoned = FALSE

InFlight(c) == phase[c] \in {"pending", "orphan"}

Invoke(c) ==
  /\ phase[c] = "idle"
  /\ phase' = [phase EXCEPT ![c] = "pending"]
  /\ UNCHANGED <<db, answer, poisoned>>

\* The answer waits for the caller, or is dropped with an orphan.
Settle(c, a) ==
  /\ phase' = [phase EXCEPT ![c] = IF @ = "orphan" THEN "idle" ELSE "answered"]
  /\ answer' = [answer EXCEPT ![c] = IF phase[c] = "orphan" THEN None ELSE a]

TakesEffect(c) ==
  /\ InFlight(c)
  /\ ~poisoned
  /\ db' = After[db][Statements]
  /\ Settle(c, db)
  /\ UNCHANGED poisoned

Fails(c) ==
  /\ InFlight(c)
  /\ IF poisoned THEN UNCHANGED <<db, poisoned>>
     ELSE /\ \E k \in 0 .. Statements : db' = After[db][k]
          /\ poisoned' \in BOOLEAN
  /\ Settle(c, Failed)

Returns(c) ==
  /\ phase[c] = "answered"
  /\ phase' = [phase EXCEPT ![c] = "idle"]
  /\ answer' = [answer EXCEPT ![c] = None]
  /\ UNCHANGED <<db, poisoned>>

Abandon(c) ==
  /\ phase[c] = "pending"
  /\ phase' = [phase EXCEPT ![c] = "orphan"]
  /\ UNCHANGED <<db, answer, poisoned>>

\* The process dies: of the calls in flight, one at most leaves statements behind.
Crash ==
  /\ \/ UNCHANGED db
     \/ \E c \in Calls, k \in 0 .. Statements :
          InFlight(c) /\ ~poisoned /\ db' = After[db][k]
  /\ phase' = [c \in Calls |-> "idle"]
  /\ answer' = [c \in Calls |-> None]
  /\ poisoned' = FALSE

Next ==
  \/ \E c \in Calls :
       Invoke(c) \/ TakesEffect(c) \/ Fails(c) \/ Returns(c) \/ Abandon(c)
  \/ Crash

Spec == Init /\ [][Next]_vars
=============================================================================
