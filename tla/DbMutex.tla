------------------------------- MODULE DbMutex -------------------------------
(***************************************************************************)
(* src/src/db.rs below the level of the other modules: Database::call      *)
(* hands its closure to tokio's blocking pool, a thread of the pool takes  *)
(* the std::sync::Mutex of the one connection, runs the closure statement  *)
(* by statement, each of them autocommitted, and sends the result back to  *)
(* the caller, if it is still there.                                       *)
(***************************************************************************)
EXTENDS Naturals, Sequences, FiniteSets

CONSTANTS
  Calls, Contents, Fresh, Statements, After, None, Failed,  \* see AtomicCalls
  Threads      \* the threads of the blocking pool

ASSUME DbMutexAssumption ==
  /\ Fresh \in Contents
  /\ Statements \in Nat
  /\ After \in [Contents -> [0 .. Statements -> Contents]]
  /\ \A s \in Contents : After[s][0] = s
  /\ None \notin Contents /\ Failed \notin Contents
  /\ None \notin Calls
  /\ Threads \in Nat \ {0}
  /\ IsFiniteSet(Calls)

VARIABLES
  db,        \* the contents of the file: statements commit at once
  pc,        \* of each call
  open,      \* whether its caller still awaits it
  queue,     \* the closures handed to the pool, in order
  holder,    \* the call whose closure holds the mutex
  found,     \* the contents that closure found
  ran,       \* how many of its statements have run
  answer,    \* what the call returns
  poisoned   \* the poison flag of the mutex

vars == <<db, pc, open, queue, holder, found, ran, answer, poisoned>>

Init ==
  /\ db = Fresh
  /\ pc = [c \in Calls |-> "idle"]
  /\ open = [c \in Calls |-> FALSE]
  /\ queue = << >>
  /\ holder = None
  /\ found = Fresh
  /\ ran = 0
  /\ answer = [c \in Calls |-> None]
  /\ poisoned = FALSE

\* A thread that waits for the mutex is as busy as one that runs a closure.
Busy == {c \in Calls : pc[c] \in {"locking", "running"}}

\* Database::call: spawn_blocking.
Call(c) ==
  /\ pc[c] = "idle"
  /\ pc' = [pc EXCEPT ![c] = "queued"]
  /\ open' = [open EXCEPT ![c] = TRUE]
  /\ queue' = Append(queue, c)
  /\ UNCHANGED <<db, holder, found, ran, answer, poisoned>>

Start(c) ==
  /\ queue # << >> /\ c = Head(queue)
  /\ Cardinality(Busy) < Threads
  /\ queue' = Tail(queue)
  /\ pc' = [pc EXCEPT ![c] = "locking"]
  /\ UNCHANGED <<db, open, holder, found, ran, answer, poisoned>>

\* with_conn: lock() succeeds.
Lock(c) ==
  /\ pc[c] = "locking"
  /\ holder = None
  /\ ~poisoned
  /\ holder' = c
  /\ pc' = [pc EXCEPT ![c] = "running"]
  /\ found' = db
  /\ ran' = 0
  /\ UNCHANGED <<db, open, queue, answer, poisoned>>

\* The result goes to the JoinHandle, if anybody holds it.
Finish(c, a) ==
  /\ pc' = [pc EXCEPT ![c] = IF open[c] THEN "answered" ELSE "idle"]
  /\ answer' = [answer EXCEPT ![c] = IF open[c] THEN a ELSE None]

\* Mutant for EveryClosureStarts: a poisoned mutex is tried again and again.
LockRetries(c) == pc[c] = "locking" /\ holder = None /\ poisoned /\ UNCHANGED vars

\* lock() waits for the mutex and then finds it poisoned: map_err, and `?`.
LockPoisoned(c) ==
  /\ pc[c] = "locking"
  /\ holder = None
  /\ poisoned
  /\ Finish(c, Failed)
  /\ UNCHANGED <<db, open, queue, holder, found, ran, poisoned>>

\* One statement of f(&conn); it commits by itself.
Statement(c) ==
  /\ holder = c
  /\ ran < Statements
  /\ db' = After[found][ran + 1]
  /\ ran' = ran + 1
  /\ UNCHANGED <<pc, open, queue, holder, found, answer, poisoned>>

\* Mutant for MutexInv: a guard that outlives its closure.
Forget == UNCHANGED holder

\* Every way out of the closure drops the guard.
Release == holder' = None

ClosureReturns(c) ==
  /\ holder = c
  /\ ran = Statements
  /\ Release
  /\ Finish(c, found)
  /\ UNCHANGED <<db, open, queue, found, ran, poisoned>>

\* Mutant for Implements: the closure ends early, and nobody is told.
ClosureSwallows(c) ==
  /\ holder = c
  /\ Release
  /\ Finish(c, found)
  /\ UNCHANGED <<db, open, queue, found, ran, poisoned>>

\* A statement fails and `?` leaves the closure.
ClosureFails(c) ==
  /\ holder = c
  /\ Release
  /\ Finish(c, Failed)
  /\ UNCHANGED <<db, open, queue, found, ran, poisoned>>

\* "Database task panicked" for the caller; the guard poisons as it is dropped.
ClosurePanics(c) ==
  /\ holder = c
  /\ Release
  /\ poisoned' = TRUE
  /\ Finish(c, Failed)
  /\ UNCHANGED <<db, open, queue, found, ran>>

\* The caller is polled again.
Await(c) ==
  /\ pc[c] = "answered"
  /\ pc' = [pc EXCEPT ![c] = "idle"]
  /\ open' = [open EXCEPT ![c] = FALSE]
  /\ answer' = [answer EXCEPT ![c] = None]
  /\ UNCHANGED <<db, queue, holder, found, ran, poisoned>>

\* Mutant for TypeOK: an answer nobody will fetch keeps its slot.
DropKeeps(c) ==
  /\ open[c] /\ pc[c] # "idle"
  /\ open' = [open EXCEPT ![c] = FALSE]
  /\ UNCHANGED <<db, pc, queue, holder, found, ran, answer, poisoned>>

\* The caller is dropped: dropping a JoinHandle detaches the closure, it does not
\* take it out of the queue.
DropCaller(c) ==
  /\ open[c] /\ pc[c] # "idle"
  /\ open' = [open EXCEPT ![c] = FALSE]
  /\ pc' = [pc EXCEPT ![c] = IF @ = "answered" THEN "idle" ELSE @]
  /\ answer' = [answer EXCEPT ![c] = None]
  /\ UNCHANGED <<db, queue, holder, found, ran, poisoned>>

\* The process dies and is started again on what its statements have committed.
Crash ==
  /\ pc' = [c \in Calls |-> "idle"]
  /\ open' = [c \in Calls |-> FALSE]
  /\ queue' = << >>
  /\ holder' = None
  /\ answer' = [c \in Calls |-> None]
  /\ poisoned' = FALSE
  /\ UNCHANGED <<db, found, ran>>

Run(c) ==
  \/ Statement(c)
  \/ ClosureReturns(c)
  \/ ClosureFails(c)
  \/ ClosurePanics(c)

Next ==
  \/ \E c \in Calls :
       \/ Call(c)
       \/ Start(c)
       \/ Lock(c)
       \/ LockPoisoned(c)
       \/ Run(c)
       \/ Await(c)
       \/ DropCaller(c)
  \/ Crash

\* A free thread takes the next closure, a free mutex goes to one of those who
\* wait, no matter whom (std's mutex is not fair), and a closure goes on.
Fairness ==
  /\ WF_vars(\E c \in Calls : Start(c))
  /\ WF_vars(\E c \in Calls : Lock(c) \/ LockPoisoned(c))
  /\ \A c \in Calls : WF_vars(Run(c))

Spec == Init /\ [][Next]_vars /\ Fairness

-----------------------------------------------------------------------------
PC == {"idle", "queued", "locking", "running", "answered"}

\* Types; an answer is there exactly while its caller has yet to read it, and the
\* pool's queue holds calls that wait in it, each once.
TypeOK ==
  /\ db \in Contents
  /\ pc \in [Calls -> PC]
  /\ open \in [Calls -> BOOLEAN]
  /\ queue \in Seq(Calls)
  /\ holder \in Calls \cup {None}
  /\ found \in Contents
  /\ ran \in 0 .. Statements
  /\ answer \in [Calls -> Contents \cup {None, Failed}]
  /\ poisoned \in BOOLEAN
  /\ \A c \in Calls : /\ pc[c] = "idle" => ~open[c]
                      /\ pc[c] = "answered" => open[c]
                      /\ pc[c] # "answered" => answer[c] = None
  /\ \A i \in DOMAIN queue : pc[queue[i]] = "queued"
  /\ \A i, j \in DOMAIN queue : queue[i] = queue[j] => i = j

\* The mutex and the pool: whoever runs a closure holds the mutex and nobody else
\* runs one, the mutex is sound, the file is what that closure has made of what it
\* found, and no more closures are on threads than there are (with_conn, spawn_blocking).
MutexInv ==
  /\ \A c \in Calls : pc[c] = "running" <=> holder = c
  /\ holder # None => db = After[found][ran] /\ ~poisoned
  /\ Cardinality(Busy) <= Threads

\* The refinement mapping: a closure takes effect when it lets go of the mutex.
Phase(c) ==
  CASE pc[c] = "idle" -> "idle"
    [] pc[c] = "answered" -> "answered"
    [] OTHER -> IF open[c] THEN "pending" ELSE "orphan"

Phases == [c \in Calls |-> Phase(c)]

Settled == IF holder = None THEN db ELSE found

Atomic == INSTANCE AtomicCalls WITH db <- Settled, phase <- Phases

\* Database::call is atomic towards those who await it: threads, autocommitted
\* statements, dropped callers, panics and crashes show in no other way than
\* AtomicCalls says.
Implements == Atomic!Spec

\* Every closure handed to the pool gets a thread, even one whose caller has gone,
\* although threads block on a mutex that is not fair: whoever holds it lets go,
\* so threads come free, and the pool takes closures in order.
EveryClosureStarts == \A c \in Calls : pc[c] = "queued" ~> pc[c] # "queued"
=============================================================================
