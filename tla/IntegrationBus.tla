--------------------------- MODULE IntegrationBus ---------------------------
(***************************************************************************)
(* The bus of integrations/mod.rs: adapters in a map behind a tokio RwLock *)
(* and tasks that register, list and check them.  The lock is granted in   *)
(* the order of arrival, neighbouring readers together, so a writer that   *)
(* waits holds back the readers behind it.  A task holds its guard until   *)
(* it returns, across every health check it awaits.  build_from_config     *)
(* builds no adapter in this commit; which ones main registers is a        *)
(* constant, and its comment says that modules will register themselves.   *)
(***************************************************************************)
EXTENDS Naturals, Sequences, FiniteSets, SequencesExt

CONSTANTS
  Tasks,     \* requests, and modules that register an adapter
  Names,     \* the names of adapters
  Built,     \* those main registers before it serves
  Late,      \* those that are registered later
  None

BusAssumption == Built \cup Late \subseteq Names /\ None \notin Tasks \cup Names

VARIABLES
  bus,     \* the names in the map
  task,    \* where each task is
  queue,   \* who waits for the lock, in order of arrival
  guards   \* who holds it

vars == <<bus, task, queue, guards>>

\* name is what a task registers or asks for, todo the adapters it has still to check,
\* reports what it has gathered; those that checked out ill are in ill.  saw is history:
\* the map when the guard was granted.
Idle == [pc |-> "idle", op |-> None, name |-> None, todo |-> {}, reports |-> {},
         ill |-> {}, saw |-> {}]

Init ==
  /\ bus = Built
  /\ task = [t \in Tasks |-> Idle]
  /\ queue = <<>>
  /\ guards = {}

\* Mutant for ListsPassChecks: health_check_all takes the write guard.
WritesChecks(t) == task[t].op \in {"register", "check_all"}

\* Who asks for the write guard: register; the others only read.
Writes(t) == task[t].op = "register"

-----------------------------------------------------------------------------
\* Each operation begins by asking for the lock.
Asks(t) ==
  /\ task[t] = Idle
  /\ \/ \E op \in {"list", "check_all"} : task' = [task EXCEPT ![t].pc = "waits", ![t].op = op]
     \/ \E n \in Names :
          task' = [task EXCEPT ![t].pc = "waits", ![t].op = "check", ![t].name = n]
     \/ \E n \in Late :
          task' = [task EXCEPT ![t].pc = "waits", ![t].op = "register", ![t].name = n]
  /\ queue' = Append(queue, t)
  /\ UNCHANGED <<bus, guards>>

Grantable(t) ==
  \/ guards = {}
  \/ ~Writes(t) /\ \A g \in guards : ~Writes(g)

\* What a task is about to check, with the guard in its hands.
Todo(t) ==
  CASE task[t].op = "check_all" -> bus
    [] task[t].op = "check"     -> bus \cap {task[t].name}
    [] OTHER                    -> {}

\* Mutant for WritersGetTheirTurn: readers overtake a writer that waits.
GrantReader(t) ==
  /\ queue # <<>> /\ (IF Writes(t) THEN Head(queue) = t ELSE task[t].pc = "waits")
  /\ Grantable(t)
  /\ queue' = RemoveFirst(queue, t)
  /\ guards' = guards \cup {t}
  /\ task' = [task EXCEPT ![t] = [@ EXCEPT !.pc = "has", !.todo = Todo(t), !.saw = bus]]
  /\ UNCHANGED bus

\* The head of the queue gets the lock.
Grant(t) ==
  /\ queue # <<>> /\ Head(queue) = t
  /\ Grantable(t)
  /\ queue' = Tail(queue)
  /\ guards' = guards \cup {t}
  /\ task' = [task EXCEPT ![t] = [@ EXCEPT !.pc = "has", !.todo = Todo(t), !.saw = bus]]
  /\ UNCHANGED bus

\* Mutant for ReportsAreASnapshot: an adapter that fails its check is skipped.
CheckSkips(t) ==
  /\ task[t].pc = "has"
  /\ \E n \in task[t].todo :
       task' = [task EXCEPT ![t] = [task[t] EXCEPT !.todo = @ \ {n}]]
  /\ UNCHANGED <<bus, queue, guards>>

\* The next adapter answers, or fails, which is a report too.
CheckEnds(t) ==
  /\ task[t].pc = "has"
  /\ \E n \in task[t].todo, ok \in BOOLEAN :
       task' = [task EXCEPT ![t] = [task[t] EXCEPT !.todo = @ \ {n}, !.reports = @ \cup {n},
                                                   !.ill = IF ok THEN @ ELSE @ \cup {n}]]
  /\ UNCHANGED <<bus, queue, guards>>

\* insert replaces an adapter of the same name.
Registers(t) ==
  /\ task[t].pc = "has" /\ task[t].op = "register"
  /\ bus' = bus \cup {task[t].name}
  /\ guards' = guards \ {t}
  /\ task' = [task EXCEPT ![t] = Idle]
  /\ UNCHANGED queue

\* A reader is done: the guard goes as it returns.
Returns(t) ==
  /\ task[t].pc = "has" /\ task[t].op # "register" /\ task[t].todo = {}
  /\ task' = [task EXCEPT ![t].pc = "done",
                          ![t].reports = IF task[t].op = "list" THEN bus ELSE @]
  /\ guards' = guards \ {t}
  /\ UNCHANGED <<bus, queue>>

Respond(t) ==
  /\ task[t].pc = "done"
  /\ task' = [task EXCEPT ![t] = Idle]
  /\ UNCHANGED <<bus, queue, guards>>

\* A client goes away: its task is dropped, from the queue or with its guard.
Disconnect(t) ==
  /\ task[t] # Idle /\ task[t].op # "register"
  /\ task' = [task EXCEPT ![t] = Idle]
  /\ queue' = RemoveFirst(queue, t)
  /\ guards' = guards \ {t}
  /\ UNCHANGED bus

Next ==
  \E t \in Tasks :
    \/ Asks(t)
    \/ Grant(t)
    \/ CheckEnds(t)
    \/ Registers(t)
    \/ Returns(t)
    \/ Respond(t)
    \/ Disconnect(t)

\* The runtime runs what can run.  Nothing obliges an adapter to answer.
Scheduling ==
  \A t \in Tasks : WF_vars(Grant(t)) /\ WF_vars(Registers(t)) /\ WF_vars(Returns(t))

ChecksEnd == \A t \in Tasks : WF_vars(CheckEnds(t))

Spec == Init /\ [][Next]_vars /\ Scheduling

-----------------------------------------------------------------------------
TypeOK ==
  /\ bus \subseteq Names
  /\ task \in [Tasks -> [pc : {"idle", "waits", "has", "done"},
                         op : {None, "list", "check", "check_all", "register"},
                         name : Names \cup {None}, todo : SUBSET Names,
                         reports : SUBSET Names, ill : SUBSET Names, saw : SUBSET Names]]
  /\ queue \in Seq(Tasks) /\ IsInjective(queue)
  /\ Range(queue) = {t \in Tasks : task[t].pc = "waits"}
  /\ guards = {t \in Tasks : task[t].pc = "has"}
  /\ \A t \in guards : Writes(t) => guards = {t}

\* The answer to an overview of all adapters names each of those that were in the map at
\* one moment, the failing ones too, whatever was registered while the checks went on
\* (health_check_all).
ReportsAreASnapshot ==
  \A t \in Tasks : task[t].pc = "done" =>
    CASE task[t].op \in {"list", "check_all"} -> task[t].reports = task[t].saw
      [] task[t].op = "check" -> task[t].reports = task[t].saw \cap {task[t].name}

\* Tasks that are stuck in health checks that never end make a list wait only if some
\* task comes to register an adapter (list, health_check_all, register).
ListsPassChecks ==
  \A t \in Tasks :
    (task[t].pc = "waits" /\ task[t].op = "list")
      ~> (task[t].pc # "waits" \/ \E w \in Tasks : task[w].op = "register")

\* If adapters do answer, a stream of readers cannot keep a registration waiting.
WritersGetTheirTurn ==
  ChecksEnd =>
    \A t \in Tasks :
      (task[t].pc = "waits" /\ task[t].op = "register") ~> task[t].pc # "waits"
=============================================================================
