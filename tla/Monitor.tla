------------------------------- MODULE Monitor -------------------------------
(***************************************************************************)
(* The background monitor (monitor/mod.rs), the system overview that       *)
(* shares its collector (api/system.rs), and the charts that read what it  *)
(* stores (analytics/mod.rs, get_metrics of api/mod.rs).  The collector is *)
(* behind a tokio Mutex, which is handed over in the order of arrival.  A  *)
(* database call is one step here, that takes effect whole or, if it       *)
(* fails, in part: AtomicCalls, which DbMutex implements.                  *)
(***************************************************************************)
EXTENDS Naturals, Sequences, FiniteSets, FiniteSetsExt, SequencesExt

CONSTANTS
  Slots,       \* requests, each of a client of its own
  MaxSamples,  \* bound of the model: the rows of later samples are left out
  MaxDue,      \* bound of the model: ticks that are late
  MaxTime,     \* bound of the model: the clock of the rows
  Limit,       \* the LIMIT of a chart
  Mon          \* the monitor, as one that waits for the collector

MonitorAssumption ==
  /\ {MaxSamples, MaxTime} \subseteq Nat
  /\ {MaxDue, Limit} \subseteq Nat \ {0}
  /\ Mon \notin Slots

VARIABLES
  mon,      \* where the task of the monitor is
  due,      \* ticks of its interval that it has not taken yet
  taken,    \* the number of the last sample
  metrics,  \* the table
  queue,    \* who has asked for the collector; its head has it
  req,      \* the requests
  now,      \* the clock of datetime('now')
  torn      \* history: samples whose collection failed or died

vars == <<mon, due, taken, metrics, queue, req, now, torn>>

Types == {"cpu", "memory"}

\* The row of type t of the sample last taken, stored at a time, if it is in bounds.
Row(t, time) ==
  IF taken > MaxSamples THEN {} ELSE {[type |-> t, sample |-> taken, at |-> time]}

\* charts is what a client has read so far, by type.
Idle == [pc |-> "idle", charts |-> [t \in Types |-> {}]]

Init ==
  /\ mon = "off" /\ due = 0 /\ taken = 0 /\ metrics = {} /\ queue = <<>>
  /\ req = [r \in Slots |-> Idle]
  /\ now = 0
  /\ torn = {}

Has(x) == queue # <<>> /\ Head(queue) = x

-----------------------------------------------------------------------------
(* The task of start_monitor. *)

\* main spawns it before it binds its port; the first tick is due at once.
Start ==
  /\ mon = "off"
  /\ mon' = "tick" /\ due' = 1
  /\ UNCHANGED <<taken, metrics, queue, req, now, torn>>

\* MissedTickBehavior::Burst: ticks that come late are made up for.
Tick ==
  /\ mon # "off" /\ due < MaxDue
  /\ due' = due + 1
  /\ UNCHANGED <<mon, taken, metrics, queue, req, now, torn>>

TakeTick ==
  /\ mon = "tick" /\ due > 0
  /\ due' = due - 1
  /\ mon' = "lock"
  /\ queue' = Append(queue, Mon)
  /\ UNCHANGED <<taken, metrics, req, now, torn>>

Counted == IF taken > MaxSamples THEN taken ELSE taken + 1

\* refresh_all and the sums, under the lock, which is dropped before the database call.
Sample ==
  /\ mon = "lock" /\ Has(Mon)
  /\ taken' = Counted
  /\ queue' = Tail(queue)
  /\ mon' = "insert"
  /\ UNCHANGED <<due, metrics, req, now, torn>>

\* Each of the two INSERTs asks for the time.
Store ==
  /\ mon = "insert"
  /\ now' \in now .. MaxTime
  /\ metrics' = metrics \cup Row("cpu", now) \cup Row("memory", now')
  /\ mon' = "tick"
  /\ UNCHANGED <<due, taken, queue, req, torn>>

\* Mutant for MonitorGoesOn: an error ends the loop.
StoreEnds ==
  /\ mon = "insert"
  /\ mon' = "stopped"
  /\ UNCHANGED <<due, taken, metrics, queue, req, now, torn>>

\* The call fails before or between its two INSERTs; the error is logged.
StoreFails ==
  /\ mon = "insert"
  /\ metrics' \in {metrics, metrics \cup Row("cpu", now)}
  /\ torn' = torn \cup {taken}
  /\ mon' = "tick"
  /\ UNCHANGED <<due, taken, queue, req, now>>

-----------------------------------------------------------------------------
(* Requests. *)

Asks(r) ==
  /\ req[r] = Idle
  /\ req' = [req EXCEPT ![r].pc = "lock"]
  /\ queue' = Append(queue, r)
  /\ UNCHANGED <<mon, due, taken, metrics, now, torn>>

\* Mutant for OverviewsEnd: the guard is not dropped.
OverviewKeeps(r) ==
  /\ req[r].pc = "lock" /\ Has(r)
  /\ req' = [req EXCEPT ![r] = Idle]
  /\ UNCHANGED <<mon, due, taken, metrics, queue, now, torn>>

\* get_system_overview never awaits while it has the collector.
Overview(r) ==
  /\ req[r].pc = "lock" /\ Has(r)
  /\ queue' = Tail(queue)
  /\ req' = [req EXCEPT ![r] = Idle]
  /\ UNCHANGED <<mon, due, taken, metrics, now, torn>>

\* A client that goes away while it waits leaves the queue.
Disconnect(r) ==
  /\ req[r] # Idle
  /\ queue' = RemoveFirst(queue, r)
  /\ req' = [req EXCEPT ![r] = Idle]
  /\ UNCHANGED <<mon, due, taken, metrics, now, torn>>

OfType(t) == {x \in metrics : x.type = t}

Size(t) == IF Cardinality(OfType(t)) < Limit THEN Cardinality(OfType(t)) ELSE Limit

\* Mutant for ChartsAgree: the oldest come first.
ChartOldest(t) ==
  {s \in kSubset(Size(t), OfType(t)) : \A x \in s, y \in OfType(t) \ s : x.at <= y.at}

\* ORDER BY recorded_at DESC LIMIT: rows of the same second come in any order.
Chart(t) ==
  {s \in kSubset(Size(t), OfType(t)) : \A x \in s, y \in OfType(t) \ s : x.at >= y.at}

\* A dashboard asks for the one chart and then for the other.
GetCpu(r) ==
  /\ req[r] = Idle
  /\ \E s \in Chart("cpu") :
       req' = [req EXCEPT ![r] = [pc |-> "half", charts |-> [Idle.charts EXCEPT !["cpu"] = s]]]
  /\ UNCHANGED <<mon, due, taken, metrics, queue, now, torn>>

GetMemory(r) ==
  /\ req[r].pc = "half"
  /\ \E s \in Chart("memory") :
       req' = [req EXCEPT ![r].pc = "seen", ![r].charts["memory"] = s]
  /\ UNCHANGED <<mon, due, taken, metrics, queue, now, torn>>

-----------------------------------------------------------------------------
Second ==
  /\ now < MaxTime
  /\ now' = now + 1
  /\ UNCHANGED <<mon, due, taken, metrics, queue, req, torn>>

\* The process dies, between the two INSERTs maybe; clients keep what they have read.
Crash ==
  /\ mon # "off"
  /\ mon' = "off" /\ due' = 0 /\ queue' = <<>>
  /\ req' = [r \in Slots |-> IF req[r].pc = "lock" THEN Idle ELSE req[r]]
  /\ \/ UNCHANGED <<metrics, torn>>
     \/ /\ mon = "insert"
        /\ metrics' = metrics \cup Row("cpu", now)
        /\ torn' = torn \cup {taken}
  /\ UNCHANGED <<taken, now>>

Monitoring == TakeTick \/ Sample \/ Store \/ StoreFails

Request(r) == Asks(r) \/ Overview(r) \/ Disconnect(r) \/ GetCpu(r) \/ GetMemory(r)

Next ==
  \/ Start
  \/ Monitoring
  \/ \E r \in Slots : Request(r)
  \/ Tick \/ Second
  \/ Crash

Fairness ==
  /\ WF_vars(TakeTick)
  /\ WF_vars(Sample)
  /\ WF_vars(Store \/ StoreFails)
  /\ \A r \in Slots : WF_vars(Overview(r))

Spec == Init /\ [][Next]_vars /\ Fairness

-----------------------------------------------------------------------------
Rows == [type : Types, sample : 1 .. MaxSamples, at : 0 .. MaxTime]

\* Who waits for the collector is in its queue, once, and nobody has it across a
\* database call ("Release lock before async DB call").
TypeOK ==
  /\ mon \in {"off", "tick", "lock", "insert"}
  /\ due \in 0 .. MaxDue /\ taken \in 0 .. MaxSamples + 1 /\ now \in 0 .. MaxTime
  /\ metrics \subseteq Rows /\ torn \subseteq 1 .. MaxSamples + 1
  /\ req \in [Slots -> [pc : {"idle", "lock", "half", "seen"}, charts : [Types -> SUBSET Rows]]]
  /\ queue \in Seq(Slots \cup {Mon}) /\ IsInjective(queue)
  /\ Range(queue) = {r \in Slots : req[r].pc = "lock"} \cup (IF mon = "lock" THEN {Mon} ELSE {})

\* A client that reads the cpu chart and then the memory chart finds with every point of
\* the first the one of the same sample, unless newer ones have taken its place, or the
\* sample was cut short by an error or a crash (collect_metrics, get_metrics).
ChartsAgree ==
  \A r \in Slots : req[r].pc = "seen" =>
    \A x \in req[r].charts["cpu"] :
      \/ x.sample \in torn
      \/ \E y \in req[r].charts["memory"] : y.sample = x.sample
      \/ /\ Cardinality(req[r].charts["memory"]) = Limit
         /\ \A y \in req[r].charts["memory"] : y.at >= x.at

\* Whatever fails, and however many overviews are asked for, the monitor always comes
\* back to its next tick (start_monitor).
MonitorGoesOn == []<>(mon \in {"off", "tick"})

\* Every overview gets its turn.
OverviewsEnd == \A r \in Slots : req[r].pc = "lock" ~> req[r].pc # "lock"
=============================================================================
