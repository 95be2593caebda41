---------------------------- MODULE DbMutexProofs ----------------------------
(***************************************************************************)
(* Database::call implements an atomic call, for every number of callers   *)
(* and threads, every contents and every number of statements.             *)
(***************************************************************************)
EXTENDS DbMutex, SequenceTheorems, FiniteSetTheorems, TLAPS

-----------------------------------------------------------------------------
(* Typing.                                                                 *)

LEMMA AfterTyped ==
  ASSUME NEW s \in Contents, NEW k \in 0 .. Statements
  PROVE  After[s][k] \in Contents
BY DbMutexAssumption

LEMMA FinishTyped ==
  ASSUME TypeOK, NEW c \in Calls, NEW a \in Contents \cup {Failed}, Finish(c, a),
         pc[c] \notin {"queued", "idle"}, UNCHANGED <<open, queue>>
  PROVE  /\ pc' \in [Calls -> PC]
         /\ answer' \in [Calls -> Contents \cup {None, Failed}]
         /\ \A d \in Calls : /\ pc'[d] = "idle" => ~open'[d] \/ (d # c /\ ~open[d])
                             /\ pc'[d] = "answered" => open'[d]
                             /\ pc'[d] # "answered" => answer'[d] = None
         /\ \A i \in DOMAIN queue : pc'[queue[i]] = "queued"
<1>1. \A i \in DOMAIN queue : queue[i] \in Calls /\ queue[i] # c
  BY DEF TypeOK
<1> QED BY <1>1 DEF TypeOK, Finish, PC

LEMMA CallTyped ==
  ASSUME TypeOK, NEW c \in Calls, Call(c)
  PROVE  TypeOK'
<1>1. /\ queue \in Seq(Calls) /\ queue' \in Seq(Calls)
      /\ DOMAIN queue' = 1 .. (Len(queue) + 1)
      /\ DOMAIN queue = 1 .. Len(queue) /\ Len(queue) \in Nat
      /\ \A i \in 1 .. Len(queue) : queue'[i] = queue[i]
      /\ queue'[Len(queue) + 1] = c
  <2>1. queue \in Seq(Calls) /\ queue' = Append(queue, c)
    BY DEF TypeOK, Call
  <2>2. DOMAIN queue = 1 .. Len(queue) /\ Len(queue) \in Nat
    BY <2>1, LenProperties
  <2>3. /\ queue' \in Seq(Calls) /\ Len(queue') = Len(queue) + 1
        /\ \A i \in 1 .. Len(queue) : queue'[i] = queue[i]
        /\ queue'[Len(queue) + 1] = c
    BY <2>1, AppendProperties
  <2>4. DOMAIN queue' = 1 .. Len(queue')
    BY <2>3, LenProperties
  <2> QED BY <2>1, <2>2, <2>3, <2>4
<1>2. \A i \in 1 .. Len(queue) : queue[i] \in Calls /\ queue[i] # c
  BY <1>1 DEF TypeOK, Call
<1>3. \A i \in DOMAIN queue' : pc'[queue'[i]] = "queued"
  BY <1>1, <1>2 DEF TypeOK, Call
<1>4. \A i, j \in DOMAIN queue' : queue'[i] = queue'[j] => i = j
  BY <1>1, <1>2 DEF TypeOK
<1>5. \A d \in Calls : /\ pc'[d] = "idle" => ~open'[d]
                       /\ pc'[d] = "answered" => open'[d]
                       /\ pc'[d] # "answered" => answer'[d] = None
  BY DEF TypeOK, Call
<1> QED BY <1>1, <1>3, <1>4, <1>5 DEF TypeOK, Call, PC

LEMMA StartTyped ==
  ASSUME TypeOK, NEW c \in Calls, Start(c)
  PROVE  TypeOK'
<1>1. /\ queue \in Seq(Calls) /\ queue # << >> /\ c = queue[1]
      /\ queue' \in Seq(Calls)
      /\ Len(queue) \in Nat \ {0}
      /\ DOMAIN queue = 1 .. Len(queue)
      /\ DOMAIN queue' = 1 .. (Len(queue) - 1)
      /\ \A i \in 1 .. (Len(queue) - 1) : queue'[i] = queue[i + 1]
  <2>1. queue \in Seq(Calls) /\ queue # << >> /\ c = Head(queue) /\ queue' = Tail(queue)
    BY DEF TypeOK, Start
  <2>2. DOMAIN queue = 1 .. Len(queue) /\ Len(queue) \in Nat \ {0}
    BY <2>1, LenProperties, EmptySeq
  <2>3. /\ queue' \in Seq(Calls) /\ Len(queue') = Len(queue) - 1 /\ c = queue[1]
        /\ \A i \in 1 .. (Len(queue) - 1) : queue'[i] = queue[i + 1]
    BY <2>1, <2>2, HeadTailProperties
  <2>4. DOMAIN queue' = 1 .. Len(queue')
    BY <2>3, LenProperties
  <2> QED BY <2>1, <2>2, <2>3, <2>4
<1>2. \A i \in DOMAIN queue' : queue'[i] \in Calls /\ queue'[i] # c
  BY <1>1 DEF TypeOK
<1>3. \A i \in DOMAIN queue' : pc'[queue'[i]] = "queued"
  BY <1>1, <1>2 DEF TypeOK, Start
<1>4. ASSUME NEW i \in DOMAIN queue', NEW j \in DOMAIN queue', queue'[i] = queue'[j]
      PROVE  i = j
  <2>1. /\ i \in 1 .. (Len(queue) - 1) /\ j \in 1 .. (Len(queue) - 1)
        /\ i + 1 \in 1 .. Len(queue) /\ j + 1 \in 1 .. Len(queue)
    BY <1>1
  <2>2. queue[i + 1] = queue[j + 1]
    BY <1>1, <1>4, <2>1
  <2>3. i + 1 = j + 1
    BY <1>1, <2>1, <2>2 DEF TypeOK
  <2> QED BY <2>1, <2>3
<1>5. \A d \in Calls : /\ pc'[d] = "idle" => ~open'[d]
                       /\ pc'[d] = "answered" => open'[d]
                       /\ pc'[d] # "answered" => answer'[d] = None
  BY <1>1 DEF TypeOK, Start
<1> QED BY <1>1, <1>3, <1>4, <1>5 DEF TypeOK, Start, PC

LEMMA LockTyped ==
  ASSUME TypeOK, NEW c \in Calls, Lock(c) \/ LockPoisoned(c)
  PROVE  TypeOK'
<1>1. CASE Lock(c)
  <2>1. \A i \in DOMAIN queue : queue[i] \in Calls /\ queue[i] # c
    BY <1>1 DEF TypeOK, Lock
  <2> QED BY <1>1, <2>1, DbMutexAssumption DEF TypeOK, Lock, PC
<1>2. CASE LockPoisoned(c)
  BY <1>2, FinishTyped DEF TypeOK, LockPoisoned, Finish
<1> QED BY <1>1, <1>2

LEMMA RunTyped ==
  ASSUME TypeOK, MutexInv, NEW c \in Calls, Run(c)
  PROVE  TypeOK'
<1>1. pc[c] = "running"
  BY DEF Run, Statement, ClosureReturns, ClosureFails, ClosurePanics, MutexInv
<1>2. CASE Statement(c)
  <2>1. ran + 1 \in 0 .. Statements
    BY <1>2, DbMutexAssumption DEF TypeOK, Statement
  <2> QED BY <1>2, <2>1, AfterTyped DEF TypeOK, Statement
<1>3. CASE ClosureReturns(c)
  <2>1. found \in Contents \cup {Failed}
    BY DEF TypeOK
  <2> QED BY <1>1, <1>3, <2>1, FinishTyped DEF TypeOK, ClosureReturns, Finish, Release
<1>4. CASE ClosureFails(c)
  BY <1>1, <1>4, FinishTyped DEF TypeOK, ClosureFails, Finish, Release
<1>5. CASE ClosurePanics(c)
  BY <1>1, <1>5, FinishTyped DEF TypeOK, ClosurePanics, Finish, Release
<1> QED BY <1>2, <1>3, <1>4, <1>5 DEF Run

LEMMA CallerTyped ==
  ASSUME TypeOK, NEW c \in Calls, Await(c) \/ DropCaller(c)
  PROVE  TypeOK'
<1>1. \A i \in DOMAIN queue : pc'[queue[i]] = "queued"
  BY DEF TypeOK, Await, DropCaller
<1>2. /\ pc' \in [Calls -> PC]
      /\ open' \in [Calls -> BOOLEAN]
      /\ answer' \in [Calls -> Contents \cup {None, Failed}]
  BY DEF TypeOK, Await, DropCaller, PC
<1>3. ASSUME NEW d \in Calls
      PROVE  /\ pc'[d] = "idle" => ~open'[d]
             /\ pc'[d] = "answered" => open'[d]
             /\ pc'[d] # "answered" => answer'[d] = None
  <2>1. CASE d = c
    BY <2>1 DEF TypeOK, Await, DropCaller
  <2>2. CASE d # c
    BY <2>2 DEF TypeOK, Await, DropCaller
  <2> QED BY <2>1, <2>2
<1> QED BY <1>1, <1>2, <1>3 DEF TypeOK, Await, DropCaller

LEMMA CrashTyped ==
  ASSUME TypeOK, Crash
  PROVE  TypeOK'
<1>1. queue' \in Seq(Calls) /\ DOMAIN queue' = {}
  BY EmptySeq DEF Crash
<1> QED BY <1>1 DEF TypeOK, Crash, PC

-----------------------------------------------------------------------------
(* The mutex and the threads.                                              *)

LEMMA BusyFinite ==
  ASSUME TRUE
  PROVE  IsFiniteSet(Busy)
BY FS_Subset, DbMutexAssumption DEF Busy

\* A step that puts nobody new on a thread keeps within them.
LEMMA FewerBusy ==
  ASSUME Cardinality(Busy) <= Threads, Busy' \subseteq Busy
  PROVE  Cardinality(Busy') <= Threads
BY BusyFinite, FS_Subset, FS_CardinalityType, DbMutexAssumption

LEMMA MutexStep ==
  ASSUME TypeOK, MutexInv, [Next]_vars
  PROVE  MutexInv'
<1>1. ASSUME NEW c \in Calls, Start(c)
      PROVE  MutexInv'
  <2>1. queue # << >> /\ queue[1] = c /\ 1 \in DOMAIN queue
    BY <1>1, LenProperties, EmptySeq DEF TypeOK, Start
  <2>2. pc[c] = "queued"
    BY <2>1 DEF TypeOK
  <2>3. Busy' = Busy \cup {c}
    BY <1>1, <2>2 DEF Busy, Start, TypeOK
  <2>4. Cardinality(Busy') <= Threads
    <3>1. /\ Cardinality(Busy) \in Nat
          /\ Cardinality(Busy \cup {c}) \in {Cardinality(Busy), Cardinality(Busy) + 1}
      BY BusyFinite, FS_AddElement, FS_CardinalityType
    <3>2. Cardinality(Busy) < Threads
      BY <1>1 DEF Start
    <3>3. Threads \in Nat
      BY DbMutexAssumption
    <3> QED BY <2>3, <3>1, <3>2, <3>3
  <2> QED BY <1>1, <2>2, <2>4 DEF MutexInv, Start, TypeOK
<1>2. ASSUME NEW c \in Calls, Lock(c)
      PROVE  MutexInv'
  <2>1. Busy' \subseteq Busy
    BY <1>2 DEF Busy, Lock, TypeOK
  <2>2. found \in Contents /\ db \in Contents
    BY DEF TypeOK
  <2> QED BY <1>2, <2>1, <2>2, FewerBusy, DbMutexAssumption DEF MutexInv, Lock, TypeOK
<1>3. ASSUME NEW c \in Calls, LockPoisoned(c) \/ Call(c) \/ Await(c) \/ DropCaller(c)
      PROVE  MutexInv'
  <2>1. Busy' \subseteq Busy
    BY <1>3 DEF Busy, LockPoisoned, Finish, Call, Await, DropCaller, TypeOK
  <2> QED BY <1>3, <2>1, FewerBusy
          DEF MutexInv, LockPoisoned, Finish, Call, Await, DropCaller, TypeOK
<1>4. ASSUME NEW c \in Calls, Run(c)
      PROVE  MutexInv'
  <2>1. Busy' \subseteq Busy
    BY <1>4 DEF Busy, Run, Statement, ClosureReturns, ClosureFails, ClosurePanics, Finish,
       TypeOK
  <2>2. CASE Statement(c)
    BY <2>1, <2>2, FewerBusy DEF MutexInv, Statement
  <2>3. CASE ClosureReturns(c) \/ ClosureFails(c) \/ ClosurePanics(c)
    <3>1. holder = c /\ holder' = None
      BY <2>3 DEF ClosureReturns, ClosureFails, ClosurePanics, Release
    <3>2. \A d \in Calls : pc'[d] # "running"
      BY <2>3, <3>1 DEF MutexInv, ClosureReturns, ClosureFails, ClosurePanics, Finish, TypeOK
    <3> QED BY <2>1, <3>1, <3>2, FewerBusy, DbMutexAssumption DEF MutexInv
  <2> QED BY <1>4, <2>2, <2>3 DEF Run
<1>5. CASE Crash
  <2>1. Busy' \subseteq Busy
    BY <1>5 DEF Busy, Crash
  <2> QED BY <1>5, <2>1, FewerBusy, DbMutexAssumption DEF MutexInv, Crash
<1>6. CASE UNCHANGED vars
  BY <1>6 DEF MutexInv, Busy, vars
<1> QED BY <1>1, <1>2, <1>3, <1>4, <1>5, <1>6 DEF Next

LEMMA TypeStep ==
  ASSUME TypeOK, MutexInv, [Next]_vars
  PROVE  TypeOK'
<1>1. CASE UNCHANGED vars
  BY <1>1 DEF TypeOK, vars
<1> QED BY <1>1, CallTyped, StartTyped, LockTyped, RunTyped, CallerTyped, CrashTyped DEF Next

LEMMA InitInv == Init => TypeOK /\ MutexInv
<1>1. SUFFICES ASSUME Init PROVE TypeOK /\ MutexInv
  OBVIOUS
<1>2. queue \in Seq(Calls) /\ DOMAIN queue = {}
  BY <1>1, EmptySeq DEF Init
<1>3. Busy = {}
  BY <1>1 DEF Init, Busy
<1>4. TypeOK
  <2>1. /\ db \in Contents /\ found \in Contents /\ ran \in 0 .. Statements
        /\ holder \in Calls \cup {None} /\ poisoned \in BOOLEAN
        /\ pc \in [Calls -> PC] /\ open \in [Calls -> BOOLEAN]
        /\ answer \in [Calls -> Contents \cup {None, Failed}]
    <3>1. 0 \in 0 .. Statements
      BY DbMutexAssumption
    <3> QED BY <1>1, <3>1, DbMutexAssumption DEF Init, PC
  <2>2. \A c \in Calls : pc[c] = "idle" /\ ~open[c] /\ answer[c] = None
    BY <1>1 DEF Init
  <2> QED BY <1>2, <2>1, <2>2 DEF TypeOK
<1>5. Cardinality(Busy) <= Threads
  BY <1>3, DbMutexAssumption, FS_EmptySet
<1> QED BY <1>1, <1>4, <1>5, DbMutexAssumption DEF Init, MutexInv

\* Every reachable state is well typed, and nobody waits for an answer in vain or
\* holds a place in the queue of the pool twice.
THEOREM Typing == Spec => []TypeOK
<1>1. TypeOK /\ MutexInv /\ [Next]_vars => TypeOK' /\ MutexInv'
  BY TypeStep, MutexStep
<1> QED BY InitInv, <1>1, PTL DEF Spec

\* One closure at a time, on the contents it found; no more threads than there are.
THEOREM Mutex == Spec => []MutexInv
<1>1. TypeOK /\ MutexInv /\ [Next]_vars => TypeOK' /\ MutexInv'
  BY TypeStep, MutexStep
<1> QED BY InitInv, <1>1, PTL DEF Spec

-----------------------------------------------------------------------------
(* Implementation: every step is a step of AtomicCalls or changes nothing  *)
(* there.                                                                  *)

\* A call's phase after a step that changes the pc of no other call.
LEMMA OnePhase ==
  ASSUME NEW c \in Calls, NEW p,
         \A d \in Calls \ {c} : pc'[d] = pc[d] /\ open'[d] = open[d],
         Phase(c)' = p
  PROVE  Phases' = [Phases EXCEPT ![c] = p]
BY DEF Phases, Phase

LEMMA SamePhases ==
  ASSUME \A d \in Calls : Phase(d)' = Phase(d)
  PROVE  Phases' = Phases
BY DEF Phases

LEMMA CallImplements ==
  ASSUME TypeOK, NEW c \in Calls, Call(c)
  PROVE  Atomic!Invoke(c)
<1>1. Phase(c) = "idle" /\ Phase(c)' = "pending"
  BY DEF Call, Phase, TypeOK
<1>2. Phases' = [Phases EXCEPT ![c] = "pending"]
  BY <1>1, OnePhase DEF Call, TypeOK
<1>3. Phases[c] = "idle"
  BY <1>1 DEF Phases
<1> QED BY <1>2, <1>3 DEF Call, Atomic!Invoke, Settled

LEMMA HiddenSteps ==
  ASSUME TypeOK, MutexInv, NEW c \in Calls, Start(c) \/ Lock(c) \/ Statement(c)
  PROVE  UNCHANGED Atomic!vars
<1>1. CASE Start(c)
  <2>1. queue[1] = c /\ 1 \in DOMAIN queue
    BY <1>1, LenProperties, EmptySeq DEF TypeOK, Start
  <2>2. pc[c] = "queued"
    BY <2>1 DEF TypeOK
  <2>3. \A d \in Calls : Phase(d)' = Phase(d)
    BY <1>1, <2>2 DEF Start, Phase, TypeOK
  <2> QED BY <1>1, <2>3, SamePhases DEF Start, Settled, Atomic!vars
<1>2. CASE Lock(c)
  <2>1. \A d \in Calls : Phase(d)' = Phase(d)
    BY <1>2 DEF Lock, Phase, TypeOK
  <2>2. Settled' = Settled
    BY <1>2 DEF Lock, Settled
  <2> QED BY <1>2, <2>1, <2>2, SamePhases DEF Lock, Atomic!vars
<1>3. CASE Statement(c)
  <2>1. \A d \in Calls : Phase(d)' = Phase(d)
    BY <1>3 DEF Statement, Phase
  <2>2. Settled' = Settled
    BY <1>3, DbMutexAssumption DEF Statement, Settled
  <2> QED BY <1>3, <2>1, <2>2, SamePhases DEF Statement, Atomic!vars
<1> QED BY <1>1, <1>2, <1>3

\* The end of a closure settles its call, whether or not somebody waits for it.
LEMMA FinishSettles ==
  ASSUME TypeOK, NEW c \in Calls, NEW a, Finish(c, a), UNCHANGED open,
         pc[c] \in {"locking", "running"}
  PROVE  Atomic!InFlight(c) /\ Atomic!Settle(c, a)
<1>1. CASE open[c]
  <2>1. Phase(c) = "pending" /\ Phase(c)' = "answered"
    BY <1>1 DEF Finish, Phase, TypeOK
  <2>2. Phases[c] = "pending" /\ Phases' = [Phases EXCEPT ![c] = "answered"]
    BY <2>1, OnePhase DEF Finish, TypeOK, Phases
  <2>3. answer' = [answer EXCEPT ![c] = a]
    BY <1>1 DEF Finish
  <2> QED BY <2>2, <2>3 DEF Atomic!InFlight, Atomic!Settle
<1>2. CASE ~open[c]
  <2>1. Phase(c) = "orphan" /\ Phase(c)' = "idle"
    BY <1>2 DEF Finish, Phase, TypeOK
  <2>2. Phases[c] = "orphan" /\ Phases' = [Phases EXCEPT ![c] = "idle"]
    BY <2>1, OnePhase DEF Finish, TypeOK, Phases
  <2>3. answer' = [answer EXCEPT ![c] = None]
    BY <1>2 DEF Finish
  <2> QED BY <2>2, <2>3 DEF Atomic!InFlight, Atomic!Settle
<1> QED BY <1>1, <1>2

LEMMA EndImplements ==
  ASSUME TypeOK, MutexInv, NEW c \in Calls,
         LockPoisoned(c) \/ ClosureReturns(c) \/ ClosureFails(c) \/ ClosurePanics(c)
  PROVE  Atomic!TakesEffect(c) \/ Atomic!Fails(c)
<1>1. CASE LockPoisoned(c)
  <2>1. Atomic!InFlight(c) /\ Atomic!Settle(c, Failed)
    BY <1>1, FinishSettles DEF LockPoisoned
  <2> QED BY <1>1, <2>1 DEF LockPoisoned, Atomic!Fails, Settled
<1>2. ASSUME holder = c, holder' = None, UNCHANGED db
      PROVE  /\ pc[c] = "running" /\ ~poisoned /\ Settled = found
             /\ Settled' = After[Settled][ran]
  BY <1>2, DbMutexAssumption DEF MutexInv, Settled
<1>3. CASE ClosureReturns(c)
  <2>1. /\ pc[c] = "running" /\ ~poisoned /\ Settled = found
        /\ Settled' = After[Settled][Statements]
    BY <1>2, <1>3 DEF ClosureReturns, Release
  <2>2. Atomic!InFlight(c) /\ Atomic!Settle(c, found)
    BY <1>3, <2>1, FinishSettles DEF ClosureReturns
  <2> QED BY <1>3, <2>1, <2>2 DEF ClosureReturns, Atomic!TakesEffect
<1>4. CASE ClosureFails(c) \/ ClosurePanics(c)
  <2>1. /\ pc[c] = "running" /\ ~poisoned
        /\ ran \in 0 .. Statements /\ Settled' = After[Settled][ran]
    BY <1>2, <1>4 DEF ClosureFails, ClosurePanics, Release, TypeOK
  <2>2. Atomic!InFlight(c) /\ Atomic!Settle(c, Failed)
    BY <1>4, <2>1, FinishSettles DEF ClosureFails, ClosurePanics
  <2>3. poisoned' \in BOOLEAN
    BY <1>4, <2>1 DEF ClosureFails, ClosurePanics, TypeOK
  <2> QED BY <2>1, <2>2, <2>3 DEF Atomic!Fails
<1> QED BY <1>1, <1>3, <1>4

LEMMA CallerImplements ==
  ASSUME TypeOK, NEW c \in Calls, Await(c) \/ DropCaller(c)
  PROVE  Atomic!Returns(c) \/ Atomic!Abandon(c)
<1>1. CASE pc[c] = "answered"
  <2>1. Phase(c) = "answered" /\ Phase(c)' = "idle"
    BY <1>1 DEF Await, DropCaller, Phase, TypeOK
  <2>2. Phases[c] = "answered" /\ Phases' = [Phases EXCEPT ![c] = "idle"]
    BY <2>1, OnePhase DEF Await, DropCaller, TypeOK, Phases
  <2> QED BY <2>2 DEF Await, DropCaller, Atomic!Returns, Settled
<1>2. CASE pc[c] # "answered"
  <2>1. Phase(c) = "pending" /\ Phase(c)' = "orphan"
    BY <1>2 DEF Await, DropCaller, Phase, TypeOK
  <2>2. Phases[c] = "pending" /\ Phases' = [Phases EXCEPT ![c] = "orphan"]
    BY <2>1, OnePhase DEF Await, DropCaller, TypeOK, Phases
  <2>3. answer' = answer
    BY <1>2 DEF Await, DropCaller, TypeOK
  <2> QED BY <1>2, <2>2, <2>3 DEF Await, DropCaller, Atomic!Abandon, Settled
<1> QED BY <1>1, <1>2

LEMMA CrashImplements ==
  ASSUME TypeOK, MutexInv, Crash
  PROVE  Atomic!Crash
<1>1. Phases' = [c \in Calls |-> "idle"]
  BY DEF Crash, Phases, Phase
<1>2. CASE holder = None
  BY <1>1, <1>2 DEF Crash, Atomic!Crash, Settled
<1>3. CASE holder # None
  <2>1. /\ holder \in Calls /\ ran \in 0 .. Statements /\ ~poisoned
        /\ pc[holder] = "running" /\ Settled' = After[Settled][ran]
    BY <1>3 DEF Crash, MutexInv, TypeOK, Settled
  <2>2. Atomic!InFlight(holder)
    BY <2>1 DEF Atomic!InFlight, Phases, Phase
  <2> QED BY <1>1, <2>1, <2>2 DEF Crash, Atomic!Crash
<1> QED BY <1>2, <1>3

\* Database::call is atomic towards those who await it.
THEOREM Implementation == Spec => Implements
<1>1. Init => Atomic!Init
  <2>1. SUFFICES ASSUME Init PROVE Atomic!Init
    OBVIOUS
  <2>2. Phases = [c \in Calls |-> "idle"]
    BY <2>1 DEF Init, Phases, Phase
  <2> QED BY <2>1, <2>2 DEF Init, Atomic!Init, Settled
<1>2. TypeOK /\ MutexInv /\ [Next]_vars => [Atomic!Next]_(Atomic!vars)
  <2>1. SUFFICES ASSUME TypeOK, MutexInv, [Next]_vars
                 PROVE  Atomic!Next \/ UNCHANGED Atomic!vars
    OBVIOUS
  <2>2. CASE UNCHANGED vars
    BY <2>2 DEF vars, Atomic!vars, Settled, Phases, Phase
  <2>3. CASE Crash
    BY <2>1, <2>3, CrashImplements DEF Atomic!Next
  <2>4. ASSUME NEW c \in Calls, Call(c) \/ Await(c) \/ DropCaller(c)
        PROVE  Atomic!Next
    BY <2>1, <2>4, CallImplements, CallerImplements DEF Atomic!Next
  <2>5. ASSUME NEW c \in Calls, Start(c) \/ Lock(c) \/ Statement(c)
        PROVE  UNCHANGED Atomic!vars
    BY <2>1, <2>5, HiddenSteps
  <2>6. ASSUME NEW c \in Calls,
               LockPoisoned(c) \/ ClosureReturns(c) \/ ClosureFails(c) \/ ClosurePanics(c)
        PROVE  Atomic!Next
    BY <2>1, <2>6, EndImplements DEF Atomic!Next
  <2> QED BY <2>1, <2>2, <2>3, <2>4, <2>5, <2>6 DEF Next, Run
<1>3. Spec => [](TypeOK /\ MutexInv)
  BY Typing, Mutex, PTL
<1> QED BY <1>1, <1>2, <1>3, PTL DEF Spec, Implements, Atomic!Spec
=============================================================================
