---------------------------- MODULE ProcessProofs ----------------------------
(***************************************************************************)
(* What the background monitor and the integration bus keep to, for any    *)
(* number of requests, samples, adapters and tasks, each as a part of the  *)
(* composition in MCParts.                                                 *)
(***************************************************************************)
EXTENDS MCParts, SequencesExt, SequenceTheorems, FiniteSetTheorems, TLAPS

-----------------------------------------------------------------------------
(* Queues: sequences in which each member of a set stands once.            *)

Queues(q, A) ==
  /\ q \in Seq(A)
  /\ \A x \in A : \E i \in 1 .. Len(q) : q[i] = x
  /\ \A i, j \in 1 .. Len(q) : q[i] = q[j] => i = j

LEMMA QueueTyped ==
  ASSUME NEW q, NEW S, NEW A, A \subseteq S
  PROVE  Queues(q, A) <=> /\ q \in Seq(S)
                          /\ \A a, b \in DOMAIN q : q[a] = q[b] => a = b
                          /\ {q[a] : a \in DOMAIN q} = A
<1>1. ASSUME q \in Seq(S), {q[a] : a \in DOMAIN q} = A
      PROVE  q \in Seq(A) /\ DOMAIN q = 1 .. Len(q)
  <2>1. DOMAIN q = 1 .. Len(q) /\ Len(q) \in Nat
    BY <1>1, LenProperties
  <2>2. \A i \in 1 .. Len(q) : q[i] \in A
    BY <1>1, <2>1
  <2> QED BY <1>1, <2>1, <2>2, SeqDef, LenProperties
<1>2. ASSUME Queues(q, A)
      PROVE  /\ q \in Seq(S) /\ DOMAIN q = 1 .. Len(q)
             /\ {q[a] : a \in DOMAIN q} = A
  <2>1. q \in Seq(A) /\ q \in Seq(S)
    BY <1>2, SeqMonotonic DEF Queues
  <2>2. DOMAIN q = 1 .. Len(q) /\ \A i \in 1 .. Len(q) : q[i] \in A
    BY <2>1, LenProperties, ElementOfSeq
  <2> QED BY <1>2, <2>1, <2>2 DEF Queues
<1> QED BY <1>1, <1>2 DEF Queues

LEMMA NobodyQueues == Queues(<< >>, {})
BY EmptySeq DEF Queues

LEMMA OneMoreQueues ==
  ASSUME NEW q, NEW A, Queues(q, A), NEW x, x \notin A
  PROVE  Queues(Append(q, x), A \cup {x})
<1> DEFINE p == Append(q, x)
<1>1. q \in Seq(A \cup {x}) /\ Len(q) \in Nat
  BY SeqMonotonic, LenProperties DEF Queues
<1>2. /\ p \in Seq(A \cup {x}) /\ Len(p) = Len(q) + 1
      /\ \A i \in 1 .. Len(q) : p[i] = q[i]
      /\ p[Len(p)] = x
  BY <1>1, AppendProperties
<1> HIDE DEF p
<1>3. \A i \in 1 .. Len(q) : q[i] \in A
  BY ElementOfSeq DEF Queues
<1>4. ASSUME NEW i \in 1 .. Len(p), NEW j \in 1 .. Len(p), p[i] = p[j] PROVE i = j
  <2>1. \A l \in 1 .. Len(p) : l \in 1 .. Len(q) \/ l = Len(p)
    BY <1>1, <1>2
  <2>2. CASE i \in 1 .. Len(q) /\ j \in 1 .. Len(q)
    BY <1>2, <1>4, <2>2 DEF Queues
  <2>3. CASE i = Len(p) \/ j = Len(p)
    BY <1>2, <1>3, <1>4, <2>1, <2>3
  <2> QED BY <2>1, <2>2, <2>3
<1>5. \A y \in A \cup {x} : \E i \in 1 .. Len(p) : p[i] = y
  <2>1. ASSUME NEW y \in A PROVE \E i \in 1 .. Len(p) : p[i] = y
    <3>1. PICK i \in 1 .. Len(q) : q[i] = y
      BY DEF Queues
    <3> QED BY <1>1, <1>2, <3>1
  <2>2. \E i \in 1 .. Len(p) : p[i] = x
    BY <1>1, <1>2
  <2> QED BY <2>1, <2>2
<1>6. Queues(p, A \cup {x})
  BY <1>2, <1>4, <1>5 DEF Queues
<1> QED BY <1>6 DEF p

LEMMA HeadLeaves ==
  ASSUME NEW q, NEW A, Queues(q, A), q # << >>
  PROVE  Head(q) \in A /\ Queues(Tail(q), A \ {Head(q)})
<1> DEFINE p == Tail(q)
<1>1. q \in Seq(A) /\ Len(q) \in Nat
  BY LenProperties DEF Queues
<1>2. /\ Head(q) = q[1] /\ q[1] \in A /\ 1 \in 1 .. Len(q)
      /\ p \in Seq(A) /\ Len(p) = Len(q) - 1
      /\ \A i \in 1 .. Len(p) : p[i] = q[i + 1]
  BY <1>1, HeadTailProperties, EmptySeq, LenProperties, ElementOfSeq
<1>3. Len(p) \in Nat
  BY <1>2, LenProperties
<1> HIDE DEF p
<1>0. \A i \in 1 .. Len(p) : i + 1 \in 1 .. Len(q) /\ i + 1 # 1
  BY <1>1, <1>2, <1>3
<1>4. ASSUME NEW i \in 1 .. Len(p) PROVE p[i] \in A \ {q[1]}
  <2>1. q[i + 1] \in A
    BY <1>0, <1>1, ElementOfSeq
  <2>2. q[i + 1] # q[1]
    BY <1>0, <1>2 DEF Queues
  <2> QED BY <1>2, <2>1, <2>2
<1>5. p \in Seq(A \ {q[1]})
  BY <1>2, <1>3, <1>4, LenProperties, SeqDef, IsASeq
<1>6. ASSUME NEW i \in 1 .. Len(p), NEW j \in 1 .. Len(p), p[i] = p[j] PROVE i = j
  <2>1. q[i + 1] = q[j + 1]
    BY <1>2, <1>6
  <2>2. \A a, b \in 1 .. Len(q) : q[a] = q[b] => a = b
    BY DEF Queues
  <2>3. i + 1 = j + 1
    BY <1>0, <2>1, <2>2
  <2> QED BY <1>3, <2>3
<1>7. ASSUME NEW y \in A \ {q[1]} PROVE \E i \in 1 .. Len(p) : p[i] = y
  <2>1. PICK i \in 1 .. Len(q) : q[i] = y
    BY <1>7 DEF Queues
  <2>2. i - 1 \in 1 .. Len(p) /\ p[i - 1] = y
    BY <1>1, <1>2, <2>1
  <2> QED BY <2>2
<1>8. Queues(p, A \ {q[1]})
  BY <1>5, <1>6, <1>7 DEF Queues
<1> QED BY <1>2, <1>8 DEF p

LEMMA AnyLeaves ==
  ASSUME NEW q, NEW A, Queues(q, A), NEW x
  PROVE  Queues(RemoveFirst(q, x), A \ {x})
<1>1. q \in Seq(A) /\ Len(q) \in Nat
  BY LenProperties DEF Queues
<1>2. \A i \in 1 .. Len(q) : q[i] \in A
  BY <1>1, ElementOfSeq
<1>3. CASE \A i \in 1 .. Len(q) : q[i] # x
  <2>1. A \ {x} = A
    BY <1>3 DEF Queues
  <2>2. RemoveFirst(q, x) = q
    BY <1>3 DEF RemoveFirst
  <2> QED BY <2>1, <2>2
<1>4. ASSUME NEW k \in 1 .. Len(q), q[k] = x
      PROVE  Queues(RemoveFirst(q, x), A \ {x})
  <2> DEFINE next(i) == IF i < k THEN i ELSE i + 1
             p == [i \in 1 .. Len(q) - 1 |-> q[next(i)]]
  <2>1. SelectInSeq(q, LAMBDA v : v = x) = k
    <3>1. {i \in 1 .. Len(q) : q[i] = x} = {k}
      <4>1. \A a, b \in 1 .. Len(q) : q[a] = q[b] => a = b
        BY DEF Queues
      <4> QED BY <1>4, <4>1
    <3>2. Min({k}) = k
      BY <1>1 DEF Min
    <3> QED BY <3>1, <3>2 DEF SelectInSeq
  <2>2. RemoveFirst(q, x) = SubSeq(q, 1, k - 1) \o SubSeq(q, k + 1, Len(q))
    BY <1>4, <2>1 DEF RemoveFirst, RemoveAt
  <2>3. \A i \in 1 .. Len(q) - 1 : next(i) \in 1 .. Len(q) /\ next(i) # k
    BY <1>1, <1>4
  <2>4. \A i, j \in 1 .. Len(q) - 1 : next(i) = next(j) => i = j
    BY <1>1, <1>4
  <2>5. \A i \in 1 .. Len(q) : i = k \/ \E j \in 1 .. Len(q) - 1 : next(j) = i
    <3>1. ASSUME NEW i \in 1 .. Len(q), i < k PROVE i \in 1 .. Len(q) - 1 /\ next(i) = i
      BY <1>1, <1>4, <3>1
    <3>2. ASSUME NEW i \in 1 .. Len(q), i > k
          PROVE  i - 1 \in 1 .. Len(q) - 1 /\ next(i - 1) = i
      BY <1>1, <1>4, <3>2
    <3>3. \A i \in 1 .. Len(q) : i = k \/ i < k \/ i > k
      BY <1>1
    <3> HIDE DEF next
    <3> QED BY <3>1, <3>2, <3>3
  <2>6. Len(q) - 1 \in Nat
    BY <1>1, <1>4
  <2>7. SubSeq(q, 1, k - 1) \o SubSeq(q, k + 1, Len(q)) = p
    <3> DEFINE a == SubSeq(q, 1, k - 1)
               b == SubSeq(q, k + 1, Len(q))
    <3>1. /\ a \in Seq(A) /\ Len(a) = k - 1
          /\ \A i \in 1 .. k - 1 : a[i] = q[i]
      BY <1>1, <1>4, SubSeqProperties
    <3>2. /\ b \in Seq(A) /\ Len(b) = Len(q) - k
          /\ \A i \in 1 .. Len(q) - k : b[i] = q[k + i]
      BY <1>1, <1>4, SubSeqProperties
    <3> HIDE DEF a, b
    <3>3. /\ a \o b \in Seq(A) /\ Len(a \o b) = Len(q) - 1
          /\ \A i \in 1 .. Len(q) - 1 :
               (a \o b)[i] = IF i <= k - 1 THEN a[i] ELSE b[i - (k - 1)]
      <4>1. Len(a) + Len(b) = Len(q) - 1
        BY <1>1, <1>4, <3>1, <3>2
      <4>2. /\ a \o b \in Seq(A) /\ Len(a \o b) = Len(a) + Len(b)
            /\ \A i \in 1 .. Len(a) + Len(b) :
                 (a \o b)[i] = IF i <= Len(a) THEN a[i] ELSE b[i - Len(a)]
        BY <3>1, <3>2, ConcatProperties, Zenon
      <4> QED BY <3>1, <4>1, <4>2, Zenon
    <3>4. ASSUME NEW i \in 1 .. Len(q) - 1 PROVE (a \o b)[i] = q[next(i)]
      <4>1. CASE i < k
        <5>1. i \in 1 .. k - 1 /\ i <= k - 1
          BY <1>1, <1>4, <4>1
        <5> QED BY <3>1, <3>3, <4>1, <5>1
      <4>2. CASE i >= k
        <5>1. i - (k - 1) \in 1 .. Len(q) - k /\ k + (i - (k - 1)) = i + 1
          BY <1>1, <1>4, <4>2
        <5>2. ~(i <= k - 1) /\ ~(i < k)
          BY <1>1, <1>4, <4>2
        <5>3. (a \o b)[i] = b[i - (k - 1)]
          BY <3>3, <5>2, Zenon
        <5>4. b[i - (k - 1)] = q[k + (i - (k - 1))]
          BY <3>2, <5>1, Zenon
        <5>5. next(i) = i + 1
          BY <5>2
        <5>6. q[k + (i - (k - 1))] = q[i + 1]
          BY <5>1
        <5> HIDE DEF next
        <5> QED BY <5>3, <5>4, <5>5, <5>6, Zenon
      <4>3. i < k \/ i >= k
        BY <1>1, <1>4
      <4> QED BY <4>1, <4>2, <4>3
    <3>5. DOMAIN (a \o b) = 1 .. Len(q) - 1
      BY <3>3, LenProperties
    <3>6. a \o b = [i \in 1 .. Len(q) - 1 |-> (a \o b)[i]]
      BY <3>3, <3>5, LenProperties
    <3> QED BY <3>4, <3>6 DEF a, b
  <2> HIDE DEF next
  <2>8. \A i \in 1 .. Len(q) - 1 : p[i] \in A \ {x}
    BY <1>2, <1>4, <2>3 DEF Queues
  <2>9. p \in Seq(A \ {x}) /\ Len(p) = Len(q) - 1
    BY <2>6, <2>8, IsASeq, LenProperties
  <2>10. ASSUME NEW i \in 1 .. Len(p), NEW j \in 1 .. Len(p), p[i] = p[j] PROVE i = j
    <3>1. q[next(i)] = q[next(j)]
      BY <2>9, <2>10
    <3>2. next(i) = next(j)
      BY <2>3, <2>9, <3>1 DEF Queues
    <3> QED BY <2>4, <2>9, <3>2
  <2>11. ASSUME NEW y \in A \ {x} PROVE \E i \in 1 .. Len(p) : p[i] = y
    <3>1. PICK i \in 1 .. Len(q) : q[i] = y
      BY <2>11 DEF Queues
    <3>2. PICK j \in 1 .. Len(q) - 1 : next(j) = i
      BY <1>4, <2>5, <2>11, <3>1
    <3> QED BY <2>9, <3>1, <3>2
  <2>12. Queues(p, A \ {x})
    BY <2>9, <2>10, <2>11 DEF Queues
  <2> QED BY <2>2, <2>7, <2>12
<1> QED BY <1>3, <1>4

-----------------------------------------------------------------------------
(* The background monitor.                                                 *)

\* Who waits for the collector.
Waiting == {r \in MonSlots : monReq[r].pc = "lock"} \cup (IF mon = "lock" THEN {Mon} ELSE {})

MonRequest == [pc : {"idle", "lock", "half", "seen"}, charts : [Mo!Types -> SUBSET Mo!Rows]]

MonTypes ==
  /\ mon \in {"off", "tick", "lock", "insert"}
  /\ due \in 0 .. MaxDue /\ taken \in 0 .. MaxSamples + 1 /\ now \in 0 .. MaxTime
  /\ metrics \subseteq Mo!Rows /\ torn \subseteq 1 .. MaxSamples + 1
  /\ monReq \in [MonSlots -> MonRequest]
  /\ Queues(collector, Waiting)

LEMMA MonTyped == Mo!TypeOK <=> MonTypes
<1>1. Waiting \subseteq MonSlots \cup {Mon}
  BY DEF Waiting
<1>2. Queues(collector, Waiting) <=>
        /\ collector \in Seq(MonSlots \cup {Mon})
        /\ Mo!IsInjective(collector) /\ Mo!Range(collector) = Waiting
  BY <1>1, QueueTyped DEF Mo!IsInjective, Mo!Range
<1> QED BY <1>2 DEF Mo!TypeOK, MonTypes, MonRequest, Waiting

LEMMA MonTypedAfter == Mo!TypeOK' <=> MonTypes'
<1>1. Waiting' \subseteq MonSlots \cup {Mon}
  BY DEF Waiting
<1>2. Queues(collector, Waiting)' <=>
        /\ collector' \in Seq(MonSlots \cup {Mon})
        /\ Mo!IsInjective(collector)' /\ Mo!Range(collector)' = Waiting'
  BY <1>1, QueueTyped DEF Mo!IsInjective, Mo!Range
<1> QED BY <1>2 DEF Mo!TypeOK, MonTypes, MonRequest, Waiting

\* Every cpu row of a sample that was not cut short has the memory row, which is no older,
\* next to it, and the points of a cpu chart are still in the table when the memory chart
\* is read: what ChartsAgree needs to hold of two reads that come one after the other.
Paired ==
  \A x \in metrics : x.type = "cpu" =>
    \/ x.sample \in torn
    \/ \E y \in metrics : y.type = "memory" /\ y.sample = x.sample /\ y.at >= x.at

ChartsStored ==
  \A r \in MonSlots : monReq[r].pc \in {"half", "seen"} => monReq[r].charts["cpu"] \subseteq Mo!OfType("cpu")

MonitorInv ==
  /\ Mo!TypeOK
  /\ IsFiniteSet(metrics)
  /\ mon = "insert" => taken # 0
  /\ Paired
  /\ ChartsStored
  /\ ChartsAgree

LEMMA MonAssumed ==
  /\ MaxSamples \in Nat /\ MaxDue \in Nat \ {0} /\ MaxTime \in Nat
  /\ Limit \in Nat \ {0}
  /\ Mon \notin MonSlots
BY PartsAssumption DEF PartsAssumption, Mo!MonitorAssumption

LEMMA MonInit ==
  ASSUME Mo!Init
  PROVE  MonitorInv
<1>1. Waiting = {}
  BY DEF Mo!Init, Mo!Idle, Waiting
<1>2. Mo!TypeOK
  BY <1>1, NobodyQueues, MonTyped, MonAssumed DEF MonTypes, MonRequest, Mo!Init, Mo!Idle, Mo!Types
<1>3. IsFiniteSet(metrics)
  BY FS_EmptySet DEF Mo!Init
<1> QED BY <1>2, <1>3 DEF Mo!Init, Mo!Idle, MonitorInv, Paired, ChartsStored, ChartsAgree, Mo!ChartsAgree

LEMMA RowTyped ==
  ASSUME Mo!TypeOK, mon = "insert", taken # 0, NEW t \in Mo!Types, NEW time \in 0 .. MaxTime
  PROVE  /\ Mo!Row(t, time) \subseteq Mo!Rows /\ IsFiniteSet(Mo!Row(t, time))
         /\ \A x \in Mo!Row(t, time) : x.type = t
         /\ taken \in 1 .. MaxSamples + 1
<1>1. taken \in 1 .. MaxSamples + 1
  BY MonAssumed DEF Mo!TypeOK
<1>2. CASE taken > MaxSamples
  BY <1>1, <1>2, FS_EmptySet DEF Mo!Row
<1>3. CASE ~(taken > MaxSamples)
  <2> DEFINE x == [type |-> t, sample |-> taken, at |-> time]
  <2>1. Mo!Row(t, time) = {x}
    BY <1>3 DEF Mo!Row
  <2>2. x \in Mo!Rows
    BY <1>1, <1>3, MonAssumed DEF Mo!Rows
  <2>3. x.type = t
    OBVIOUS
  <2> HIDE DEF x
  <2> QED BY <1>1, <2>1, <2>2, <2>3, FS_Singleton
<1> QED BY <1>2, <1>3

LEMMA MonTypeStep ==
  ASSUME Mo!TypeOK, mon = "insert" => taken # 0, Mo!Next
  PROVE  Mo!TypeOK'
<1> USE MonAssumed
<1>0. MonTypes
  BY MonTyped
<1> SUFFICES MonTypes'
  BY MonTypedAfter
<1> USE DEF MonTypes
<1>1. CASE Mo!Start \/ Mo!Tick \/ Mo!Second
  <2>1. Waiting' = Waiting /\ collector' = collector
    BY <1>1 DEF Mo!Start, Mo!Tick, Mo!Second, Waiting
  <2>2. CASE Mo!Start
    <3>1. due' \in 0 .. MaxDue
      BY <2>2 DEF Mo!Start
    <3> QED BY <1>0, <2>1, <2>2, <3>1 DEF Mo!Start
  <2>3. CASE Mo!Tick
    BY <1>0, <2>1, <2>3 DEF Mo!Tick
  <2>4. CASE Mo!Second
    BY <1>0, <2>1, <2>4 DEF Mo!Second
  <2> QED BY <1>1, <2>2, <2>3, <2>4
<1>2. CASE Mo!TakeTick
  <2>1. Waiting' = Waiting \cup {Mon} /\ Mon \notin Waiting
    BY <1>2 DEF Mo!TakeTick, Waiting
  <2>2. Queues(collector, Waiting)'
    BY <1>0, <1>2, <2>1, OneMoreQueues DEF Mo!TakeTick
  <2> QED BY <1>0, <1>2, <2>2 DEF Mo!TakeTick
<1>3. CASE Mo!Sample
  <2>1. collector # << >> /\ Head(collector) = Mon /\ collector' = Tail(collector)
    BY <1>3 DEF Mo!Sample, Mo!Has
  <2>2. Waiting' = Waiting \ {Mon}
    BY <1>3 DEF Mo!Sample, Waiting
  <2>3. Queues(collector, Waiting)'
    BY <1>0, <2>1, <2>2, HeadLeaves
  <2> QED BY <1>0, <1>3, <2>3 DEF Mo!Sample, Mo!Counted
<1>4. CASE Mo!Store \/ Mo!StoreFails
  <2>1. Waiting' = Waiting /\ collector' = collector
    BY <1>4 DEF Mo!Store, Mo!StoreFails, Waiting
  <2>0. now' \in 0 .. MaxTime
    BY <1>0, <1>4 DEF Mo!Store, Mo!StoreFails
  <2>2. /\ Mo!Row("cpu", now) \subseteq Mo!Rows /\ Mo!Row("memory", now') \subseteq Mo!Rows
        /\ taken \in 1 .. MaxSamples + 1
    BY <1>0, <1>4, <2>0, RowTyped DEF Mo!Store, Mo!StoreFails, Mo!Types
  <2>3. metrics' \subseteq Mo!Rows /\ torn' \subseteq 1 .. MaxSamples + 1
    BY <1>0, <1>4, <2>2 DEF Mo!Store, Mo!StoreFails
  <2> QED BY <1>0, <1>4, <2>0, <2>1, <2>3 DEF Mo!Store, Mo!StoreFails
<1>5. ASSUME NEW r \in MonSlots, Mo!Request(r) PROVE MonTypes'
  <2>0. monReq[r] \in MonRequest
    BY <1>0
  <2>1. CASE Mo!Asks(r)
    <3>1. Waiting' = Waiting \cup {r} /\ r \notin Waiting
      BY <1>0, <2>1 DEF Mo!Asks, Mo!Idle, Waiting
    <3>2. Queues(collector, Waiting)'
      BY <1>0, <2>1, <3>1, OneMoreQueues DEF Mo!Asks
    <3>3. monReq' \in [MonSlots -> MonRequest]
      BY <1>0, <2>0, <2>1 DEF Mo!Asks, MonRequest
    <3> QED BY <1>0, <2>1, <3>2, <3>3 DEF Mo!Asks
  <2>2. Mo!Idle \in MonRequest
    BY DEF Mo!Idle, MonRequest
  <2>3. CASE Mo!Overview(r)
    <3>1. collector # << >> /\ Head(collector) = r /\ collector' = Tail(collector)
      BY <2>3 DEF Mo!Overview, Mo!Has
    <3>2. Waiting' = Waiting \ {r}
      BY <1>0, <2>3 DEF Mo!Overview, Waiting, Mo!Idle
    <3>3. Queues(collector, Waiting)'
      BY <1>0, <3>1, <3>2, HeadLeaves
    <3> QED BY <1>0, <2>2, <2>3, <3>3 DEF Mo!Overview
  <2>4. CASE Mo!Disconnect(r)
    <3>1. collector' = RemoveFirst(collector, r)
      BY <2>4 DEF Mo!Disconnect, Mo!RemoveFirst, RemoveFirst, Mo!SelectInSeq, SelectInSeq,
                  Mo!Min, Min, Mo!RemoveAt, RemoveAt
    <3>2. Waiting' = Waiting \ {r}
      BY <1>0, <2>4 DEF Mo!Disconnect, Waiting, Mo!Idle
    <3>3. Queues(collector, Waiting)'
      BY <1>0, <3>1, <3>2, AnyLeaves
    <3> QED BY <1>0, <2>2, <2>4, <3>3 DEF Mo!Disconnect
  <2>5. CASE Mo!GetCpu(r) \/ Mo!GetMemory(r)
    <3>1. PICK t, s :
            /\ t \in Mo!Types /\ s \in Mo!Chart(t)
            /\ \/ monReq' = [monReq EXCEPT ![r] = [pc |-> "half",
                                                  charts |-> [Mo!Idle.charts EXCEPT ![t] = s]]]
               \/ monReq' = [monReq EXCEPT ![r].pc = "seen", ![r].charts[t] = s]
      BY <2>5 DEF Mo!GetCpu, Mo!GetMemory, Mo!Types
    <3>2. s \subseteq Mo!Rows
      <4>1. s \in Mo!kSubset(Mo!Size(t), Mo!OfType(t))
        BY <3>1 DEF Mo!Chart
      <4>2. s \subseteq Mo!OfType(t)
        BY <4>1 DEF Mo!kSubset
      <4> QED BY <1>0, <4>2 DEF Mo!OfType
    <3>3. /\ [pc |-> "half", charts |-> [Mo!Idle.charts EXCEPT ![t] = s]]
               \in MonRequest
          /\ [monReq[r] EXCEPT !.pc = "seen", !.charts[t] = s]
               \in MonRequest
      BY <2>0, <3>2 DEF Mo!Idle, MonRequest
    <3>4. monReq' \in [MonSlots -> MonRequest]
      BY <1>0, <3>1, <3>3
    <3>5. Waiting' = Waiting /\ collector' = collector
      <4>1. monReq[r].pc # "lock" /\ monReq'[r].pc # "lock"
        <5>1. monReq[r].pc \in {"idle", "half"}
          BY <2>5 DEF Mo!GetCpu, Mo!GetMemory, Mo!Idle
        <5>2. monReq'[r].pc \in {"half", "seen"}
          BY <1>0, <2>0, <3>1 DEF MonRequest
        <5> QED BY <5>1, <5>2
      <4>2. \A q \in MonSlots \ {r} : monReq'[q] = monReq[q]
        BY <1>0, <3>1
      <4> QED BY <2>5, <4>1, <4>2 DEF Mo!GetCpu, Mo!GetMemory, Waiting
    <3> QED BY <1>0, <2>5, <3>4, <3>5 DEF Mo!GetCpu, Mo!GetMemory
  <2> QED BY <1>5, <2>1, <2>3, <2>4, <2>5 DEF Mo!Request
<1>6. CASE Mo!Crash
  <2>1. Waiting' = {}
    BY <1>0, <1>6 DEF Mo!Crash, Waiting, Mo!Idle
  <2>2. Queues(collector, Waiting)'
    BY <1>6, <2>1, NobodyQueues DEF Mo!Crash
  <2>3. metrics' \subseteq Mo!Rows /\ torn' \subseteq 1 .. MaxSamples + 1
    <3>1. mon = "insert" => Mo!Row("cpu", now) \subseteq Mo!Rows /\ taken \in 1 .. MaxSamples + 1
      BY <1>0, RowTyped DEF Mo!Types
    <3> QED BY <1>0, <1>6, <3>1 DEF Mo!Crash
  <2>4. monReq' \in [MonSlots -> MonRequest]
    <3>1. Mo!Idle \in MonRequest
      BY DEF Mo!Idle, MonRequest
    <3> QED BY <1>0, <1>6, <3>1 DEF Mo!Crash
  <2> QED BY <1>0, <1>6, <2>2, <2>3, <2>4 DEF Mo!Crash
<1> QED BY <1>1, <1>2, <1>3, <1>4, <1>5, <1>6 DEF Mo!Next, Mo!Monitoring

\* An operator of a library that both modules extend is the same in both.
LEMMA SameCardinality == \A S : Mo!Cardinality(S) = Cardinality(S)
BY DEF Mo!Cardinality, Cardinality

LEMMA OfTypeFinite ==
  ASSUME IsFiniteSet(metrics), NEW t
  PROVE  IsFiniteSet(Mo!OfType(t)) /\ Cardinality(Mo!OfType(t)) \in Nat
BY FS_Subset, FS_CardinalityType DEF Mo!OfType

\* A chart that leaves out a row is full, and of rows that are no older.
LEMMA ChartLeavesOut ==
  ASSUME IsFiniteSet(metrics), NEW t, NEW s \in Mo!Chart(t), NEW y \in Mo!OfType(t) \ s
  PROVE  Cardinality(s) = Limit /\ \A z \in s : z.at >= y.at
<1>1. s \subseteq Mo!OfType(t) /\ Cardinality(s) = Mo!Size(t)
  <2>1. s \in Mo!kSubset(Mo!Size(t), Mo!OfType(t))
    BY DEF Mo!Chart
  <2> QED BY <2>1, SameCardinality DEF Mo!kSubset
<1>2. \A z \in s : z.at >= y.at
  BY DEF Mo!Chart
<1>3. Cardinality(s) # Cardinality(Mo!OfType(t))
  BY <1>1, OfTypeFinite, FS_Subset
<1>4. Cardinality(s) = Limit
  BY <1>1, <1>3, SameCardinality DEF Mo!Size
<1> QED BY <1>2, <1>4

\* The memory chart of a client that has read the cpu chart goes with it.
LEMMA ChartsMeet ==
  ASSUME MonitorInv, NEW r \in MonSlots, monReq[r].pc = "half",
         NEW s \in Mo!Chart("memory"), NEW x \in monReq[r].charts["cpu"]
  PROVE  \/ x.sample \in torn
         \/ \E y \in s : y.sample = x.sample
         \/ Cardinality(s) = Limit /\ \A y \in s : y.at >= x.at
<1>1. x \in metrics /\ x.type = "cpu" /\ IsFiniteSet(metrics)
  BY DEF MonitorInv, ChartsStored, Mo!OfType
<1>2. CASE x.sample \notin torn
  <2>1. PICK y \in Mo!OfType("memory") : y.sample = x.sample /\ y.at >= x.at
    BY <1>1, <1>2 DEF MonitorInv, Paired, Mo!OfType
  <2>2. CASE y \in s
    BY <2>1, <2>2
  <2>3. CASE y \notin s
    <3>1. Cardinality(s) = Limit /\ \A z \in s : z.at >= y.at
      BY <1>1, <2>1, <2>3, ChartLeavesOut
    <3>2. /\ x.at \in Int /\ y.at \in Int
          /\ \A z \in s : z.at \in Int
      <4>1. metrics \subseteq Mo!Rows
        BY MonTyped DEF MonitorInv, MonTypes
      <4>2. s \subseteq Mo!OfType("memory")
        <5>1. s \in Mo!kSubset(Mo!Size("memory"), Mo!OfType("memory"))
          BY DEF Mo!Chart
        <5> QED BY <5>1 DEF Mo!kSubset
      <4>3. \A z \in Mo!Rows : z.at \in Int
        BY MonAssumed DEF Mo!Rows
      <4> QED BY <1>1, <2>1, <4>1, <4>2, <4>3 DEF Mo!OfType
    <3> QED BY <2>1, <3>1, <3>2
  <2> QED BY <2>2, <2>3
<1> QED BY <1>2

LEMMA MonitorStep ==
  ASSUME MonitorInv, [Mo!Next]_Mo!vars
  PROVE  MonitorInv'
<1>0. monReq \in [MonSlots -> MonRequest]
  BY MonTyped DEF MonitorInv, MonTypes
<1>1. CASE UNCHANGED Mo!vars
  <2>1. Mo!TypeOK'
    BY <1>1 DEF MonitorInv, Mo!TypeOK, Mo!vars
  <2> QED BY <1>1, <2>1 DEF MonitorInv, Paired, ChartsStored, ChartsAgree, Mo!ChartsAgree, Mo!OfType, Mo!vars
<1>2. CASE Mo!Next
  <2>1. Mo!TypeOK'
    BY <1>2, MonTypeStep DEF MonitorInv
  \* Only a collection changes the table, and it adds to it.
  <2>2. ASSUME metrics' = metrics, torn' = torn, mon' = "insert" => taken' # 0,
               ASSUME NEW r \in MonSlots
               PROVE  \/ monReq'[r].charts = monReq[r].charts /\ monReq'[r].pc = monReq[r].pc
                      \/ monReq'[r].pc \in {"idle", "lock"}
        PROVE  MonitorInv'
    BY <2>1, <2>2 DEF MonitorInv, Paired, ChartsStored, ChartsAgree, Mo!ChartsAgree, Mo!OfType
  <2>3. ASSUME metrics \subseteq metrics', IsFiniteSet(metrics'), torn \subseteq torn', Paired',
               mon' # "insert",
               ASSUME NEW r \in MonSlots
               PROVE  \/ monReq'[r].charts = monReq[r].charts /\ monReq'[r].pc = monReq[r].pc
                      \/ monReq'[r].pc \in {"idle", "lock"}
        PROVE  MonitorInv'
    <3>1. ChartsStored'
      BY <2>3 DEF MonitorInv, ChartsStored, Mo!OfType
    <3>2. ChartsAgree'
      BY <2>3 DEF MonitorInv, ChartsAgree, Mo!ChartsAgree
    <3> QED BY <2>1, <2>3, <3>1, <3>2 DEF MonitorInv
  <2>4. CASE Mo!Start \/ Mo!TakeTick \/ Mo!Tick \/ Mo!Second
    BY <2>2, <2>4 DEF MonitorInv, Mo!Start, Mo!TakeTick, Mo!Tick, Mo!Second
  <2>5. CASE Mo!Sample
    <3>1. taken' # 0
      BY <2>5, MonAssumed, MonTyped DEF MonitorInv, MonTypes, Mo!Sample, Mo!Counted
    <3> QED BY <2>2, <2>5, <3>1 DEF Mo!Sample
  <2>6. CASE mon = "insert" /\ (Mo!Store \/ Mo!StoreFails \/ Mo!Crash)
    <3>0. /\ now \in 0 .. MaxTime /\ now' \in 0 .. MaxTime
          /\ Mo!Store => now' >= now
      <4>1. now \in 0 .. MaxTime /\ now' \in 0 .. MaxTime
        BY <2>1, MonTyped, MonTypedAfter DEF MonitorInv, MonTypes
      <4> QED BY <4>1, MonAssumed DEF Mo!Store
    <3>1. /\ IsFiniteSet(Mo!Row("cpu", now)) /\ IsFiniteSet(Mo!Row("memory", now'))
          /\ \A x \in Mo!Row("memory", now') : x.type = "memory"
      BY <2>6, <3>0, RowTyped DEF MonitorInv, Mo!Types
    <3>2. /\ metrics \subseteq metrics' /\ IsFiniteSet(metrics') /\ torn \subseteq torn'
      <4>1. IsFiniteSet(metrics \cup Mo!Row("cpu", now))
        BY <3>1, FS_Union DEF MonitorInv
      <4>2. IsFiniteSet(metrics \cup Mo!Row("cpu", now) \cup Mo!Row("memory", now'))
        BY <3>1, <4>1, FS_Union
      <4>3. /\ \/ metrics' = metrics \/ metrics' = metrics \cup Mo!Row("cpu", now)
               \/ metrics' = metrics \cup Mo!Row("cpu", now) \cup Mo!Row("memory", now')
            /\ torn' = torn \/ torn' = torn \cup {taken}
        BY <2>6 DEF Mo!Store, Mo!StoreFails, Mo!Crash
      <4> QED BY <4>1, <4>2, <4>3 DEF MonitorInv
    <3>3. Paired'
      <4>1. ASSUME NEW x \in metrics', x.type = "cpu", x.sample \notin torn'
            PROVE  \E y \in metrics' : y.type = "memory" /\ y.sample = x.sample /\ y.at >= x.at
        <5>1. CASE x \in metrics
          BY <3>2, <4>1, <5>1 DEF MonitorInv, Paired
        <5>2. CASE x \notin metrics
          <6>1. x \in Mo!Row("cpu", now) /\ taken \notin torn'
            BY <2>6, <3>1, <4>1, <5>2 DEF Mo!Store, Mo!StoreFails, Mo!Crash, Mo!Row
          <6>2. Mo!Store
            BY <2>6, <4>1, <5>2, <6>1 DEF Mo!StoreFails, Mo!Crash
          <6> DEFINE y == [type |-> "memory", sample |-> taken, at |-> now']
          <6>3. x.sample = taken /\ x.at = now /\ y \in Mo!Row("memory", now')
            BY <6>1 DEF Mo!Row
          <6>4. y \in metrics' /\ y.type = "memory" /\ y.sample = x.sample /\ y.at >= x.at
            BY <3>0, <6>2, <6>3 DEF Mo!Store
          <6> QED BY <6>4
        <5> QED BY <5>1, <5>2
      <4> QED BY <4>1 DEF Paired
    <3>4. mon' # "insert"
      BY <2>6 DEF Mo!Store, Mo!StoreFails, Mo!Crash
    <3>5. ASSUME NEW r \in MonSlots
          PROVE  \/ monReq'[r].charts = monReq[r].charts /\ monReq'[r].pc = monReq[r].pc
                 \/ monReq'[r].pc \in {"idle", "lock"}
      BY <2>6 DEF Mo!Store, Mo!StoreFails, Mo!Crash, Mo!Idle
    <3> QED BY <2>3, <3>2, <3>3, <3>4, <3>5
  <2>7. CASE Mo!Crash /\ mon # "insert"
    BY <2>2, <2>7 DEF Mo!Crash, Mo!Idle
  <2>8. ASSUME NEW r \in MonSlots, Mo!Asks(r) \/ Mo!Overview(r) \/ Mo!Disconnect(r) PROVE MonitorInv'
    <3>1. /\ metrics' = metrics /\ torn' = torn /\ mon' = mon /\ taken' = taken
          /\ \/ monReq' = [monReq EXCEPT ![r].pc = "lock"]
             \/ monReq' = [monReq EXCEPT ![r] = Mo!Idle]
      BY <2>8 DEF Mo!Asks, Mo!Overview, Mo!Disconnect
    <3>2. monReq'[r].pc \in {"idle", "lock"} /\ \A q \in MonSlots \ {r} : monReq'[q] = monReq[q]
      BY <1>0, <3>1 DEF MonRequest, Mo!Idle
    <3> QED BY <2>2, <3>1, <3>2 DEF MonitorInv
  <2>9. ASSUME NEW r \in MonSlots, Mo!GetCpu(r) PROVE MonitorInv'
    <3>1. PICK s \in Mo!Chart("cpu") :
            monReq' = [monReq EXCEPT ![r] = [pc |-> "half", charts |-> [Mo!Idle.charts EXCEPT !["cpu"] = s]]]
      BY <2>9 DEF Mo!GetCpu
    <3>2. s \subseteq Mo!OfType("cpu")
      <4>1. s \in Mo!kSubset(Mo!Size("cpu"), Mo!OfType("cpu"))
        BY DEF Mo!Chart
      <4> QED BY <4>1 DEF Mo!kSubset
    <3>3. monReq'[r].pc = "half" /\ monReq'[r].charts["cpu"] = s
      BY <1>0, <3>1 DEF Mo!Idle, Mo!Types
    <3>4. \A q \in MonSlots \ {r} : monReq'[q] = monReq[q]
      BY <1>0, <3>1
    <3>5. ChartsStored' /\ ChartsAgree'
      BY <2>9, <3>2, <3>3, <3>4
         DEF MonitorInv, ChartsStored, ChartsAgree, Mo!ChartsAgree, Mo!OfType, Mo!GetCpu
    <3> QED BY <2>1, <2>9, <3>5 DEF MonitorInv, Paired, Mo!GetCpu
  <2>10. ASSUME NEW r \in MonSlots, Mo!GetMemory(r) PROVE MonitorInv'
    <3>1. PICK s \in Mo!Chart("memory") :
            monReq' = [monReq EXCEPT ![r].pc = "seen", ![r].charts["memory"] = s]
      BY <2>10 DEF Mo!GetMemory
    <3>2. /\ monReq[r] \in MonRequest
          /\ monReq[r].pc = "half" /\ monReq'[r].pc = "seen"
          /\ monReq'[r].charts["memory"] = s
          /\ monReq'[r].charts["cpu"] = monReq[r].charts["cpu"]
      BY <1>0, <2>10, <3>1 DEF Mo!GetMemory, MonRequest, Mo!Types
    <3>3. \A q \in MonSlots \ {r} : monReq'[q] = monReq[q]
      BY <1>0, <3>1
    <3>4. ASSUME NEW x \in monReq'[r].charts["cpu"]
          PROVE  \/ x.sample \in torn
                 \/ \E y \in s : y.sample = x.sample
                 \/ Mo!Cardinality(s) = Limit /\ \A y \in s : y.at >= x.at
      BY <3>2, <3>4, ChartsMeet, SameCardinality
    <3>5. ChartsAgree'
      <4>1. torn' = torn /\ ChartsAgree
        BY <2>10 DEF MonitorInv, Mo!GetMemory
      <4> QED BY <3>2, <3>3, <3>4, <4>1 DEF ChartsAgree, Mo!ChartsAgree
    <3>6. ChartsStored'
      BY <2>10, <3>2, <3>3 DEF MonitorInv, ChartsStored, Mo!OfType, Mo!GetMemory
    <3> QED BY <2>1, <2>10, <3>5, <3>6 DEF MonitorInv, Paired, Mo!GetMemory
  <2>11. Mo!Store \/ Mo!StoreFails => mon = "insert"
    BY DEF Mo!Store, Mo!StoreFails
  <2> QED BY <1>2, <2>4, <2>5, <2>6, <2>7, <2>8, <2>9, <2>10, <2>11 DEF Mo!Next, Mo!Monitoring, Mo!Request
<1> QED BY <1>1, <1>2

-----------------------------------------------------------------------------
(* The integration bus.                                                    *)

InLine == {t \in Tasks : task[t].pc = "waits"}

BusTask == [pc : {"idle", "waits", "has", "done"},
            op : {None, "list", "check", "check_all", "register"},
            name : Names \cup {None}, todo : SUBSET Names,
            reports : SUBSET Names, ill : SUBSET Names, saw : SUBSET Names]

BusTypes ==
  /\ bus \subseteq Names
  /\ task \in [Tasks -> BusTask]
  /\ Queues(waiting, InLine)
  /\ guards = {t \in Tasks : task[t].pc = "has"}
  /\ \A t \in guards : task[t].op = "register" => guards = {t}

LEMMA BusTyped == Bu!TypeOK <=> BusTypes
<1>1. InLine \subseteq Tasks
  BY DEF InLine
<1>2. Queues(waiting, InLine) <=>
        waiting \in Seq(Tasks) /\ Bu!IsInjective(waiting) /\ Bu!Range(waiting) = InLine
  BY <1>1, QueueTyped DEF Bu!IsInjective, Bu!Range
<1> QED BY <1>2 DEF Bu!TypeOK, BusTypes, BusTask, InLine, Bu!Writes

LEMMA BusTypedAfter == Bu!TypeOK' <=> BusTypes'
<1>1. InLine' \subseteq Tasks
  BY DEF InLine
<1>2. Queues(waiting, InLine)' <=>
        waiting' \in Seq(Tasks) /\ Bu!IsInjective(waiting)' /\ Bu!Range(waiting)' = InLine'
  BY <1>1, QueueTyped DEF Bu!IsInjective, Bu!Range
<1> QED BY <1>2 DEF Bu!TypeOK, BusTypes, BusTask, InLine, Bu!Writes

\* What a task has gathered and what it has still to check make up what it saw, and as
\* long as it has the guard of a reader that is the map itself.
Gathering(t) ==
  /\ task[t].pc \in {"waits", "has"} => task[t].op \in {"list", "check", "check_all", "register"}
  /\ task[t].pc \in {"waits", "has"} /\ task[t].op = "register" => task[t].name \in Names
  /\ task[t].pc = "waits" => task[t].reports = {}
  /\ task[t].pc = "has" /\ task[t].op # "register" => task[t].saw = bus
  /\ task[t].pc = "has" /\ task[t].op = "check_all" =>
       task[t].reports \cup task[t].todo = task[t].saw
  /\ task[t].pc = "has" /\ task[t].op = "check" =>
       task[t].reports \cup task[t].todo = task[t].saw \cap {task[t].name}
  /\ task[t].pc = "done" => task[t].op \in {"list", "check", "check_all"}

BusInv ==
  /\ Bu!TypeOK
  /\ \A t \in Tasks : Gathering(t)
  /\ ReportsAreASnapshot

LEMMA BusInit ==
  ASSUME Bu!Init
  PROVE  BusInv
<1>1. Bu!Idle \in BusTask /\ Bu!Idle.pc = "idle" /\ Built \subseteq Names
  BY PartsAssumption DEF PartsAssumption, Bu!BusAssumption, Bu!Idle, BusTask
<1>2. \A t \in Tasks : task[t] = Bu!Idle
  BY DEF Bu!Init
<1>3. InLine = {} /\ {t \in Tasks : task[t].pc = "has"} = {}
  BY <1>1, <1>2 DEF InLine
<1>4. BusTypes
  BY <1>1, <1>3, NobodyQueues DEF Bu!Init, BusTypes
<1> QED BY <1>1, <1>2, <1>4, BusTyped DEF BusInv, Gathering, ReportsAreASnapshot, Bu!ReportsAreASnapshot

\* A step of one task, seen from the queue and the guards.
LEMMA BusMove ==
  ASSUME BusTypes, NEW t \in Tasks, NEW q \in BusTask, task' = [task EXCEPT ![t] = q],
         bus' \subseteq Names,
         q.pc = "waits" => Queues(waiting', InLine \cup {t}),
         q.pc # "waits" => Queues(waiting', InLine \ {t}),
         q.pc = "has" => guards' = guards \cup {t},
         q.pc # "has" => guards' = guards \ {t},
         q.pc = "has" /\ q.op = "register" => guards \subseteq {t},
         q.pc = "has" => \A g \in guards \ {t} : task[g].op # "register"
  PROVE  BusTypes'
<1>1. task' \in [Tasks -> BusTask] /\ task'[t] = q /\ \A u \in Tasks \ {t} : task'[u] = task[u]
  BY DEF BusTypes
<1>2. InLine' = IF q.pc = "waits" THEN InLine \cup {t} ELSE InLine \ {t}
  BY <1>1 DEF InLine
<1>3. guards' = {u \in Tasks : task'[u].pc = "has"}
  BY <1>1 DEF BusTypes
<1>4. ASSUME NEW g \in guards', task'[g].op = "register" PROVE guards' = {g}
  <2>1. CASE g = t
    BY <1>1, <1>3, <1>4, <2>1
  <2>2. CASE g # t
    BY <1>1, <1>3, <1>4, <2>2 DEF BusTypes
  <2> QED BY <2>1, <2>2
<1>5. Queues(waiting, InLine)'
  BY <1>2
<1> QED BY <1>1, <1>3, <1>4, <1>5 DEF BusTypes

\* The map is as its readers saw it, for nobody registers beside them.
LEMMA BusMoveGathers ==
  ASSUME BusInv, NEW t \in Tasks, NEW q \in BusTask, task' = [task EXCEPT ![t] = q],
         bus' = bus \/ guards \subseteq {t}, BusTypes', Gathering(t)',
         q.pc = "done" => CASE q.op \in {"list", "check_all"} -> q.reports = q.saw
                            [] q.op = "check" -> q.reports = q.saw \cap {q.name}
  PROVE  BusInv'
<1>1. BusTypes
  BY BusTyped DEF BusInv
<1>2. task'[t] = q /\ \A u \in Tasks \ {t} : task'[u] = task[u]
  BY <1>1 DEF BusTypes
<1>3. ASSUME NEW u \in Tasks \ {t} PROVE Gathering(u)'
  <2>1. task[u].pc = "has" => bus' = bus
    BY <1>1 DEF BusTypes
  <2> QED BY <1>2, <2>1 DEF BusInv, Gathering
<1>4. ReportsAreASnapshot'
  BY <1>2 DEF BusInv, ReportsAreASnapshot, Bu!ReportsAreASnapshot
<1> QED BY <1>3, <1>4, BusTypedAfter DEF BusInv

LEMMA BusStep ==
  ASSUME BusInv, [Bu!Next]_Bu!vars
  PROVE  BusInv'
<1>0. BusTypes /\ Built \subseteq Names /\ Late \subseteq Names
  BY BusTyped, PartsAssumption DEF BusInv, PartsAssumption, Bu!BusAssumption
<1>1. CASE UNCHANGED Bu!vars
  <2>1. Bu!TypeOK'
    BY <1>1 DEF BusInv, Bu!TypeOK, Bu!vars, Bu!Writes
  <2> QED BY <1>1, <2>1 DEF BusInv, Gathering, ReportsAreASnapshot, Bu!ReportsAreASnapshot, Bu!vars
<1> SUFFICES ASSUME NEW t \in Tasks,
                    \/ Bu!Asks(t) \/ Bu!Grant(t) \/ Bu!CheckEnds(t) \/ Bu!Registers(t)
                    \/ Bu!Returns(t) \/ Bu!Respond(t) \/ Bu!Disconnect(t)
             PROVE  BusInv'
  BY <1>1 DEF Bu!Next
<1>2. task[t] \in BusTask /\ Gathering(t)
  BY <1>0 DEF BusTypes, BusInv
<1>3. Bu!Idle \in BusTask /\ Bu!Idle.pc = "idle"
  BY DEF Bu!Idle, BusTask
\* A task that lets go of the lock, or gives up its place, holds back nobody.
<1>4. ASSUME task' = [task EXCEPT ![t] = Bu!Idle], bus' \subseteq Names,
             Queues(waiting', InLine \ {t}), guards' = guards \ {t},
             bus' = bus \/ guards \subseteq {t}
      PROVE  BusInv'
  <2>1. BusTypes'
    BY <1>0, <1>3, <1>4, BusMove
  <2>2. task'[t] = Bu!Idle
    BY <1>0, <1>4 DEF BusTypes
  <2>3. Gathering(t)'
    BY <1>3, <2>2 DEF Gathering
  <2> QED BY <1>3, <1>4, <2>1, <2>3, BusMoveGathers
<1>5. CASE Bu!Asks(t)
  <2>0. task[t] = Bu!Idle
    BY <1>5 DEF Bu!Asks
  <2>1. PICK o \in {"list", "check", "check_all", "register"}, n \in Names \cup {None} :
          \/ o # "register" /\ task' = [task EXCEPT ![t].pc = "waits", ![t].op = o]
          \/ /\ o = "register" => n \in Names
             /\ task' = [task EXCEPT ![t].pc = "waits", ![t].op = o, ![t].name = n]
    BY <1>0, <1>5 DEF Bu!Asks
  <2>2. /\ task'[t] \in BusTask /\ task'[t].pc = "waits" /\ task'[t].op = o
        /\ task'[t].reports = {}
        /\ o = "register" => task'[t].name \in Names
        /\ task' = [task EXCEPT ![t] = task'[t]]
    <3>1. task[t].reports = {} /\ task \in [Tasks -> BusTask]
      BY <1>0, <2>0 DEF Bu!Idle, BusTypes
    <3>2. CASE o # "register" /\ task' = [task EXCEPT ![t].pc = "waits", ![t].op = o]
      BY <1>2, <3>1, <3>2 DEF BusTask
    <3>3. CASE /\ o = "register" => n \in Names
               /\ task' = [task EXCEPT ![t].pc = "waits", ![t].op = o, ![t].name = n]
      BY <1>2, <3>1, <3>3 DEF BusTask
    <3> QED BY <2>1, <3>2, <3>3
  <2>3. t \notin InLine /\ t \notin guards
    BY <1>0, <1>5 DEF Bu!Asks, Bu!Idle, InLine, BusTypes
  <2>4. Queues(waiting', InLine \cup {t})
    BY <1>0, <1>5, <2>3, OneMoreQueues DEF Bu!Asks, BusTypes
  <2>5. BusTypes'
    <3> DEFINE q == task'[t]
    <3>1. /\ bus' \subseteq Names /\ guards' = guards \ {t}
      BY <1>0, <1>5, <2>3 DEF Bu!Asks, BusTypes
    <3>2. q \in BusTask /\ q.pc = "waits" /\ task' = [task EXCEPT ![t] = q]
      BY <2>2
    <3> HIDE DEF q
    <3> QED BY <1>0, <2>4, <3>1, <3>2, BusMove
  <2>6. Gathering(t)'
    BY <2>1, <2>2 DEF Gathering
  <2> QED BY <1>5, <2>2, <2>5, <2>6, BusMoveGathers DEF Bu!Asks
<1>6. CASE Bu!Grant(t)
  <2> DEFINE q == [task[t] EXCEPT !.pc = "has", !.todo = Bu!Todo(t), !.saw = bus]
  <2>1. Head(waiting) = t /\ waiting # << >> /\ waiting' = Tail(waiting)
    BY <1>6 DEF Bu!Grant
  <2>2. t \in InLine /\ Queues(waiting', InLine \ {t})
    BY <1>0, <2>1, HeadLeaves DEF BusTypes
  <2>3. Bu!Todo(t) \subseteq Names
    BY <1>0 DEF Bu!Todo, BusTypes
  <2>4. /\ q \in BusTask /\ q.pc = "has" /\ q.op = task[t].op /\ q.name = task[t].name
        /\ q.reports = task[t].reports /\ q.todo = Bu!Todo(t) /\ q.saw = bus
    BY <1>0, <1>2, <2>3 DEF BusTask, BusTypes
  <2>5. task' = [task EXCEPT ![t] = q]
    BY <1>6 DEF Bu!Grant
  <2> HIDE DEF q
  <2>6. task'[t] = q
    BY <1>0, <2>5 DEF BusTypes
  <2>7. /\ task[t].op = "register" => guards = {}
        /\ \A g \in guards : task[g].op # "register"
    BY <1>6 DEF Bu!Grant, Bu!Grantable, Bu!Writes
  <2>8. BusTypes'
    <3>1. /\ bus' \subseteq Names /\ guards' = guards \cup {t}
          /\ q.op = "register" => guards \subseteq {t}
      BY <1>0, <1>6, <2>4, <2>7 DEF Bu!Grant, BusTypes
    <3> QED BY <1>0, <2>2, <2>4, <2>5, <2>7, <3>1, BusMove
  <2>9. task[t].pc = "waits"
    BY <2>2 DEF InLine
  <2>10. Gathering(t)'
    BY <1>2, <1>6, <2>4, <2>6, <2>9 DEF Gathering, Bu!Grant, Bu!Todo
  <2> QED BY <1>6, <2>4, <2>5, <2>8, <2>10, BusMoveGathers DEF Bu!Grant
<1>7. CASE Bu!CheckEnds(t)
  <2>1. PICK n \in task[t].todo, e \in SUBSET Names :
          task' = [task EXCEPT ![t] =
            [task[t] EXCEPT !.todo = @ \ {n}, !.reports = @ \cup {n}, !.ill = e]]
    <3>1. PICK n \in task[t].todo :
            \/ task' = [task EXCEPT ![t] = [task[t] EXCEPT !.todo = @ \ {n}, !.reports = @ \cup {n},
                                                           !.ill = @]]
            \/ task' = [task EXCEPT ![t] = [task[t] EXCEPT !.todo = @ \ {n}, !.reports = @ \cup {n},
                                                           !.ill = @ \cup {n}]]
      BY <1>7, Zenon DEF Bu!CheckEnds
    <3>2. task[t].ill \in SUBSET Names /\ task[t].ill \cup {n} \in SUBSET Names
      BY <1>2, <3>1 DEF BusTask
    <3> QED BY <3>1, <3>2
  <2> DEFINE q == [task[t] EXCEPT !.todo = @ \ {n}, !.reports = @ \cup {n}, !.ill = e]
  <2>2. /\ q \in BusTask /\ q.pc = "has" /\ q.op = task[t].op /\ q.name = task[t].name
        /\ q.saw = task[t].saw
        /\ q.todo = task[t].todo \ {n} /\ q.reports = task[t].reports \cup {n}
    BY <1>2, <1>7 DEF BusTask, Bu!CheckEnds
  <2>3. task' = [task EXCEPT ![t] = q]
    BY <2>1
  <2> HIDE DEF q
  <2>4. task'[t] = q
    BY <1>0, <2>3 DEF BusTypes
  <2>5. /\ t \in guards /\ t \notin InLine
        /\ waiting' = waiting /\ guards' = guards /\ bus' = bus
    BY <1>0, <1>7 DEF BusTypes, InLine, Bu!CheckEnds
  <2>6. InLine \ {t} = InLine /\ guards \cup {t} = guards
    BY <2>5
  <2>7. /\ task[t].op = "register" => guards = {t}
        /\ \A g \in guards \ {t} : task[g].op # "register"
    BY <1>0, <2>5 DEF BusTypes
  <2>8. Queues(waiting', InLine \ {t})
    BY <1>0, <2>5, <2>6 DEF BusTypes
  <2>9. BusTypes'
    BY <1>0, <2>2, <2>3, <2>5, <2>6, <2>7, <2>8, BusMove DEF BusTypes
  <2>10. q.reports \cup q.todo = task[t].reports \cup task[t].todo
    BY <2>1, <2>2
  <2>11. Gathering(t)'
    BY <1>2, <1>7, <2>2, <2>4, <2>5, <2>10 DEF Gathering, Bu!CheckEnds
  <2> QED BY <2>2, <2>3, <2>5, <2>9, <2>11, BusMoveGathers
<1>8. CASE Bu!Registers(t)
  <2>1. t \in guards /\ guards = {t} /\ t \notin InLine
    BY <1>0, <1>8 DEF BusTypes, InLine, Bu!Registers
  <2>2. InLine \ {t} = InLine
    BY <2>1
  <2>3. bus' \subseteq Names
    BY <1>0, <1>2, <1>8 DEF BusTypes, Gathering, Bu!Registers
  <2> QED BY <1>0, <1>4, <1>8, <2>1, <2>2, <2>3 DEF BusTypes, Bu!Registers
<1>9. CASE Bu!Returns(t)
  <2> DEFINE q == [task[t] EXCEPT !.pc = "done",
                                  !.reports = IF task[t].op = "list" THEN bus ELSE @]
  <2>1. /\ q \in BusTask /\ q.pc = "done" /\ q.op = task[t].op /\ q.name = task[t].name
        /\ q.saw = task[t].saw
        /\ q.reports = IF task[t].op = "list" THEN bus ELSE task[t].reports
    BY <1>0, <1>2 DEF BusTask, BusTypes
  <2>2. task' = [task EXCEPT ![t] = q]
    BY <1>0, <1>9 DEF Bu!Returns, BusTypes
  <2> HIDE DEF q
  <2>3. task'[t] = q
    BY <1>0, <2>2 DEF BusTypes
  <2>4. t \notin InLine
    BY <1>9 DEF InLine, Bu!Returns
  <2>5. InLine \ {t} = InLine
    BY <2>4
  <2>6. Queues(waiting', InLine \ {t})
    BY <1>0, <1>9, <2>5 DEF BusTypes, Bu!Returns
  <2>7. BusTypes'
    <3>1. bus' \subseteq Names /\ guards' = guards \ {t}
      BY <1>0, <1>9 DEF BusTypes, Bu!Returns
    <3> QED BY <1>0, <2>1, <2>2, <2>6, <3>1, BusMove
  <2>8. q.op \in {"list", "check", "check_all"}
    BY <1>2, <1>9, <2>1 DEF Gathering, Bu!Returns
  <2>9. Gathering(t)'
    BY <2>1, <2>3, <2>8 DEF Gathering
  <2>10. /\ q.op \in {"list", "check_all"} => q.reports = q.saw
         /\ q.op = "check" => q.reports = q.saw \cap {q.name}
    BY <1>2, <1>9, <2>1 DEF Gathering, Bu!Returns
  <2> QED BY <1>9, <2>1, <2>2, <2>7, <2>8, <2>9, <2>10, BusMoveGathers DEF Bu!Returns
<1>10. CASE Bu!Respond(t)
  <2>1. t \notin InLine /\ t \notin guards
    BY <1>0, <1>10 DEF BusTypes, InLine, Bu!Respond
  <2>2. InLine \ {t} = InLine /\ guards \ {t} = guards
    BY <2>1
  <2> QED BY <1>0, <1>4, <1>10, <2>2 DEF BusTypes, Bu!Respond
<1>11. CASE Bu!Disconnect(t)
  <2>1. waiting' = RemoveFirst(waiting, t)
    BY <1>11 DEF Bu!Disconnect, Bu!RemoveFirst, RemoveFirst, Bu!SelectInSeq, SelectInSeq,
                 Bu!Min, Min, Bu!RemoveAt, RemoveAt
  <2>2. Queues(waiting', InLine \ {t})
    BY <1>0, <2>1, AnyLeaves DEF BusTypes
  <2> QED BY <1>0, <1>4, <1>11, <2>2 DEF BusTypes, Bu!Disconnect
<1> QED BY <1>5, <1>6, <1>7, <1>8, <1>9, <1>10, <1>11

-----------------------------------------------------------------------------
(* Both as parts of the composition.                                       *)

LEMMA MonitorMoves ==
  ASSUME [MCNext]_<<processVars, hostVars>>
  PROVE  [Mo!Next]_Mo!vars
BY DEF MCNext, processVars, monitorVars, Mo!vars

LEMMA BusMoves ==
  ASSUME [MCNext]_<<processVars, hostVars>>
  PROVE  [Bu!Next]_Bu!vars
BY DEF MCNext, processVars, busVars, Bu!vars

LEMMA MonitorAlways == MCSpec => []MonitorInv
<1>1. MCInit => MonitorInv
  BY MonInit DEF MCInit
<1>2. MonitorInv /\ [MCNext]_<<processVars, hostVars>> => MonitorInv'
  BY MonitorMoves, MonitorStep
<1> QED BY <1>1, <1>2, PTL DEF MCSpec

LEMMA BusAlways == MCSpec => []BusInv
<1>1. MCInit => BusInv
  BY BusInit DEF MCInit
<1>2. BusInv /\ [MCNext]_<<processVars, hostVars>> => BusInv'
  BY BusMoves, BusStep
<1> QED BY <1>1, <1>2, PTL DEF MCSpec

\* Whatever fails and however the process dies, a client that reads the cpu chart and then
\* the memory chart finds the points of both samples, or newer ones, or one that was cut
\* short (collect_metrics, get_metrics).
THEOREM Charts == MCSpec => []ChartsAgree
<1>1. MonitorInv => ChartsAgree
  BY DEF MonitorInv
<1> QED BY <1>1, MonitorAlways, PTL

\* The answer to an overview of all adapters is the map of one moment, for any number of
\* tasks and adapters (health_check_all).
THEOREM Snapshots == MCSpec => []ReportsAreASnapshot
<1>1. BusInv => ReportsAreASnapshot
  BY DEF BusInv
<1> QED BY <1>1, BusAlways, PTL
=============================================================================
