--------------------------- MODULE FirewallProofs ----------------------------
(***************************************************************************)
(* What the firewall endpoints keep to, for any number of requests,        *)
(* clients, rules and numbers, as a part of the composition in MCParts: a  *)
(* listing shows the rules of the ufw behind it under their numbers, and   *)
(* what is answered with ok was done.                                      *)
(***************************************************************************)
EXTENDS MCParts, SequenceTheorems, FiniteSetTheorems, TLAPS

FwRequest == [pc : {"idle", "running", "exited", "answered"}, by : Clients \cup {None},
              op : {None, "status", "add", "delete", "enable", "disable"},
              rule : Rules \cup {Junk, None}, number : 0 .. MaxNumber,
              open : BOOLEAN, success : BOOLEAN, out : Seq(Fw!Lines),
              answer : {None, "ok", "failed", "error", "bad_request"},
              shown : [active : BOOLEAN, rules : SUBSET Fw!Entries],
              took : BOOLEAN, base : Seq(Rules)]

FwOps == {"status", "add", "delete", "enable", "disable"}

Distinct(s) == \A i, j \in 1 .. Len(s) : s[i] = s[j] => i = j

\* e shows a rule of s under its number.
Numbers(e, s) == e.number \in 1 .. Len(s) /\ e.rule = s[e.number]

\* If e shows a rule at all: a remark is taken for one that is no rule of ufw's.
Shows(e, s) == e.rule # None => Numbers(e, s)

FwLives(r) ==
  /\ ufwReq[r].pc = "running" =>
       /\ ufwReq[r].op \in FwOps /\ ufwReq[r].shown.rules = {}
       /\ ufwReq[r].op = "delete" /\ ufwReq[r].rule # None => Numbers(ufwReq[r], ufwReq[r].base)
  /\ ufwReq[r].pc = "exited" =>
       /\ ufwReq[r].op = "status" \/ ufwReq[r].success => ufwReq[r].took
       /\ \A i \in 1 .. Len(ufwReq[r].out) :
            ufwReq[r].out[i].rule # None => Numbers(ufwReq[r].out[i], ufwReq[r].base)
  /\ ufwReq[r].pc = "answered" =>
       /\ ufwReq[r].answer = "ok" => ufwReq[r].took
       /\ \A e \in ufwReq[r].shown.rules : Shows(e, ufwReq[r].base)

FwInv ==
  /\ Fw!TypeOK
  /\ Distinct(rules)
  /\ \A r \in Slots : FwLives(r)
  /\ \A c \in Clients : \A e \in listing[c].rules : Shows(e, listing[c].base)

-----------------------------------------------------------------------------
(* Sequences of rules.                                                     *)

LEMMA OneRemoved ==
  ASSUME NEW S, NEW q \in Seq(S), NEW k \in 1 .. Len(q)
  PROVE  /\ Fw!RemoveAt(q, k) \in Seq(S) /\ Len(Fw!RemoveAt(q, k)) = Len(q) - 1
         /\ \A i \in 1 .. Len(q) - 1 : Fw!RemoveAt(q, k)[i] = q[IF i < k THEN i ELSE i + 1]
<1> DEFINE a == SubSeq(q, 1, k - 1)
           b == SubSeq(q, k + 1, Len(q))
<1>1. Len(q) \in Nat
  BY LenProperties
<1>2. /\ a \in Seq(S) /\ Len(a) = k - 1
      /\ \A i \in 1 .. k - 1 : a[i] = q[i]
  BY <1>1, SubSeqProperties
<1>3. /\ b \in Seq(S) /\ Len(b) = Len(q) - k
      /\ \A i \in 1 .. Len(q) - k : b[i] = q[k + i]
  BY <1>1, SubSeqProperties
<1>4. Fw!RemoveAt(q, k) = a \o b
  BY DEF Fw!RemoveAt
<1> HIDE DEF a, b
<1>5. Len(a) + Len(b) = Len(q) - 1
  BY <1>1, <1>2, <1>3
<1>6. /\ a \o b \in Seq(S) /\ Len(a \o b) = Len(a) + Len(b)
      /\ \A i \in 1 .. Len(a) + Len(b) :
           (a \o b)[i] = IF i <= Len(a) THEN a[i] ELSE b[i - Len(a)]
  BY <1>2, <1>3, ConcatProperties, Zenon
<1>7. ASSUME NEW i \in 1 .. Len(q) - 1
      PROVE  (a \o b)[i] = q[IF i < k THEN i ELSE i + 1]
  <2>1. CASE i < k
    <3>1. i \in 1 .. k - 1 /\ i <= Len(a)
      BY <1>1, <1>2, <2>1
    <3> QED BY <1>2, <1>5, <1>6, <2>1, <3>1
  <2>2. CASE i >= k
    <3>1. /\ i - (k - 1) \in 1 .. Len(q) - k /\ k + (i - (k - 1)) = i + 1
          /\ ~(i <= k - 1) /\ ~(i < k)
      BY <1>1, <2>2
    <3>2. (a \o b)[i] = b[i - (k - 1)]
      BY <1>2, <1>5, <1>6, <3>1
    <3>3. b[i - (k - 1)] = q[k + (i - (k - 1))]
      BY <1>3, <3>1
    <3>4. (IF i < k THEN i ELSE i + 1) = k + (i - (k - 1))
      BY <1>1, <2>2, <3>1
    <3> QED BY <3>2, <3>3, <3>4, Zenon
  <2>3. i < k \/ i >= k
    BY <1>1
  <2> QED BY <2>1, <2>2, <2>3, Zenon
<1> QED BY <1>4, <1>5, <1>6, <1>7

\* What is deleted by its number is gone, and the rules are still distinct.
LEMMA OneDeleted ==
  ASSUME NEW q \in Seq(Rules), Distinct(q), NEW k \in 1 .. Len(q)
  PROVE  Distinct(Fw!RemoveAt(q, k)) /\ q[k] \notin Fw!Range(Fw!RemoveAt(q, k))
<1> DEFINE p == Fw!RemoveAt(q, k)
           next(i) == IF i < k THEN i ELSE i + 1
<1>1. p \in Seq(Rules) /\ Len(p) = Len(q) - 1 /\ Len(q) \in Nat
      /\ \A i \in 1 .. Len(q) - 1 : p[i] = q[next(i)]
  BY OneRemoved, LenProperties
<1>2. /\ \A i \in 1 .. Len(q) - 1 : next(i) \in 1 .. Len(q) /\ next(i) # k
      /\ \A i, j \in 1 .. Len(q) - 1 : next(i) = next(j) => i = j
  BY <1>1
<1>3. DOMAIN p = 1 .. Len(q) - 1
  BY <1>1, LenProperties
<1> HIDE DEF p, next
<1>4. Distinct(p)
  BY <1>1, <1>2 DEF Distinct
<1>5. ASSUME NEW i \in DOMAIN p
      PROVE  p[i] # q[k]
  <2>1. next(i) \in 1 .. Len(q) /\ next(i) # k /\ p[i] = q[next(i)]
    BY <1>1, <1>2, <1>3, <1>5
  <2> QED BY <2>1 DEF Distinct
<1>6. q[k] \notin Fw!Range(p)
  BY <1>5 DEF Fw!Range
<1> QED BY <1>4, <1>6 DEF p

LEMMA OneAdded ==
  ASSUME NEW q \in Seq(Rules), Distinct(q), NEW x \in Rules, x \notin Fw!Range(q)
  PROVE  /\ Append(q, x) \in Seq(Rules) /\ Distinct(Append(q, x))
         /\ x \in Fw!Range(Append(q, x))
<1> DEFINE p == Append(q, x)
<1>1. /\ Len(q) \in Nat /\ DOMAIN q = 1 .. Len(q)
      /\ p \in Seq(Rules) /\ Len(p) = Len(q) + 1 /\ DOMAIN p = 1 .. Len(p)
      /\ \A i \in 1 .. Len(q) : p[i] = q[i]
      /\ p[Len(p)] = x
  BY AppendProperties, LenProperties
<1> HIDE DEF p
<1>2. \A i \in 1 .. Len(q) : q[i] # x
  BY <1>1 DEF Fw!Range
<1>3. \A i \in 1 .. Len(p) : i \in 1 .. Len(q) \/ i = Len(p)
  BY <1>1
<1>4. Distinct(p)
  BY <1>1, <1>2, <1>3 DEF Distinct
<1>5. x \in Fw!Range(p)
  BY <1>1 DEF Fw!Range
<1> QED BY <1>1, <1>4, <1>5 DEF p

\* What ufw prints shows the rules under their numbers.
LEMMA FwPrints ==
  ASSUME rules \in Seq(Rules), NEW text \in Fw!Printed
  PROVE  /\ text \in Seq(Fw!Lines)
         /\ \A i \in 1 .. Len(text) : text[i].rule # None => ufwActive /\ Numbers(text[i], rules)
<1>1. Len(rules) \in Nat /\ \A i \in 1 .. Len(rules) : rules[i] \in Rules
  BY LenProperties, ElementOfSeq
<1>2. CASE ~ufwActive
  <2> DEFINE l == Fw!Line("inactive", 0, None)
  <2>1. text = <<l>> /\ l \in Fw!Lines /\ l.rule = None
    BY <1>2 DEF Fw!Printed, Fw!Line, Fw!Lines
  <2> HIDE DEF l
  <2>2. <<l>> \in Seq(Fw!Lines) /\ Len(<<l>>) = 1 /\ <<l>>[1] = l
    BY <2>1
  <2> QED BY <2>1, <2>2
<1>3. CASE ufwActive
  <2> DEFINE a == Fw!Line("active", 0, None)
             d == Fw!Line(IF DashesFirst THEN "dashes" ELSE "indented", 0, None)
             n == Fw!Line("note", 0, None)
             h == <<a, d>>
             t == [i \in 1 .. Len(rules) |-> Fw!Line("rule", i, rules[i])]
  <2>1. text = h \o t \/ text = h \o <<n>>
    BY <1>3 DEF Fw!Printed
  <2>2. /\ a \in Fw!Lines /\ d \in Fw!Lines /\ n \in Fw!Lines
        /\ a.rule = None /\ d.rule = None /\ n.rule = None
    BY DEF Fw!Line, Fw!Lines
  <2>3. ASSUME NEW i \in 1 .. Len(rules)
        PROVE  Fw!Line("rule", i, rules[i]) \in Fw!Lines /\ Numbers(Fw!Line("rule", i, rules[i]), rules)
    BY <1>1 DEF Fw!Line, Fw!Lines, Numbers
  <2>4. t \in Seq(Fw!Lines) /\ \A i \in 1 .. Len(t) : Numbers(t[i], rules)
    <3>1. t \in [1 .. Len(rules) -> Fw!Lines] /\ \A i \in 1 .. Len(rules) : Numbers(t[i], rules)
      BY <2>3
    <3> HIDE DEF t
    <3>2. t \in Seq(Fw!Lines)
      BY <1>1, <3>1, SeqDef
    <3>3. DOMAIN t = 1 .. Len(rules)
      BY <3>1
    <3> QED BY <1>1, <3>1, <3>2, <3>3, LenProperties
  <2> HIDE DEF a, d, n, t
  <2>5. h \in Seq(Fw!Lines) /\ Len(h) = 2 /\ h[1] = a /\ h[2] = d
    BY <2>2
  <2>6. <<n>> \in Seq(Fw!Lines) /\ \A i \in 1 .. Len(<<n>>) : Shows(<<n>>[i], rules)
    BY <2>2 DEF Shows
  <2>7. PICK below \in Seq(Fw!Lines) :
          text = h \o below /\ \A i \in 1 .. Len(below) : Shows(below[i], rules)
    BY <2>1, <2>4, <2>6 DEF Shows
  <2> HIDE DEF h
  <2> DEFINE L == Fw!Lines
  <2> HIDE DEF L
  <2>8. /\ text \in Seq(Fw!Lines) /\ Len(text) = Len(h) + Len(below)
        /\ \A i \in 1 .. Len(h) + Len(below) :
             text[i] = IF i <= Len(h) THEN h[i] ELSE below[i - Len(h)]
    <3>1. h \in Seq(L) /\ below \in Seq(L)
      BY <2>5, <2>7 DEF L
    <3>2. /\ h \o below \in Seq(L) /\ Len(h \o below) = Len(h) + Len(below)
          /\ \A i \in 1 .. Len(h) + Len(below) :
               (h \o below)[i] = IF i <= Len(h) THEN h[i] ELSE below[i - Len(h)]
      BY <3>1, ConcatProperties, Zenon
    <3> QED BY <2>7, <3>2, Zenon DEF L
  <2>9. ASSUME NEW i \in 1 .. Len(text), text[i].rule # None
        PROVE  Numbers(text[i], rules)
    <3>1. Len(below) \in Nat
      BY <2>7, LenProperties
    <3>2. i = 1 \/ i = 2 \/ (i - 2 \in 1 .. Len(below) /\ ~(i <= 2))
      BY <2>5, <2>8, <3>1
    <3>3. i \in 1 .. 2 + Len(below)
      BY <2>5, <2>8
    <3> QED BY <2>2, <2>5, <2>7, <2>8, <2>9, <3>2, <3>3 DEF Shows
  <2> QED BY <1>3, <2>8, <2>9
<1> QED BY <1>2, <1>3

\* What is read in such lines shows them too.
LEMMA FwParses ==
  ASSUME NEW text \in Seq(Fw!Lines), NEW base \in Seq(Rules),
         \A i \in 1 .. Len(text) : text[i].rule # None => Numbers(text[i], base)
  PROVE  /\ Fw!Parse(text) \in [active : BOOLEAN, rules : SUBSET Fw!Entries]
         /\ \A e \in Fw!Parse(text).rules : Shows(e, base)
<1> DEFINE n(i) == Fw!Cardinality({k \in Fw!Below(text) : k < i}) + 1
           e(i) == [number |-> IF text[i].number # 0 THEN text[i].number ELSE n(i),
                    rule |-> text[i].rule]
           es == {e(i) : i \in Fw!Below(text)}
           on == text # <<>> /\ text[1].kind = "active"
<1>1. Fw!Parse(text) = [active |-> on, rules |-> es]
  BY DEF Fw!Parse
<1>2. on \in BOOLEAN
  OBVIOUS
<1>3. Len(text) \in Nat /\ Fw!Below(text) \subseteq 1 .. Len(text)
  BY LenProperties DEF Fw!Below
<1>4. ASSUME NEW i \in Fw!Below(text)
      PROVE  e(i) \in Fw!Entries /\ Shows(e(i), base)
  <2>1. n(i) \in Nat
    <3> DEFINE S == {k \in Fw!Below(text) : k < i}
    <3>1. IsFiniteSet(1 .. Len(text)) /\ S \subseteq 1 .. Len(text)
      BY <1>3, FS_Interval
    <3>2. Cardinality(S) \in Nat
      BY <3>1, FS_Subset, FS_CardinalityType
    <3>3. Fw!Cardinality(S) = Cardinality(S)
      BY Zenon DEF Fw!Cardinality, Cardinality
    <3> QED BY <3>2, <3>3
  <2>2. text[i] \in Fw!Lines /\ i \in 1 .. Len(text)
    BY <1>3, ElementOfSeq
  <2>3. /\ text[i].number \in Nat /\ text[i].rule \in Rules \cup {None}
    BY <2>2 DEF Fw!Lines
  <2> HIDE DEF n
  <2>4. e(i) \in Fw!Entries
    BY <2>1, <2>3 DEF Fw!Entries
  <2>5. ASSUME text[i].rule # None
        PROVE  Numbers(e(i), base)
    <3>1. Numbers(text[i], base)
      BY <2>2, <2>5
    <3>2. text[i].number # 0
      BY <3>1, LenProperties DEF Numbers
    <3> QED BY <3>1, <3>2 DEF Numbers
  <2> QED BY <2>4, <2>5 DEF Shows
<1> HIDE DEF e, on
<1> QED BY <1>1, <1>2, <1>4

-----------------------------------------------------------------------------
(* The steps.                                                              *)

LEMMA FwAssumed == /\ None \notin Rules /\ Junk \notin Rules /\ None # Junk
                   /\ 0 \in 0 .. MaxNumber /\ MaxNumber \in Nat
BY PartsAssumption DEF PartsAssumption, Fw!FirewallAssumption

LEMMA FwIdleTyped == Fw!Idle \in FwRequest /\ Fw!Idle.pc = "idle" /\ Fw!Idle.shown.rules = {}
<1>1. << >> \in Seq(Fw!Lines) /\ << >> \in Seq(Rules)
  BY EmptySeq
<1> QED BY <1>1, FwAssumed DEF Fw!Idle, Fw!NoListing, FwRequest

LEMMA FwInit ==
  ASSUME Fw!Init
  PROVE  FwInv
<1>1. << >> \in Seq(Rules) /\ Len(<< >>) = 0
  BY EmptySeq
<1> QED BY <1>1, FwIdleTyped DEF Fw!Init, FwInv, Fw!TypeOK, FwRequest, FwLives, Distinct

\* The host and the listings after a step.
FwHost ==
  /\ ufwActive \in BOOLEAN /\ rules \in Seq(Rules) /\ Distinct(rules)
  /\ listing \in [Clients -> [rules : SUBSET Fw!Entries, base : Seq(Rules)]]
  /\ \A c \in Clients : \A e \in listing[c].rules : Shows(e, listing[c].base)

LEMMA FwTyped ==
  FwInv <=> /\ FwHost
            /\ ufwReq \in [Slots -> FwRequest]
            /\ \A r \in Slots : /\ ufwReq[r].pc = "idle" => ufwReq[r] = Fw!Idle
                                /\ ~ufwReq[r].open => ufwReq[r].pc \in {"idle", "running"}
                                /\ FwLives(r)
BY DEF FwInv, Fw!TypeOK, FwHost, FwRequest

LEMMA FwMove ==
  ASSUME FwInv, FwHost',
         NEW r \in Slots, NEW q \in FwRequest, ufwReq' = [ufwReq EXCEPT ![r] = q],
         q.pc = "idle" => q = Fw!Idle,
         ~q.open => q.pc \in {"idle", "running"},
         FwLives(r)'
  PROVE  FwInv'
<1>1. ufwReq \in [Slots -> FwRequest]
  BY FwTyped
<1>2. ufwReq' \in [Slots -> FwRequest] /\ ufwReq'[r] = q
  BY <1>1
<1>3. ASSUME NEW u \in Slots \ {r}
      PROVE  ufwReq'[u] = ufwReq[u] /\ FwLives(u)'
  <2>1. ufwReq'[u] = ufwReq[u] /\ FwLives(u)
    BY <1>1, FwTyped
  <2> QED BY <2>1 DEF FwLives
<1>4. /\ ufwReq' \in [Slots -> FwRequest]
      /\ \A u \in Slots : /\ ufwReq'[u].pc = "idle" => ufwReq'[u] = Fw!Idle
                          /\ ~ufwReq'[u].open => ufwReq'[u].pc \in {"idle", "running"}
                          /\ FwLives(u)'
  BY <1>2, <1>3, FwTyped
<1> QED BY <1>4 DEF FwInv, Fw!TypeOK, FwHost, FwRequest

LEMMA FwStep ==
  ASSUME FwInv, [Fw!Next]_Fw!vars
  PROVE  FwInv'
<1>1. CASE UNCHANGED Fw!vars
  BY <1>1 DEF FwInv, Fw!TypeOK, FwLives, Distinct, Fw!vars
<1> SUFFICES ASSUME Fw!Next PROVE FwInv'
  BY <1>1
<1>2. /\ FwHost /\ ufwReq \in [Slots -> FwRequest]
      /\ \A r \in Slots : /\ ufwReq[r].pc = "idle" => ufwReq[r] = Fw!Idle
                          /\ ~ufwReq[r].open => ufwReq[r].pc \in {"idle", "running"}
                          /\ FwLives(r)
  BY FwTyped
<1>3. UNCHANGED <<ufwActive, rules, listing>> => FwHost'
  BY <1>2 DEF FwHost, Distinct
<1>4. CASE Fw!Administrator
  <2>1. FwHost'
    <3>1. CASE \E x \in Rules \ Fw!Range(rules) : rules' = Append(rules, x) /\ UNCHANGED ufwActive
      BY <1>2, <1>4, <3>1, OneAdded DEF Fw!Administrator, FwHost
    <3>2. CASE \E i \in 1 .. Len(rules) : rules' = Fw!RemoveAt(rules, i) /\ UNCHANGED ufwActive
      <4>1. rules' \in Seq(Rules) /\ Distinct(rules)' /\ ufwActive' = ufwActive
        BY <1>2, <3>2, OneRemoved, OneDeleted DEF FwHost
      <4> QED BY <1>2, <1>4, <4>1 DEF Fw!Administrator, FwHost
    <3>3. CASE ufwActive' = ~ufwActive /\ UNCHANGED rules
      BY <1>2, <1>4, <3>3 DEF Fw!Administrator, FwHost, Distinct
    <3> QED BY <1>4, <3>1, <3>2, <3>3 DEF Fw!Administrator
  <2>2. ufwReq' = ufwReq
    BY <1>4 DEF Fw!Administrator
  <2>3. \A r \in Slots : FwLives(r)'
    BY <1>2, <2>2 DEF FwLives
  <2> QED BY <1>2, <2>1, <2>2, <2>3 DEF FwInv, Fw!TypeOK, FwHost, FwRequest
\* What is left of a request whose client or server goes.
<1>5. ASSUME NEW r \in Slots
      PROVE  /\ Fw!Dropped(ufwReq[r]) \in FwRequest
             /\ Fw!Dropped(ufwReq[r]).pc = "idle" => Fw!Dropped(ufwReq[r]) = Fw!Idle
             /\ Fw!Dropped(ufwReq[r]).pc \in {"idle", "running"}
             /\ ufwReq'[r] = Fw!Dropped(ufwReq[r]) => FwLives(r)'
  <2>1. ufwReq[r] \in FwRequest /\ FwLives(r)
    BY <1>2
  <2>2. CASE ufwReq[r].pc = "running"
    <3> DEFINE q == [ufwReq[r] EXCEPT !.open = FALSE]
    <3>1. /\ q \in FwRequest /\ q.pc = "running" /\ q.op = ufwReq[r].op /\ q.rule = ufwReq[r].rule
          /\ q.number = ufwReq[r].number /\ q.base = ufwReq[r].base /\ q.shown = ufwReq[r].shown
      BY <2>1, <2>2 DEF FwRequest
    <3>2. Fw!Dropped(ufwReq[r]) = q
      BY <2>2 DEF Fw!Dropped
    <3> HIDE DEF q
    <3> QED BY <2>1, <2>2, <3>1, <3>2 DEF FwLives, Numbers
  <2>3. CASE ufwReq[r].pc # "running"
    <3>1. Fw!Dropped(ufwReq[r]) = Fw!Idle
      BY <2>3 DEF Fw!Dropped
    <3> QED BY <3>1, FwIdleTyped DEF FwLives
  <2> QED BY <2>2, <2>3
<1>6. CASE Fw!Crash
  <2>1. \A r \in Slots : ufwReq'[r] = Fw!Dropped(ufwReq[r])
    BY <1>6 DEF Fw!Crash
  <2>2. ufwReq' \in [Slots -> FwRequest]
    BY <1>5, <1>6 DEF Fw!Crash
  <2>3. FwHost'
    BY <1>3, <1>6 DEF Fw!Crash
  <2> QED BY <1>5, <2>1, <2>2, <2>3 DEF FwInv, Fw!TypeOK, FwHost, FwRequest
<1> SUFFICES ASSUME NEW r \in Slots,
                    \/ \E c \in Clients : Fw!Arrives(r, c)
                    \/ Fw!Ufw(r) \/ Fw!ExecFails(r) \/ Fw!Answers(r) \/ Fw!Respond(r) \/ Fw!Disconnect(r)
             PROVE  FwInv'
  BY <1>4, <1>6 DEF Fw!Next
<1>7. ufwReq[r] \in FwRequest /\ FwLives(r)
  BY <1>2
\* The request of r becomes q.
<1>8. ASSUME NEW q \in FwRequest, ufwReq' = [ufwReq EXCEPT ![r] = q], FwHost',
             q.pc = "idle" => q = Fw!Idle,
             ~q.open => q.pc \in {"idle", "running"},
             q.pc = "running" =>
               /\ q.op \in FwOps /\ q.shown.rules = {}
               /\ q.op = "delete" /\ q.rule # None => Numbers(q, q.base),
             q.pc = "exited" =>
               /\ q.op = "status" \/ q.success => q.took
               /\ \A i \in 1 .. Len(q.out) : q.out[i].rule # None => Numbers(q.out[i], q.base),
             q.pc = "answered" =>
               /\ q.answer = "ok" => q.took
               /\ \A e \in q.shown.rules : Shows(e, q.base)
      PROVE  FwInv'
  <2>1. ufwReq'[r] = q
    BY <1>2, <1>8
  <2>2. FwLives(r)'
    BY <1>8, <2>1 DEF FwLives
  <2> QED BY <1>8, <2>2, FwMove
<1>9. UNCHANGED <<ufwActive, rules, listing>> =>
        FwHost' /\ rules' = rules /\ ufwActive' = ufwActive
  BY <1>3
\* What arrives with a client, and begins to run.
<1>10. ASSUME NEW c \in Clients, NEW op \in FwOps
       PROVE  /\ Fw!Started(c, op) \in FwRequest /\ Fw!Started(c, op).pc = "running"
              /\ Fw!Started(c, op).op = op /\ Fw!Started(c, op).open
              /\ Fw!Started(c, op).rule = None /\ Fw!Started(c, op).shown.rules = {}
  BY FwIdleTyped DEF Fw!Started, FwRequest, FwOps, Fw!Idle
<1>11. ASSUME NEW c \in Clients, NEW op \in FwOps, UNCHANGED <<ufwActive, rules, listing>>,
              ufwReq' = [ufwReq EXCEPT ![r] = Fw!Started(c, op)]
       PROVE  FwInv'
  BY <1>8, <1>9, <1>10, <1>11
<1>12. ASSUME NEW c \in Clients, Fw!Arrives(r, c)
       PROVE  FwInv'
  <2>1. CASE Fw!StatusArrives(r, c)
    BY <1>11, <2>1 DEF Fw!StatusArrives, FwOps
  <2>2. CASE Fw!ToggleArrives(r, c)
    BY <1>11, <2>2 DEF Fw!ToggleArrives, FwOps
  <2>3. CASE Fw!AddArrives(r, c)
    <3>1. PICK valid \in BOOLEAN, x \in Rules \cup {Junk} :
            ufwReq' = [ufwReq EXCEPT ![r] =
              IF valid THEN [Fw!Started(c, "add") EXCEPT !.rule = x]
              ELSE [Fw!Started(c, "add") EXCEPT !.pc = "answered", !.answer = "bad_request"]]
      BY <2>3 DEF Fw!AddArrives
    <3> DEFINE s == Fw!Started(c, "add")
               v == [s EXCEPT !.rule = x]
               b == [s EXCEPT !.pc = "answered", !.answer = "bad_request"]
    <3>2. s \in FwRequest /\ s.pc = "running" /\ s.op = "add" /\ s.open /\ s.shown.rules = {}
      BY <1>10 DEF FwOps
    <3> HIDE DEF s
    <3>3. /\ v \in FwRequest /\ v.pc = "running" /\ v.op = "add" /\ v.open /\ v.shown.rules = {}
          /\ b \in FwRequest /\ b.pc = "answered" /\ b.answer = "bad_request" /\ b.open
          /\ b.shown.rules = {}
      BY <3>2 DEF FwRequest
    <3>4. ufwReq' = [ufwReq EXCEPT ![r] = v] \/ ufwReq' = [ufwReq EXCEPT ![r] = b]
      BY <3>1 DEF s
    <3>5. FwHost'
      BY <1>9, <2>3 DEF Fw!AddArrives
    <3> HIDE DEF v, b
    <3>6. CASE ufwReq' = [ufwReq EXCEPT ![r] = v]
      BY <1>8, <3>3, <3>5, <3>6 DEF FwOps
    <3>7. CASE ufwReq' = [ufwReq EXCEPT ![r] = b]
      BY <1>8, <3>3, <3>5, <3>7
    <3> QED BY <3>4, <3>6, <3>7
  <2>4. CASE Fw!DeleteArrives(r, c)
    <3> DEFINE e(n) == {x \in listing[c].rules : x.number = n}
               base(n) == IF Fw!ListedAt(c, n) = None THEN << >> ELSE listing[c].base
    <3>1. PICK n \in 0 .. MaxNumber :
            ufwReq' = [ufwReq EXCEPT ![r] =
              [Fw!Started(c, "delete") EXCEPT !.number = n, !.rule = Fw!ListedAt(c, n),
                                              !.base = base(n)]]
      BY <2>4 DEF Fw!DeleteArrives
    <3>2. /\ listing[c].base \in Seq(Rules) /\ << >> \in Seq(Rules)
          /\ \A x \in listing[c].rules : Shows(x, listing[c].base)
      BY <1>2, EmptySeq DEF FwHost
    <3>3. \/ Fw!ListedAt(c, n) = None
          \/ /\ Fw!ListedAt(c, n) \in Rules /\ n \in 1 .. Len(listing[c].base)
             /\ Fw!ListedAt(c, n) = listing[c].base[n]
      <4>1. CASE e(n) = {}
        BY <4>1 DEF Fw!ListedAt
      <4>2. CASE e(n) # {}
        <5>1. PICK x \in e(n) : Fw!ListedAt(c, n) = x.rule
          <6>1. (CHOOSE x \in e(n) : TRUE) \in e(n)
            BY <4>2
          <6>2. Fw!ListedAt(c, n) = (CHOOSE x \in e(n) : TRUE).rule
            BY <4>2 DEF Fw!ListedAt
          <6> QED BY <6>1, <6>2
        <5>2. CASE x.rule = None
          BY <5>1, <5>2
        <5>3. CASE x.rule # None
          <6>1. n \in 1 .. Len(listing[c].base) /\ x.rule = listing[c].base[n]
            BY <3>2, <5>3 DEF Shows, Numbers
          <6>2. listing[c].base[n] \in Rules
            BY <3>2, <6>1, ElementOfSeq
          <6> QED BY <5>1, <6>1, <6>2
        <5> QED BY <5>2, <5>3
      <4> QED BY <4>1, <4>2
    <3> DEFINE s == Fw!Started(c, "delete")
               q == [s EXCEPT !.number = n, !.rule = Fw!ListedAt(c, n), !.base = base(n)]
    <3>4. s \in FwRequest /\ s.pc = "running" /\ s.op = "delete" /\ s.open /\ s.shown.rules = {}
      BY <1>10 DEF FwOps
    <3> HIDE DEF s
    <3>5. base(n) \in Seq(Rules)
      BY <3>2
    <3>6. /\ q \in FwRequest /\ q.pc = "running" /\ q.op = "delete" /\ q.open /\ q.shown.rules = {}
          /\ q.number = n /\ q.rule = Fw!ListedAt(c, n) /\ q.base = base(n)
      BY <3>3, <3>4, <3>5 DEF FwRequest
    <3>7. q.rule # None => Numbers(q, q.base)
      BY <3>3, <3>6 DEF Numbers
    <3>8. ufwReq' = [ufwReq EXCEPT ![r] = q]
      BY <3>1 DEF s
    <3>9. FwHost'
      BY <1>9, <2>4 DEF Fw!DeleteArrives
    <3> HIDE DEF q
    <3> QED BY <1>8, <3>6, <3>7, <3>8, <3>9 DEF FwOps
  <2> QED BY <1>12, <2>1, <2>2, <2>3, <2>4 DEF Fw!Arrives
\* The child ends.
<1>13. ASSUME NEW ok \in BOOLEAN, NEW text \in Seq(Fw!Lines), Fw!Exits(r, ok, text),
              ufwReq[r].pc = "running", FwHost',
              ufwReq[r].op = "status" \/ ok => Fw!Done(ufwReq[r]),
              \A i \in 1 .. Len(text) : text[i].rule # None =>
                ufwReq[r].op = "status" /\ ufwActive /\ Numbers(text[i], rules)
       PROVE  FwInv'
  <2> DEFINE base == IF ufwReq[r].op = "status" /\ ufwActive THEN rules ELSE << >>
             done == Fw!Done(ufwReq[r])
             q == [ufwReq[r] EXCEPT !.pc = "exited", !.success = ok, !.out = text,
                                    !.took = done, !.rule = None, !.number = 0, !.base = base]
  <2>1. base \in Seq(Rules)
    BY <1>2, EmptySeq DEF FwHost
  <2>2. done \in BOOLEAN
    <3>1. ufwReq[r].op \in FwOps /\ ufwActive' \in BOOLEAN
      BY <1>7, <1>13 DEF FwLives, FwHost
    <3>2. CASE ufwReq[r].op = "status"
      BY <3>2 DEF Fw!Done
    <3>3. CASE ufwReq[r].op = "add"
      BY <3>3 DEF Fw!Done
    <3>4. CASE ufwReq[r].op = "delete"
      BY <3>4 DEF Fw!Done
    <3>5. CASE ufwReq[r].op \in {"enable", "disable"}
      BY <3>1, <3>5 DEF Fw!Done
    <3> QED BY <3>1, <3>2, <3>3, <3>4, <3>5 DEF FwOps
  <2>3. ufwReq' = [ufwReq EXCEPT ![r] = IF ~ufwReq[r].open THEN Fw!Idle ELSE q]
    BY <1>13 DEF Fw!Exits
  <2>4. CASE ~ufwReq[r].open
    <3>1. ufwReq' = [ufwReq EXCEPT ![r] = Fw!Idle]
      BY <2>3, <2>4
    <3> QED BY <1>8, <1>13, <3>1, FwIdleTyped
  <2>5. CASE ufwReq[r].open
    <3>1. ufwReq' = [ufwReq EXCEPT ![r] = q]
      BY <2>3, <2>5
    <3> HIDE DEF base, done
    <3>2. ufwReq[r] \in FwRequest
      BY <1>7
    <3>3. q \in FwRequest
      BY <2>1, <2>2, <3>2, FwAssumed DEF FwRequest
    <3>4. /\ q \in FwRequest /\ q.pc = "exited" /\ q.open /\ q.op = ufwReq[r].op
          /\ q.success = ok /\ q.took = done /\ q.out = text /\ q.base = base
      BY <2>5, <3>2, <3>3 DEF FwRequest
    <3> HIDE DEF q
    <3>5. q.op = "status" \/ q.success => q.took
      BY <1>13, <3>4 DEF done
    <3>6. \A i \in 1 .. Len(q.out) : q.out[i].rule # None => Numbers(q.out[i], q.base)
      BY <1>13, <3>4 DEF base
    <3> QED BY <1>8, <1>13, <3>1, <3>4, <3>5, <3>6
  <2> QED BY <2>4, <2>5
\* It says nothing on its output.
<1>14. << >> \in Seq(Fw!Lines) /\ \A i \in 1 .. Len(<< >>) : FALSE
  BY EmptySeq
<1>15. CASE Fw!UfwStatus(r)
  <2>1. /\ ufwReq[r].pc = "running" /\ ufwReq[r].op = "status"
        /\ UNCHANGED <<ufwActive, rules, listing>>
    BY <1>15 DEF Fw!UfwStatus, Fw!Runs
  <2> PICK text \in Fw!Printed : Fw!Exits(r, TRUE, text)
    BY <1>15 DEF Fw!UfwStatus
  <2>2. Fw!Done(ufwReq[r])
    BY <2>1 DEF Fw!Done
  <2>3. rules \in Seq(Rules)
    BY <1>2 DEF FwHost
  <2> QED BY <1>9, <1>13, <2>1, <2>2, <2>3, FwPrints
<1>16. CASE Fw!UfwAdd(r)
  <2>1. /\ ufwReq[r].pc = "running" /\ ufwReq[r].op = "add" /\ ufwReq[r].rule \in Rules
        /\ Fw!Exits(r, TRUE, << >>)
        /\ rules' = IF ufwReq[r].rule \in Fw!Range(rules) THEN rules ELSE Append(rules, ufwReq[r].rule)
    BY <1>16 DEF Fw!UfwAdd, Fw!Runs
  <2>2. /\ rules' \in Seq(Rules) /\ Distinct(rules)' /\ ufwReq[r].rule \in Fw!Range(rules')
    <3>1. rules \in Seq(Rules) /\ Distinct(rules)
      BY <1>2 DEF FwHost
    <3>2. CASE ufwReq[r].rule \in Fw!Range(rules)
      <4>1. rules' = rules
        BY <2>1, <3>2
      <4> QED BY <3>1, <3>2, <4>1 DEF Distinct
    <3>3. CASE ufwReq[r].rule \notin Fw!Range(rules)
      <4>1. rules' = Append(rules, ufwReq[r].rule)
        BY <2>1, <3>3
      <4> QED BY <2>1, <3>1, <3>3, <4>1, OneAdded
    <3> QED BY <3>2, <3>3
  <2>3. FwHost'
    BY <1>2, <1>16, <2>2 DEF Fw!UfwAdd, FwHost
  <2>4. Fw!Done(ufwReq[r])
    BY <2>1, <2>2 DEF Fw!Done
  <2> QED BY <1>13, <1>14, <2>1, <2>3, <2>4
<1>17. CASE Fw!UfwDelete(r)
  <2>1. /\ ufwReq[r].pc = "running" /\ ufwReq[r].op = "delete" /\ Fw!Exits(r, TRUE, << >>)
        /\ ufwReq[r].number \in 1 .. Len(rules)
        /\ rules' = Fw!RemoveAt(rules, ufwReq[r].number)
    BY <1>17 DEF Fw!UfwDelete, Fw!Runs
  <2>2. rules' \in Seq(Rules) /\ Distinct(rules)' /\ Len(rules') = Len(rules) - 1
    BY <1>2, <2>1, OneRemoved, OneDeleted DEF FwHost
  <2>3. FwHost'
    BY <1>2, <1>17, <2>2 DEF Fw!UfwDelete, FwHost
  <2>4. Fw!Done(ufwReq[r])
    BY <2>1, <2>2 DEF Fw!Done
  <2> QED BY <1>13, <1>14, <2>1, <2>3, <2>4
<1>18. CASE Fw!UfwToggle(r)
  <2>1. /\ ufwReq[r].pc = "running" /\ ufwReq[r].op \in {"enable", "disable"}
        /\ Fw!Exits(r, TRUE, << >>) /\ ufwActive' = (ufwReq[r].op = "enable")
    BY <1>18 DEF Fw!UfwToggle, Fw!Runs
  <2>2. FwHost'
    BY <1>2, <1>18, <2>1 DEF Fw!UfwToggle, FwHost, Distinct
  <2>3. Fw!Done(ufwReq[r])
    BY <2>1 DEF Fw!Done
  <2> QED BY <1>13, <1>14, <2>1, <2>2, <2>3
<1>19. CASE Fw!UfwFails(r)
  <2>1. ufwReq[r].op = "status" => Fw!Done(ufwReq[r])
    BY DEF Fw!Done
  <2> QED BY <1>9, <1>13, <1>14, <1>19, <2>1 DEF Fw!UfwFails
<1>20. CASE Fw!ExecFails(r)
  <2> DEFINE q == [ufwReq[r] EXCEPT !.pc = "answered", !.answer = "error"]
  <2>1. ufwReq[r].open /\ FwHost' /\ ufwReq' = [ufwReq EXCEPT ![r] = q]
    BY <1>2, <1>7, <1>9, <1>20 DEF Fw!ExecFails, FwRequest
  <2>2. /\ q \in FwRequest /\ q.pc = "answered" /\ q.answer = "error" /\ q.open
        /\ q.shown = ufwReq[r].shown
    BY <1>7, <2>1 DEF FwRequest
  <2>3. ufwReq[r].shown.rules = {}
    BY <1>7, <1>20 DEF Fw!ExecFails, FwLives
  <2> HIDE DEF q
  <2> QED BY <1>8, <2>1, <2>2, <2>3
<1>21. CASE Fw!Answers(r)
  <2> DEFINE a == IF ufwReq[r].op = "status" \/ ufwReq[r].success THEN "ok" ELSE "failed"
             s == IF ufwReq[r].op = "status" THEN Fw!Parse(ufwReq[r].out) ELSE Fw!NoListing
             q == [ufwReq[r] EXCEPT !.pc = "answered", !.out = << >>, !.answer = a, !.shown = s]
  <2>1. ufwReq[r].pc = "exited" /\ FwHost' /\ ufwReq' = [ufwReq EXCEPT ![r] = q]
    BY <1>2, <1>9, <1>21 DEF Fw!Answers
  <2>2. /\ s \in [active : BOOLEAN, rules : SUBSET Fw!Entries]
        /\ \A e \in s.rules : Shows(e, ufwReq[r].base)
    <3>1. /\ ufwReq[r].out \in Seq(Fw!Lines) /\ ufwReq[r].base \in Seq(Rules)
          /\ \A i \in 1 .. Len(ufwReq[r].out) :
               ufwReq[r].out[i].rule # None => Numbers(ufwReq[r].out[i], ufwReq[r].base)
      BY <1>7, <2>1 DEF FwRequest, FwLives
    <3>2. CASE ufwReq[r].op = "status"
      BY <3>1, <3>2, FwParses
    <3>3. CASE ufwReq[r].op # "status"
      BY <3>3 DEF Fw!NoListing
    <3> QED BY <3>2, <3>3
  <2>3. a \in {"ok", "failed"} /\ (a = "ok" => ufwReq[r].took)
    BY <1>7, <2>1 DEF FwLives
  <2>4. ufwReq[r].open
    BY <1>2, <2>1
  <2> HIDE DEF a, s
  <2>5. /\ q \in FwRequest /\ q.pc = "answered" /\ q.answer = a /\ q.open /\ q.shown = s
        /\ q.took = ufwReq[r].took /\ q.base = ufwReq[r].base
    BY <1>7, <1>14, <2>2, <2>3, <2>4 DEF FwRequest
  <2> HIDE DEF q
  <2> QED BY <1>8, <2>1, <2>2, <2>3, <2>5
<1>22. CASE Fw!Respond(r)
  <2>1. /\ ufwReq[r].pc = "answered" /\ ufwReq' = [ufwReq EXCEPT ![r] = Fw!Idle]
        /\ ufwActive' = ufwActive /\ rules' = rules
    BY <1>22 DEF Fw!Respond
  <2> DEFINE l == [rules |-> ufwReq[r].shown.rules, base |-> ufwReq[r].base]
  <2>2. /\ l \in [rules : SUBSET Fw!Entries, base : Seq(Rules)]
        /\ \A e \in l.rules : Shows(e, l.base)
    BY <1>7, <2>1 DEF FwRequest, FwLives
  <2>3. listing' = listing \/ listing' = [listing EXCEPT ![ufwReq[r].by] = l]
    BY <1>22 DEF Fw!Respond
  <2> HIDE DEF l
  <2>4. FwHost'
    <3>1. \A c \in Clients : listing'[c] = listing[c] \/ listing'[c] = l
      BY <1>2, <2>3 DEF FwHost
    <3>2. listing' \in [Clients -> [rules : SUBSET Fw!Entries, base : Seq(Rules)]]
      BY <1>2, <2>2, <2>3 DEF FwHost
    <3> QED BY <1>2, <2>1, <2>2, <3>1, <3>2 DEF FwHost, Distinct
  <2> QED BY <1>8, <2>1, <2>4, FwIdleTyped
<1>23. CASE Fw!Disconnect(r)
  <2>1. ufwReq' = [ufwReq EXCEPT ![r] = Fw!Dropped(ufwReq[r])] /\ FwHost'
    BY <1>2, <1>9, <1>23 DEF Fw!Disconnect
  <2>2. ufwReq'[r] = Fw!Dropped(ufwReq[r])
    BY <1>2, <2>1
  <2> QED BY <1>5, <2>1, <2>2, FwMove
<1> QED BY <1>12, <1>15, <1>16, <1>17, <1>18, <1>19, <1>20, <1>21, <1>22, <1>23 DEF Fw!Ufw

-----------------------------------------------------------------------------
(* As a part of the composition.                                           *)

LEMMA FirewallMoves ==
  ASSUME [MCNext]_<<processVars, hostVars>>
  PROVE  [Fw!Next]_Fw!vars
BY DEF MCNext, hostVars, firewallVars, Fw!vars

LEMMA FirewallAlways == MCSpec => []FwInv
<1>1. MCInit => FwInv
  BY FwInit DEF MCInit
<1>2. FwInv /\ [MCNext]_<<processVars, hostVars>> => FwInv'
  BY FirewallMoves, FwStep
<1> QED BY <1>1, <1>2, PTL DEF MCSpec

\* However old the listing that a client has a number from, and whatever other requests,
\* abandoned children and administrators did: if the rules are those it shows, the delete
\* removes the rule it shows under that number, and no other (get_status, delete_rule).
THEOREM Deletes == MCSpec => DeletesWhatIsListed
<1>1. ASSUME FwInv, [Fw!Next]_Fw!vars, NEW r \in Slots,
             Fw!Runs(r, "delete"), ufwReq'[r] # ufwReq[r], rules' # rules,
             ufwReq[r].rule # None, ufwReq[r].base = rules
      PROVE  \E i \in DOMAIN rules : /\ rules[i] = ufwReq[r].rule /\ rules' = Fw!RemoveAt(rules, i)
                                     /\ ufwReq[r].rule \notin Fw!Range(rules')
  <2> DEFINE n == ufwReq[r].number
  <2>1. PICK u \in Slots : Fw!UfwAdd(u) \/ Fw!UfwDelete(u)
    BY <1>1 DEF Fw!Next, Fw!vars, Fw!Arrives, Fw!StatusArrives, Fw!AddArrives, Fw!DeleteArrives,
                Fw!ToggleArrives, Fw!Ufw, Fw!UfwStatus, Fw!UfwToggle, Fw!UfwFails, Fw!ExecFails,
                Fw!Answers, Fw!Respond, Fw!Disconnect, Fw!Crash, Fw!Administrator
  <2>2. u = r
    <3>1. ufwReq \in [Slots -> FwRequest]
      BY <1>1, FwTyped
    <3> QED BY <1>1, <2>1, <3>1 DEF Fw!UfwAdd, Fw!UfwDelete, Fw!Exits
  <2>3. n \in 1 .. Len(rules) /\ rules' = Fw!RemoveAt(rules, n)
    BY <1>1, <2>1, <2>2 DEF Fw!Runs, Fw!UfwAdd, Fw!UfwDelete
  <2>4. rules[n] = ufwReq[r].rule
    BY <1>1 DEF Fw!Runs, FwInv, FwLives, Numbers
  <2>5. rules \in Seq(Rules) /\ Distinct(rules)
    BY <1>1 DEF FwInv, Fw!TypeOK
  <2>6. n \in DOMAIN rules
    BY <2>3, <2>5, LenProperties
  <2>7. ufwReq[r].rule \notin Fw!Range(rules')
    BY <2>3, <2>4, <2>5, OneDeleted
  <2> QED BY <2>3, <2>4, <2>6, <2>7
<1>2. FwInv /\ [MCNext]_<<processVars, hostVars>> => [Fw!RemovesAsListed]_Fw!vars
  BY <1>1, FirewallMoves DEF Fw!RemovesAsListed
<1> QED BY <1>2, FirewallAlways, PTL DEF MCSpec, DeletesWhatIsListed, Fw!DeletesWhatIsListed
=============================================================================
