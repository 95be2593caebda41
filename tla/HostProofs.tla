----------------------------- MODULE HostProofs ------------------------------
(***************************************************************************)
(* What the endpoints for virus scans, files, bans and services keep to,   *)
(* for any number of requests, jails, addresses, files and units, whatever *)
(* the host does around them; and with the firewall, the monitor, the bus  *)
(* and the database handle, what all the parts in MCParts keep to.         *)
(***************************************************************************)
EXTENDS FirewallProofs, ProcessProofs, DbMutexProofs

-----------------------------------------------------------------------------
(* Antivirus.                                                              *)

AvRequest == [pc : {"idle", "ping", "version", "scan", "update", "answered"},
              op : {None, "status", "scan", "update"}, open : BOOLEAN,
              passed : SUBSET Paths, found : SUBSET Paths, status : 0 .. 2,
              running : BOOLEAN,
              answer : {None, "status", "report", "refused", "ok", "failed", "error"}]

\* What the history has seen of a request that lives, and how far its scan has come: the
\* report is right of the files that were passed.
AvLives(r) ==
  clamReq[r] # Av!Idle =>
    /\ clamAlways[r] \subseteq infected /\ infected \subseteq clamEver[r]
    /\ clamReq[r].pc = "scan" =>
         /\ clamAlways[r] \cap clamReq[r].passed \subseteq clamReq[r].found
         /\ clamReq[r].found \subseteq clamEver[r]
    /\ Av!Is(r, "report") /\ clamReq[r].status < 2 =>
         clamAlways[r] \subseteq clamReq[r].found /\ clamReq[r].found \subseteq clamEver[r]
    /\ Av!Is(r, "ok") => wasCurrent[r]

AvInv ==
  /\ Av!TypeOK
  /\ \A r \in Slots : AvLives(r)

LEMMA AvIdleTyped ==
  Av!Idle \in AvRequest /\ Av!Idle.pc = "idle" /\ Av!Idle.found = {} /\ Av!Idle.passed = {}
BY DEF Av!Idle, AvRequest

LEMMA AvInit ==
  ASSUME Av!Init
  PROVE  AvInv
BY AvIdleTyped DEF Av!Init, AvInv, Av!TypeOK, AvLives, AvRequest

\* A request that goes on keeps what was seen, and sees what there is now.
LEMMA AvObserved ==
  ASSUME AvInv, Av!Observe, NEW r \in Slots, clamReq[r] # Av!Idle, clamReq'[r] # Av!Idle
  PROVE  /\ clamEver'[r] = clamEver[r] \cup infected'
         /\ clamAlways'[r] = clamAlways[r] \cap infected'
         /\ wasCurrent[r] \/ current \/ current' => wasCurrent'[r]
BY DEF Av!Observe

\* What holds of a request that is as it was, or has gone.
LEMMA AvUntouched ==
  ASSUME AvInv, Av!Observe, NEW r \in Slots, clamReq'[r] = clamReq[r] \/ clamReq'[r] = Av!Idle
  PROVE  AvLives(r)'
<1>1. CASE clamReq'[r] = Av!Idle
  BY <1>1 DEF AvLives
<1>2. CASE clamReq'[r] # Av!Idle
  <2>1. clamReq'[r] = clamReq[r] /\ AvLives(r)
    BY <1>2 DEF AvInv
  <2>2. /\ clamEver'[r] = clamEver[r] \cup infected'
        /\ clamAlways'[r] = clamAlways[r] \cap infected'
        /\ wasCurrent[r] => wasCurrent'[r]
    BY <1>2, <2>1, AvObserved
  <2> QED BY <1>2, <2>1, <2>2 DEF AvLives, Av!Is
<1> QED BY <1>1, <1>2

LEMMA AvMove ==
  ASSUME AvInv, Av!Observe, clamUp' \in BOOLEAN, current' \in BOOLEAN, infected' \subseteq Paths,
         NEW r \in Slots, NEW q \in AvRequest, clamReq' = [clamReq EXCEPT ![r] = q],
         q.found \subseteq q.passed, ~q.open => q.pc = "update" \/ q = Av!Idle,
         AvLives(r)'
  PROVE  AvInv'
<1>1. clamReq \in [Slots -> AvRequest]
  BY DEF AvInv, Av!TypeOK, AvRequest
<1>2. clamReq' \in [Slots -> AvRequest] /\ clamReq'[r] = q
  BY <1>1
<1>3. ASSUME NEW u \in Slots \ {r}
      PROVE  clamReq'[u] = clamReq[u] /\ AvLives(u)'
  <2>1. clamReq'[u] = clamReq[u]
    BY <1>1
  <2> QED BY <2>1, AvUntouched
<1>4. Av!TypeOK'
  BY <1>2, <1>3 DEF AvInv, Av!TypeOK, AvRequest
<1> QED BY <1>3, <1>4 DEF AvInv

LEMMA AvStep ==
  ASSUME AvInv, [Av!Next]_Av!vars
  PROVE  AvInv'
<1>1. CASE UNCHANGED Av!vars
  BY <1>1 DEF AvInv, Av!TypeOK, AvLives, Av!Is, Av!vars
<1> SUFFICES ASSUME Av!Next PROVE AvInv'
  BY <1>1
<1>2. /\ Av!Observe /\ clamReq \in [Slots -> AvRequest]
      /\ clamUp \in BOOLEAN /\ current \in BOOLEAN /\ infected \subseteq Paths
  BY DEF Av!Next, AvInv, Av!TypeOK, AvRequest
<1>3. CASE Av!Others
  <2>1. \A r \in Slots : AvLives(r)'
    BY <1>2, <1>3, AvUntouched DEF Av!Others
  <2>2. Av!TypeOK'
    BY <1>2, <1>3 DEF AvInv, Av!TypeOK, Av!Others
  <2> QED BY <2>1, <2>2 DEF AvInv
<1> SUFFICES ASSUME NEW r \in Slots,
                    \/ Av!Status(r) \/ Av!Scan(r) \/ Av!Definitions(r)
                    \/ Av!ExecFails(r) \/ Av!Respond(r) \/ Av!Disconnect(r)
             PROVE  AvInv'
  BY <1>3 DEF Av!Next
<1>4. /\ clamReq[r] \in AvRequest /\ clamReq[r].found \subseteq clamReq[r].passed
      /\ ~clamReq[r].open => clamReq[r].pc = "update" \/ clamReq[r] = Av!Idle
      /\ AvLives(r)
  BY <1>2 DEF AvInv, Av!TypeOK
<1>5. clamReq'[r] # Av!Idle =>
        /\ clamAlways'[r] \subseteq infected' /\ infected' \subseteq clamEver'[r]
        /\ clamReq[r] # Av!Idle =>
             /\ clamAlways'[r] \subseteq clamAlways[r] /\ clamEver[r] \subseteq clamEver'[r]
             /\ wasCurrent[r] \/ current \/ current' => wasCurrent'[r]
  BY <1>2 DEF Av!Observe
\* The request of r becomes q, on a host that is as it was.
<1>6. ASSUME NEW q \in AvRequest, Av!Set(r, q), UNCHANGED Av!host,
             q.found \subseteq q.passed, ~q.open => q.pc = "update" \/ q = Av!Idle,
             AvLives(r)'
      PROVE  AvInv'
  BY <1>2, <1>6, AvMove DEF Av!Set, Av!host
\* Most of what a request may become needs nothing of what was seen.
<1>7. ASSUME NEW q \in AvRequest, Av!Set(r, q), UNCHANGED Av!host,
             q.found \subseteq q.passed, ~q.open => q.pc = "update" \/ q = Av!Idle,
             q.pc # "scan", q.pc = "answered" => q.answer \notin {"report", "ok"}
      PROVE  AvInv'
  <2>1. clamReq'[r] = q
    BY <1>2, <1>7 DEF Av!Set
  <2>2. AvLives(r)'
    BY <1>5, <1>7, <2>1 DEF AvLives, Av!Is
  <2> QED BY <1>6, <1>7, <2>2
<1>8. CASE clamReq[r] = Av!Idle
  <2>1. PICK o \in {"status", "scan", "update"}, c \in {"ping", "scan", "update", "answered"} :
          /\ UNCHANGED Av!host
          /\ \/ c # "answered" /\ Av!Set(r, [Av!Idle EXCEPT !.pc = c, !.op = o, !.open = TRUE])
             \/ c = "answered" /\ Av!Set(r, [Av!Idle EXCEPT !.pc = c, !.op = o, !.open = TRUE, !.answer = "refused"])
    BY <1>8 DEF Av!Status, Av!Scan, Av!Definitions, Av!StatusArrives, Av!ScanArrives, Av!UpdateArrives,
         Av!Arrives, Av!Ping, Av!Version, Av!ScanFile, Av!ScanEnds, Av!Update, Av!UpdateFails,
         Av!ExecFails, Av!Respond, Av!Disconnect, Av!Waits, Av!Idle
  <2>2. CASE c = "answered"
    <3> DEFINE q == [Av!Idle EXCEPT !.pc = c, !.op = o, !.open = TRUE, !.answer = "refused"]
    <3>1. q \in AvRequest /\ q.found = {} /\ q.open /\ q.pc = "answered" /\ q.answer = "refused"
      BY <2>2, AvIdleTyped DEF AvRequest
    <3>2. Av!Set(r, q)
      BY <2>1, <2>2
    <3> HIDE DEF q
    <3> QED BY <1>7, <2>1, <3>1, <3>2
  <2>3. CASE c # "answered"
    <3> DEFINE q == [Av!Idle EXCEPT !.pc = c, !.op = o, !.open = TRUE]
    <3>1. q \in AvRequest /\ q.found = {} /\ q.passed = {} /\ q.open /\ q.pc = c
      BY <2>3, AvIdleTyped DEF AvRequest
    <3>2. Av!Set(r, q)
      BY <2>1, <2>3
    <3> HIDE DEF q
    <3>3. clamReq'[r] = q
      BY <1>2, <3>2 DEF Av!Set
    <3>4. AvLives(r)'
      BY <1>5, <2>3, <3>1, <3>3 DEF AvLives, Av!Is
    <3> QED BY <1>6, <2>1, <3>1, <3>2, <3>4
  <2> QED BY <2>2, <2>3
<1>9. CASE Av!Ping(r)
  <2>1. PICK success \in {FALSE, clamUp} :
          Av!Set(r, [clamReq[r] EXCEPT !.pc = "version", !.running = success])
    BY <1>9 DEF Av!Ping
  <2> DEFINE q == [clamReq[r] EXCEPT !.pc = "version", !.running = success]
  <2>2. /\ q \in AvRequest /\ q.found = clamReq[r].found /\ q.passed = clamReq[r].passed
        /\ q.pc = "version" /\ q.open = clamReq[r].open
    BY <1>2, <1>4 DEF AvRequest
  <2>3. clamReq[r].open
    BY <1>4, <1>9 DEF Av!Ping, Av!Waits, Av!Idle
  <2>4. Av!Set(r, q) /\ UNCHANGED Av!host
    BY <1>9, <2>1 DEF Av!Ping
  <2> HIDE DEF q
  <2> QED BY <1>4, <1>7, <2>2, <2>3, <2>4
\* Of the answers, only those to a report and an update say something of the host.
<1>10. ASSUME NEW a \in {"status", "failed", "error"}, Av!Answered(r, a), UNCHANGED Av!host,
              clamReq[r].open
       PROVE  AvInv'
  <2> DEFINE q == [clamReq[r] EXCEPT !.pc = "answered", !.answer = a]
  <2>1. /\ q \in AvRequest /\ q.found = clamReq[r].found /\ q.passed = clamReq[r].passed
        /\ q.pc = "answered" /\ q.answer = a /\ q.open = clamReq[r].open
    BY <1>4 DEF AvRequest
  <2>2. Av!Set(r, q)
    BY <1>10 DEF Av!Answered
  <2> HIDE DEF q
  <2> QED BY <1>4, <1>7, <1>10, <2>1, <2>2
<1>11. ASSUME Av!Set(r, Av!Idle), UNCHANGED Av!host
       PROVE  AvInv'
  BY <1>7, <1>11, AvIdleTyped DEF Av!Idle
<1>12. CASE Av!ScanFile(r)
  <2>1. PICK p \in Paths \ clamReq[r].passed :
          Av!Set(r, [clamReq[r] EXCEPT !.passed = @ \cup {p}, !.found = @ \cup ({p} \cap infected)])
    BY <1>12 DEF Av!ScanFile
  <2> DEFINE q == [clamReq[r] EXCEPT !.passed = @ \cup {p}, !.found = @ \cup ({p} \cap infected)]
  <2>2. /\ q \in AvRequest /\ q.pc = clamReq[r].pc /\ q.open = clamReq[r].open
        /\ q.passed = clamReq[r].passed \cup {p}
        /\ q.found = clamReq[r].found \cup ({p} \cap infected)
    BY <1>4 DEF AvRequest
  <2>3. clamReq[r].open /\ clamReq[r] # Av!Idle /\ clamReq[r].pc = "scan"
    BY <1>4, <1>12 DEF Av!ScanFile, Av!Waits, Av!Idle
  <2>4. Av!Set(r, q) /\ UNCHANGED Av!host /\ infected' = infected
    BY <1>12, <2>1 DEF Av!ScanFile, Av!host
  <2> HIDE DEF q
  <2>5. clamReq'[r] = q
    BY <1>2, <2>4 DEF Av!Set
  <2>6. q # Av!Idle
    BY <2>2, <2>3 DEF Av!Idle
  <2>7. AvLives(r)'
    BY <1>4, <1>5, <2>2, <2>3, <2>4, <2>5, <2>6 DEF AvLives, Av!Is
  <2>8. q.found \subseteq q.passed
    BY <1>4, <2>2
  <2> QED BY <1>6, <2>2, <2>3, <2>4, <2>7, <2>8
<1>13. CASE Av!ScanEnds(r)
  <2>1. PICK n \in 0 .. 2 :
          /\ n < 2 => clamReq[r].passed = Paths
          /\ Av!Set(r, [clamReq[r] EXCEPT !.pc = "answered", !.answer = "report", !.status = n])
    BY <1>13 DEF Av!ScanEnds
  <2> DEFINE q == [clamReq[r] EXCEPT !.pc = "answered", !.answer = "report", !.status = n]
  <2>2. /\ q \in AvRequest /\ q.found = clamReq[r].found /\ q.passed = clamReq[r].passed
        /\ q.pc = "answered" /\ q.answer = "report" /\ q.open = clamReq[r].open /\ q.status = n
    BY <1>4 DEF AvRequest
  <2>3. clamReq[r].open /\ clamReq[r] # Av!Idle /\ clamReq[r].pc = "scan"
    BY <1>4, <1>13 DEF Av!ScanEnds, Av!Waits, Av!Idle
  <2>4. Av!Set(r, q) /\ UNCHANGED Av!host /\ infected' = infected
    BY <1>13, <2>1 DEF Av!ScanEnds, Av!host
  <2> HIDE DEF q
  <2>5. clamReq'[r] = q
    BY <1>2, <2>4 DEF Av!Set
  <2>6. q # Av!Idle
    BY <2>2 DEF Av!Idle
  <2>7. n < 2 => clamAlways[r] \subseteq clamReq[r].found
    BY <1>2, <1>4, <2>1, <2>3 DEF AvLives
  <2>8. AvLives(r)'
    BY <1>4, <1>5, <2>2, <2>3, <2>4, <2>5, <2>6, <2>7 DEF AvLives, Av!Is
  <2> QED BY <1>4, <1>6, <2>2, <2>3, <2>4, <2>8
<1>14. CASE Av!Update(r)
  <2>1. clamReq[r].pc = "update" /\ current' = TRUE /\ clamUp' = clamUp /\ infected' = infected
    BY <1>14 DEF Av!Update, Av!Waits
  <2> DEFINE q == IF clamReq[r].open THEN [clamReq[r] EXCEPT !.pc = "answered", !.answer = "ok"]
                  ELSE Av!Idle
  <2>2. Av!Set(r, q)
    BY <1>14 DEF Av!Update, Av!Exits, Av!Answered
  <2>3. /\ q \in AvRequest /\ q.found \subseteq q.passed
        /\ ~q.open => q.pc = "update" \/ q = Av!Idle
        /\ q = Av!Idle \/ (q.pc = "answered" /\ q.answer = "ok")
    BY <1>4, AvIdleTyped DEF AvRequest
  <2> HIDE DEF q
  <2>4. clamReq'[r] = q /\ clamReq[r] # Av!Idle
    BY <1>2, <2>1, <2>2 DEF Av!Set, Av!Idle
  <2>5. AvLives(r)'
    BY <1>5, <2>1, <2>3, <2>4 DEF AvLives, Av!Is
  <2> QED BY <1>2, <2>1, <2>2, <2>3, <2>5, AvMove DEF Av!Set
<1>15. CASE Av!UpdateFails(r)
  <2>1. CASE clamReq[r].open
    BY <1>10, <1>15, <2>1 DEF Av!UpdateFails, Av!Exits
  <2>2. CASE ~clamReq[r].open
    BY <1>11, <1>15, <2>2 DEF Av!UpdateFails, Av!Exits
  <2> QED BY <2>1, <2>2
<1>16. CASE Av!Version(r)
  <2>1. clamReq[r].open
    BY <1>4, <1>16 DEF Av!Version, Av!Waits, Av!Idle
  <2> QED BY <1>10, <1>16, <2>1 DEF Av!Version
<1>17. CASE Av!ExecFails(r)
  BY <1>10, <1>17 DEF Av!ExecFails
<1>18. CASE Av!Respond(r)
  BY <1>11, <1>18 DEF Av!Respond
<1>19. CASE Av!Disconnect(r)
  <2>1. CASE Av!Waits(r, "update")
    <3> DEFINE q == [clamReq[r] EXCEPT !.open = FALSE]
    <3>1. /\ q \in AvRequest /\ q.found = clamReq[r].found /\ q.passed = clamReq[r].passed
          /\ q.pc = "update"
      BY <1>4, <2>1 DEF AvRequest, Av!Waits
    <3>2. Av!Set(r, q) /\ UNCHANGED Av!host
      BY <1>19, <2>1 DEF Av!Disconnect
    <3> HIDE DEF q
    <3> QED BY <1>4, <1>7, <3>1, <3>2
  <2>2. CASE ~Av!Waits(r, "update")
    BY <1>11, <1>19, <2>2 DEF Av!Disconnect
  <2> QED BY <2>1, <2>2
<1>20. CASE clamReq[r] # Av!Idle /\ (Av!StatusArrives(r) \/ Av!ScanArrives(r) \/ Av!UpdateArrives(r))
  BY <1>20 DEF Av!StatusArrives, Av!ScanArrives, Av!UpdateArrives, Av!Arrives
<1> QED BY <1>8, <1>9, <1>12, <1>13, <1>14, <1>15, <1>16, <1>17, <1>18, <1>19, <1>20
        DEF Av!Status, Av!Scan, Av!Definitions

-----------------------------------------------------------------------------
(* Files.                                                                  *)

FiRequest == [pc : {"idle", "metadata", "open", "read", "walk", "stat", "answered"},
              op : {None, "read", "browse"}, name : Directory \cup {None},
              limit : 0 .. MaxSize, len : 0 .. MaxSize,
              got : 0 .. MaxSize, held : Fi!Sizes,
              met : SUBSET Directory, shown : SUBSET (Directory \X (0 .. MaxSize)),
              answer : {None, "content", "binary", "too_large", "listing", "refused",
                        "bad_request"},
              fault : BOOLEAN]

\* The request is about n: the history keeps what n was.
FiAbout(q, n) == q.op = "read" => n = q.name

\* What is open is a file, and it has a length.
FiShaped(q) ==
  /\ q.pc \in {"open", "read"} => q.name \in Directory
  /\ q.pc = "read" => q.held # Fi!Gone \/ size[q.name] # Fi!Gone

\* A walk: what it shows was there, and of what it has met all that was there all the time
\* is shown, but for the entry whose metadata are still to come.
FiWalks(r) ==
  /\ fileReq[r].op = "browse"
  /\ \A x \in fileReq[r].shown : x[2] \in filePast[r][x[1]]
  /\ fileReq[r].pc = "stat" => fileReq[r].name \in Directory
  /\ ~fileReq[r].fault =>
       \A n \in fileReq[r].met :
         \/ fileReq[r].pc = "stat" /\ n = fileReq[r].name
         \/ Fi!Gone \in filePast[r][n]
         \/ \E x \in fileReq[r].shown : x[1] = n

FiListed(r) ==
  /\ fileReq[r].op = "browse"
  /\ \A x \in fileReq[r].shown : x[2] \in filePast[r][x[1]]
  /\ ~fileReq[r].fault =>
       \A n \in Directory : Fi!Gone \notin filePast[r][n] => \E x \in fileReq[r].shown : x[1] = n

\* A read: the file had the size that metadata gave; what is open is as long now as the
\* file once was, and once was as long as what has been read of it.
FiReads(r) ==
  LET sizes == filePast[r][fileReq[r].name] \ {Fi!Gone}
  IN /\ fileReq[r].op = "read"
     /\ fileReq[r].pc # "read" => fileReq[r].got = 0 /\ fileReq[r].held = Fi!Gone
     /\ fileReq[r].pc \in {"open", "read"} =>
          fileReq[r].len \in sizes /\ fileReq[r].len <= fileReq[r].limit
     /\ fileReq[r].pc = "read" =>
          Fi!Length(r) \in sizes /\ \E b \in sizes : fileReq[r].got <= b

FiTold(r) ==
  LET sizes == filePast[r][fileReq[r].name] \ {Fi!Gone}
  IN /\ Fi!Tells(r, "content") \/ Fi!Tells(r, "binary") =>
          /\ fileReq[r].name \in Directory
          /\ fileReq[r].len \in sizes /\ fileReq[r].len <= fileReq[r].limit
          /\ \E a \in sizes, b \in sizes : a <= fileReq[r].got /\ fileReq[r].got <= b
     /\ Fi!Tells(r, "too_large") =>
          /\ fileReq[r].name \in Directory
          /\ fileReq[r].len \in sizes /\ fileReq[r].len > fileReq[r].limit
     /\ Fi!Tells(r, "refused") /\ ~fileReq[r].fault =>
          /\ fileReq[r].name \in Directory
          /\ Fi!Gone \in filePast[r][fileReq[r].name]

FiLives(r) ==
  fileReq[r] # Fi!Idle =>
    /\ \A n \in Directory : FiAbout(fileReq[r], n) => size[n] \in filePast[r][n]
    /\ fileReq[r].pc \in {"metadata", "open", "read"} => FiReads(r)
    /\ fileReq[r].pc \in {"walk", "stat"} => FiWalks(r)
    /\ Fi!Listing(r) => FiListed(r)
    /\ FiTold(r)

FiInv ==
  /\ Fi!TypeOK
  /\ \A r \in OneSlot : FiLives(r)

LEMMA FiAssumed == None \notin Directory /\ MaxSize \in Nat /\ Fi!Gone \in Nat /\ Fi!Gone \notin 0 .. MaxSize
BY PartsAssumption DEF PartsAssumption, Fi!FilesAssumption, Fi!Gone

LEMMA FiIdleTyped == /\ Fi!Idle \in FiRequest /\ Fi!Idle.pc = "idle" /\ Fi!Idle.op = None
                     /\ Fi!Idle.met = {} /\ Fi!Idle.shown = {} /\ ~Fi!Idle.fault
                     /\ Fi!Idle.got = 0 /\ Fi!Idle.held = Fi!Gone
BY FiAssumed DEF Fi!Idle, FiRequest, Fi!Sizes

LEMMA FiThere ==
  ASSUME NEW n \in Directory \cup {None}
  PROVE  /\ Fi!There(n) \in BOOLEAN
         /\ Fi!There(n) => n = None \/ size[n] # Fi!Gone
         /\ ~Fi!There(n) => n \in Directory /\ size[n] = Fi!Gone
BY DEF Fi!There

\* The type invariant, request by request.
LEMMA FiTyped ==
  Fi!TypeOK <=> /\ size \in [Directory -> Fi!Sizes]
                /\ fileReq \in [OneSlot -> FiRequest]
                /\ \A r \in OneSlot : FiShaped(fileReq[r])
BY DEF Fi!TypeOK, FiRequest, FiShaped, Fi!Length

LEMMA FiTypedNext ==
  Fi!TypeOK' <=> /\ size' \in [Directory -> Fi!Sizes]
                 /\ fileReq' \in [OneSlot -> FiRequest]
                 /\ \A r \in OneSlot : FiShaped(fileReq[r])'
BY DEF Fi!TypeOK, FiRequest, FiShaped, Fi!Length

LEMMA FiInit ==
  ASSUME Fi!Init
  PROVE  FiInv
BY FiIdleTyped, FiTyped DEF Fi!Init, FiInv, FiLives, FiShaped

\* What there is, is what the history of a request that goes on holds from then on.
LEMMA FiObserved ==
  ASSUME Fi!Observe, NEW r \in OneSlot, fileReq'[r] # Fi!Idle,
         NEW n \in Directory, FiAbout(fileReq'[r], n)
  PROVE  /\ filePast[r][n] \subseteq filePast'[r][n]
         /\ size[n] \in filePast'[r][n] /\ size'[n] \in filePast'[r][n]
BY DEF Fi!Observe, FiAbout

\* A request is gone or as it was, except that the file it reads may have lost its name.
FiStays(r) ==
  \/ fileReq'[r] = Fi!Idle
  \/ fileReq'[r] = fileReq[r] /\ FiShaped(fileReq[r])'
  \/ /\ fileReq[r].pc = "read"
     /\ fileReq'[r] = [fileReq[r] EXCEPT !.held = Fi!Length(r)]

LEMMA FiUntouched ==
  ASSUME FiInv, Fi!Observe, NEW r \in OneSlot, FiStays(r)
  PROVE  FiLives(r)'
<1>1. CASE fileReq'[r] = Fi!Idle
  BY <1>1 DEF FiLives
<1>2. CASE fileReq'[r] # Fi!Idle
  <2>0. fileReq[r] \in FiRequest /\ FiShaped(fileReq[r])
    BY FiTyped DEF FiInv
  <2>1. /\ fileReq'[r].pc = fileReq[r].pc /\ fileReq'[r].op = fileReq[r].op
        /\ fileReq'[r].name = fileReq[r].name /\ fileReq'[r].limit = fileReq[r].limit
        /\ fileReq'[r].len = fileReq[r].len /\ fileReq'[r].got = fileReq[r].got
        /\ fileReq'[r].met = fileReq[r].met /\ fileReq'[r].shown = fileReq[r].shown
        /\ fileReq'[r].answer = fileReq[r].answer /\ fileReq'[r].fault = fileReq[r].fault
    BY <1>2, <2>0 DEF FiStays, FiRequest
  <2>2. FiLives(r) /\ fileReq[r] # Fi!Idle
    BY <1>2, <2>0, FiIdleTyped DEF FiInv, FiStays
  <2>3. \A n \in Directory : FiAbout(fileReq[r], n) =>
          filePast[r][n] \subseteq filePast'[r][n] /\ size'[n] \in filePast'[r][n]
    BY <1>2, <2>1, FiObserved DEF FiAbout
  <2>4. \A x \in fileReq[r].shown : x[1] \in Directory
    BY <2>0 DEF FiRequest
  <2>5. FiWalks(r) => FiWalks(r)'
    BY <2>0, <2>1, <2>3, <2>4 DEF FiWalks, FiRequest, FiAbout
  <2>6. FiListed(r) => FiListed(r)'
    BY <2>1, <2>3, <2>4 DEF FiListed, FiAbout
  <2>7. fileReq[r].pc \in {"metadata", "open", "read"} => FiReads(r)'
    <3>1. SUFFICES ASSUME fileReq[r].pc \in {"metadata", "open", "read"} PROVE FiReads(r)'
      OBVIOUS
    <3>2. FiReads(r)
      BY <2>2, <3>1 DEF FiLives
    <3>3. CASE fileReq[r].pc = "metadata"
      BY <1>2, <2>1, <3>2, <3>3 DEF FiStays, FiReads
    <3>4. CASE fileReq[r].pc \in {"open", "read"}
      <4>1. /\ fileReq[r].name \in Directory
            /\ filePast[r][fileReq[r].name] \subseteq filePast'[r][fileReq[r].name]
            /\ size'[fileReq[r].name] \in filePast'[r][fileReq[r].name]
        BY <2>0, <2>3, <3>2, <3>4 DEF FiShaped, FiReads, FiAbout
      <4>2. fileReq[r].pc = "read" => \/ Fi!Length(r)' = Fi!Length(r)
                                      \/ Fi!Length(r)' = size'[fileReq[r].name]
        BY <1>2, <2>0, <2>1 DEF FiStays, Fi!Length, FiRequest
      <4>3. fileReq[r].pc = "read" => Fi!Length(r) # Fi!Gone
        BY <3>2 DEF FiReads
      <4>4. fileReq[r].pc = "read" => Fi!Length(r)' # Fi!Gone
        BY <1>2, <2>0, <2>1, <4>3 DEF FiStays, Fi!Length, FiRequest, FiShaped
      <4>5. fileReq[r].pc = "open" => fileReq'[r].held = fileReq[r].held
        BY <1>2 DEF FiStays
      <4> DEFINE before == filePast[r][fileReq[r].name] \ {Fi!Gone}
                 after == filePast'[r][fileReq[r].name] \ {Fi!Gone}
      <4>6. /\ fileReq[r].op = "read"
            /\ fileReq[r].len \in before /\ fileReq[r].len <= fileReq[r].limit
            /\ fileReq[r].pc = "open" => fileReq[r].got = 0 /\ fileReq[r].held = Fi!Gone
            /\ fileReq[r].pc = "read" => /\ Fi!Length(r) \in before
                                         /\ \E b \in before : fileReq[r].got <= b
        BY <3>2, <3>4 DEF FiReads
      <4>7. before \subseteq after /\ (fileReq[r].pc = "read" => Fi!Length(r)' \in after)
        BY <4>1, <4>2, <4>4, <4>6
      <4>8. /\ fileReq'[r].pc # "read" => fileReq'[r].got = 0 /\ fileReq'[r].held = Fi!Gone
            /\ fileReq'[r].pc = "read" => /\ Fi!Length(r)' \in after
                                          /\ \E b \in after : fileReq'[r].got <= b
        BY <2>1, <3>4, <4>5, <4>6, <4>7
      <4> HIDE DEF before
      <4> QED BY <2>1, <4>6, <4>7, <4>8 DEF FiReads
    <3> QED BY <3>1, <3>3, <3>4
  <2>8. FiTold(r)'
    <3>1. FiTold(r)
      BY <2>2 DEF FiLives
    <3>2. fileReq[r].op = "read" /\ fileReq[r].name \in Directory =>
            filePast[r][fileReq[r].name] \subseteq filePast'[r][fileReq[r].name]
      BY <2>3 DEF FiAbout
    <3> QED BY <2>1, <3>1, <3>2 DEF FiTold, Fi!Tells
  <2> QED BY <2>1, <2>2, <2>3, <2>5, <2>6, <2>7, <2>8 DEF FiLives, Fi!Listing, FiAbout
<1> QED BY <1>1, <1>2

LEMMA FiMove ==
  ASSUME FiInv, Fi!Observe, UNCHANGED size,
         NEW r \in OneSlot, NEW q \in FiRequest, fileReq' = [fileReq EXCEPT ![r] = q],
         FiShaped(q),
         FiLives(r)'
  PROVE  FiInv'
<1>1. /\ fileReq \in [OneSlot -> FiRequest] /\ size \in [Directory -> Fi!Sizes]
      /\ \A u \in OneSlot : FiShaped(fileReq[u])
  BY FiTyped DEF FiInv
<1>2. fileReq' \in [OneSlot -> FiRequest] /\ fileReq'[r] = q
  BY <1>1
<1>3. ASSUME NEW u \in OneSlot \ {r}
      PROVE  fileReq'[u] = fileReq[u] /\ FiShaped(fileReq[u])' /\ FiLives(u)'
  <2>1. fileReq'[u] = fileReq[u]
    BY <1>1
  <2>2. FiShaped(fileReq[u])'
    BY <1>1, <2>1 DEF FiShaped
  <2> QED BY <2>1, <2>2, FiUntouched DEF FiStays
<1>4. FiShaped(fileReq[r])'
  BY <1>2 DEF FiShaped
<1>5. Fi!TypeOK'
  BY <1>1, <1>2, <1>3, <1>4, FiTypedNext
<1> QED BY <1>3, <1>5 DEF FiInv

\* What other programs do to the files.
LEMMA FiOthers ==
  ASSUME FiInv, Fi!Others, Fi!Observe
  PROVE  FiInv'
<1>1. /\ fileReq \in [OneSlot -> FiRequest] /\ size \in [Directory -> Fi!Sizes]
      /\ \A u \in OneSlot : FiShaped(fileReq[u])
  BY FiTyped DEF FiInv
<1>2. PICK n \in Directory, s \in Fi!Sizes :
        /\ s # size[n] /\ size' = [size EXCEPT ![n] = s]
        /\ \/ s # Fi!Gone /\ UNCHANGED fileReq
           \/ size[n] # Fi!Gone /\ fileReq' = Fi!Held(n)
  BY DEF Fi!Others
<1>3. size' \in [Directory -> Fi!Sizes]
  BY <1>1, <1>2
<1>4. ASSUME NEW r \in OneSlot
      PROVE  FiStays(r) /\ fileReq'[r] \in FiRequest /\ FiShaped(fileReq[r])'
  <2>0. fileReq[r] \in FiRequest /\ FiShaped(fileReq[r])
    BY <1>1
  <2>1. CASE fileReq'[r] = fileReq[r] /\ (s # Fi!Gone \/ fileReq[r].name # n \/ fileReq[r].pc # "read")
    <3>1. FiShaped(fileReq[r])'
      BY <1>1, <1>2, <2>0, <2>1 DEF FiShaped
    <3> QED BY <2>0, <2>1, <3>1 DEF FiStays
  <2>2. CASE /\ fileReq[r].pc = "read" /\ fileReq[r].name = n
             /\ fileReq'[r] = [fileReq[r] EXCEPT !.held = Fi!Length(r)]
    <3>1. Fi!Length(r) \in Fi!Sizes /\ Fi!Length(r) # Fi!Gone
      BY <1>1, <2>0, <2>2 DEF Fi!Length, FiShaped, FiRequest
    <3>2. /\ fileReq'[r] \in FiRequest /\ fileReq'[r].held = Fi!Length(r)
          /\ fileReq'[r].name = fileReq[r].name /\ fileReq'[r].pc = "read"
      BY <2>0, <2>2, <3>1 DEF FiRequest
    <3> QED BY <2>0, <2>2, <3>1, <3>2 DEF FiShaped, FiStays
  <2> QED BY <1>1, <1>2, <2>1, <2>2 DEF Fi!Held, Fi!Waits
<1>5. fileReq' \in [OneSlot -> FiRequest]
  BY <1>1, <1>2, <1>4 DEF Fi!Held
<1>6. Fi!TypeOK'
  BY <1>3, <1>4, <1>5, FiTypedNext
<1> QED BY <1>4, <1>6, FiUntouched DEF FiInv

LEMMA FiStep ==
  ASSUME FiInv, [Fi!Next]_Fi!vars
  PROVE  FiInv'
<1>1. CASE UNCHANGED Fi!vars
  BY <1>1 DEF FiInv, Fi!TypeOK, FiLives, FiWalks, FiReads, FiListed, FiTold, FiAbout,
              Fi!Length, Fi!Tells, Fi!Listing, Fi!vars
<1> SUFFICES ASSUME Fi!Next PROVE FiInv'
  BY <1>1
<1>2. /\ Fi!Observe /\ fileReq \in [OneSlot -> FiRequest]
      /\ size \in [Directory -> Fi!Sizes]
  BY FiTyped DEF Fi!Next, FiInv
<1>3. CASE Fi!Others
  BY <1>2, <1>3, FiOthers
<1> SUFFICES ASSUME NEW r \in OneSlot, Fi!Read(r) \/ Fi!Browse(r) \/ Fi!Ends(r)
             PROVE  FiInv'
  BY <1>3 DEF Fi!Next
<1> DEFINE name == fileReq[r].name
<1> DEFINE Kept(q) == /\ fileReq'[r] = q /\ q # Fi!Idle
                      /\ \A n \in Directory : FiAbout(q, n) => /\ filePast[r][n] \subseteq filePast'[r][n]
                                                             /\ size[n] \in filePast'[r][n]
<1>4. fileReq[r] \in FiRequest /\ FiLives(r) /\ FiShaped(fileReq[r])
  BY <1>2, FiTyped DEF FiInv
<1>5. \A n \in Directory : size[n] # Fi!Gone => size[n] \in 0 .. MaxSize
  BY <1>2, FiAssumed DEF Fi!Sizes, Fi!Gone
\* The request of r becomes q, on files that are as they were.
<1>7. ASSUME NEW q \in FiRequest, Fi!Set(r, q), FiShaped(q),
             ASSUME Kept(q), UNCHANGED size
             PROVE  /\ q.pc \in {"metadata", "open", "read"} => FiReads(r)'
                    /\ q.pc \in {"walk", "stat"} => FiWalks(r)'
                    /\ Fi!Listing(r)' => FiListed(r)'
                    /\ FiTold(r)'
      PROVE  FiInv'
  <2>1. fileReq'[r] = q /\ UNCHANGED size /\ fileReq' = [fileReq EXCEPT ![r] = q]
    BY <1>2, <1>7 DEF Fi!Set
  <2>2. ASSUME q # Fi!Idle
        PROVE  FiLives(r)'
    <3>1. \A n \in Directory : FiAbout(q, n) =>
            /\ filePast[r][n] \subseteq filePast'[r][n]
            /\ size[n] \in filePast'[r][n] /\ size'[n] \in filePast'[r][n]
      BY <1>2, <2>1, <2>2, FiObserved
    <3> QED BY <1>7, <2>1, <2>2, <3>1 DEF FiLives
  <2>3. FiLives(r)'
    BY <2>1, <2>2 DEF FiLives
  <2> HIDE DEF Kept
  <2> QED BY <1>2, <1>7, <2>1, <2>3, FiMove
<1>8. CASE Fi!Ends(r)
  <2>1. Fi!Set(r, Fi!Idle) /\ FiShaped(Fi!Idle)
    BY <1>8, FiIdleTyped DEF Fi!Ends, FiShaped
  <2> QED BY <1>7, <2>1, FiIdleTyped
<1>9. CASE Fi!ReadArrives(r)
  <2>1. PICK n \in Directory \cup {None}, l \in 0 .. MaxSize :
          \/ Fi!Set(r, [Fi!Idle EXCEPT !.op = "read", !.name = n, !.limit = l, !.pc = "metadata"])
          \/ Fi!Set(r, [Fi!Idle EXCEPT !.op = "read", !.name = n, !.limit = l,
                                       !.pc = "answered", !.answer = "refused", !.fault = Fi!There(n)])
    BY <1>9 DEF Fi!ReadArrives
  <2>2. CASE Fi!Set(r, [Fi!Idle EXCEPT !.op = "read", !.name = n, !.limit = l, !.pc = "metadata"])
    <3> DEFINE q == [Fi!Idle EXCEPT !.op = "read", !.name = n, !.limit = l, !.pc = "metadata"]
    <3>1. /\ q \in FiRequest /\ q.pc = "metadata" /\ q.op = "read" /\ q.name = n
          /\ q.got = 0 /\ q.held = Fi!Gone
      BY FiIdleTyped DEF FiRequest
    <3>2. Fi!Set(r, q)
      BY <2>2
    <3> HIDE DEF q
    <3> QED BY <1>7, <3>1, <3>2 DEF FiShaped, FiReads, Fi!Listing, FiTold, Fi!Tells
  <2>3. CASE Fi!Set(r, [Fi!Idle EXCEPT !.op = "read", !.name = n, !.limit = l,
                                       !.pc = "answered", !.answer = "refused", !.fault = Fi!There(n)])
    <3> DEFINE q == [Fi!Idle EXCEPT !.op = "read", !.name = n, !.limit = l,
                                    !.pc = "answered", !.answer = "refused", !.fault = Fi!There(n)]
    <3>1. /\ q \in FiRequest /\ q.pc = "answered" /\ q.op = "read" /\ q.name = n
          /\ q.answer = "refused"
          /\ ~q.fault => n \in Directory /\ size[n] = Fi!Gone
      BY FiIdleTyped, FiThere DEF FiRequest
    <3>2. Fi!Set(r, q)
      BY <2>3
    <3> HIDE DEF q
    <3> QED BY <1>7, <3>1, <3>2 DEF FiShaped, FiAbout, Fi!Listing, FiTold, Fi!Tells
  <2> QED BY <2>1, <2>2, <2>3
<1>10. CASE Fi!Metadata(r)
  <2>0. /\ fileReq[r].pc = "metadata" /\ fileReq[r].op = "read"
        /\ fileReq[r].got = 0 /\ fileReq[r].held = Fi!Gone
    BY <1>4, <1>10 DEF Fi!Metadata, Fi!Waits, FiLives, FiReads, Fi!Idle
  <2>1. CASE name = None /\ Fi!Answered(r, "bad_request")
    <3> DEFINE q == [fileReq[r] EXCEPT !.pc = "answered", !.answer = "bad_request"]
    <3>1. q \in FiRequest /\ q.pc = "answered" /\ q.answer = "bad_request"
      BY <1>4 DEF FiRequest
    <3>2. Fi!Set(r, q)
      BY <2>1 DEF Fi!Answered
    <3> HIDE DEF q
    <3> QED BY <1>7, <3>1, <3>2 DEF FiShaped, Fi!Listing, FiTold, Fi!Tells
  <2>2. CASE name # None
    <3>1. name \in Directory /\ size[name] \in 0 .. MaxSize /\ size[name] # Fi!Gone
      BY <1>4, <1>5, <1>10, <2>2, FiAssumed DEF Fi!Metadata, Fi!There, FiRequest
    <3>2. CASE size[name] > fileReq[r].limit
      <4> DEFINE q == [fileReq[r] EXCEPT !.pc = "answered", !.answer = "too_large", !.len = size[name]]
      <4>1. /\ q \in FiRequest /\ q.pc = "answered" /\ q.answer = "too_large" /\ q.name = name
            /\ q.limit = fileReq[r].limit /\ q.len = size[name] /\ q.op = "read"
        BY <1>4, <2>0, <3>1 DEF FiRequest
      <4>2. Fi!Set(r, q)
        BY <1>10, <2>2, <3>2 DEF Fi!Metadata
      <4> HIDE DEF q
      <4> QED BY <1>7, <3>1, <3>2, <4>1, <4>2 DEF FiShaped, FiAbout, Fi!Listing, FiTold, Fi!Tells
    <3>3. CASE ~(size[name] > fileReq[r].limit)
      <4> DEFINE q == [fileReq[r] EXCEPT !.pc = "open", !.len = size[name]]
      <4>1. /\ q \in FiRequest /\ q.pc = "open" /\ q.name = name /\ q.op = "read"
            /\ q.len = size[name] /\ q.limit = fileReq[r].limit
            /\ q.got = 0 /\ q.held = Fi!Gone
        BY <1>4, <2>0, <3>1 DEF FiRequest
      <4>2. Fi!Set(r, q)
        BY <1>10, <2>2, <3>3 DEF Fi!Metadata
      <4>3. q.len <= q.limit
        BY <1>4, <3>1, <3>3, <4>1, FiAssumed DEF FiRequest
      <4> HIDE DEF q
      <4> QED BY <1>7, <3>1, <4>1, <4>2, <4>3
              DEF FiShaped, FiAbout, Fi!Listing, FiTold, FiReads, Fi!Tells
    <3> QED BY <3>2, <3>3
  <2> QED BY <1>10, <2>1, <2>2 DEF Fi!Metadata
<1>11. CASE Fi!Open(r)
  <2>1. /\ fileReq[r].pc = "open" /\ fileReq[r].op = "read" /\ FiReads(r)
        /\ name \in Directory /\ size[name] # Fi!Gone
        /\ fileReq[r].got = 0 /\ fileReq[r].held = Fi!Gone /\ fileReq[r].len \in 0 .. MaxSize
    BY <1>4, <1>11, FiAssumed
       DEF Fi!Open, Fi!Waits, Fi!There, FiLives, FiReads, Fi!Idle, FiShaped, FiRequest
  <2> DEFINE q == [fileReq[r] EXCEPT !.pc = "read"]
  <2>2. /\ q \in FiRequest /\ q.pc = "read" /\ q.name = name /\ q.op = "read"
        /\ q.len = fileReq[r].len /\ q.limit = fileReq[r].limit
        /\ q.got = 0 /\ q.held = Fi!Gone
    BY <1>4, <2>1 DEF FiRequest
  <2>3. Fi!Set(r, q)
    BY <1>11 DEF Fi!Open
  <2> HIDE DEF q
  <2>4. FiShaped(q)
    BY <2>1, <2>2 DEF FiShaped
  <2>5. ASSUME Kept(q), UNCHANGED size
        PROVE  FiReads(r)'
    <3>1. /\ filePast[r][name] \subseteq filePast'[r][name] /\ size[name] \in filePast'[r][name]
          /\ fileReq'[r] = q
      BY <2>1, <2>2, <2>5 DEF FiAbout
    <3>2. Fi!Length(r)' = size[name]
      BY <2>2, <2>5, <3>1 DEF Fi!Length
    <3>3. 0 <= fileReq[r].len
      BY <2>1, FiAssumed
    <3> QED BY <2>1, <2>2, <3>1, <3>2, <3>3 DEF FiReads
  <2> QED BY <1>7, <2>2, <2>3, <2>4, <2>5 DEF Fi!Listing, FiTold, Fi!Tells
\* What has been opened, and how long it is now.
<1>20. ASSUME fileReq[r].pc = "read"
       PROVE  /\ fileReq[r].op = "read" /\ FiReads(r) /\ name \in Directory
              /\ Fi!Length(r) \in 0 .. MaxSize /\ Fi!Length(r) # Fi!Gone
              /\ fileReq[r].got \in 0 .. MaxSize
  <2>1. FiReads(r) /\ name \in Directory /\ fileReq[r].held \in Fi!Sizes
    BY <1>4, <1>20 DEF FiLives, FiShaped, FiRequest, Fi!Idle
  <2>2. Fi!Length(r) \in Fi!Sizes
    BY <1>2, <2>1 DEF Fi!Length
  <2> QED BY <1>4, <1>20, <2>1, <2>2, FiAssumed DEF FiReads, FiRequest, Fi!Sizes, Fi!Gone
<1>21. CASE Fi!ReadSome(r)
  <2>1. fileReq[r].pc = "read"
    BY <1>21 DEF Fi!ReadSome, Fi!Waits
  <2>2. PICK k \in fileReq[r].got + 1 .. Fi!Length(r) : Fi!Set(r, [fileReq[r] EXCEPT !.got = k])
    BY <1>21 DEF Fi!ReadSome
  <2> DEFINE q == [fileReq[r] EXCEPT !.got = k]
  <2>3. k \in 0 .. MaxSize /\ k <= Fi!Length(r)
    BY <1>20, <2>1, <2>2, FiAssumed
  <2>4. /\ q \in FiRequest /\ q.pc = "read" /\ q.name = name /\ q.op = "read"
        /\ q.len = fileReq[r].len /\ q.limit = fileReq[r].limit
        /\ q.got = k /\ q.held = fileReq[r].held
    BY <1>4, <1>20, <2>1, <2>3 DEF FiRequest
  <2>5. Fi!Set(r, q)
    BY <2>2
  <2> HIDE DEF q
  <2>6. FiShaped(q)
    BY <1>4, <2>1, <2>4 DEF FiShaped
  <2>7. ASSUME Kept(q), UNCHANGED size
        PROVE  FiReads(r)'
    <3>1. filePast[r][name] \subseteq filePast'[r][name] /\ fileReq'[r] = q
      BY <1>20, <2>1, <2>4, <2>7 DEF FiAbout
    <3>2. Fi!Length(r)' = Fi!Length(r)
      BY <2>4, <2>7, <3>1 DEF Fi!Length
    <3> QED BY <1>20, <2>1, <2>3, <2>4, <3>1, <3>2 DEF FiReads
  <2> QED BY <1>7, <2>4, <2>5, <2>6, <2>7 DEF Fi!Listing, FiTold, Fi!Tells
<1>22. CASE Fi!ReadEnds(r)
  <2>1. fileReq[r].pc = "read" /\ Fi!Length(r) <= fileReq[r].got
    BY <1>22 DEF Fi!ReadEnds, Fi!Waits
  <2>2. PICK a \in {"content", "binary"} :
          Fi!Set(r, [fileReq[r] EXCEPT !.pc = "answered", !.answer = a])
    BY <1>22 DEF Fi!ReadEnds, Fi!Answered
  <2> DEFINE q == [fileReq[r] EXCEPT !.pc = "answered", !.answer = a]
  <2>3. /\ q \in FiRequest /\ q.pc = "answered" /\ q.answer = a /\ q.name = name
        /\ q.limit = fileReq[r].limit /\ q.len = fileReq[r].len /\ q.got = fileReq[r].got
        /\ q.op = "read"
    BY <1>4, <1>20, <2>1 DEF FiRequest
  <2>4. Fi!Set(r, q)
    BY <2>2
  <2> HIDE DEF q
  <2>5. ASSUME Kept(q), UNCHANGED size
        PROVE  FiTold(r)'
    <3> DEFINE sizes == filePast'[r][name] \ {Fi!Gone}
    <3>1. filePast[r][name] \subseteq filePast'[r][name] /\ fileReq'[r] = q
      BY <1>20, <2>1, <2>3, <2>5 DEF FiAbout
    <3>2. /\ fileReq[r].len \in sizes /\ fileReq[r].len <= fileReq[r].limit
          /\ Fi!Length(r) \in sizes /\ \E b \in sizes : fileReq[r].got <= b
      BY <1>20, <2>1, <3>1 DEF FiReads
    <3> QED BY <1>20, <2>1, <2>3, <3>1, <3>2 DEF FiTold, Fi!Tells
  <2> QED BY <1>7, <2>3, <2>4, <2>5 DEF FiShaped, Fi!Listing
<1>12. CASE Fi!CallFails(r)
  <2>1. fileReq[r].op = "read"
    BY <1>4, <1>12 DEF Fi!CallFails, FiLives, FiReads, Fi!Idle
  <2> DEFINE q == [fileReq[r] EXCEPT !.pc = "answered", !.answer = "refused", !.fault = Fi!There(name)]
  <2>2. /\ q \in FiRequest /\ q.pc = "answered" /\ q.answer = "refused" /\ q.name = name
        /\ q.op = "read"
        /\ ~q.fault => name \in Directory /\ size[name] = Fi!Gone
    <3>1. name \in Directory \cup {None}
      BY <1>4 DEF FiRequest
    <3> QED BY <1>4, <2>1, <3>1, FiThere DEF FiRequest
  <2>3. Fi!Set(r, q)
    BY <1>12 DEF Fi!CallFails
  <2> HIDE DEF q
  <2> QED BY <1>7, <2>2, <2>3 DEF FiShaped, FiAbout, Fi!Listing, FiTold, Fi!Tells
<1>13. CASE Fi!BrowseArrives(r)
  <2>1. CASE Fi!Set(r, [Fi!Idle EXCEPT !.op = "browse", !.pc = "walk"])
    <3> DEFINE q == [Fi!Idle EXCEPT !.op = "browse", !.pc = "walk"]
    <3>1. q \in FiRequest /\ q.pc = "walk" /\ q.op = "browse" /\ q.met = {} /\ q.shown = {}
      BY FiIdleTyped DEF FiRequest
    <3>2. Fi!Set(r, q)
      BY <2>1
    <3> HIDE DEF q
    <3> QED BY <1>7, <3>1, <3>2 DEF FiShaped, Fi!Listing, FiTold, FiWalks, Fi!Tells
  <2>2. CASE Fi!Set(r, [Fi!Idle EXCEPT !.op = "browse", !.pc = "answered", !.answer = "refused"])
    <3> DEFINE q == [Fi!Idle EXCEPT !.op = "browse", !.pc = "answered", !.answer = "refused"]
    <3>1. q \in FiRequest /\ q.pc = "answered" /\ q.op = "browse" /\ q.answer = "refused"
      BY FiIdleTyped DEF FiRequest
    <3>2. Fi!Set(r, q)
      BY <2>2
    <3> HIDE DEF q
    <3> QED BY <1>7, <3>1, <3>2 DEF FiShaped, Fi!Listing, FiTold, Fi!Tells
  <2> QED BY <1>13, <2>1, <2>2 DEF Fi!BrowseArrives
<1>14. CASE Fi!Entry(r)
  <2>1. PICK n \in Directory :
          Fi!Set(r, [fileReq[r] EXCEPT !.pc = "stat", !.name = n, !.met = @ \cup {n}])
    BY <1>14 DEF Fi!Entry
  <2> DEFINE q == [fileReq[r] EXCEPT !.pc = "stat", !.name = n, !.met = @ \cup {n}]
  <2>2. /\ q \in FiRequest /\ q.pc = "stat" /\ q.name = n /\ q.shown = fileReq[r].shown
        /\ q.met = fileReq[r].met \cup {n} /\ q.fault = fileReq[r].fault
        /\ q.op = fileReq[r].op
    BY <1>4 DEF FiRequest
  <2>3. Fi!Set(r, q)
    BY <2>1
  <2> HIDE DEF q
  <2>4. FiWalks(r) /\ fileReq[r].pc = "walk"
    BY <1>4, <1>14 DEF Fi!Entry, Fi!Waits, FiLives, Fi!Idle
  <2>5. \A x \in q.shown : x[1] \in Directory
    BY <2>2 DEF FiRequest
  <2>6. ASSUME fileReq'[r] = q,
               \A m \in Directory : filePast[r][m] \subseteq filePast'[r][m]
        PROVE  FiWalks(r)'
    <3>1. \A x \in q.shown : x[2] \in filePast'[r][x[1]]
      BY <2>2, <2>4, <2>5, <2>6 DEF FiWalks
    <3>2. ~q.fault => \A m \in fileReq[r].met : \/ Fi!Gone \in filePast'[r][m]
                                                \/ \E x \in q.shown : x[1] = m
      BY <1>4, <2>2, <2>4, <2>6 DEF FiWalks, FiRequest
    <3> QED BY <2>2, <2>4, <2>6, <3>1, <3>2 DEF FiWalks
  <2> QED BY <1>7, <2>2, <2>3, <2>4, <2>6 DEF FiShaped, FiAbout, FiWalks, Fi!Listing, FiTold, Fi!Tells
<1>15. CASE Fi!Stat(r)
  <2>1. FiWalks(r) /\ fileReq[r].pc = "stat" /\ name \in Directory
    BY <1>4, <1>15 DEF Fi!Stat, Fi!Waits, FiLives, FiWalks, Fi!Idle
  <2>2. \A x \in fileReq[r].shown : x[1] \in Directory
    BY <1>4 DEF FiRequest
  <2>3. ASSUME NEW q \in FiRequest, Fi!Set(r, q), q.pc = "walk",
               q.op = fileReq[r].op, q.met = fileReq[r].met, fileReq[r].shown \subseteq q.shown,
               \A x \in q.shown \ fileReq[r].shown : x = <<name, size[name]>>,
               ~q.fault => ~fileReq[r].fault,
               ~q.fault => size[name] = Fi!Gone \/ <<name, size[name]>> \in q.shown
        PROVE  FiInv'
    <3>1. ASSUME fileReq'[r] = q,
                 \A m \in Directory : /\ filePast[r][m] \subseteq filePast'[r][m]
                                      /\ size[m] \in filePast'[r][m]
          PROVE  FiWalks(r)'
      <4>1. ASSUME NEW x \in q.shown PROVE x[2] \in filePast'[r][x[1]]
        <5>1. CASE x \in fileReq[r].shown
          BY <2>1, <2>2, <3>1, <5>1 DEF FiWalks
        <5>2. CASE x = <<name, size[name]>>
          BY <2>1, <3>1, <5>2
        <5> QED BY <2>3, <5>1, <5>2
      <4>2. ASSUME ~q.fault, NEW m \in fileReq[r].met
            PROVE  Fi!Gone \in filePast'[r][m] \/ \E x \in q.shown : x[1] = m
        <5>1. m \in Directory
          BY <1>4 DEF FiRequest
        <5>2. CASE m = name
          <6>1. CASE size[name] = Fi!Gone
            BY <3>1, <5>1, <5>2, <6>1
          <6>2. CASE <<name, size[name]>> \in q.shown
            <7>1. <<name, size[name]>>[1] = m
              BY <5>2
            <7> QED BY <6>2, <7>1
          <6> QED BY <2>3, <4>2, <6>1, <6>2
        <5>3. CASE m # name
          BY <2>1, <2>3, <3>1, <4>2, <5>1, <5>3 DEF FiWalks
        <5> QED BY <5>2, <5>3
      <4> QED BY <2>1, <2>3, <3>1, <4>1, <4>2 DEF FiWalks
    <3> QED BY <1>7, <2>1, <2>3, <3>1 DEF FiShaped, FiAbout, FiWalks, Fi!Listing, FiTold, Fi!Tells
  <2>4. CASE /\ Fi!There(name)
             /\ Fi!Set(r, [fileReq[r] EXCEPT !.pc = "walk", !.shown = @ \cup {<<name, size[name]>>}])
    <3> DEFINE q == [fileReq[r] EXCEPT !.pc = "walk", !.shown = @ \cup {<<name, size[name]>>}]
    <3>1. {<<name, size[name]>>} \in SUBSET (Directory \X (0 .. MaxSize))
      BY <1>5, <2>1, <2>4, FiThere, FiAssumed
    <3>2. /\ q \in FiRequest /\ q.pc = "walk" /\ q.op = fileReq[r].op
          /\ q.met = fileReq[r].met /\ q.fault = fileReq[r].fault
          /\ q.shown = fileReq[r].shown \cup {<<name, size[name]>>}
      BY <1>4, <3>1 DEF FiRequest
    <3>3. Fi!Set(r, q)
      BY <2>4
    <3> HIDE DEF q
    <3> QED BY <2>3, <3>2, <3>3
  <2>5. CASE Fi!Set(r, [fileReq[r] EXCEPT !.pc = "walk", !.fault = @ \/ Fi!There(name)])
    <3> DEFINE q == [fileReq[r] EXCEPT !.pc = "walk", !.fault = @ \/ Fi!There(name)]
    <3>1. /\ q \in FiRequest /\ q.pc = "walk" /\ q.op = fileReq[r].op
          /\ q.met = fileReq[r].met /\ q.shown = fileReq[r].shown
          /\ ~q.fault => ~fileReq[r].fault /\ size[name] = Fi!Gone
      BY <1>4 DEF FiRequest, Fi!There
    <3>2. Fi!Set(r, q)
      BY <2>5
    <3> HIDE DEF q
    <3> QED BY <2>3, <3>1, <3>2
  <2> QED BY <1>15, <2>4, <2>5 DEF Fi!Stat
\* Either end of the walk; only a break may leave something out.
<1>16. ASSUME NEW q \in FiRequest, Fi!Set(r, q), fileReq[r].pc = "walk",
              q.pc = "answered", q.answer = "listing", q.shown = fileReq[r].shown,
              q.op = fileReq[r].op, q.name = fileReq[r].name,
              ~q.fault => ~fileReq[r].fault,
              ~q.fault => \A n \in Directory \ fileReq[r].met : Fi!Gone \in filePast[r][n] \cup {size[n]}
       PROVE  FiInv'
  <2>1. FiWalks(r)
    BY <1>4, <1>16 DEF FiLives, Fi!Idle
  <2>2. \A x \in fileReq[r].shown : x[1] \in Directory
    BY <1>4 DEF FiRequest
  <2>3. ASSUME fileReq'[r] = q,
               \A m \in Directory : /\ filePast[r][m] \subseteq filePast'[r][m]
                                    /\ size[m] \in filePast'[r][m]
        PROVE  FiListed(r)'
    <3>1. \A x \in q.shown : x[2] \in filePast'[r][x[1]]
      BY <1>16, <2>1, <2>2, <2>3 DEF FiWalks
    <3>2. ASSUME ~q.fault, NEW m \in Directory, Fi!Gone \notin filePast'[r][m]
          PROVE  \E x \in q.shown : x[1] = m
      <4>1. m \in fileReq[r].met
        BY <1>16, <2>3, <3>2
      <4> QED BY <1>16, <2>1, <2>3, <3>2, <4>1 DEF FiWalks
    <3> QED BY <1>16, <2>1, <2>3, <3>1, <3>2 DEF FiWalks, FiListed
  <2> QED BY <1>7, <1>16, <2>1, <2>3 DEF FiShaped, FiAbout, FiWalks, FiTold, Fi!Tells
<1>17. CASE Fi!WalkEnds(r)
  <2> DEFINE q == [fileReq[r] EXCEPT !.pc = "answered", !.answer = "listing"]
  <2>1. /\ q \in FiRequest /\ q.pc = "answered" /\ q.answer = "listing"
        /\ q.shown = fileReq[r].shown /\ q.op = fileReq[r].op /\ q.name = name
        /\ q.fault = fileReq[r].fault
    BY <1>4 DEF FiRequest
  <2>2. Fi!Set(r, q) /\ fileReq[r].pc = "walk"
    BY <1>17 DEF Fi!WalkEnds, Fi!Answered, Fi!Waits
  <2>3. \A n \in Directory \ fileReq[r].met : Fi!Gone \in filePast[r][n] \cup {size[n]}
    BY <1>17 DEF Fi!WalkEnds
  <2> HIDE DEF q
  <2> QED BY <1>16, <2>1, <2>2, <2>3
<1>18. CASE Fi!WalkBreaks(r)
  <2> DEFINE q == [fileReq[r] EXCEPT !.pc = "answered", !.answer = "listing", !.fault = TRUE]
  <2>1. /\ q \in FiRequest /\ q.pc = "answered" /\ q.answer = "listing"
        /\ q.shown = fileReq[r].shown /\ q.op = fileReq[r].op /\ q.name = name
        /\ q.fault
    BY <1>4 DEF FiRequest
  <2>2. Fi!Set(r, q) /\ fileReq[r].pc = "walk"
    BY <1>18 DEF Fi!WalkBreaks, Fi!Waits
  <2> HIDE DEF q
  <2> QED BY <1>16, <2>1, <2>2
<1> QED BY <1>8, <1>9, <1>10, <1>11, <1>12, <1>13, <1>14, <1>15, <1>17, <1>18, <1>21, <1>22
        DEF Fi!Read, Fi!Browse

-----------------------------------------------------------------------------
(* Ids.                                                                    *)

IdRequest == [pc : {"idle", "ping", "list", "jail", "set", "answered"},
              op : {None, "status", "ban", "unban"},
              jail : Jails \cup {None}, ip : Id!Addresses \cup {None},
              open : BOOLEAN, todo : SUBSET Jails,
              shown : SUBSET (Jails \X (Id!Addresses \cup {Head6})),
              answer : {None, "overview", "down", "ok", "failed", "error", "bad_request"},
              fault : BOOLEAN]

\* What a stopped fail2ban, and a stopped jail, leave of their bans.
IdHost ==
  /\ idsUp \in BOOLEAN /\ jails \subseteq Jails /\ bans \subseteq jails \X Id!Addresses
  /\ ~idsUp => bans = {}

\* The parsers read the layout that fail2ban prints.
IdReadable == ListAtSecondColon /\ BareList

\* An overview that is put together: right of the jails it has asked about.
IdGathers(r) ==
  /\ idsReq[r].shown \cap (Jails \X V4) \subseteq idsEver[r]
  /\ IdReadable /\ ~idsReq[r].fault =>
       \A b \in idsAlways[r] :
         \/ b[1] \in idsReq[r].todo
         \/ b \in idsReq[r].shown
         \/ \E c \in idsEver[r] : c[1] = b[1] /\ c[2] \in V6

IdSet(r) ==
  IF idsReq[r].op = "ban" THEN <<idsReq[r].jail, idsReq[r].ip>> \in idsEver[r]
  ELSE <<idsReq[r].jail, idsReq[r].ip>> \notin idsAlways[r]

IdLives(r) ==
  idsReq[r] # Id!Idle =>
    /\ idsReq[r].pc # "idle"
    /\ idsAlways[r] \subseteq bans /\ bans \subseteq idsEver[r]
    /\ idsReq[r].pc \in {"ping", "list"} => idsReq[r].shown = {} /\ idsReq[r].todo = {}
    /\ idsReq[r].pc = "jail" => IdGathers(r)
    /\ idsReq[r].pc = "set" => idsReq[r].ip \in Id!Addresses
    /\ Id!Overviewed(r) => IdGathers(r) /\ idsReq[r].todo = {}
    /\ idsReq[r].pc = "answered" /\ idsReq[r].answer = "ok" => IdSet(r)

IdInv ==
  /\ Id!TypeOK /\ IdHost
  /\ \A r \in OneSlot : IdLives(r)

LEMMA IdIdleTyped == Id!Idle \in IdRequest /\ Id!Idle.pc = "idle" /\ Id!Idle.op = None
                     /\ Id!Idle.todo = {} /\ Id!Idle.shown = {} /\ ~Id!Idle.fault /\ ~Id!Idle.open
BY DEF Id!Idle, IdRequest

LEMMA IdInit ==
  ASSUME Id!Init
  PROVE  IdInv
BY IdIdleTyped DEF Id!Init, IdInv, Id!TypeOK, IdHost, IdLives, IdRequest

LEMMA IdObserved ==
  ASSUME Id!Observe, NEW r \in OneSlot, idsReq'[r].pc # "idle"
  PROVE  /\ idsAlways'[r] \subseteq bans' /\ bans' \subseteq idsEver'[r]
         /\ idsReq[r] # Id!Idle =>
              idsAlways'[r] \subseteq idsAlways[r] /\ idsEver[r] \subseteq idsEver'[r]
         /\ idsReq[r] = Id!Idle => idsAlways'[r] \subseteq bans /\ bans \subseteq idsEver'[r]
BY DEF Id!Observe

\* A request is gone, or as it was except that its client may have left a child.
IdStays(r) ==
  \/ idsReq'[r] = Id!Idle
  \/ idsReq'[r] = idsReq[r]
  \/ idsReq[r].pc = "set" /\ idsReq'[r] = [idsReq[r] EXCEPT !.open = FALSE]

LEMMA IdUntouched ==
  ASSUME IdInv, Id!Observe, NEW r \in OneSlot, IdStays(r)
  PROVE  /\ IdLives(r)'
         /\ idsReq'[r] \in IdRequest
         /\ ~idsReq'[r].open => idsReq'[r].pc = "set" \/ idsReq'[r] = Id!Idle
<1>1. idsReq[r] \in IdRequest /\ IdLives(r)
      /\ (~idsReq[r].open => idsReq[r].pc = "set" \/ idsReq[r] = Id!Idle)
  BY DEF IdInv, Id!TypeOK, IdRequest
<1>2. CASE idsReq'[r] = Id!Idle
  BY <1>2, IdIdleTyped DEF IdLives
<1>3. CASE idsReq'[r] # Id!Idle /\ idsReq'[r] = idsReq[r]
  <2>1. /\ idsAlways'[r] \subseteq bans' /\ bans' \subseteq idsEver'[r]
        /\ idsAlways'[r] \subseteq idsAlways[r] /\ idsEver[r] \subseteq idsEver'[r]
    BY <1>1, <1>3, IdObserved DEF IdLives
  <2>2. IdGathers(r) => IdGathers(r)'
    BY <1>3, <2>1 DEF IdGathers
  <2>3. IdSet(r) => IdSet(r)'
    BY <1>3, <2>1 DEF IdSet
  <2> QED BY <1>1, <1>3, <2>1, <2>2, <2>3 DEF IdLives, Id!Overviewed
<1>4. CASE idsReq[r].pc = "set" /\ idsReq'[r] = [idsReq[r] EXCEPT !.open = FALSE]
  <2>1. /\ idsReq'[r] \in IdRequest /\ idsReq'[r].pc = "set" /\ idsReq'[r].ip = idsReq[r].ip
        /\ idsReq[r] # Id!Idle
    BY <1>1, <1>4, IdIdleTyped DEF IdRequest
  <2>2. idsAlways'[r] \subseteq bans' /\ bans' \subseteq idsEver'[r]
    BY <2>1, IdObserved
  <2> QED BY <1>1, <1>4, <2>1, <2>2 DEF IdLives, Id!Overviewed
<1> QED BY <1>2, <1>3, <1>4 DEF IdStays

\* What the history holds is bans of jails.
LEMMA IdHistory ==
  ASSUME IdInv, Id!Observe, IdHost'
  PROVE  idsEver' \in [OneSlot -> SUBSET Id!Pairs] /\ idsAlways' \in [OneSlot -> SUBSET Id!Pairs]
<1>1. bans \in SUBSET Id!Pairs /\ bans' \in SUBSET Id!Pairs
  BY DEF IdInv, IdHost, Id!Pairs
<1>2. \A r \in OneSlot : idsEver[r] \in SUBSET Id!Pairs /\ idsAlways[r] \in SUBSET Id!Pairs
  BY DEF IdInv, Id!TypeOK
<1> QED BY <1>1, <1>2 DEF Id!Observe

LEMMA IdMove ==
  ASSUME IdInv, Id!Observe, IdHost',
         NEW r \in OneSlot, NEW q \in IdRequest, idsReq' = [idsReq EXCEPT ![r] = q],
         ~q.open => q.pc = "set" \/ q = Id!Idle,
         IdLives(r)'
  PROVE  IdInv'
<1>1. idsReq \in [OneSlot -> IdRequest]
  BY DEF IdInv, Id!TypeOK, IdRequest
<1>2. idsReq' \in [OneSlot -> IdRequest] /\ idsReq'[r] = q
  BY <1>1
<1>3. ASSUME NEW u \in OneSlot \ {r}
      PROVE  idsReq'[u] = idsReq[u] /\ IdLives(u)'
  <2>1. idsReq'[u] = idsReq[u]
    BY <1>1
  <2> QED BY <2>1, IdUntouched DEF IdStays
<1>4. Id!TypeOK'
  BY <1>2, <1>3, IdHistory DEF IdInv, Id!TypeOK, IdHost, IdRequest
<1> QED BY <1>2, <1>3, <1>4 DEF IdInv

LEMMA IdStep ==
  ASSUME IdInv, [Id!Next]_Id!vars
  PROVE  IdInv'
<1>1. CASE UNCHANGED Id!vars
  <2>1. /\ idsUp' = idsUp /\ jails' = jails /\ bans' = bans
        /\ idsReq' = idsReq /\ idsEver' = idsEver /\ idsAlways' = idsAlways
    BY <1>1 DEF Id!vars
  <2>2. Id!TypeOK' /\ IdHost'
    BY <2>1 DEF IdInv, Id!TypeOK, IdHost
  <2>3. ASSUME NEW r \in OneSlot
        PROVE  IdLives(r)'
    <3>1. (IdGathers(r)' <=> IdGathers(r)) /\ (IdSet(r)' <=> IdSet(r))
      BY <2>1 DEF IdGathers, IdSet
    <3>2. IdLives(r)
      BY DEF IdInv
    <3> QED BY <2>1, <3>1, <3>2 DEF IdLives, Id!Overviewed
  <2> QED BY <2>2, <2>3 DEF IdInv
<1> SUFFICES ASSUME Id!Next PROVE IdInv'
  BY <1>1
<1>2. /\ Id!Observe /\ IdHost /\ idsReq \in [OneSlot -> IdRequest]
      /\ None \notin Id!Addresses /\ Head6 \notin V4
  BY PartsAssumption DEF Id!Next, IdInv, Id!TypeOK, IdRequest, PartsAssumption, Id!IdsAssumption, Id!Addresses
\* Of many requests at once, none gets further.
<1>3. ASSUME \A u \in OneSlot : IdStays(u), idsReq' \in [OneSlot -> IdRequest], IdHost'
      PROVE  IdInv'
  <2>1. Id!TypeOK'
    BY <1>2, <1>3, IdUntouched, IdHistory DEF IdInv, Id!TypeOK, IdHost, IdRequest
  <2> QED BY <1>2, <1>3, <2>1, IdUntouched DEF IdInv
<1>4. CASE Id!Fail2Ban
  <2>1. IdHost'
    <3>1. CASE \E b \in Id!Pairs : /\ idsUp /\ b[1] \in jails
                                   /\ bans' = IF b \in bans THEN bans \ {b} ELSE bans \cup {b}
                                   /\ UNCHANGED <<idsUp, jails>>
      BY <1>2, <3>1 DEF IdHost, Id!Pairs
    <3>2. CASE \E j \in jails : /\ jails' = jails \ {j}
                                /\ bans' = {b \in bans : b[1] # j}
                                /\ UNCHANGED idsUp
      BY <1>2, <3>2 DEF IdHost
    <3>3. CASE \E j \in Jails \ jails : jails' = jails \cup {j} /\ UNCHANGED <<idsUp, bans>>
      BY <1>2, <3>3 DEF IdHost
    <3>4. CASE idsUp' = ~idsUp /\ bans' = {} /\ UNCHANGED jails
      BY <1>2, <3>4 DEF IdHost
    <3> QED BY <1>4, <3>1, <3>2, <3>3, <3>4 DEF Id!Fail2Ban
  <2> QED BY <1>2, <1>3, <1>4, <2>1 DEF Id!Fail2Ban, IdStays
<1>5. CASE Id!Crash
  <2>1. \A u \in OneSlot : idsReq'[u] = Id!Dropped(idsReq[u]) /\ IdStays(u)
    BY <1>2, <1>5 DEF Id!Crash, Id!Dropped, IdStays
  <2>2. \A u \in OneSlot : Id!Dropped(idsReq[u]) \in IdRequest
    <3> SUFFICES ASSUME NEW u \in OneSlot PROVE Id!Dropped(idsReq[u]) \in IdRequest
      OBVIOUS
    <3>1. idsReq[u] \in IdRequest
      BY <1>2
    <3>2. [idsReq[u] EXCEPT !.open = FALSE] \in IdRequest
      BY <3>1 DEF IdRequest
    <3> QED BY <3>2, IdIdleTyped DEF Id!Dropped
  <2>3. idsReq' \in [OneSlot -> IdRequest]
    BY <1>5, <2>2 DEF Id!Crash
  <2>4. IdHost'
    BY <1>2, <1>5 DEF Id!Crash, Id!fail2ban, IdHost
  <2> QED BY <1>3, <2>1, <2>3, <2>4
<1> SUFFICES ASSUME NEW r \in OneSlot,
                    Id!Overview(r) \/ Id!Command(r) \/ Id!ExecFails(r) \/ Id!Respond(r) \/ Id!Disconnect(r)
             PROVE  IdInv'
  BY <1>4, <1>5 DEF Id!Next, Id!Step
<1>6. /\ idsReq[r] \in IdRequest /\ IdLives(r)
      /\ ~idsReq[r].open => idsReq[r].pc = "set" \/ idsReq[r] = Id!Idle
  BY <1>2 DEF IdInv, Id!TypeOK
\* The request of r becomes q.
<1>7. ASSUME NEW q \in IdRequest, Id!Set(r, q), IdHost',
             ~q.open => q.pc = "set" \/ q = Id!Idle,
             q # Id!Idle => q.pc # "idle",
             q.pc \in {"ping", "list"} => q.shown = {} /\ q.todo = {},
             q.pc = "set" => q.ip \in Id!Addresses,
             q.pc = "answered" /\ q.answer = "overview" => q.todo = {},
             ASSUME idsReq'[r] = q,
                    idsAlways'[r] \subseteq bans', bans' \subseteq idsEver'[r],
                    idsReq[r] # Id!Idle =>
                      idsAlways'[r] \subseteq idsAlways[r] /\ idsEver[r] \subseteq idsEver'[r]
             PROVE  /\ q.pc = "jail" \/ (q.pc = "answered" /\ q.answer = "overview") => IdGathers(r)'
                    /\ q.pc = "answered" /\ q.answer = "ok" => IdSet(r)'
      PROVE  IdInv'
  <2>1. idsReq'[r] = q /\ idsReq' = [idsReq EXCEPT ![r] = q]
    BY <1>2, <1>7 DEF Id!Set
  <2>2. CASE q = Id!Idle
    <3>1. IdLives(r)'
      BY <2>1, <2>2 DEF IdLives
    <3> QED BY <1>2, <1>7, <2>1, <3>1, IdMove
  <2>3. CASE q # Id!Idle
    <3>1. /\ idsAlways'[r] \subseteq bans' /\ bans' \subseteq idsEver'[r]
          /\ idsReq[r] # Id!Idle =>
               idsAlways'[r] \subseteq idsAlways[r] /\ idsEver[r] \subseteq idsEver'[r]
      BY <1>2, <1>7, <2>1, <2>3, IdObserved
    <3>2. /\ q.pc = "jail" \/ (q.pc = "answered" /\ q.answer = "overview") => IdGathers(r)'
          /\ q.pc = "answered" /\ q.answer = "ok" => IdSet(r)'
      BY <1>7, <2>1, <3>1
    <3>3. IdLives(r)'
      BY <1>7, <2>1, <3>1, <3>2 DEF IdLives, Id!Overviewed
    <3> QED BY <1>2, <1>7, <2>1, <3>3, IdMove
  <2> QED BY <2>2, <2>3
\* Most answers say nothing of the bans.
<1>8. ASSUME NEW a \in {"down", "failed", "error"}, NEW f \in BOOLEAN, IdHost', idsReq[r].open,
             Id!Set(r, [idsReq[r] EXCEPT !.pc = "answered", !.answer = a, !.todo = {}, !.fault = f])
      PROVE  IdInv'
  <2> DEFINE q == [idsReq[r] EXCEPT !.pc = "answered", !.answer = a, !.todo = {}, !.fault = f]
  <2>1. q \in IdRequest /\ q.pc = "answered" /\ q.answer = a /\ q.open
    <3>1. idsReq[r] \in IdRequest
      BY <1>6
    <3> QED BY <1>8, <3>1 DEF IdRequest
  <2>2. Id!Set(r, q)
    BY <1>8
  <2> HIDE DEF q
  <2> QED BY <1>7, <1>8, <2>1, <2>2
<1>9. ASSUME NEW a \in {"failed", "error"}, IdHost', idsReq[r].open, Id!Answered(r, a)
      PROVE  IdInv'
  <2>1. idsReq[r].fault \in BOOLEAN
    BY <1>6 DEF IdRequest
  <2>2. [idsReq[r] EXCEPT !.pc = "answered", !.answer = a, !.todo = {}]
          = [idsReq[r] EXCEPT !.pc = "answered", !.answer = a, !.todo = {}, !.fault = idsReq[r].fault]
    BY <1>6 DEF IdRequest
  <2> QED BY <1>8, <1>9, <2>1, <2>2 DEF Id!Answered
<1>10. ASSUME Id!Set(r, Id!Idle), IdHost'
       PROVE  IdInv'
  BY <1>7, <1>10, IdIdleTyped
<1>11. UNCHANGED Id!fail2ban => IdHost' /\ bans' = bans
  BY <1>2 DEF Id!fail2ban, IdHost
<1>12. CASE Id!StatusArrives(r)
  <2> DEFINE q == [Id!Idle EXCEPT !.pc = "ping", !.op = "status", !.open = TRUE]
  <2>1. q \in IdRequest /\ q.pc = "ping" /\ q.open /\ q.shown = {} /\ q.todo = {}
    BY IdIdleTyped DEF IdRequest
  <2>2. Id!Set(r, q) /\ IdHost'
    BY <1>11, <1>12 DEF Id!StatusArrives
  <2> HIDE DEF q
  <2> QED BY <1>7, <2>1, <2>2
<1>13. CASE Id!CommandArrives(r)
  <2>1. PICK op \in {"ban", "unban"}, j \in Jails, ip \in Id!Addresses, valid \in BOOLEAN :
          LET q == [Id!Idle EXCEPT !.op = op, !.jail = j, !.ip = ip, !.open = TRUE]
          IN Id!Set(r, IF valid THEN [q EXCEPT !.pc = "set"]
                       ELSE [q EXCEPT !.pc = "answered", !.answer = "bad_request"])
    BY <1>13 DEF Id!CommandArrives
  <2>2. IdHost'
    BY <1>11, <1>13 DEF Id!CommandArrives
  <2> DEFINE q == [Id!Idle EXCEPT !.op = op, !.jail = j, !.ip = ip, !.open = TRUE]
             s == [q EXCEPT !.pc = "set"]
             b == [q EXCEPT !.pc = "answered", !.answer = "bad_request"]
  <2>3. Id!Set(r, s) \/ Id!Set(r, b)
    BY <2>1
  <2>4. q \in IdRequest /\ q.open /\ q.ip = ip
    BY IdIdleTyped DEF IdRequest
  <2> HIDE DEF q
  <2>5. /\ s \in IdRequest /\ s.pc = "set" /\ s.open /\ s.ip = ip
        /\ b \in IdRequest /\ b.pc = "answered" /\ b.open /\ b.answer = "bad_request"
    BY <2>4 DEF IdRequest
  <2> HIDE DEF s, b
  <2>6. CASE Id!Set(r, s)
    BY <1>7, <2>2, <2>5, <2>6
  <2>7. CASE Id!Set(r, b)
    BY <1>7, <2>2, <2>5, <2>7
  <2> QED BY <2>3, <2>6, <2>7
\* What lives, except for children that set a ban, has its client.
<1>14. ASSUME idsReq[r].pc \in {"ping", "list", "jail"}
       PROVE  /\ idsReq[r] # Id!Idle /\ idsReq[r].open
              /\ idsReq[r].pc \in {"ping", "list"} => idsReq[r].shown = {} /\ idsReq[r].todo = {}
              /\ idsReq[r].pc = "jail" => IdGathers(r)
  BY <1>6, <1>14, IdIdleTyped DEF IdLives
<1>15. CASE Id!Ping(r)
  <2>1. /\ idsReq[r].pc = "ping" /\ idsReq[r].open /\ IdHost'
        /\ idsReq[r].shown = {} /\ idsReq[r].todo = {} /\ idsUp \in BOOLEAN
    BY <1>2, <1>11, <1>14, <1>15 DEF Id!Ping, Id!Waits, IdHost
  <2>2. CASE Id!Set(r, [idsReq[r] EXCEPT !.pc = "list"])
    <3> DEFINE q == [idsReq[r] EXCEPT !.pc = "list"]
    <3>1. q \in IdRequest /\ q.pc = "list" /\ q.open /\ q.shown = {} /\ q.todo = {}
      BY <1>6, <2>1 DEF IdRequest
    <3>2. Id!Set(r, q)
      BY <2>2
    <3> HIDE DEF q
    <3> QED BY <1>7, <2>1, <3>1, <3>2
  <2>3. CASE Id!Set(r, [idsReq[r] EXCEPT !.pc = "answered", !.answer = "down", !.fault = idsUp])
    <3>1. [idsReq[r] EXCEPT !.pc = "answered", !.answer = "down", !.fault = idsUp]
            = [idsReq[r] EXCEPT !.pc = "answered", !.answer = "down", !.todo = {}, !.fault = idsUp]
      BY <1>6, <2>1 DEF IdRequest
    <3> QED BY <1>8, <2>1, <2>3, <3>1
  <2> QED BY <1>15, <2>2, <2>3 DEF Id!Ping
<1>16. CASE Id!ListJails(r)
  <2>1. /\ idsReq[r].pc = "list" /\ idsReq[r].open /\ IdHost' /\ bans' = bans
        /\ idsReq[r].shown = {} /\ idsReq[r].todo = {} /\ Id!Listed \subseteq Jails
        /\ IdReadable => \A x \in bans : x[1] \in Id!Listed
    BY <1>2, <1>11, <1>14, <1>16 DEF Id!ListJails, Id!Waits, Id!Listed, IdHost, IdReadable
  <2>2. CASE Id!Set(r, [idsReq[r] EXCEPT !.pc = "jail", !.todo = Id!Listed])
    <3> DEFINE q == [idsReq[r] EXCEPT !.pc = "jail", !.todo = Id!Listed]
    <3>1. q \in IdRequest /\ q.pc = "jail" /\ q.open /\ q.shown = {} /\ q.todo = Id!Listed
      BY <1>6, <2>1 DEF IdRequest
    <3>2. Id!Set(r, q)
      BY <2>2
    <3> HIDE DEF q
    <3> QED BY <1>7, <2>1, <3>1, <3>2 DEF IdGathers
  <2>3. CASE Id!Set(r, [idsReq[r] EXCEPT !.pc = "jail", !.fault = TRUE])
    <3> DEFINE q == [idsReq[r] EXCEPT !.pc = "jail", !.fault = TRUE]
    <3>1. q \in IdRequest /\ q.pc = "jail" /\ q.open /\ q.shown = {} /\ q.fault
      BY <1>6, <2>1 DEF IdRequest
    <3>2. Id!Set(r, q)
      BY <2>3
    <3> HIDE DEF q
    <3> QED BY <1>7, <2>1, <3>1, <3>2 DEF IdGathers
  <2> QED BY <1>16, <2>2, <2>3 DEF Id!ListJails
<1>17. CASE Id!JailStatus(r)
  <2>1. /\ idsReq[r].pc = "jail" /\ idsReq[r] # Id!Idle /\ idsReq[r].open /\ IdHost' /\ bans' = bans
        /\ IdGathers(r) /\ idsReq[r].todo \subseteq Jails
    BY <1>6, <1>11, <1>14, <1>17 DEF Id!JailStatus, Id!Waits, IdRequest
  <2>2. PICK j \in idsReq[r].todo :
          \/ /\ idsUp /\ j \in jails
             /\ \E s \in Id!Read(j) :
                  Id!Set(r, [idsReq[r] EXCEPT !.todo = @ \ {j}, !.shown = @ \cup s])
          \/ Id!Set(r, [idsReq[r] EXCEPT !.todo = @ \ {j}, !.fault = @ \/ (idsUp /\ j \in jails)])
    BY <1>17 DEF Id!JailStatus
  \* Whatever the parser made of the output for j.
  <2>3. ASSUME NEW q \in IdRequest, Id!Set(r, q), q.pc = "jail", q.open,
               q.todo = idsReq[r].todo \ {j}, idsReq[r].shown \subseteq q.shown,
               \A x \in q.shown \ idsReq[r].shown : x[2] # Head6 => x \in bans,
               ~q.fault => ~idsReq[r].fault,
               IdReadable /\ ~q.fault => \A x \in bans : x[1] = j =>
                             x \in q.shown \/ \E c \in bans : c[1] = j /\ c[2] \in V6
        PROVE  IdInv'
    <3>1. ASSUME idsReq'[r] = q,
                 idsAlways'[r] \subseteq bans, bans \subseteq idsEver'[r],
                 idsAlways'[r] \subseteq idsAlways[r], idsEver[r] \subseteq idsEver'[r]
          PROVE  IdGathers(r)'
      <4>1. ASSUME NEW x \in q.shown \cap (Jails \X V4) PROVE x \in idsEver'[r]
        <5>1. x[2] # Head6
          BY <1>2
        <5> QED BY <2>1, <2>3, <3>1, <5>1 DEF IdGathers
      <4>2. ASSUME IdReadable, ~q.fault, NEW x \in idsAlways'[r]
            PROVE  \/ x[1] \in q.todo \/ x \in q.shown
                   \/ \E c \in idsEver'[r] : c[1] = x[1] /\ c[2] \in V6
        <5>1. CASE x[1] = j
          BY <2>3, <3>1, <4>2, <5>1
        <5>2. CASE x[1] # j
          BY <2>1, <2>3, <3>1, <4>2, <5>2 DEF IdGathers
        <5> QED BY <5>1, <5>2
      <4> QED BY <3>1, <4>1, <4>2 DEF IdGathers
    <3> QED BY <1>7, <2>1, <2>3, <3>1
  <2>4. CASE /\ idsUp /\ j \in jails
             /\ \E s \in Id!Read(j) :
                  Id!Set(r, [idsReq[r] EXCEPT !.todo = @ \ {j}, !.shown = @ \cup s])
    <3>1. PICK ips \in Id!Readings(Id!BannedIn(j)) :
            Id!Set(r, [idsReq[r] EXCEPT !.todo = @ \ {j}, !.shown = @ \cup ({j} \X ips)])
      BY <2>4 DEF Id!Read
    <3>2. /\ ips \subseteq Id!BannedIn(j) \cup {Head6}
          /\ IdReadable => \/ ips = Id!BannedIn(j)
                           \/ \E a \in Id!BannedIn(j) : a \in V6
      BY DEF Id!Readings, IdReadable
    <3>3. \A a \in Id!BannedIn(j) : <<j, a>> \in bans /\ a \in Id!Addresses
      <4> SUFFICES ASSUME NEW x \in bans, x[1] = j PROVE <<j, x[2]>> \in bans /\ x[2] \in Id!Addresses
        BY DEF Id!BannedIn
      <4>1. x \in jails \X Id!Addresses
        BY <1>2 DEF IdHost
      <4> QED BY <4>1
    <3>4. \A x \in bans : x[1] = j => x[2] \in Id!BannedIn(j) /\ x = <<j, x[2]>>
      <4> SUFFICES ASSUME NEW x \in bans, x[1] = j PROVE x[2] \in Id!BannedIn(j) /\ x = <<j, x[2]>>
        OBVIOUS
      <4>1. x \in jails \X Id!Addresses
        BY <1>2 DEF IdHost
      <4> QED BY <4>1 DEF Id!BannedIn
    <3> DEFINE q == [idsReq[r] EXCEPT !.todo = @ \ {j}, !.shown = @ \cup ({j} \X ips)]
    <3>5. {j} \X ips \in SUBSET (Jails \X (Id!Addresses \cup {Head6}))
      BY <2>1, <3>2, <3>3
    <3>6. /\ q \in IdRequest /\ q.pc = "jail" /\ q.open /\ q.todo = idsReq[r].todo \ {j}
          /\ q.shown = idsReq[r].shown \cup ({j} \X ips) /\ q.fault = idsReq[r].fault
      BY <1>6, <2>1, <3>5 DEF IdRequest
    <3>7. Id!Set(r, q)
      BY <3>1
    <3> HIDE DEF q
    <3>8. \A x \in {j} \X ips : x[2] # Head6 => x \in bans
      BY <3>2, <3>3
    <3>9. ASSUME IdReadable
          PROVE  \A x \in bans : x[1] = j => x \in q.shown \/ \E c \in bans : c[1] = j /\ c[2] \in V6
      <4>1. CASE ips = Id!BannedIn(j)
        BY <3>4, <3>6, <4>1
      <4>2. CASE \E a \in Id!BannedIn(j) : a \in V6
        <5>1. PICK a \in Id!BannedIn(j) : a \in V6
          BY <4>2
        <5>2. <<j, a>> \in bans /\ <<j, a>>[1] = j /\ <<j, a>>[2] \in V6
          BY <3>3, <5>1
        <5> QED BY <5>2
      <4> QED BY <3>2, <3>9, <4>1, <4>2
    <3> QED BY <2>3, <3>6, <3>7, <3>8, <3>9
  <2>5. CASE Id!Set(r, [idsReq[r] EXCEPT !.todo = @ \ {j}, !.fault = @ \/ (idsUp /\ j \in jails)])
    <3> DEFINE q == [idsReq[r] EXCEPT !.todo = @ \ {j}, !.fault = @ \/ (idsUp /\ j \in jails)]
    <3>1. /\ q \in IdRequest /\ q.pc = "jail" /\ q.open /\ q.todo = idsReq[r].todo \ {j}
          /\ q.shown = idsReq[r].shown
          /\ ~q.fault => ~idsReq[r].fault /\ ~(idsUp /\ j \in jails)
      BY <1>6, <2>1 DEF IdRequest
    <3>2. Id!Set(r, q)
      BY <2>5
    <3>3. ~(idsUp /\ j \in jails) => \A x \in bans : x[1] # j
      BY <1>2 DEF IdHost
    <3> HIDE DEF q
    <3> QED BY <2>3, <3>1, <3>2, <3>3
  <2> QED BY <2>2, <2>4, <2>5
<1>18. CASE Id!StatusReturns(r)
  <2>1. /\ idsReq[r].pc = "jail" /\ idsReq[r].open /\ IdHost' /\ bans' = bans
        /\ IdGathers(r) /\ idsReq[r].todo = {} /\ idsReq[r] # Id!Idle
    BY <1>11, <1>14, <1>18 DEF Id!StatusReturns, Id!Waits
  <2> DEFINE q == [idsReq[r] EXCEPT !.pc = "answered", !.answer = "overview", !.todo = {}]
  <2>2. /\ q \in IdRequest /\ q.pc = "answered" /\ q.answer = "overview" /\ q.todo = {} /\ q.open
        /\ q.shown = idsReq[r].shown /\ q.fault = idsReq[r].fault
    BY <1>6, <2>1 DEF IdRequest
  <2>3. Id!Set(r, q)
    BY <1>18 DEF Id!StatusReturns, Id!Answered
  <2> HIDE DEF q
  <2>4. ASSUME idsReq'[r] = q,
               idsAlways'[r] \subseteq idsAlways[r], idsEver[r] \subseteq idsEver'[r]
        PROVE  IdGathers(r)'
    BY <2>1, <2>2, <2>4 DEF IdGathers
  <2> QED BY <1>7, <2>1, <2>2, <2>3, <2>4
<1>19. CASE Id!SetBan(r)
  <2>1. /\ idsReq[r].pc = "set" /\ idsUp /\ idsReq[r].jail \in jails /\ idsReq[r].ip \in Id!Addresses
        /\ idsUp' = idsUp /\ jails' = jails
        /\ bans' = IF idsReq[r].op = "ban" THEN bans \cup {<<idsReq[r].jail, idsReq[r].ip>>}
                   ELSE bans \ {<<idsReq[r].jail, idsReq[r].ip>>}
    BY <1>6, <1>19, IdIdleTyped DEF Id!SetBan, Id!Waits, IdLives
  <2>2. IdHost'
    BY <1>2, <2>1 DEF IdHost
  <2>3. CASE idsReq[r].open
    <3> DEFINE q == [idsReq[r] EXCEPT !.pc = "answered", !.answer = "ok", !.todo = {}]
    <3>1. /\ q \in IdRequest /\ q.pc = "answered" /\ q.answer = "ok" /\ q.open
          /\ q.op = idsReq[r].op /\ q.jail = idsReq[r].jail /\ q.ip = idsReq[r].ip
      BY <1>6, <2>3 DEF IdRequest
    <3>2. Id!Set(r, q)
      BY <1>19, <2>3 DEF Id!SetBan, Id!Exits, Id!Answered
    <3> HIDE DEF q
    <3>3. ASSUME idsReq'[r] = q, idsAlways'[r] \subseteq bans', bans' \subseteq idsEver'[r]
          PROVE  IdSet(r)'
      BY <2>1, <3>1, <3>3 DEF IdSet
    <3> QED BY <1>7, <2>2, <3>1, <3>2, <3>3
  <2>4. CASE ~idsReq[r].open
    BY <1>10, <1>19, <2>2, <2>4 DEF Id!SetBan, Id!Exits
  <2> QED BY <2>3, <2>4
<1>20. CASE Id!SetFails(r)
  BY <1>9, <1>10, <1>11, <1>20 DEF Id!SetFails, Id!Exits
<1>21. CASE Id!ExecFails(r)
  BY <1>9, <1>11, <1>21 DEF Id!ExecFails
<1>22. CASE Id!Respond(r)
  BY <1>10, <1>11, <1>22 DEF Id!Respond
<1>23. CASE Id!Disconnect(r)
  <2>1. CASE idsReq[r].pc = "set"
    <3> DEFINE q == [idsReq[r] EXCEPT !.open = FALSE]
    <3>1. q \in IdRequest /\ q.pc = "set" /\ q.ip \in Id!Addresses
      BY <1>6, <2>1, IdIdleTyped DEF IdRequest, IdLives
    <3>2. Id!Set(r, q) /\ IdHost'
      BY <1>11, <1>23, <2>1 DEF Id!Disconnect, Id!Dropped
    <3> HIDE DEF q
    <3> QED BY <1>7, <3>1, <3>2
  <2>2. CASE idsReq[r].pc # "set"
    BY <1>10, <1>11, <1>23, <2>2 DEF Id!Disconnect, Id!Dropped
  <2> QED BY <2>1, <2>2
<1> QED BY <1>12, <1>13, <1>15, <1>16, <1>17, <1>18, <1>19, <1>20, <1>21, <1>22, <1>23
        DEF Id!Overview, Id!Command

-----------------------------------------------------------------------------
(* Services.                                                               *)

SvRequest == [pc : {"idle", "running", "answered"},
              op : {None, "list", "show"} \cup Sv!Actions, unit : Sv!Named \cup {None},
              open : BOOLEAN, shown : [active : BOOLEAN \cup {None}, enabled : BOOLEAN],
              lines : SUBSET [unit : Units, active : BOOLEAN, enabled : {FALSE}],
              answer : {None, "list", "info", "ok", "failed", "error", "bad_request"}]

\* The request is about u, as a list is about every unit: the history keeps what u was.
SvAbout(q, u) == q.unit \in {None, u}

SvShown(r) ==
  \/ unitReq[r].shown = Sv!Unknown
  \/ unitReq[r].unit \in Sv!Named /\ unitReq[r].shown \in unitPast[r][unitReq[r].unit]

SvListed(r) ==
  /\ unitReq[r].unit = None
  /\ \A l \in unitReq[r].lines : \E s \in unitPast[r][l.unit] : s.active = l.active

SvDone(r) ==
  unitReq[r].unit # Option =>
  LET u == unitReq[r].unit
      p == unitPast[r][u]
  IN /\ u \in Units
     /\ unitReq[r].op \in {"start", "restart"} => u \in Loose \/ \E s \in p : s.active
     /\ unitReq[r].op \in {"stop", "restart"} => \E s \in p : ~s.active
     /\ unitReq[r].op = "enable" => u \in Loose \/ \E s \in p : s.enabled
     /\ unitReq[r].op = "disable" => \E s \in p : ~s.enabled

\* What a request that runs is about, and has not yet been told.
SvAsked(q) ==
  q.pc = "running" =>
    /\ q.op \in Sv!Actions \cup {"show"} => q.unit \in Sv!Named
    /\ q.op = "list" => q.unit = None
    /\ q.shown = Sv!Unknown /\ q.lines = {}

SvLives(r) ==
  unitReq[r] # Sv!Idle =>
    /\ \A u \in Sv!Named : SvAbout(unitReq[r], u) =>
         Sv!State(u, unitActive, enabled) \in unitPast[r][u]
    /\ SvAsked(unitReq[r])
    /\ Sv!Is(r, "info") => SvShown(r)
    /\ Sv!Is(r, "list") => SvListed(r)
    /\ Sv!Is(r, "ok") => SvDone(r)

SvInv ==
  /\ Sv!TypeOK
  /\ \A r \in OneSlot : SvLives(r)

LEMMA SvAssumed == Units \subseteq Sv!Named /\ Option \in Sv!Named /\ None \notin Sv!Named /\ Option \notin Units
BY PartsAssumption DEF PartsAssumption, Sv!ServicesAssumption, Sv!Named

LEMMA SvIdleTyped == /\ Sv!Idle \in SvRequest /\ Sv!Idle.pc = "idle" /\ ~Sv!Idle.open
                     /\ Sv!Idle.shown = Sv!Unknown /\ Sv!Idle.lines = {} /\ Sv!Idle.unit = None
BY DEF Sv!Idle, Sv!Unknown, SvRequest

LEMMA SvInit ==
  ASSUME Sv!Init
  PROVE  SvInv
<1>1. /\ unitActive \subseteq Units /\ enabled \subseteq Units
      /\ \A r \in OneSlot : unitReq[r] = Sv!Idle
      /\ unitReq = [r \in OneSlot |-> Sv!Idle]
  BY DEF Sv!Init
<1>2. unitReq \in [OneSlot -> SvRequest]
  BY <1>1, SvIdleTyped
<1>3. Sv!TypeOK
  BY <1>1, <1>2 DEF Sv!TypeOK, SvRequest
<1> QED BY <1>1, <1>3 DEF SvInv, SvLives

LEMMA SvObserved ==
  ASSUME Sv!Observe, NEW r \in OneSlot, unitReq'[r] # Sv!Idle,
         NEW u \in Sv!Named, SvAbout(unitReq'[r], u)
  PROVE  /\ unitPast[r][u] \subseteq unitPast'[r][u]
         /\ Sv!State(u, unitActive, enabled) \in unitPast'[r][u]
         /\ Sv!State(u, unitActive', enabled') \in unitPast'[r][u]
BY DEF Sv!Observe, SvAbout

LEMMA SvUntouched ==
  ASSUME SvInv, Sv!Observe, NEW r \in OneSlot,
         \/ unitReq'[r] = Sv!Idle
         \/ unitReq'[r] = unitReq[r]
         \/ unitReq[r].pc = "running" /\ unitReq'[r] = [unitReq[r] EXCEPT !.open = FALSE]
  PROVE  SvLives(r)'
<1>1. unitReq[r] \in SvRequest /\ SvLives(r)
  BY DEF SvInv, Sv!TypeOK, SvRequest
<1>2. CASE unitReq'[r] = Sv!Idle
  BY <1>2 DEF SvLives
<1>3. CASE unitReq'[r] # Sv!Idle
  <2>0. unitReq'[r].unit = unitReq[r].unit
    BY <1>1, <1>3 DEF SvRequest
  <2>1. \A u \in Sv!Named : SvAbout(unitReq[r], u) =>
          /\ unitPast[r][u] \subseteq unitPast'[r][u]
          /\ Sv!State(u, unitActive', enabled') \in unitPast'[r][u]
    BY <1>3, <2>0, SvObserved DEF SvAbout
  <2>2. CASE unitReq'[r] = unitReq[r]
    <3>1. \A l \in unitReq[r].lines : l.unit \in Units
      BY <1>1 DEF SvRequest
    <3>2. SvShown(r) => SvShown(r)'
      BY <2>1, <2>2 DEF SvShown, SvAbout
    <3>3. SvListed(r) => SvListed(r)'
      BY <2>1, <2>2, <3>1, SvAssumed DEF SvListed, SvAbout
    <3>4. SvDone(r) => SvDone(r)'
      BY <2>1, <2>2, SvAssumed DEF SvDone, SvAbout
    <3> QED BY <1>1, <1>3, <2>1, <2>2, <3>2, <3>3, <3>4 DEF SvLives, Sv!Is
  <2>3. CASE unitReq[r].pc = "running" /\ unitReq'[r] = [unitReq[r] EXCEPT !.open = FALSE]
    <3>1. /\ unitReq'[r].pc = "running" /\ unitReq'[r].op = unitReq[r].op
          /\ unitReq[r] # Sv!Idle
          /\ unitReq'[r].shown = unitReq[r].shown /\ unitReq'[r].lines = unitReq[r].lines
      BY <1>1, <2>3, SvIdleTyped DEF SvRequest
    <3> QED BY <1>1, <2>0, <2>1, <2>3, <3>1 DEF SvLives, SvAsked, SvAbout, Sv!Is
  <2> QED BY <1>3, <2>2, <2>3
<1> QED BY <1>2, <1>3

LEMMA SvMove ==
  ASSUME SvInv, Sv!Observe, unitActive' \subseteq Units, enabled' \subseteq Units,
         NEW r \in OneSlot, NEW q \in SvRequest, unitReq' = [unitReq EXCEPT ![r] = q],
         ~q.open => q = Sv!Idle \/ (q.pc = "running" /\ q.op \in Sv!Actions),
         SvLives(r)'
  PROVE  SvInv'
<1>1. unitReq \in [OneSlot -> SvRequest]
  BY DEF SvInv, Sv!TypeOK, SvRequest
<1>2. unitReq' \in [OneSlot -> SvRequest] /\ unitReq'[r] = q
  BY <1>1
<1>3. ASSUME NEW u \in OneSlot \ {r}
      PROVE  unitReq'[u] = unitReq[u] /\ SvLives(u)'
  <2>1. unitReq'[u] = unitReq[u]
    BY <1>1
  <2> QED BY <2>1, SvUntouched
<1>4. \A u \in OneSlot : ~unitReq'[u].open =>
        unitReq'[u] = Sv!Idle \/ (unitReq'[u].pc = "running" /\ unitReq'[u].op \in Sv!Actions)
  <2>1. \A u \in OneSlot : ~unitReq[u].open =>
          unitReq[u] = Sv!Idle \/ (unitReq[u].pc = "running" /\ unitReq[u].op \in Sv!Actions)
    BY DEF SvInv, Sv!TypeOK
  <2> QED BY <1>2, <1>3, <2>1
<1>5. Sv!TypeOK'
  BY <1>2, <1>4 DEF Sv!TypeOK, SvRequest
<1> QED BY <1>2, <1>3, <1>5 DEF SvInv

LEMMA SvStep ==
  ASSUME SvInv, [Sv!Next]_Sv!vars
  PROVE  SvInv'
<1>1. CASE UNCHANGED Sv!vars
  <2>1. /\ unitActive' = unitActive /\ enabled' = enabled
        /\ unitReq' = unitReq /\ unitPast' = unitPast
    BY <1>1 DEF Sv!vars
  <2>2. Sv!TypeOK'
    BY <2>1 DEF SvInv, Sv!TypeOK
  <2>3. ASSUME NEW r \in OneSlot
        PROVE  SvLives(r)'
    <3>1. /\ SvShown(r)' <=> SvShown(r)
          /\ SvListed(r)' <=> SvListed(r)
          /\ SvDone(r)' <=> SvDone(r)
      BY <2>1 DEF SvShown, SvListed, SvDone
    <3>2. SvLives(r)
      BY DEF SvInv
    <3> QED BY <2>1, <3>1, <3>2 DEF SvLives, Sv!Is
  <2> QED BY <2>2, <2>3 DEF SvInv
<1> SUFFICES ASSUME Sv!Next PROVE SvInv'
  BY <1>1
<1>2. /\ Sv!Observe /\ unitReq \in [OneSlot -> SvRequest]
      /\ unitActive \subseteq Units /\ enabled \subseteq Units
  BY DEF Sv!Next, SvInv, Sv!TypeOK, SvRequest
\* A step of systemd, or the first half of a restart.
<1>3. ASSUME unitReq' = unitReq, unitActive' \subseteq Units, enabled' \subseteq Units
      PROVE  SvInv'
  <2>1. \A r \in OneSlot : SvLives(r)'
    BY <1>2, <1>3, SvUntouched
  <2>2. Sv!TypeOK'
    BY <1>3 DEF SvInv, Sv!TypeOK
  <2> QED BY <2>1, <2>2 DEF SvInv
<1>4. CASE Sv!Systemd
  BY <1>2, <1>3, <1>4 DEF Sv!Systemd
<1> SUFFICES ASSUME NEW r \in OneSlot,
                    \/ Sv!Arrives(r) \/ Sv!Show(r) \/ Sv!List(r)
                    \/ Sv!ActionSucceeds(r) \/ Sv!OptionSucceeds(r) \/ Sv!RestartStops(r)
                    \/ Sv!ActionFails(r) \/ Sv!ExecFails(r) \/ Sv!Respond(r) \/ Sv!Disconnect(r)
             PROVE  SvInv'
  BY <1>4 DEF Sv!Next
<1> DEFINE unit == unitReq[r].unit
<1>5. /\ unitReq[r] \in SvRequest /\ SvLives(r)
      /\ ~unitReq[r].open => \/ unitReq[r] = Sv!Idle
                             \/ unitReq[r].pc = "running" /\ unitReq[r].op \in Sv!Actions
  BY <1>2 DEF SvInv, Sv!TypeOK
\* The request of r becomes q.
<1>6. ASSUME NEW q \in SvRequest, Sv!Set(r, q), unitActive' \subseteq Units, enabled' \subseteq Units,
             ~q.open => q = Sv!Idle \/ (q.pc = "running" /\ q.op \in Sv!Actions),
             SvAsked(q),
             ASSUME unitReq'[r] = q,
                    \A u \in Sv!Named : SvAbout(q, u) =>
                      /\ Sv!State(u, unitActive, enabled) \in unitPast'[r][u]
                      /\ Sv!State(u, unitActive', enabled') \in unitPast'[r][u]
             PROVE  /\ q.pc = "answered" /\ q.answer = "info" => SvShown(r)'
                    /\ q.pc = "answered" /\ q.answer = "list" => SvListed(r)'
                    /\ q.pc = "answered" /\ q.answer = "ok" => SvDone(r)'
      PROVE  SvInv'
  <2>1. unitReq'[r] = q /\ unitReq' = [unitReq EXCEPT ![r] = q]
    BY <1>2, <1>6 DEF Sv!Set
  <2>2. SvLives(r)'
    <3>1. CASE q = Sv!Idle
      BY <2>1, <3>1 DEF SvLives
    <3>2. CASE q # Sv!Idle
      <4>1. \A u \in Sv!Named : SvAbout(q, u) =>
              /\ Sv!State(u, unitActive, enabled) \in unitPast'[r][u]
              /\ Sv!State(u, unitActive', enabled') \in unitPast'[r][u]
        BY <1>2, <2>1, <3>2, SvObserved
      <4>2. /\ q.pc = "answered" /\ q.answer = "info" => SvShown(r)'
            /\ q.pc = "answered" /\ q.answer = "list" => SvListed(r)'
            /\ q.pc = "answered" /\ q.answer = "ok" => SvDone(r)'
        BY <1>6, <2>1, <4>1
      <4> QED BY <1>6, <2>1, <4>1, <4>2 DEF SvLives, Sv!Is
    <3> QED BY <3>1, <3>2
  <2> QED BY <1>2, <1>6, <2>1, <2>2, SvMove
<1>7. Sv!Same => unitActive' = unitActive /\ enabled' = enabled
  BY DEF Sv!Same
<1>8. ASSUME Sv!Set(r, Sv!Idle), Sv!Same
      PROVE  SvInv'
  BY <1>2, <1>6, <1>7, <1>8, SvIdleTyped DEF SvAsked
<1>9. ASSUME NEW a \in {"failed", "error"}, Sv!Answered(r, a), Sv!Same, unitReq[r].open
      PROVE  SvInv'
  <2> DEFINE q == [unitReq[r] EXCEPT !.pc = "answered", !.answer = a]
  <2>1. q \in SvRequest /\ q.pc = "answered" /\ q.answer = a /\ q.open
    BY <1>5, <1>9 DEF SvRequest
  <2>2. Sv!Set(r, q) /\ SvAsked(q)
    BY <1>9, <2>1 DEF Sv!Answered, SvAsked
  <2> HIDE DEF q
  <2> QED BY <1>2, <1>6, <1>7, <1>9, <2>1, <2>2
<1>10. CASE Sv!Arrives(r)
  <2>1. Sv!Same
    BY <1>10 DEF Sv!Arrives
  <2>2. CASE Sv!Set(r, [Sv!Idle EXCEPT !.pc = "running", !.op = "list", !.open = TRUE])
    <3> DEFINE q == [Sv!Idle EXCEPT !.pc = "running", !.op = "list", !.open = TRUE]
    <3>1. q \in SvRequest /\ q.pc = "running" /\ q.op = "list" /\ q.open
          /\ q.shown = Sv!Unknown /\ q.lines = {} /\ q.unit = None
      BY SvIdleTyped DEF SvRequest
    <3>2. Sv!Set(r, q) /\ SvAsked(q)
      BY <2>2, <3>1 DEF Sv!Actions, SvAsked
    <3> HIDE DEF q
    <3> QED BY <1>2, <1>6, <1>7, <2>1, <3>1, <3>2
  <2>3. ASSUME NEW op \in Sv!Actions \cup {"show"}, NEW u \in Sv!Named,
               Sv!Set(r, [Sv!Idle EXCEPT !.pc = "running", !.op = op, !.unit = u, !.open = TRUE])
        PROVE  SvInv'
    <3> DEFINE q == [Sv!Idle EXCEPT !.pc = "running", !.op = op, !.unit = u, !.open = TRUE]
    <3>1. /\ q \in SvRequest /\ q.pc = "running" /\ q.op = op /\ q.unit = u /\ q.open
          /\ q.shown = Sv!Unknown /\ q.lines = {}
      BY SvIdleTyped DEF SvRequest
    <3>2. Sv!Set(r, q) /\ SvAsked(q)
      BY <2>3, <3>1 DEF SvAsked, Sv!Actions
    <3> HIDE DEF q
    <3> QED BY <1>2, <1>6, <1>7, <2>1, <3>1, <3>2
  <2>4. ASSUME NEW op \in Sv!Actions \cup {"show"},
               Sv!Set(r, [Sv!Idle EXCEPT !.pc = "answered", !.op = op, !.open = TRUE,
                                         !.answer = "bad_request"])
        PROVE  SvInv'
    <3> DEFINE q == [Sv!Idle EXCEPT !.pc = "answered", !.op = op, !.open = TRUE, !.answer = "bad_request"]
    <3>1. q \in SvRequest /\ q.pc = "answered" /\ q.answer = "bad_request" /\ q.open
      BY SvIdleTyped DEF SvRequest
    <3>2. Sv!Set(r, q) /\ SvAsked(q)
      BY <2>4, <3>1 DEF SvAsked
    <3> HIDE DEF q
    <3> QED BY <1>2, <1>6, <1>7, <2>1, <3>1, <3>2
  <2> QED BY <1>10, <2>2, <2>3, <2>4 DEF Sv!Arrives
\* What runs without a client, acts.
<1>11. ASSUME unitReq[r].pc = "running", unitReq[r].op \in {"show", "list"}
       PROVE  unitReq[r].open
  BY <1>5, <1>11, SvIdleTyped DEF Sv!Actions
<1>12. CASE Sv!Show(r)
  <2>1. /\ unitReq[r].pc = "running" /\ unitReq[r].op = "show" /\ unitReq[r].open
        /\ unit \in Sv!Named /\ Sv!Same /\ unitReq[r].shown = Sv!Unknown
    BY <1>5, <1>11, <1>12, SvIdleTyped DEF Sv!Show, Sv!Runs, SvLives, SvAsked
  <2>2. CASE Sv!Set(r, [unitReq[r] EXCEPT !.pc = "answered", !.answer = "info",
                          !.shown = Sv!State(unit, unitActive, enabled)])
    <3> DEFINE q == [unitReq[r] EXCEPT !.pc = "answered", !.answer = "info",
                       !.shown = Sv!State(unit, unitActive, enabled)]
    <3>1. Sv!State(unit, unitActive, enabled) \in [active : BOOLEAN \cup {None}, enabled : BOOLEAN]
      BY DEF Sv!State
    <3>2. /\ q \in SvRequest /\ q.pc = "answered" /\ q.answer = "info" /\ q.open /\ q.unit = unit
          /\ q.shown = Sv!State(unit, unitActive, enabled)
      BY <1>5, <2>1, <3>1 DEF SvRequest
    <3>3. Sv!Set(r, q) /\ SvAsked(q)
      BY <2>2, <3>2 DEF SvAsked
    <3> HIDE DEF q
    <3> QED BY <1>2, <1>6, <1>7, <2>1, <3>2, <3>3 DEF SvShown, SvAbout
  <2>3. CASE Sv!Answered(r, "info")
    <3> DEFINE q == [unitReq[r] EXCEPT !.pc = "answered", !.answer = "info"]
    <3>1. /\ q \in SvRequest /\ q.pc = "answered" /\ q.answer = "info" /\ q.open
          /\ q.shown = Sv!Unknown
      BY <1>5, <2>1 DEF SvRequest
    <3>2. Sv!Set(r, q) /\ SvAsked(q)
      BY <2>3, <3>1 DEF Sv!Answered, SvAsked
    <3> HIDE DEF q
    <3> QED BY <1>2, <1>6, <1>7, <2>1, <3>1, <3>2 DEF SvShown
  <2> QED BY <1>12, <2>2, <2>3 DEF Sv!Show
<1>13. CASE Sv!List(r)
  <2>1. /\ unitReq[r].pc = "running" /\ unitReq[r].open /\ Sv!Same
        /\ unitReq[r].lines = {} /\ unit = None
    BY <1>5, <1>11, <1>13, SvIdleTyped DEF Sv!List, Sv!Runs, SvLives, SvAsked
  <2> DEFINE all == {[unit |-> u, active |-> u \in unitActive, enabled |-> FALSE] : u \in Units}
  <2>2. CASE Sv!Set(r, [unitReq[r] EXCEPT !.pc = "answered", !.answer = "list", !.lines = all])
    <3> DEFINE q == [unitReq[r] EXCEPT !.pc = "answered", !.answer = "list", !.lines = all]
    <3>1. all \subseteq [unit : Units, active : BOOLEAN, enabled : {FALSE}]
      <4> SUFFICES ASSUME NEW u \in Units
                   PROVE  [unit |-> u, active |-> u \in unitActive, enabled |-> FALSE]
                            \in [unit : Units, active : BOOLEAN, enabled : {FALSE}]
        OBVIOUS
      <4>1. (u \in unitActive) \in BOOLEAN
        OBVIOUS
      <4> QED BY <4>1
    <3>2. /\ q \in SvRequest /\ q.pc = "answered" /\ q.answer = "list" /\ q.open
          /\ q.lines = all /\ q.unit = None
      BY <1>5, <2>1, <3>1 DEF SvRequest
    <3>3. Sv!Set(r, q) /\ SvAsked(q)
      BY <2>2, <3>2 DEF SvAsked
    <3>4. \A l \in q.lines : l.unit \in Units /\ l.active = (l.unit \in unitActive)
      BY <3>2
    <3> HIDE DEF q, all
    <3>5. ASSUME unitReq'[r] = q,
                 \A u \in Sv!Named : SvAbout(q, u) =>
                   Sv!State(u, unitActive, enabled) \in unitPast'[r][u]
          PROVE  SvListed(r)'
      <4> SUFFICES ASSUME NEW l \in q.lines
                   PROVE  \E s \in unitPast'[r][l.unit] : s.active = l.active
        BY <3>2, <3>5 DEF SvListed
      <4>1. Sv!State(l.unit, unitActive, enabled) \in unitPast'[r][l.unit]
        BY <3>2, <3>4, <3>5, SvAssumed DEF SvAbout
      <4>2. Sv!State(l.unit, unitActive, enabled).active = l.active
        BY <3>4 DEF Sv!State
      <4> QED BY <4>1, <4>2
    <3> QED BY <1>2, <1>6, <1>7, <2>1, <3>2, <3>3, <3>5
  <2>3. CASE Sv!Answered(r, "list")
    <3> DEFINE q == [unitReq[r] EXCEPT !.pc = "answered", !.answer = "list"]
    <3>1. /\ q \in SvRequest /\ q.pc = "answered" /\ q.answer = "list" /\ q.open
          /\ q.lines = {} /\ q.unit = None
      BY <1>5, <2>1 DEF SvRequest
    <3>2. Sv!Set(r, q) /\ SvAsked(q)
      BY <2>3, <3>1 DEF Sv!Answered, SvAsked
    <3> HIDE DEF q
    <3> QED BY <1>2, <1>6, <1>7, <2>1, <3>1, <3>2 DEF SvListed
  <2> QED BY <1>13, <2>2, <2>3 DEF Sv!List
<1>14. CASE Sv!ActionSucceeds(r)
  <2>1. /\ unitReq[r].pc = "running" /\ unitReq[r].op \in Sv!Actions
        /\ unit \in Units /\ unit \in Sv!Named /\ unit # Option
    BY <1>14, SvAssumed DEF Sv!ActionSucceeds, Sv!Actions
  <2>2. unitActive' \subseteq Units /\ enabled' \subseteq Units
    BY <1>2, <1>14, <2>1 DEF Sv!ActionSucceeds, Sv!Joined
  <2>3. /\ unitReq[r].op \in {"start", "restart"} => unit \in unitActive' \/ unit \in Loose
        /\ unitReq[r].op = "restart" => unit \notin unitActive
        /\ unitReq[r].op = "stop" => unit \notin unitActive'
        /\ unitReq[r].op = "enable" => unit \in enabled' \/ unit \in Loose
        /\ unitReq[r].op = "disable" => unit \notin enabled'
    BY <1>14 DEF Sv!ActionSucceeds, Sv!Joined
  <2>4. CASE unitReq[r].open
    <3> DEFINE q == [unitReq[r] EXCEPT !.pc = "answered", !.answer = "ok"]
    <3>1. /\ q \in SvRequest /\ q.pc = "answered" /\ q.answer = "ok" /\ q.open
          /\ q.op = unitReq[r].op /\ q.unit = unit
      BY <1>5, <2>4 DEF SvRequest
    <3>2. Sv!Set(r, q) /\ SvAsked(q)
      BY <1>14, <2>4, <3>1 DEF Sv!ActionSucceeds, Sv!Exits, Sv!Answered, SvAsked
    <3> HIDE DEF q
    <3>3. ASSUME unitReq'[r] = q,
                 Sv!State(unit, unitActive, enabled) \in unitPast'[r][unit],
                 Sv!State(unit, unitActive', enabled') \in unitPast'[r][unit]
          PROVE  SvDone(r)'
      <4>1. /\ Sv!State(unit, unitActive, enabled).active = (unit \in unitActive)
            /\ Sv!State(unit, unitActive', enabled').active = (unit \in unitActive')
            /\ Sv!State(unit, unitActive', enabled').enabled = (unit \in enabled')
        BY DEF Sv!State
      <4> DEFINE s0 == Sv!State(unit, unitActive, enabled)
                 s1 == Sv!State(unit, unitActive', enabled')
                 p == unitPast'[r][unit]
      <4>2. /\ s0 \in p /\ s1 \in p
            /\ unit \notin unitActive => ~s0.active
            /\ (unit \in unitActive' => s1.active) /\ (unit \notin unitActive' => ~s1.active)
            /\ (unit \in enabled' => s1.enabled) /\ (unit \notin enabled' => ~s1.enabled)
        BY <3>3, <4>1
      <4> HIDE DEF s0, s1
      <4>3. /\ unitReq[r].op \in {"start", "restart"} => unit \in Loose \/ \E s \in p : s.active
            /\ unitReq[r].op \in {"stop", "restart"} => \E s \in p : ~s.active
            /\ unitReq[r].op = "enable" => unit \in Loose \/ \E s \in p : s.enabled
            /\ unitReq[r].op = "disable" => \E s \in p : ~s.enabled
        BY <2>3, <4>2, Zenon
      <4> QED BY <2>1, <3>1, <3>3, <4>3 DEF SvDone
    <3> QED BY <1>6, <2>1, <2>2, <3>1, <3>2, <3>3 DEF SvAbout
  <2>5. CASE ~unitReq[r].open
    <3>1. Sv!Set(r, Sv!Idle)
      BY <1>14, <2>5 DEF Sv!ActionSucceeds, Sv!Exits
    <3> QED BY <1>6, <2>2, <3>1, SvIdleTyped DEF SvAsked
  <2> QED BY <2>4, <2>5
<1>20. CASE Sv!OptionSucceeds(r)
  <2>1. unitReq[r].pc = "running" /\ unit = Option /\ Sv!Same
    BY <1>20 DEF Sv!OptionSucceeds
  <2>2. CASE unitReq[r].open
    <3> DEFINE q == [unitReq[r] EXCEPT !.pc = "answered", !.answer = "ok"]
    <3>1. /\ q \in SvRequest /\ q.pc = "answered" /\ q.answer = "ok" /\ q.open
          /\ q.unit = Option
      BY <1>5, <2>1, <2>2 DEF SvRequest
    <3>2. Sv!Set(r, q) /\ SvAsked(q)
      BY <1>20, <2>2, <3>1 DEF Sv!OptionSucceeds, Sv!Exits, Sv!Answered, SvAsked
    <3> HIDE DEF q
    <3> QED BY <1>2, <1>6, <1>7, <2>1, <3>1, <3>2 DEF SvDone
  <2>3. CASE ~unitReq[r].open
    BY <1>8, <1>20, <2>1, <2>3 DEF Sv!OptionSucceeds, Sv!Exits
  <2> QED BY <2>2, <2>3
<1>15. CASE Sv!RestartStops(r)
  BY <1>2, <1>3, <1>15 DEF Sv!RestartStops
<1>16. CASE Sv!ActionFails(r)
  BY <1>8, <1>9, <1>16 DEF Sv!ActionFails, Sv!Exits
<1>17. CASE Sv!ExecFails(r)
  BY <1>9, <1>17 DEF Sv!ExecFails
<1>18. CASE Sv!Respond(r)
  BY <1>8, <1>18 DEF Sv!Respond
<1>19. CASE Sv!Disconnect(r)
  <2>1. CASE unitReq[r].pc = "running" /\ unitReq[r].op \in Sv!Actions
    <3> DEFINE q == [unitReq[r] EXCEPT !.open = FALSE]
    <3>1. /\ q \in SvRequest /\ q.pc = "running" /\ q.op \in Sv!Actions /\ q.unit = unit
          /\ q.shown = unitReq[r].shown /\ q.lines = unitReq[r].lines /\ q.op = unitReq[r].op
      BY <1>5, <2>1 DEF SvRequest
    <3>2. Sv!Set(r, q) /\ Sv!Same /\ SvAsked(q)
      BY <1>5, <1>19, <2>1, <3>1, SvIdleTyped DEF Sv!Disconnect, SvLives, SvAsked
    <3> HIDE DEF q
    <3> QED BY <1>2, <1>6, <1>7, <3>1, <3>2
  <2>2. CASE ~(unitReq[r].pc = "running" /\ unitReq[r].op \in Sv!Actions)
    BY <1>8, <1>19, <2>2 DEF Sv!Disconnect
  <2> QED BY <2>1, <2>2
<1> QED BY <1>10, <1>12, <1>13, <1>14, <1>15, <1>16, <1>17, <1>18, <1>19, <1>20

-----------------------------------------------------------------------------
(* All of them as parts of the composition.                                *)

LEMMA AntivirusMoves ==
  ASSUME [MCNext]_<<processVars, hostVars>>
  PROVE  [Av!Next]_Av!vars
BY DEF MCNext, hostVars, antivirusVars, Av!vars

LEMMA AntivirusAlways == MCSpec => []AvInv
<1>1. MCInit => AvInv
  BY AvInit DEF MCInit
<1>2. AvInv /\ [MCNext]_<<processVars, hostVars>> => AvInv'
  BY AntivirusMoves, AvStep
<1> QED BY <1>1, <1>2, PTL DEF MCSpec

LEMMA FilesMoves ==
  ASSUME [MCNext]_<<processVars, hostVars>>
  PROVE  [Fi!Next]_Fi!vars
BY DEF MCNext, hostVars, filesVars, Fi!vars

LEMMA FilesAlways == MCSpec => []FiInv
<1>1. MCInit => FiInv
  BY FiInit DEF MCInit
<1>2. FiInv /\ [MCNext]_<<processVars, hostVars>> => FiInv'
  BY FilesMoves, FiStep
<1> QED BY <1>1, <1>2, PTL DEF MCSpec

LEMMA IdsMoves ==
  ASSUME [MCNext]_<<processVars, hostVars>>
  PROVE  [Id!Next]_Id!vars
BY DEF MCNext, hostVars, idsVars, Id!vars

LEMMA IdsAlways == MCSpec => []IdInv
<1>1. MCInit => IdInv
  BY IdInit DEF MCInit
<1>2. IdInv /\ [MCNext]_<<processVars, hostVars>> => IdInv'
  BY IdsMoves, IdStep
<1> QED BY <1>1, <1>2, PTL DEF MCSpec

LEMMA ServicesMoves ==
  ASSUME [MCNext]_<<processVars, hostVars>>
  PROVE  [Sv!Next]_Sv!vars
BY DEF MCNext, hostVars, servicesVars, Sv!vars

LEMMA ServicesAlways == MCSpec => []SvInv
<1>1. MCInit => SvInv
  BY SvInit DEF MCInit
<1>2. SvInv /\ [MCNext]_<<processVars, hostVars>> => SvInv'
  BY ServicesMoves, SvStep
<1> QED BY <1>1, <1>2, PTL DEF MCSpec

LEMMA DatabaseMoves ==
  ASSUME [MCNext]_<<processVars, hostVars>>
  PROVE  [Next]_vars
BY DEF MCNext, processVars, vars

LEMMA DatabaseAlways == MCSpec => [](TypeOK /\ MutexInv)
<1>1. MCInit => TypeOK /\ MutexInv
  BY InitInv DEF MCInit
<1>2. TypeOK /\ MutexInv /\ [MCNext]_<<processVars, hostVars>> => TypeOK' /\ MutexInv'
  BY DatabaseMoves, TypeStep, MutexStep
<1> QED BY <1>1, <1>2, PTL DEF MCSpec

LEMMA PoliciesAlways == MCSpec => []Po!TypeOK
<1>1. MCInit => Po!TypeOK
  BY DEF MCInit, Po!Init, Po!TypeOK
<1>2. Po!TypeOK /\ [MCNext]_<<processVars, hostVars>> => Po!TypeOK'
  <2> SUFFICES ASSUME Po!TypeOK, [MCNext]_<<processVars, hostVars>> PROVE Po!TypeOK'
    OBVIOUS
  <2>1. Po!Next \/ UNCHANGED policyVars
    BY DEF MCNext, processVars
  <2>2. CASE Po!Next
    BY <2>2 DEF Po!TypeOK, Po!Next, Po!SetAbacRules, Po!SetSodConstraints, Po!Perform
  <2>3. CASE UNCHANGED policyVars
    BY <2>3 DEF policyVars, Po!TypeOK
  <2> QED BY <2>1, <2>2, <2>3
<1> QED BY <1>1, <1>2, PTL DEF MCSpec

\* {"ok": true} from a firewall, ban, update or service endpoint means that this request's
\* own command did it, whatever else ran, and whoever went away; but nothing was done for
\* a service name that systemctl takes for an option, and a unit that is never active or
\* enabled may have been started or enabled in vain (add_rule, delete_rule, enable,
\* disable; ban, unban; update; service_action).
THEOREM OkAnswers == MCSpec => []OkMeansDone
<1>1. FwInv => Fw!OkMeansDone
  BY DEF FwInv, FwLives, Fw!OkMeansDone
<1>2. IdInv => Id!OkMeansSet
  BY IdIdleTyped DEF IdInv, IdLives, IdSet, Id!OkMeansSet
<1>3. AvInv => Av!OkMeansUpdated
  BY AvIdleTyped DEF AvInv, AvLives, Av!Is, Av!OkMeansUpdated
<1>4. SvInv => Sv!OkMeansDone
  BY SvIdleTyped DEF SvInv, SvLives, SvDone, Sv!Is, Sv!OkMeansDone
<1>5. FwInv /\ IdInv /\ AvInv /\ SvInv => OkMeansDone
  BY <1>1, <1>2, <1>3, <1>4 DEF OkMeansDone
<1> QED BY <1>5, FirewallAlways, IdsAlways, AntivirusAlways, ServicesAlways, PTL

\* An overview put together from one command for each jail lists only bans of the time
\* since it was asked for, whatever the layout of fail2ban's output; and all that held
\* throughout, if the parsers read that layout, up to the two exceptions the property
\* names (get_status, parse_jail_list, parse_jail_status).
THEOREM Bans == MCSpec => []BansHeld
<1>1. IdInv => BansHeld
  BY IdIdleTyped DEF IdInv, IdLives, IdGathers, Id!Overviewed, BansHeld, Id!ListedBansHeld,
     Id!StableBansAreListed, Id!OverviewsAreComplete, IdReadable
<1> QED BY <1>1, IdsAlways, PTL

\* Whatever other programs do between the calls of one read, what it answers of the size
\* was right of some moment since it arrived, and the text that it returns is as long as
\* the file was then, or between two lengths that it had (read_file).
THEOREM Reads == MCSpec => []ReadsAreJustified
<1>1. FiInv => ReadsAreJustified
  BY FiIdleTyped DEF FiInv, FiLives, FiTold, Fi!Tells, ReadsAreJustified, Fi!ReadsAreJustified
<1> QED BY <1>1, FilesAlways, PTL

\* A listing shows nothing that was not there, and hides nothing that was there all the
\* time unless a call failed (browse).
THEOREM Listings == MCSpec => []ListingsHeld
<1>1. FiInv => ListingsHeld
  BY FiIdleTyped DEF FiInv, FiLives, FiListed, Fi!Listing, ListingsHeld, Fi!ListedEntriesHeld,
     Fi!StableEntriesAreListed
<1> QED BY <1>1, FilesAlways, PTL

\* A scan that ends by itself reports what was infected all the time, and nothing that
\* never was (scan, parse_clam_output).
THEOREM Threats == MCSpec => []StableThreatsAreReported
<1>1. AvInv => StableThreatsAreReported
  BY AvIdleTyped DEF AvInv, AvLives, Av!Is, StableThreatsAreReported, Av!StableThreatsAreReported
<1> QED BY <1>1, AntivirusAlways, PTL

\* What is shown of a unit was so at one moment, also in the middle of a restart
\* (get_service, list_services).
THEOREM Reports == MCSpec => []ReportsHeld
<1>1. SvInv => ReportsHeld
  BY SvIdleTyped DEF SvInv, SvLives, SvShown, SvListed, Sv!Is, ReportsHeld, Sv!ReportsHeld
<1> QED BY <1>1, ServicesAlways, PTL

\* Each part keeps to its types, and a request whose client has gone holds nothing but a
\* child that still changes something (PartsTyped).
THEOREM PartsTyping == MCSpec => []PartsTyped
<1> DEFINE P == {"database", "monitor", "bus", "policy", "firewall", "ids", "files", "antivirus",
                 "services"}
<1>1. MCInit => part \in P
  BY PartsAssumption DEF MCInit, PartsAssumption
<1>2. part \in P /\ [MCNext]_<<processVars, hostVars>> => (part \in P)'
  BY DEF MCNext, processVars
<1>3. /\ part \in P /\ TypeOK /\ MonitorInv /\ BusInv
      /\ FwInv /\ IdInv /\ FiInv /\ AvInv /\ SvInv /\ Po!TypeOK
      => PartsTyped
  BY DEF PartsTyped, MonitorInv, BusInv, FwInv, IdInv, FiInv, AvInv, SvInv
<1> HIDE DEF P
<1> QED BY <1>1, <1>2, <1>3, DatabaseAlways, MonitorAlways, BusAlways, FirewallAlways, IdsAlways,
        FilesAlways, AntivirusAlways, ServicesAlways, PoliciesAlways, PTL DEF MCSpec
=============================================================================
