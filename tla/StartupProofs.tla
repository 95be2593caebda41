---------------------------- MODULE StartupProofs ----------------------------
(***************************************************************************)
(* Theorems about Startup, for any number of processes, files, addresses   *)
(* and statements of the migration.                                        *)
(***************************************************************************)
EXTENDS Startup, TLAPS

USE StartupAssumption

\* A process migrates statements the file already has, up to its own.
SchemaInv ==
  \A p \in Procs :
    /\ pc[p] = "off" => at[p] = 0
    /\ pc[p] = "migrate" => at[p] < Objects /\ at[p] <= schema[file[p]]
    /\ pc[p] \in {"count", "seed"} \cup Seeded => schema[file[p]] = Objects

AdminOf(q) == {[name |-> "admin", by |-> q]}

\* An untouched file is empty, or has the admin of a process that went on.
OneAdmin ==
  \A f \in Files \ touched :
    \/ users[f] = {}
    \/ \E q \in Procs : /\ users[f] = AdminOf(q)
                        /\ file[q] = f
                        /\ pc[q] \in Seeded \cup {"dead"}

\* Nobody passes the seed of a file without users.
SeededBeforeServing ==
  \A p \in Procs :
    pc[p] \in Seeded \cup {"refused"} /\ file[p] \notin touched =>
      users[file[p]] # {}

ToldIsSeeded ==
  \A p \in Procs :
    /\ pc[p] \in {"off", "migrate", "count"} => p \notin told
    /\ pc[p] \in Seeded /\ p \in told /\ file[p] \notin touched =>
         users[file[p]] = AdminOf(p)

\* A port was refused to a process because another one had it.
PortsHaveOwners ==
  \A p \in Procs : pc[p] = "no_port" => \E q \in Procs : pc[q] \in {"serving", "dead"}

SeedInv == OneAdmin /\ SeededBeforeServing /\ ToldIsSeeded /\ PortsHaveOwners

-----------------------------------------------------------------------------
LEMMA InitTyped == Init => TypeOK
BY DEF Init, TypeOK, PC

LEMMA StepTyped == TypeOK /\ SchemaInv /\ [Next]_vars => TypeOK'
<1> SUFFICES ASSUME TypeOK, SchemaInv, [Next]_vars PROVE TypeOK'
  OBVIOUS
<1> USE DEF TypeOK, PC, Seeded, Goto
<1>1. ASSUME NEW p \in Procs, Load(p) PROVE TypeOK'
  BY <1>1 DEF Load
<1>2. ASSUME NEW p \in Procs, Migrate(p) PROVE TypeOK'
  BY <1>2 DEF Migrate, SchemaInv
<1>3. ASSUME NEW p \in Procs, CountUsers(p) PROVE TypeOK'
  BY <1>3 DEF CountUsers
<1>4. ASSUME NEW p \in Procs, SeedAdmin(p) PROVE TypeOK'
  <2>1. [name |-> "admin", by |-> p] \in Row
    BY DEF Row
  <2>2. file[p] \in Files
    BY <1>4 DEF SeedAdmin
  <2>3. users' \in [Files -> SUBSET Row]
    BY <1>4, <2>1, <2>2 DEF SeedAdmin
  <2> QED
    BY <1>4, <2>3 DEF SeedAdmin
<1>5. ASSUME NEW p \in Procs, SeedRefused(p) PROVE TypeOK'
  BY <1>5 DEF SeedRefused
<1>6. ASSUME NEW p \in Procs, Bind(p) PROVE TypeOK'
  BY <1>6 DEF Bind
<1>7. ASSUME NEW p \in Procs, Die(p) PROVE TypeOK'
  BY <1>7 DEF Die
<1>10. ASSUME NEW p \in Procs, BuildRouter(p) PROVE TypeOK'
  BY <1>10 DEF BuildRouter
<1>8. ASSUME NEW f \in Files, OtherClient(f) PROVE TypeOK'
  <2>1. \A n \in Names \cup {"admin"} : [name |-> n, by |-> None] \in Row
    BY DEF Row
  <2>2. users' \in [Files -> SUBSET Row]
    BY <1>8, <2>1 DEF OtherClient
  <2> QED
    BY <1>8, <2>2 DEF OtherClient
<1>9. CASE UNCHANGED vars
  BY <1>9 DEF vars
<1> QED
  BY <1>1, <1>2, <1>3, <1>4, <1>5, <1>6, <1>7, <1>8, <1>9, <1>10 DEF Next, Boot

LEMMA StepKeepsSchema == TypeOK /\ SchemaInv /\ [Next]_vars => SchemaInv'
<1> SUFFICES ASSUME TypeOK, SchemaInv, [Next]_vars PROVE SchemaInv'
  OBVIOUS
<1> USE DEF TypeOK, SchemaInv, Seeded, Goto
<1>1. ASSUME NEW p \in Procs, Load(p) PROVE SchemaInv'
  BY <1>1 DEF Load
<1>2. ASSUME NEW p \in Procs, Migrate(p) PROVE SchemaInv'
  <2>1. file[p] \in Files /\ at[p] \in Nat /\ schema[file[p]] \in Nat
    BY <1>2 DEF Migrate
  <2>2. schema'[file[p]] >= at[p] + 1 /\ schema'[file[p]] >= schema[file[p]]
    BY <1>2, <2>1 DEF Migrate
  <2>3. schema'[file[p]] \in 0 .. Objects
    BY <1>2, <2>1 DEF Migrate
  <2>4. ASSUME NEW q \in Procs, q # p
        PROVE  /\ pc'[q] = "off" => at'[q] = 0
               /\ pc'[q] = "migrate" => at'[q] < Objects /\ at'[q] <= schema'[file'[q]]
               /\ pc'[q] \in {"count", "seed"} \cup Seeded => schema'[file'[q]] = Objects
    <3>1. pc'[q] = pc[q] /\ at'[q] = at[q] /\ file' = file
      BY <1>2, <2>4 DEF Migrate
    <3>2. CASE pc[q] = "off"
      BY <3>1, <3>2
    <3>3. CASE pc[q] # "off"
      <4>1. file[q] \in Files /\ schema[file[q]] \in 0 .. Objects
        BY <3>3
      <4>2. schema'[file[q]] \in 0 .. Objects /\ schema'[file[q]] >= schema[file[q]]
        BY <1>2, <2>2, <2>3, <4>1 DEF Migrate
      <4> QED
        BY <3>1, <4>1, <4>2
    <3> QED
      BY <3>2, <3>3
  <2>5. /\ pc'[p] = "off" => at'[p] = 0
        /\ pc'[p] = "migrate" => at'[p] < Objects /\ at'[p] <= schema'[file'[p]]
        /\ pc'[p] \in {"count", "seed"} \cup Seeded => schema'[file'[p]] = Objects
    <3>1. at'[p] = at[p] + 1 /\ file' = file
      BY <1>2 DEF Migrate
    <3>2. CASE at[p] + 1 = Objects
      BY <1>2, <2>1, <2>2, <2>3, <3>1, <3>2 DEF Migrate
    <3>3. CASE at[p] + 1 # Objects
      BY <1>2, <2>1, <2>2, <2>3, <3>1, <3>3 DEF Migrate
    <3> QED
      BY <3>2, <3>3
  <2> QED
    BY <2>4, <2>5
<1>3. ASSUME NEW p \in Procs, CountUsers(p) PROVE SchemaInv'
  BY <1>3 DEF CountUsers
<1>4. ASSUME NEW p \in Procs, SeedAdmin(p) PROVE SchemaInv'
  BY <1>4 DEF SeedAdmin
<1>5. ASSUME NEW p \in Procs, SeedRefused(p) PROVE SchemaInv'
  BY <1>5 DEF SeedRefused
<1>6. ASSUME NEW p \in Procs, Bind(p) PROVE SchemaInv'
  BY <1>6 DEF Bind
<1>7. ASSUME NEW p \in Procs, Die(p) PROVE SchemaInv'
  BY <1>7 DEF Die
<1>10. ASSUME NEW p \in Procs, BuildRouter(p) PROVE SchemaInv'
  BY <1>10 DEF BuildRouter
<1>8. ASSUME NEW f \in Files, OtherClient(f) PROVE SchemaInv'
  BY <1>8 DEF OtherClient
<1>9. CASE UNCHANGED vars
  BY <1>9 DEF vars
<1> QED
  BY <1>1, <1>2, <1>3, <1>4, <1>5, <1>6, <1>7, <1>8, <1>9, <1>10 DEF Next, Boot

LEMMA InitSchema == Init => SchemaInv
BY DEF Init, SchemaInv, Seeded

\* Every reachable state is well typed: no migration runs past its last
\* statement, and a process that has started has a file and an address.
THEOREM Typing == Spec => []TypeOK
<1>1. TypeOK /\ SchemaInv /\ [Next]_vars => (TypeOK /\ SchemaInv)'
  BY StepTyped, StepKeepsSchema
<1> QED
  BY InitTyped, InitSchema, <1>1, PTL DEF Spec

\* No process serves, or even counts users, on a file without the whole schema,
\* however often the migrations of that file were cut short (Database::migrate).
THEOREM Schema == Spec => []ServersHaveTheSchema
<1>1. TypeOK /\ SchemaInv /\ [Next]_vars => (TypeOK /\ SchemaInv)'
  BY StepTyped, StepKeepsSchema
<1>2. SchemaInv => ServersHaveTheSchema
  BY DEF SchemaInv, ServersHaveTheSchema
<1> QED
  BY InitTyped, InitSchema, <1>1, <1>2, PTL DEF Spec

-----------------------------------------------------------------------------
LEMMA InitSeeds == Init => SeedInv
BY DEF Init, SeedInv, OneAdmin, SeededBeforeServing, ToldIsSeeded, PortsHaveOwners, Seeded

\* A step that changes no users, and takes each process where it may go.
LEMMA MovesKeepSeeds ==
  ASSUME TypeOK, SeedInv, NEW p \in Procs,
         \/ Load(p) \/ Migrate(p) \/ CountUsers(p) \/ SeedRefused(p)
         \/ BuildRouter(p) \/ Bind(p) \/ Die(p)
  PROVE  SeedInv'
<1> USE DEF TypeOK, PC, Seeded, Goto, Load, Migrate, CountUsers, SeedRefused, BuildRouter, Bind, Die,
           Gone, Serving
<1>1. users' = users /\ touched' = touched
  OBVIOUS
<1>2. \A q \in Procs : /\ q # p => pc'[q] = pc[q] /\ file'[q] = file[q]
                       /\ pc[q] # "off" => file'[q] = file[q]
  OBVIOUS
<1>3. \A q \in Procs : pc[q] \in Seeded \cup {"dead"} =>
                         pc'[q] \in Seeded \cup {"dead"}
  OBVIOUS
<1>4. OneAdmin'
  BY <1>1, <1>2, <1>3 DEF SeedInv, OneAdmin
<1>5. SeededBeforeServing'
  <2> SUFFICES ASSUME NEW q \in Procs, file'[q] \notin touched',
                      pc'[q] \in Seeded \cup {"refused"}
               PROVE  users'[file'[q]] # {}
    BY DEF SeededBeforeServing
  <2>1. CASE q # p
    BY <1>1, <1>2, <2>1 DEF SeedInv, SeededBeforeServing
  <2>2. CASE q = p
    <3>1. CASE Load(p) \/ Migrate(p) \/ Die(p)
      BY <2>2, <3>1
    <3>2. CASE CountUsers(p)
      BY <1>1, <2>2, <3>2
    <3>3. CASE SeedRefused(p)
      BY <1>1, <2>2, <3>3 DEF NameTaken
    <3>4. CASE BuildRouter(p) \/ Bind(p)
      BY <1>1, <1>2, <2>2, <3>4 DEF SeedInv, SeededBeforeServing
    <3> QED
      BY <3>1, <3>2, <3>3, <3>4
  <2> QED
    BY <2>1, <2>2
<1>6. ToldIsSeeded'
  <2>1. \A q \in Procs : q # p => (q \in told' <=> q \in told)
    OBVIOUS
  <2> SUFFICES ASSUME NEW q \in Procs
               PROVE  /\ pc'[q] \in {"off", "migrate", "count"} => q \notin told'
                      /\ pc'[q] \in Seeded /\ q \in told' /\ file'[q] \notin touched' =>
                           users'[file'[q]] = AdminOf(q)
    BY DEF ToldIsSeeded
  <2>2. CASE q # p
    BY <1>1, <1>2, <2>1, <2>2 DEF SeedInv, ToldIsSeeded
  <2>3. CASE q = p
    <3>1. CASE Load(p) \/ Migrate(p) \/ Die(p) \/ SeedRefused(p)
      BY <2>3, <3>1 DEF SeedInv, ToldIsSeeded
    <3>2. CASE CountUsers(p)
      BY <2>3, <3>2 DEF SeedInv, ToldIsSeeded
    <3>3. CASE BuildRouter(p) \/ Bind(p)
      BY <1>1, <2>3, <3>3 DEF SeedInv, ToldIsSeeded
    <3> QED
      BY <3>1, <3>2, <3>3
  <2> QED
    BY <2>2, <2>3
<1>7. PortsHaveOwners'
  <2>1. \A q \in Procs : pc[q] \in {"serving", "dead"} => pc'[q] \in {"serving", "dead"}
    OBVIOUS
  <2>2. ASSUME NEW q \in Procs, pc'[q] = "no_port"
        PROVE  \E o \in Procs : pc[o] \in {"serving", "dead"}
    <3>1. CASE pc[q] = "no_port"
      BY <3>1 DEF SeedInv, PortsHaveOwners
    <3>2. CASE pc[q] # "no_port"
      <4>1. q = p /\ Bind(p)
        BY <2>2, <3>2
      <4> QED
        BY <2>2, <4>1
    <3> QED
      BY <3>1, <3>2
  <2> QED
    BY <2>1, <2>2 DEF PortsHaveOwners
<1> QED
  BY <1>4, <1>5, <1>6, <1>7 DEF SeedInv

LEMMA SeedKeepsSeeds ==
  ASSUME TypeOK, SeedInv, NEW p \in Procs, SeedAdmin(p)
  PROVE  SeedInv'
<1> USE DEF TypeOK, PC, Seeded, Goto, SeedAdmin
<1> DEFINE f == file[p]
<1>1. f \in Files /\ touched' = touched /\ told' = told /\ file' = file
  OBVIOUS
<1>2. \A g \in Files : g # f => users'[g] = users[g]
  OBVIOUS
<1>3. users'[f] = users[f] \cup AdminOf(p)
  BY <1>1 DEF AdminOf
<1>4. pc'[p] = "router" /\ \A q \in Procs : q # p => pc'[q] = pc[q]
  OBVIOUS
<1>5. ASSUME f \notin touched PROVE users[f] = {} /\ users'[f] = AdminOf(p)
  <2>1. ASSUME NEW q \in Procs, users[f] = AdminOf(q) PROVE FALSE
    <3>1. [name |-> "admin", by |-> q] \in users[f]
      BY <2>1 DEF AdminOf
    <3> QED
      BY <3>1 DEF NameTaken
  <2>2. users[f] = {}
    BY <1>1, <1>5, <2>1 DEF SeedInv, OneAdmin
  <2> QED
    BY <1>3, <2>2
<1>6. OneAdmin'
  <2> SUFFICES ASSUME NEW g \in Files \ touched
               PROVE  \/ users'[g] = {}
                      \/ \E q \in Procs : /\ users'[g] = AdminOf(q)
                                          /\ file'[q] = g
                                          /\ pc'[q] \in Seeded \cup {"dead"}
    BY <1>1 DEF OneAdmin
  <2>1. CASE g = f
    BY <1>1, <1>4, <1>5, <2>1
  <2>2. CASE g # f
    <3>1. CASE users[g] = {}
      BY <1>2, <2>2, <3>1
    <3>2. CASE \E q \in Procs : /\ users[g] = AdminOf(q) /\ file[q] = g
                                /\ pc[q] \in Seeded \cup {"dead"}
      BY <1>1, <1>2, <1>4, <2>2, <3>2
    <3> QED
      BY <3>1, <3>2 DEF SeedInv, OneAdmin
  <2> QED
    BY <2>1, <2>2
<1>7. SeededBeforeServing'
  <2> SUFFICES ASSUME NEW q \in Procs, file[q] \notin touched,
                      pc'[q] \in Seeded \cup {"refused"}
               PROVE  users'[file[q]] # {}
    BY <1>1 DEF SeededBeforeServing
  <2>1. CASE file[q] = f
    BY <1>3, <2>1 DEF AdminOf
  <2>2. CASE file[q] # f
    <3>1. q # p /\ pc'[q] = pc[q] /\ file[q] \in Files
      BY <1>4, <2>2
    <3> QED
      BY <1>2, <2>2, <3>1 DEF SeedInv, SeededBeforeServing
  <2> QED
    BY <2>1, <2>2
<1>8. ToldIsSeeded'
  <2> SUFFICES ASSUME NEW q \in Procs
               PROVE  /\ pc'[q] \in {"off", "migrate", "count"} => q \notin told
                      /\ pc'[q] \in Seeded /\ q \in told /\ file[q] \notin touched =>
                           users'[file[q]] = AdminOf(q)
    BY <1>1 DEF ToldIsSeeded
  <2>1. CASE q = p
    BY <1>4, <1>5, <2>1
  <2>2. CASE q # p
    <3>1. pc'[q] \in {"off", "migrate", "count"} => q \notin told
      BY <1>4, <2>2 DEF SeedInv, ToldIsSeeded
    <3>2. ASSUME pc'[q] \in Seeded, q \in told, file[q] \notin touched
          PROVE  users'[file[q]] = AdminOf(q)
      <4>1. pc[q] = pc'[q] /\ file[q] \in Files /\ users[file[q]] = AdminOf(q)
        BY <1>4, <2>2, <3>2 DEF SeedInv, ToldIsSeeded
      <4>2. file[q] # f
        BY <1>5, <3>2, <4>1 DEF AdminOf
      <4> QED
        BY <1>2, <4>1, <4>2
    <3> QED
      BY <3>1, <3>2
  <2> QED
    BY <2>1, <2>2
<1>9. PortsHaveOwners'
  <2>1. pc[p] = "seed"
    OBVIOUS
  <2>2. \A q \in Procs : pc'[q] = "no_port" => pc[q] = "no_port"
    BY <1>4
  <2>3. \A q \in Procs : pc[q] \in {"serving", "dead"} => pc'[q] = pc[q]
    BY <1>4, <2>1
  <2> QED
    BY <2>2, <2>3 DEF SeedInv, PortsHaveOwners
<1> QED
  BY <1>6, <1>7, <1>8, <1>9 DEF SeedInv

LEMMA OthersKeepSeeds ==
  ASSUME TypeOK, SeedInv, NEW f \in Files, OtherClient(f)
  PROVE  SeedInv'
<1>1. /\ pc' = pc /\ file' = file /\ told' = told /\ touched' = touched \cup {f}
      /\ \A g \in Files \ {f} : users'[g] = users[g]
  BY DEF TypeOK, OtherClient
<1>2. \A p \in Procs : pc[p] # "off" => file[p] \in Files
  BY DEF TypeOK
<1>3. OneAdmin'
  BY <1>1 DEF SeedInv, OneAdmin
<1>4. SeededBeforeServing'
  BY <1>1, <1>2 DEF SeedInv, SeededBeforeServing, Seeded
<1>5. ToldIsSeeded'
  BY <1>1, <1>2 DEF SeedInv, ToldIsSeeded, Seeded
<1>6. PortsHaveOwners'
  BY <1>1 DEF SeedInv, PortsHaveOwners
<1> QED
  BY <1>3, <1>4, <1>5, <1>6 DEF SeedInv

LEMMA StepKeepsSeeds == TypeOK /\ SeedInv /\ [Next]_vars => SeedInv'
<1> SUFFICES ASSUME TypeOK, SeedInv, [Next]_vars PROVE SeedInv'
  OBVIOUS
<1>1. CASE UNCHANGED vars
  BY <1>1 DEF vars, SeedInv, OneAdmin, SeededBeforeServing, ToldIsSeeded, PortsHaveOwners
<1> QED
  BY <1>1, MovesKeepSeeds, SeedKeepsSeeds, OthersKeepSeeds DEF Next, Boot

LEMMA AlwaysSeeded == Spec => []SeedInv
<1>1. TypeOK /\ SchemaInv /\ SeedInv /\ [Next]_vars => (TypeOK /\ SchemaInv /\ SeedInv)'
  BY StepTyped, StepKeepsSchema, StepKeepsSeeds
<1> QED
  BY InitTyped, InitSchema, InitSeeds, <1>1, PTL DEF Spec

\* On a file no other client writes there is one admin for whoever gets past the seed,
\* and if that process logged a password, its password works (seed_admin_if_empty).
THEOREM OnePassword == Spec => []ToldPasswordWorks
<1>1. TypeOK /\ SeedInv => ToldPasswordWorks
  <2> SUFFICES ASSUME TypeOK, SeedInv, NEW p \in Procs, pc[p] \in Seeded,
                      file[p] \notin touched
               PROVE  \E q \in Procs : /\ users[file[p]] = {[name |-> "admin", by |-> q]}
                                       /\ p \in told => q = p
    BY DEF ToldPasswordWorks
  <2>1. file[p] \in Files /\ users[file[p]] # {}
    BY DEF TypeOK, Seeded, SeedInv, SeededBeforeServing
  <2>2. CASE p \in told
    BY <2>1, <2>2 DEF SeedInv, ToldIsSeeded, AdminOf
  <2>3. CASE p \notin told
    BY <2>1, <2>3 DEF SeedInv, OneAdmin, AdminOf
  <2> QED
    BY <2>2, <2>3
<1> QED
  BY <1>1, Typing, AlwaysSeeded, PTL

\* With a router that can be built, processes that race for a file or a port never all
\* give up on account of each other (seed_admin_if_empty and bind).
THEOREM OneIsLeft == RouterBuilds => (Spec => []SomebodyServes)
<1> SUFFICES ASSUME RouterBuilds PROVE Spec => []SomebodyServes
  OBVIOUS
<1> DEFINE NoPanic == \A q \in Procs : pc[q] # "panicked"
<1>1. Init => NoPanic
  BY DEF Init
<1>2. TypeOK /\ NoPanic /\ [Next]_vars => NoPanic'
  <2> SUFFICES ASSUME TypeOK, NoPanic, [Next]_vars PROVE NoPanic'
    OBVIOUS
  <2> USE DEF TypeOK, Goto
  <2>1. ASSUME NEW p \in Procs, Boot(p) PROVE NoPanic'
    <3>1. ASSUME Load(p) \/ Migrate(p) \/ CountUsers(p) PROVE NoPanic'
      BY <3>1 DEF Load, Migrate, CountUsers
    <3>2. ASSUME SeedAdmin(p) \/ SeedRefused(p) \/ BuildRouter(p) \/ Bind(p) PROVE NoPanic'
      BY <3>2 DEF SeedAdmin, SeedRefused, BuildRouter, Bind
    <3> QED
      BY <2>1, <3>1, <3>2 DEF Boot
  <2>2. ASSUME NEW p \in Procs, Die(p) PROVE NoPanic'
    BY <2>2 DEF Die
  <2>3. ASSUME NEW f \in Files, OtherClient(f) PROVE NoPanic'
    BY <2>3 DEF OtherClient
  <2> QED
    BY <2>1, <2>2, <2>3 DEF Next, vars
<1>3. TypeOK /\ SeedInv /\ NoPanic => SomebodyServes
  <2> SUFFICES ASSUME TypeOK, SeedInv, NoPanic, \A q \in Procs : Gone(q), NEW p \in Procs,
                      \A q \in Procs : pc[q] # "dead" /\ file[q] \notin touched
               PROVE  FALSE
    BY DEF SomebodyServes
  <2>1. \A q \in Procs : pc[q] \in {"refused", "no_port"}
    BY DEF Gone
  <2>2. \A q \in Procs : pc[q] = "refused"
    BY <2>1 DEF SeedInv, PortsHaveOwners
  <2>3. file[p] \in Files /\ users[file[p]] # {}
    BY <2>2 DEF TypeOK, SeedInv, SeededBeforeServing
  <2> QED
    BY <2>2, <2>3 DEF SeedInv, OneAdmin, Seeded
<1> QED
  BY <1>1, <1>2, <1>3, Typing, AlwaysSeeded, PTL DEF Spec
=============================================================================
