------------------------------- MODULE Startup -------------------------------
(***************************************************************************)
(* main of src/src/main.rs, from the configuration to the first request:   *)
(* processes started one after the other or at once, on one database file  *)
(* or on several, killed at any moment.  Only what outlives a process is   *)
(* kept: the schema and the users of each file, the ports that are taken.  *)
(***************************************************************************)
EXTENDS Naturals, FiniteSets

CONSTANTS
  Procs,      \* the processes ever started
  Files,      \* the paths a configuration or --db may name
  Ports,      \* the addresses it, --host and --port may name
  Objects,    \* the statements of migrations/001_initial.sql; 1 creates users
  Names,      \* the user names another SQLite client may insert
  RouterBuilds,  \* whether the linked axum takes the paths of api::router
  None

ASSUME StartupAssumption ==
  /\ Objects \in Nat \ {0}
  /\ RouterBuilds \in BOOLEAN
  /\ None \notin Procs \cup Files \cup Ports

VARIABLES
  pc,       \* where main of each process is
  file,     \* the path it has chosen
  port,     \* the address it has chosen
  at,       \* how many statements of the migration it has run
  told,     \* the processes that logged a password for a new admin
  schema,   \* how many objects of the schema each file has, in their order
  users,    \* the users of each file, with who chose their password
  touched   \* history: the files whose users another client has changed

vars == <<pc, file, port, at, told, schema, users, touched>>

Row == [name : Names \cup {"admin"}, by : Procs \cup {None}]

Init ==
  /\ pc = [p \in Procs |-> "off"]
  /\ file = [p \in Procs |-> None]
  /\ port = [p \in Procs |-> None]
  /\ at = [p \in Procs |-> 0]
  /\ told = {}
  /\ schema = [f \in Files |-> 0]
  /\ users = [f \in Files |-> {}]
  /\ touched = {}

Goto(p, l) == pc' = [pc EXCEPT ![p] = l]

\* load_config, the defaults it falls back on, and the overrides of the command
\* line: any path and any address, in the end.
Load(p) ==
  /\ pc[p] = "off"
  /\ \E f \in Files, a \in Ports : /\ file' = [file EXCEPT ![p] = f]
                                   /\ port' = [port EXCEPT ![p] = a]
  /\ Goto(p, "migrate")
  /\ UNCHANGED <<at, told, schema, users, touched>>

\* Mutant for ServersHaveTheSchema: a file with tables is taken to have them all.
MigrateNew(p) ==
  /\ pc[p] = "migrate"
  /\ IF schema[file[p]] > at[p]
     THEN /\ at' = [at EXCEPT ![p] = Objects]
          /\ UNCHANGED schema
     ELSE /\ at' = [at EXCEPT ![p] = at[p] + 1]
          /\ schema' = [schema EXCEPT ![file[p]] = at[p] + 1]
  /\ IF at'[p] = Objects THEN Goto(p, "count") ELSE UNCHANGED pc
  /\ UNCHANGED <<file, port, told, users, touched>>

\* Mutant for TypeOK: one statement too many.
MigrateOver(p) ==
  /\ pc[p] = "migrate"
  /\ at' = [at EXCEPT ![p] = at[p] + 1]
  /\ schema' = [schema EXCEPT ![file[p]] = IF @ > at[p] THEN @ ELSE at[p] + 1]
  /\ IF at[p] = Objects THEN Goto(p, "count") ELSE UNCHANGED pc
  /\ UNCHANGED <<file, port, told, users, touched>>

\* Database::open and migrate: CREATE .. IF NOT EXISTS, each committed at once.
Migrate(p) ==
  /\ pc[p] = "migrate"
  /\ at' = [at EXCEPT ![p] = at[p] + 1]
  /\ schema' = [schema EXCEPT ![file[p]] = IF @ > at[p] THEN @ ELSE at[p] + 1]
  /\ IF at[p] + 1 = Objects THEN Goto(p, "count") ELSE UNCHANGED pc
  /\ UNCHANGED <<file, port, told, users, touched>>

\* seed_admin_if_empty, first call: SELECT COUNT(*).  A password is chosen, and
\* logged, before the second call.
CountUsers(p) ==
  /\ pc[p] = "count"
  /\ IF users[file[p]] = {}
     THEN Goto(p, "seed") /\ told' = told \cup {p}
     ELSE Goto(p, "router") /\ UNCHANGED told
  /\ UNCHANGED <<file, port, at, schema, users, touched>>

NameTaken(f) == \E u \in users[f] : u.name = "admin"

\* create_user, second call: the INSERT.  It does not ask again who is there.
SeedAdmin(p) ==
  /\ pc[p] = "seed"
  /\ ~NameTaken(file[p])
  /\ users' = [users EXCEPT ![file[p]] = @ \cup {[name |-> "admin", by |-> p]}]
  /\ Goto(p, "router")
  /\ UNCHANGED <<file, port, at, told, schema, touched>>

\* Mutants: INSERT OR IGNORE (ToldPasswordWorks), and an INSERT refused without
\* cause (SomebodyServes).
SeedIgnored(p) ==
  /\ pc[p] = "seed"
  /\ NameTaken(file[p])
  /\ Goto(p, "router")
  /\ UNCHANGED <<file, port, at, told, schema, users, touched>>

SeedUnsure(p) ==
  /\ pc[p] = "seed"
  /\ Goto(p, "refused")
  /\ UNCHANGED <<file, port, at, told, schema, users, touched>>

\* username is UNIQUE: the error leaves main.
SeedRefused(p) ==
  /\ pc[p] = "seed"
  /\ NameTaken(file[p])
  /\ Goto(p, "refused")
  /\ UNCHANGED <<file, port, at, told, schema, users, touched>>

\* main goes on to the monitor and api::router().  Router::route of axum 0.8 panics
\* on a path with a segment such as /:id, and the panic ends main.
BuildRouter(p) ==
  /\ pc[p] = "router"
  /\ Goto(p, IF RouterBuilds THEN "bind" ELSE "panicked")
  /\ UNCHANGED <<file, port, at, told, schema, users, touched>>

Serving(p) == pc[p] = "serving"

Bind(p) ==
  /\ pc[p] = "bind"
  /\ Goto(p, IF \E q \in Procs : Serving(q) /\ port[q] = port[p] THEN "no_port" ELSE "serving")
  /\ UNCHANGED <<file, port, at, told, schema, users, touched>>

Gone(p) == pc[p] \in {"refused", "panicked", "no_port", "dead"}

\* Killed, or any other call of main fails: configuration, directory, file, disk.
Die(p) ==
  /\ pc[p] # "off" /\ ~Gone(p)
  /\ Goto(p, "dead")
  /\ UNCHANGED <<file, port, at, told, schema, users, touched>>

\* Another client: no endpoint creates or deletes users.
OtherClient(f) ==
  /\ schema[f] > 0
  /\ \/ \E n \in Names \cup {"admin"} :
          /\ \A u \in users[f] : u.name # n
          /\ users' = [users EXCEPT ![f] = @ \cup {[name |-> n, by |-> None]}]
     \/ \E u \in users[f] : users' = [users EXCEPT ![f] = @ \ {u}]
  /\ touched' = touched \cup {f}
  /\ UNCHANGED <<pc, file, port, at, told, schema>>

Boot(p) ==
  \/ Load(p)
  \/ Migrate(p)
  \/ CountUsers(p)
  \/ SeedAdmin(p)
  \/ SeedRefused(p)
  \/ BuildRouter(p)
  \/ Bind(p)

Next ==
  \/ \E p \in Procs : Boot(p) \/ Die(p)
  \/ \E f \in Files : OtherClient(f)

Spec == Init /\ [][Next]_vars

-----------------------------------------------------------------------------
Seeded == {"router", "bind", "serving", "panicked", "no_port"}

PC == {"off", "migrate", "count", "seed", "refused", "dead"} \cup Seeded

TypeOK ==
  /\ pc \in [Procs -> PC]
  /\ file \in [Procs -> Files \cup {None}]
  /\ port \in [Procs -> Ports \cup {None}]
  /\ \A p \in Procs : pc[p] # "off" => file[p] \in Files /\ port[p] \in Ports
  /\ at \in [Procs -> 0 .. Objects]
  /\ told \subseteq Procs
  /\ schema \in [Files -> 0 .. Objects]
  /\ users \in [Files -> SUBSET Row]
  /\ touched \subseteq Files

\* No process counts users, seeds or serves on a file that lacks a table, although
\* migrations are cut short by crashes and overlap (Database::migrate).
ServersHaveTheSchema ==
  \A p \in Procs :
    pc[p] \in {"count", "seed"} \cup Seeded => schema[file[p]] = Objects

\* On a file that no other client writes, a process that gets past the seed has
\* exactly one user to let in, the admin, and if it logged a password for it, that is
\* the one that works: the count and the insert are two calls, and crashes or a
\* second process may come in between (seed_admin_if_empty).
ToldPasswordWorks ==
  \A p \in Procs :
    pc[p] \in Seeded /\ file[p] \notin touched =>
      \E q \in Procs : /\ users[file[p]] = {[name |-> "admin", by |-> q]}
                       /\ p \in told => q = p

\* The binary serves (main.rs): processes that start at once never all give up, if
\* none was killed, found its host unusable, or had its file written by another client.
SomebodyServes ==
  (\A p \in Procs : Gone(p)) /\ Procs # {} =>
    \E p \in Procs : pc[p] = "dead" \/ file[p] \in touched
=============================================================================
