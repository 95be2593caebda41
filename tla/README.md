# A TLA+ model of PlausiDen Shield

PlausiDen Shield (`src/`) is a single axum process that administers one Linux
host: it authenticates users against a SQLite file, gates every endpoint by the
role of the user, keeps tickets, samples metrics, and runs `ufw`, `fail2ban`,
`systemctl` and `clamscan` as child processes. This directory holds its TLA+
specifications, the TLC configurations that check them on small instances, and
proofs for TLAPS. Source paths below are relative to `src/src/` unless they say
otherwise; `PROJECT.json` maps each definition to the lines it translates.

## 1. Inventory

| Component | State it keeps | Operations | What makes it correct |
|---|---|---|---|
| RBAC, `auth/rbac.rs` | none (constant tables) | `level`, `permissions`, `has_permission` | the order of roles agrees with what they may do |
| Sessions and users, `auth/session.rs`, `migrations/001_initial.sql` | tables `users`, `sessions` | `login`, `validate_session`, `revoke_session`, `create_user`, `seed_admin_if_empty` | a token stands for one account for ever; dead tokens stay dead; expiry is exact, where there is one |
| Request pipeline, `auth/mod.rs`, `api/mod.rs` | per request: the extractor's snapshot of the user | `AuthUser`, `require_permission`, `login`, `logout`, `me`, the guarded handlers | nothing runs without a right held since the request arrived; a logout is final |
| Database handle, `db.rs` | one connection in an `Arc<Mutex<..>>`, its poison flag, the closures handed to the blocking pool | `open`, `migrate`, `with_conn`, `call` | a call is atomic to who awaits it; the mutex is given back; every closure gets a thread; after a panic everything fails closed |
| Tickets, `tickets/mod.rs` | tables `tickets`, `ticket_comments` | `create`, `update`, `get`, `get_comments`, `add_comment`, `list` | references hold; acknowledged updates stay; stamps follow the status |
| Policy engine, `auth/{abac,mac,sod,policy_engine}.rs` | the loaded rules and constraints | `set_abac_rules`, `set_sod_constraints`, `evaluate`, `test_access` | clearances are a floor; limits are never exceeded |
| Startup, `main.rs` | none | load the configuration, open, migrate, count, seed, build the router, bind, serve | nobody serves without the schema; the logged password is the one that works; of processes started at once somebody serves, which they do not with the axum that is locked (section 4) |
| Background monitor, `monitor/mod.rs` | table `metrics`, the collector behind a tokio mutex | a tick samples and inserts two rows | it survives errors; it has the collector across no database call |
| Analytics and audit, `analytics/mod.rs` | table `audit_log` | `get_metrics`, `get_audit_log`, `log_audit` (never called) | charts read one after the other agree |
| Integration bus, `integrations/mod.rs` | adapters behind an `RwLock` | `register`, `list`, `health_check`, `health_check_all` | a report is of one moment; slow checks hold back no list, and readers no registration |
| Command executor, `executor/command.rs` | none | `exec` | a child's end is noticed; its exit status reaches the caller |
| Firewall endpoints, `api/firewall.rs` | that of `ufw` | status, add, delete, enable, disable | what was listed is what is deleted; ok means done |
| IDS endpoints, `api/ids.rs` | that of `fail2ban` | overview, ban, unban | what an overview lists did hold, what held throughout is listed |
| Services endpoints, `api/services.rs` | that of `systemd` | list, show, five actions | what is shown of a unit was so at one moment |
| Antivirus endpoints, `api/antivirus.rs` | that of `clamd` | status, scan, update | a report misses nothing that was infected throughout |
| Files endpoints, `api/files.rs` | the file system | browse, read | a listing and a refusal are right of some moment of the request |
| System overview, `api/system.rs` | the monitor's collector | one read | it gets its turn |
| Configuration, `config.rs` | none after start | parse, defaults | |

Interactions. Every handler is a task of the tokio runtime. A handler that needs
the database moves a closure to the blocking pool (`Database::call`) and awaits
it; the closure takes the one connection mutex for its whole run. `AuthUser`
runs such a closure before the handler's body, and where the handler takes
`Json<..>` axum then reads the rest of the client's body, for as long as the client
takes, before `require_permission` and the handler's own closure. A request is
thus two closures with at least one `.await` between them, and only the snapshot of
the user crosses it. Dropping the task (the client goes away) does not cancel a
closure that was already handed to the pool. A panic in a closure poisons the mutex
until the process is restarted. The other endpoints await a child process instead
of a closure; such a child is not killed with the task that awaits it. The monitor
is a task of its own and shares the collector with the overview. Other programs
may write the same SQLite file, and have to: no endpoint creates, edits or deletes
users. They are not under the mutex, so they may write between two statements of
one closure as well.

What is hard here: two closures of one request with anything between them, a slow
body among it;
logouts racing requests already admitted; expiry and a clock that is set back;
four autocommitted statements inside one `update`; dropped requests whose
effects still happen; crashes, restarts and the reseeding of an empty table;
poisoning; answers put together from several commands or system calls while the
host changes; children that outlive their request; locks that are fair, and one
that is not. `PROJECT.json` lists these as hazards, at the lines where they bite.

## 2. What each module models

**`Rbac`** holds the constant tables of layer 1, transcribed from `rbac.rs`.

**`Sessions`** holds the tables `users` and `sessions`, the clock, and one
operator for each closure of `session.rs`. A closure runs under the connection
mutex, so it is one formula. Data is abstracted as follows.

- A password verifies or does not: `MayLogIn` is necessary, `LoginRefused` is
  always possible. Names are user ids.
- A token is drawn once (`Fresh`, an assumption on the `uuid` crate and no code of
  this repository): a UUID v4 is taken never to repeat, and the token's hash to be
  injective, so the row is keyed by the token itself. No property rests on it alone.
- Time is a natural number. `expires` is set to `now + SessionTimeout`;
  `SessionTimeout` is an integer, since the code casts the configured `u64` with
  `as i64`. The panic of chrono's addition is `ExpiryOverflows`, with
  `MaxInstant` for the last representable instant. Instants before 0 and after
  `MaxParsed` are those whose text has a signed year: `validate_session` compares
  an `expires_at` only if it parses (`Parses`), so such a session never expires.
- `validate_session` is two SELECTs, of the session (`SessionUsers`) and of its user
  (`Loads`). Another SQLite client may write between them (`Between`, once).
- Of a user's row, only `is_active` and `role` decide anything. `AUTOINCREMENT`
  gives no id twice (`IdIsNew`). A client that deletes a user takes the sessions
  along only if it switched `foreign_keys` on.
- `life` and `issued` are history: which account of its id a row is, and every
  token, user and life that a login ever put together.

**`Gateway`** composes these closures into requests. A slot of `req` is one
task; its `pc` names what it waits for: the extractor's closure, the client's body,
the handler's closure or child process, or the client that reads the answer.
Actions and code correspond one to one:

| Action | Code |
|---|---|
| `LoginArrives`, `Arrives` | a request reaches `login`, which takes nothing but a body, or `from_request_parts` of a handler that takes `AuthUser`; without the cookie it is answered 401 there and then |
| `Refuse`, `Admit` | the closure of `validate_session` ends; `Admit` leaves the user in the request and, if the handler takes no `Json<..>` (`BodyOf`), goes on with the handler's first lines (`Begin`: `require_permission`) |
| `BodyArrives`, `BodyRefused` | axum has read the body and the handler begins, or answers 400, 415 or 422 before any 403 |
| `Logout` | the closure of `revoke_session`, then the handler's answer |
| `LoginRefused`, `LoginCreates`, `LoginPanics` | the closure of `login`: no session, a session (and perhaps an error after its INSERT), or the panic that poisons the mutex |
| `Act` | the body of a guarded handler, opaque here |
| `CallFails` | `db.call` returns `Err`: 401 from the extractor, 500 from a handler |
| `Respond`, `Disconnect` | the client reads the answer, or goes away first; a closure or child already started runs on |
| `Crash`, `Restart` | the process dies; `main` opens, migrates and seeds, and serves if the router can be built (`RouterBuilds`) |
| `Environment` | another SQLite client edits or deletes users; the clock advances or is set back |

`loggedOut` (tokens whose logout the client has seen acknowledged), the field
`late` and `seen` are history. `seen` is written by `Observe`, which is conjoined
to every step: it evaluates what a session is worth from the rows alone, in
definitions of its own (`Named`, `Entitled`, `Lapse`), and remembers for each request
whom its token named since it arrived, who of them then or later had the right,
and whether there was a moment without anybody.

**`Tickets`** models the closures of `tickets/mod.rs` and the handlers around
them. The closures of one statement are atomic. `update` is not: its statements
(status, the stamp that goes with it, priority, assignee) are separate actions,
in the order of the source, while the slot holds `lock`. An error at any of them
leaves the closure by `?` and keeps what ran before; a crash does the same.
CHECK and REFERENCES constraints are the guards of the statements, and a
statement whose guard is false can only fail. `get_ticket` is two closures.
A request starts where `AuthUser` and `require_permission` have let it through,
with its user's id; that part is `Gateway`'s. Users are deleted by another SQLite
client, which is assumed to switch `foreign_keys` on, as this program's
connection does; a client that does not may break any reference.
`torn`, `settled`, `alone` and `known` are history. Text columns, `updated_at`
and the ordering of listings are left out: no property tells them apart.

**`PolicyEngine`** models ABAC, MAC and SoD and the way `policy_engine.rs` joins
them. No handler calls the engine. Its caller is therefore modelled from the
comments of `sod.rs`: it evaluates with the prior actions of the user on the
resource, and then performs and logs the action (`Perform`). That evaluation and
logging are one step is an assumption about a caller that does not exist yet.
PBAC and the contextual layer allow every request in the code and are left out.

**`DbMutex`** models `db.rs` below the level of the others: `Database::call` hands
a closure to the blocking pool (`Call`), a thread takes it (`Start`) and takes the
`std::sync::Mutex` (`Lock`, or `LockPoisoned`), runs it statement by statement,
each autocommitted (`Statement`), and lets go by returning, failing or panicking;
the answer waits for the caller (`Await`), who may have been dropped before
(`DropCaller`). `Crash` is the death of the process followed by a start on what
was committed. The data is what closures make of contents, `After[s][k]`: what `k`
statements leave of contents `s`.

**`AtomicCalls`** is the abstract specification of a database call: closures take
effect one at a time, each on what the ones before it left; an answer comes from
a closure that ran to its end; a failure or a crash cuts at most one closure
short; after a panic nothing takes effect. `DbMutex` implements it under the
mapping `db <- Settled`, `phase <- Phases`: until the closure that holds the
mutex lets go, the contents are those it found. This is the step at which
`Gateway` and `Monitor` model a database call as one action; `Tickets`
looks inside one.

**`Startup`** models `main` of several processes from the configuration to the
first request: which file and address it settles on (`Load`), the migration
object by object (`Migrate`), `CountUsers`, `SeedAdmin` or `SeedRefused` (the name
is UNIQUE), `BuildRouter`, which panics or does not (`RouterBuilds`), `Bind`, and a
death at any moment. A password is chosen and logged at
the count, before the insert. Another SQLite client may change users.

**`Monitor`** models the task of `start_monitor` (a burst interval, the collector,
the two INSERTs, an error that is only logged), the overview that shares the
collector, and a dashboard that asks for one chart and then for the other. The
tokio mutex is a queue whose head has the lock. Each INSERT asks for the time, so the
two rows of a sample may be a second apart. Rows of one second come in any
order, as `ORDER BY recorded_at DESC` leaves it open.

**`IntegrationBus`** models the adapters' map behind tokio's `RwLock`: granted in
order of arrival, neighbouring readers together, so a writer that waits holds
back the readers behind it. A task holds its guard across all of its checks.
The repository has no adapter and no caller of `register` after start; what
`main`'s comment announces (modules that register themselves) is the constant
`Late`.

**`Firewall`, `Ids`, `Services`, `Antivirus`** model the handlers over
`executor/command.rs`. A slot is one task with the child it waits for; the
programs, and whoever else uses them, are the environment, with the few states
an answer can tell apart. Their output is not in the repository. What the parsers
make of it is, and where that depends on the layout, the layout is a constant:

| Constant | The layout | TRUE means |
|---|---|---|
| `Ids`: `ListAtSecondColon` | the line with `Jail list:` | the jails stand behind a second colon (`parse_jail_list`, `nth(2)`) |
| `Ids`: `BareList` | the line of the addresses | it starts with `Banned IP list:`, blanks aside (`parse_jail_status`) |
| `Firewall`: `DashesFirst` | the line under the heads of the columns | it starts with its dashes, which `parse_ufw_status` waits for |

As far as we know the tools themselves print `FALSE` for all three: fail2ban-client
has one colon in the first line and a tree prefix before the second, and ufw indents
the dashes. `FALSE` makes the overview empty and the listing of rules empty, and then
nothing is left to say of their rows; the passing runs therefore take a layout that
the parsers read, and `ids_jails` the other one. The theorems are for both.

A handler and its parser are one step with the end of its child, except in
`Firewall`, where the child's output and the answer are two. A dropped task leaves
a child that changes something running, and nobody reads its exit status.
A crash of the server is the same to these parts as all clients going away; where
no action is named `Crash`, it is a sequence of `Disconnect`s.

`Services` lets through what `is_valid_service_name` does: names of units, a name of
none (`Absent`), and an option (`Option`), for which systemctl exits 0 and does nothing.
Of the units in `Loose` it exits 0 and may leave them as they were: a oneshot unit that
is never active, a unit without `[Install]` that is never enabled. `Firewall` reads a
line without a number as `parse_rule_line` does, a rule under the next number
(`Below`, `Parse`).

**`Files`** models `browse` entry by entry and `read_file` system call by system
call, while other programs create, grow, shrink, replace and delete files:
`resolve_safe_path`, `metadata` with its 400 for a directory, and `tokio::fs::read` as
an open and then reads until one returns nothing. A file that is open outlives its
name (`held`); nobody writes it from then on.

`Ids`, `Services`, `Antivirus` and `Files` have an observer: history variables
that follow each state of the host that a request lives through, so that
properties can speak of "at some moment since the request arrived".

**`MCGateway`, `MCTickets`, `MCPolicyEngine`, `MCStartup`** hold instances of one
module, **`MCPolicies`** the users, rules and constraints of a policy. **`MCParts`**
holds instances of nine that share no state: an interleaving of two shows nothing
that each alone does not, so a behaviour picks one of `Parts` at the start and leaves
the others alone.
**`GatewayProofs`, `TicketsProofs`, `PolicyEngineProofs`, `DbMutexProofs`,
`StartupProofs`, `ProcessProofs`** (monitor and bus), **`FirewallProofs`** and
**`HostProofs`** (IDS, files, antivirus, services, and what all parts share) hold
the theorems.

## 3. The runs

| Run | Question | Instance |
|---|---|---|
| `gateway_requests` | what does the gate grant and refuse, and what is a logout worth, when two requests, slow bodies, edits of the user, expiry, crashes and disconnects interleave? does a panic under the mutex fail closed? | 1 user, 2 tokens, 2 requests, times 1..3, `MaxInstant` 2 |
| `gateway_ends` | does a token ever change hands when users are deleted, with or without their sessions, and the table is seeded again? does a logout hold when the clock is set back, or the session never expires? is everybody answered who waits for the database? | 2 users, 1 token, 1 request, times 1..3, a timeout of -4, `MaxInstant` 2 |
| `gateway_levels` | (violation) do roles of a higher level have every right of the lower ones? | 1 request |
| `tickets_updates` | what is left when two updates of one ticket overlap, fail, crash or lose their client, and do they give the connection back? | 1 ticket, 2 requests, valid and invalid statuses |
| `tickets_rows` | do references and two-step reads survive comments, creations and assignments while users are deleted? | 2 users, 1 ticket, 2 comments, 2 requests |
| `tickets_stamp` | (violation) is a resolved ticket stamped when nothing runs? | 1 ticket, 1 request |
| `policy_repeat` | (violation) does SoD deny only what exceeds the limit? | 3 users, 2 resources, 3 actions, 6 rule sets, 4 constraint sets |
| `startup` | what is there when one of several processes serves, and does one? | 3 processes, 2 files, 2 ports, a schema of 2 objects |
| `startup_router` | (violation) does anybody serve with a router that panics? | 2 processes |
| `parts` | what may an answer say that is put together while the host and other requests move? | see below; safety of the monitor, the bus, the policy engine and the five endpoints |
| `ids_jails` | (violation) is a ban that holds throughout listed, with fail2ban's own layout? | 2 jails, 1 request |
| `locks` | is a database call atomic, and who waits for a lock or a thread, does he get it? | 3 calls, 2 threads, closures of 2 statements, 5 contents; 2 overviews; 3 tasks on the bus |

### Bounds, and why they are enough

- `Requests`: two slots, reused for ever, in `gateway_requests`. Every property but
  one speaks of one request against the tables, so the second slot plays the rival:
  the logout, the other login. `TokenNamesItsUser` needs a history of users and not
  of rivals, and liveness is owed to each request whatever the others do; both are
  run with one slot, two users and a client that edits at any time (`gateway_ends`).
- `Tokens`: two, so that one session may die while another lives. The cookie may
  also be absent, or hold a token that was never issued.
- `SessionTimeout = 1`, `MaxTime = 3`, first instant 1, `MaxInstant = 2`: a session
  created at 1 is seen before, at and after its last instant; a login at 2 overflows
  and poisons the mutex. In `gateway_ends` the timeout is -4: a login at 1 overflows,
  one at 2 or 3 leaves an `expires_at` that does not parse.
- `RouterBuilds` is TRUE wherever anything is to be served, and `startup_router` shows
  what FALSE means.
- `Between` lets the other client write once between the two SELECTs of
  `validate_session`; what a second write there may do, one before the first may too,
  but for the two together.
- `MaxTickets = 1`, `MaxComments <= 2`: closures touch one ticket by its id; the
  id without a row is there before the first creation. `Fresh` and
  `Len(tickets) < MaxTickets` stop the model, never the program, so a passing
  safety run says nothing beyond them.
- `startup`: three processes, so that one can seed, one be refused and one come
  later; a schema of two objects, so that a migration can be cut between them;
  no user names but "admin", the one that can collide.
- `locks`, database: three calls on two threads, so that one waits in the pool
  behind one that waits for the mutex; contents repeat after five statements,
  more than two closures have together. Monitor: two ticks may be late
  (`MaxDue`), rows are cut off (`MaxSamples` 1, `MaxTime` 0) since liveness is not
  about them. Bus: one adapter, three tasks.
- `parts`: two requests (`Slots`) where requests meet in a child's effects, one
  (`OneSlot`, `MonSlots`) where they only read, and in `Services` and `Ids`, where
  systemd and fail2ban do by themselves at any moment all that the child of another
  request could do. Two units, one of them loose. Firewall: two rules and numbers 0 to
  `MaxNumber = 2`, 0 standing for what `ufw` refuses. Two jails with one IPv4 and
  one IPv6 address. Two files of size 0 to `MaxSize = 2`, so that one
  may change between two reads, the limit at each. Monitor: three samples with a `Limit` of two, so that rows fall out of
  the chart, in three seconds, so that rows may share one or not. Bus: two
  adapters, one of them registered late. Policy engine: as in `policy_repeat`.
- Symmetry: requests, tokens, processes, rules are interchangeable in safety runs.
  Runs with a liveness property use none.

### Fairness

`Gateway` asks for weak fairness of a request that waits for a closure (`AwaitsDb`):
the blocking pool runs a closure it was given, and tokio polls the task it wakes. It
takes for granted that a closure that waits for the `std::sync::Mutex` gets it in the
end; since closures are atomic in this module, a poisoned mutex answers at once and a
free one is handed over. Nothing obliges clients, their bodies, the clock,
administrators, crashes or children to do anything: `main` installs no timeout, so a
request whose body never ends is there for ever, and `DatabaseAnswers` does not speak
of it.
`Tickets` splits `update`, so there the mutex can be held between two
steps; `std::sync::Mutex` is not fair, hence only weak fairness is asked, and the
only promise checked is that the connection is given back.

`DbMutex` asks that a free thread takes the next closure, that a free mutex goes to
one of those who wait, no matter whom, and that a closure goes on. Nothing makes
a particular waiter win, and `EveryClosureStarts` does not need it.
`Monitor` asks that the monitor takes a tick that is due and goes on with its
sample, and that an overview at the head of the collector's queue goes on; tokio's
mutex is fair, so the queue is part of the model and not of the fairness. Ticks
and clients are owed nothing. `IntegrationBus` asks that a task that can have the
lock, or is done, is run (`Scheduling`). That adapters answer is a hypothesis of
`WritersGetTheirTurn` alone (`ChecksEnd`), since `health_check` has no timeout.
In `locks` the fairness of all three is conjoined: a part that is not explored has
nothing enabled.

## 4. What the checks show

They hold: requests run only on a session that was good and a right that was held at
some moment since they arrived (`GrantedWithinRequest`). The extractor's snapshot can
be stale by the length of its own request, and a client can stretch that: the
permission is checked on the snapshot, after the body. 401s that no database failure
explains are deserved (`RefusedForCause`). A logout that was answered is final, even
if the clock is set back or the session never expires: the flag, not the expiry,
carries it. No token changes hands: sessions that a foreign client left behind its
deleted user are met by `AUTOINCREMENT`, which gives the id to nobody else
(`TokenNamesItsUser` fails without it). A poisoned mutex lets nothing through and
delays nothing. An acknowledged update that no other update overlapped stays until
the next one.

A database call is atomic to who awaits it (`Implements`), and a pool full of
threads that wait for one mutex still starts every closure. No process serves
without the schema, and the password it logged works, although count and insert
are two calls; if the router builds, of processes started at once not all give up on
each other (`SomebodyServes`). A delete by number removes what the listing showed, if the
listing is still true: the code cannot promise more, and a retried delete removes
a second rule. `{"ok": true}` is about the child of the very request
(`OkMeansDone`), with the exceptions named below. Answers put together from several commands or system calls are
right of some moment of the request, piece by piece (`BansHeld`, `ListingsHeld`,
`ReadsAreJustified`, `ReportsHeld`, `StableThreatsAreReported`). Charts agree but
for samples cut short. A stuck health check holds back no list unless a
registration waits in between, and then it does: this is the exception that
`ListsPassChecks` states.

Five statements of the repository do not hold of its code:

1. `rbac.rs:10` and `:21` call the roles a descending order of privilege and the
   level "higher = more privileged". Support (50) may `ManageTickets`; operator
   (75) may not (`gateway_levels`).
2. `tickets/mod.rs:130` and `tests/ticket_tests.rs:137` expect a resolved ticket
   to have `resolved_at`. The two are set by separate autocommitted statements,
   so a failure or crash between them leaves one without the other for good
   (`tickets_stamp`). `StampFollowsStatus` is what does hold: only an update that
   stopped part-way leaves such a row.
3. `sod.rs:58` says "The requested action would push them over the limit." The
   check at line 59 also denies an action the user has performed before, which
   adds nothing to the set of their actions (`policy_repeat`).
4. `main.rs:5` says "Serves a REST API + static frontend." `Cargo.lock:146` has axum
   0.8.9, whose `Router::route` panics on a segment that starts with a colon, and
   `api/mod.rs:37,46,57,58` have four. `main` ends at line 111, behind the seed and
   before the bind (`startup_router`). Everything else here is about the program with
   a router that builds. That axum panics is a fact about a crate outside the
   repository.
5. `api/ids.rs:37` promises a "fail2ban status and jail overview". `parse_jail_list`
   (line 140) takes what is behind the second colon of a line in which fail2ban-client
   prints one, so no jail is ever found (`ids_jails`). That layout is a fact about a
   program outside the repository.

Seen while modelling, and no violation of anything the code states: a login
whose second statement fails answers 500 and leaves a live session; a database
error in the extractor reads as 401 (`fault` in `RefusedForCause`). Further:

- `auth/session.rs:209` compares an expiry only if it parses: a timeout that is large
  enough, or negative after `as i64`, makes sessions that never expire, and so does a
  row of another client.
- `api/mod.rs:138,170,187` and the POSTs of the other endpoints take `Json<..>` after
  `AuthUser`: a malformed body is answered 4xx before a 403, and one that never ends
  keeps its request.
- `auth/session.rs:263` "Seed the default admin user if no users exist.": a user
  inserted by another client between the count and the insert does not stop it.
- `api/firewall.rs:75` does not read the exit status of `ufw status`: a failure is
  answered 200, inactive, without rules. `default_incoming` and
  `default_outgoing` are constants.
- The separator that the firewall's parser looks for starts with `---`
  (`api/firewall.rs:246`); `ufw` indents it, so no rule is ever listed
  (`DashesFirst`). A remark below it is listed as a rule.
- `api/ids.rs:167` wants `Banned IP list:` at the start of its line, where
  fail2ban-client has a tree prefix (`BareList`); `:168` takes what is between the
  first and the second colon: an IPv6 address is listed as its first group and
  hides those after it.
- `api/services.rs:118` lets `--version` through: systemctl exits 0, and the answer is
  ok with nothing done (`OptionSucceeds`). Of a unit in `Loose`, ok does not mean active
  or enabled. `OkMeansDone` excepts both by name.
- `api/files.rs:98` says "size-limited": the limit is compared with metadata
  taken before the read, so a file that grows in between is served whole.
- `api/antivirus.rs:97`: a scan that could not be made is answered like one that
  found nothing. `StableThreatsAreReported` therefore excludes it (`status < 2`).
- `list_services` answers `enabled: false` for every unit.
- `monitor/mod.rs` samples cpu and memory every 60 seconds, whatever is configured.
- `migrations/001_initial.sql:120` names a default password that no code sets.

## 5. What is proved

`GatewayProofs` proves, for every set of users, tokens and requests, every
timeout and every clock, those whose expiry does not parse included, from
`SessionsAssumption` and `GatewayAssumption` only:

- `Typing`: `Spec => []TypeOK`. It is inductive as it stands, with the
  well-formedness of a slot as a part of it: a handler that runs, or waits for its body,
  knows its user.
- `DeadForEver`: `Spec => DeadTokensStayDead`. By `StepMonotone`: in one step
  rows are only inserted under fresh tokens, flagged or deleted.
- `LogoutsAreFinal` and `TokensNameOneUser`. Neither invariant is inductive.
  `LogoutIsFinal` speaks of requests; what protects it is that the *token* of an
  acknowledged logout is dead. `TokenNamesItsUser` speaks of accounts, and a session
  names its account by an id only, so it has to be shown that the id of a deleted user,
  whose sessions may stay behind as orphans, is never that of a later account, the one
  that `seed_admin_if_empty` makes included. `TokensInv` adds what is missing: an id has
  one account in all its life (`OneLife`); rows come from `issued` (`RowsIssued`); a
  token has one user (`OneUser`); a token whose logout was answered, to its client or
  not yet, has no unrevoked row and was issued (`LogoutsKill`); a late request carries a
  logged-out token (`LateIsLoggedOut`); and a request that is still to be validated has
  been recognised as nobody (`Unrecognised`). Deadness is needed together with "was
  issued": a token nobody was given yet has no row either, and may get one.
- `GrantsAreFresh`: `Spec => []GrantedWithinRequest`. The property speaks of handlers
  that run. `GrantsInv` says it of the requests that wait for their body too: the
  observer has seen entitled whom the snapshot of the user allows, and a handler that
  runs has passed the gate. It has no premise about expiry, and
  covers the rows whose `expires_at` does not parse, which never expire.
- `RefusalsHaveACause`: `Spec => []RefusedForCause`. A 401 that no failure explains
  is written only where the observer records the lapse, between the two SELECTs
  included (`RefusedLapse`).
- `PoisonedIsClosed`: `Spec => PoisonFailsClosed`, step by step from `TokensInv`.

The lemmas go from operators (`AnswerTyped`, `InsertMonotone`, ...) to one lemma
per group of actions, to the step, to the theorem; `EveryStep` says once what any
step may do to one slot, and the invariants are proved from that.

`TicketsProofs` proves, from `TicketsAssumption` only, for any number of rows:

- `Typing`, which includes that rows satisfy the CHECK constraints, and
  `References`: `Spec => []ReferencesHold`, inductive with the types.
- `Stamps`: `Spec => []StampFollowsStatus`. What is inductive is `StampInv`, which
  adds: the mutex is held part-way by an update only (`LockHeld`); a stamp still
  to be written is that of the patch's own status, and a status still to be
  written has its stamp ahead of it (`StampAhead`); between the two the row has
  the status of the patch (`StatusWritten`). Most steps are `Quiet`: they start,
  advance and end no update, and one lemma covers them all.
- `ReadsAreComplete`: `Spec => []CommentsNoOlderThanTicket`. The property speaks of
  the answer; between the two calls there is no answer yet, so `CommentsInv` says of
  the table that it still has what was there at the first (`CommentsOnlyAdded`: no
  step loses a comment or moves it to another ticket).
- `UpdatesStay`: `Spec => []AcknowledgedUpdatesStay`. The property speaks of the row
  after the acknowledgement. `UpdatesInv` adds what makes it so: of two updates of
  one ticket neither is alone (`OneAlone`); an update that still runs has unsettled
  what it names (`UnsettledInUpdate`); and while an update is alone, the fields
  behind it, not in `todo` any more, have the values of its patch (`FieldsWritten`).

`PolicyEngineProofs` proves of the specification of the engine, under `EngineAssumption`,
what `parts` checks of its instance in `MCParts`:

- `SodKept`: `Spec => SodLimitKept`, from `OneMore`, a fact about cardinalities.
- `FloorHolds`: `Spec => []MacIsFloor`, with the order of the labels restated
  independently of the code's numbers.

`DbMutexProofs` proves, from `DbMutexAssumption` only, for any finite set of calls,
any number of threads and statements, and any contents:

- `Typing` and `Mutex`: `Spec => []TypeOK` and `Spec => []MutexInv`, inductive
  together. That no more closures are on threads than there are threads is a fact
  about cardinalities (`FewerBusy`).
- `Implementation`: `Spec => Implements`, the refinement of `AtomicCalls`. Steps of
  the pool, `Lock` and `Statement` are stutters (`HiddenSteps`); a closure that
  lets go takes effect, or fails after `ran` of its statements (`EndImplements`,
  from `MutexInv`: the file is what it has made of what it found); a crash cuts
  the holder short.

`StartupProofs` proves, from `StartupAssumption` only, for any processes, files,
ports and schema (a finite set of processes for the last one):

- `Typing` and `Schema`: `Spec => []ServersHaveTheSchema`. Inductive is
  `SchemaInv`, that a process in its migration is never ahead of the file.
- `OnePassword`: `Spec => []ToldPasswordWorks`, and `OneIsLeft`: `RouterBuilds =>
  (Spec => []SomebodyServes)`. The hypothesis is the one the present code does not meet, as
  `startup_router` shows. Inductive is `SeedInv`: an untouched file is empty or has the
  admin of one process that went on (`OneAdmin`), who goes on from the seed finds it
  there (`SeededBeforeServing`), who logged a password and went on is that process
  (`ToldIsSeeded`), and who found its port taken lost it to a process that serves or has
  died since (`PortsHaveOwners`).

`ProcessProofs`, `FirewallProofs` and `HostProofs` prove the safety properties of
`parts` as theorems of its specification, `MCSpec`, from `PartsAssumption` only: for any
sets of requests, tasks, adapters, jails, addresses, files, units, rules and any limits,
and either layout of the output of fail2ban. Each has a lemma of the form `XMoves`, that
a step of the composition is a step of one part or leaves that part alone, and an
invariant of that part:

- `Charts`: `MCSpec => []ChartsAgree`. `MonitorInv` says of the table what the property
  says of two answers: a cpu row has its memory row, of the same second, or belongs to
  a sample that was cut short (`Paired`); the chart that was read first is still in the
  table (`ChartsStored`). That the newer rows fill the second chart is a fact about
  cardinalities. The proof asks for at least one tick that may be late (`MaxDue`), as
  the code's burst interval gives.
- `Snapshots`: `MCSpec => []ReportsAreASnapshot`. The guard is what matters: while a task
  has the lock, the map is the one it saw, and what was reported and what is left to
  check are together that map (`Gathering`). It rests on the lock itself, that a writer
  has it alone, and on lemmas about leaving a queue (`RemoveFirst`).
- `Deletes`: `MCSpec => DeletesWhatIsListed`, an action property. `FwInv`: rules are
  distinct; the lines a child printed, the rules an answer shows and the listing a
  client keeps number the rules of the moment they were taken from (`Numbers`), except
  for a line that the parser takes for a rule and is none (`Shows`); a delete
  that runs has the number and the rule of that listing. The operator lemmas
  `OneRemoved`, `OneDeleted`, `OneAdded` say what `ufw` does to a sequence of rules, and
  `FwPrints`, `FwParses` that the parser gives back the numbers that were printed.
- `OkAnswers`: `MCSpec => []OkMeansDone`, from all four invariants of the endpoints:
  before an answer there is a child that ended well, and after it the note that it took
  effect (`FwInv`), or a moment within the request (`IdInv`, `AvInv`, `SvInv`). The two
  exceptions, a name that systemctl reads as an option and a unit in `Loose`, are in the
  property and so in the theorem.
- `Bans`, `Reads`, `Listings`, `Threats` and `Reports` are the five properties of
  answers that are put together from several looks at a host that moves. None is
  inductive, for one reason: it says nothing until there is an answer. `IdInv`, `FiInv`,
  `AvInv` and `SvInv` say it of the work in progress: what was found so far was there at
  some moment, what was passed over was not there all the time, and what is still to be
  looked at is still in `todo`. For `Reads` the work in progress is a length: the file
  that is open once was as long as what has been read of it, and its length now, where
  the end is found, is one that it had. `Bans` says that nothing is listed that was not
  banned for any layout, and that nothing is missing for the layout that the parser
  expects. The observers are right (`XObserved`): what a request ever saw has what there
  is now, and what it always saw is part of it.
- `PartsTyping`: `MCSpec => []PartsTyped`.

Only model-checked: liveness (`DatabaseAnswers`, `MutexIsReleased`, `EveryClosureStarts`,
`MonitorGoesOn`, `OverviewsEnd`, `ListsPassChecks`, `WritersGetTheirTurn`), which needs
ENABLED and fairness and is out of the prover's reach, and the five violations, which
are counterexamples and nothing to prove.

## 6. What is not modelled

Parsing of cookies, of configuration files and of numbers in command output, hashing,
JSON, and HTTP statuses finer than ok, a body or path that is refused (400, 415 or 422),
401, 403, 404 and error are abstracted: no property is about them. Which characters the
validators of `api/*.rs` let through is abstracted to accepted or refused; what they
accept may still be refused by the program (`Junk`). `exec_lines`, `log_audit`, `pull`
and `push` have no caller, and `audit_log` is therefore always empty. `list` of tickets
and the numbers of the system overview are pure reads of one call. Of a directory only
regular files are kept; a path that names a directory is one input (`None` in `Files`).
Of the configuration only what reaches state is kept: the file, the address and the
session timeout. The WebSocket terminal, TOTP and user management appear in the
permission list only; the repository has no code for them. Rows beyond `MaxSamples` are
left out, and nothing ever deletes rows.

## 7. Plan

Done: `Rbac`, `Sessions`, `Gateway`; `Tickets`; `PolicyEngine`; `Startup`; `DbMutex` and
`AtomicCalls`; `Firewall`, `Files`, `Ids`, `Antivirus`, `Services`; `Monitor`,
`IntegrationBus`; proofs of every safety property of the passing runs. Left, in this
order:

1. `Gate`: an abstract gate (a request is granted, refused or lost, at one moment
   within its life) that `Gateway` implements under a refinement mapping, proved step
   by step from the invariants of `GatewayProofs`.
2. An abstract update (the fields of a patch change at one moment) that `Tickets`
   implements for every update that is not cut short.
