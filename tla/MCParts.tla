------------------------------ MODULE MCParts -------------------------------
(***************************************************************************)
(* Instances for TLC of the parts that share no state with one another:    *)
(* the database handle, the background monitor, the integration bus, the   *)
(* policy engine, and the five endpoints over the programs and files of    *)
(* the host.  An interleaving of two of them shows nothing that each alone *)
(* does not, so a behaviour picks one of Parts and leaves the others as    *)
(* they are.                                                               *)
(***************************************************************************)
EXTENDS DbMutex, MCPolicies

CONSTANTS
  Parts,                                \* those of this run
  MCVersions,                           \* contents repeat after so many statements
  Slots, OneSlot, MonSlots,             \* requests; of Ids, Files, Services; of Monitor
  MaxSamples, MaxDue, MaxTime, Limit, Mon,   \* see Monitor
  Tasks, Names, Built, Late,            \* see IntegrationBus
  Clients, Rules, Junk, MaxNumber, DashesFirst,   \* see Firewall
  Jails, V4, V6, Head6,                 \* see Ids
  ListAtSecondColon, BareList,
  Directory, MaxSize,                   \* see Files
  Paths,                                \* see Antivirus
  Units, Loose, Absent, Option          \* see Services

MCContents == 0 .. MCVersions - 1

MCAfter == [s \in MCContents |-> [k \in 0 .. Statements |-> (s + k) % MCVersions]]

\* Rules, Jails, Directory and Paths are the same set in parts.cfg.
Symmetry == Permutations(Slots) \cup Permutations(Rules)

VARIABLES
  part,
  mon, due, taken, metrics, collector, monReq, now, torn,
  bus, task, waiting, guards,
  ufwActive, rules, ufwReq, listing,
  idsUp, jails, bans, idsReq, idsEver, idsAlways,
  size, fileReq, filePast,
  clamUp, infected, current, clamReq, clamEver, clamAlways, wasCurrent,
  unitActive, enabled, unitReq, unitPast,
  abac_rules, sod_constraints, performed

Mo == INSTANCE Monitor WITH Slots <- MonSlots, queue <- collector, req <- monReq
Bu == INSTANCE IntegrationBus WITH queue <- waiting
Fw == INSTANCE Firewall WITH active <- ufwActive, req <- ufwReq
Id == INSTANCE Ids WITH
        Slots <- OneSlot, up <- idsUp, req <- idsReq, ever <- idsEver, always <- idsAlways
Fi == INSTANCE Files WITH
        Slots <- OneSlot, Names <- Directory, req <- fileReq, past <- filePast
Av == INSTANCE Antivirus WITH
        up <- clamUp, req <- clamReq, ever <- clamEver, always <- clamAlways
Sv == INSTANCE Services WITH
        Slots <- OneSlot, active <- unitActive, req <- unitReq, past <- unitPast
Po == INSTANCE PolicyEngine WITH
        Users <- MCUsers, Resources <- MCResources, Actions <- MCActions,
        RoleOf <- MCRoleOf, Clearance <- MCClearance, LabelOf <- MCLabelOf,
        Needs <- MCNeeds, Substrings <- MCSubstrings,
        UserAttributes <- MCUserAttributes, ResourceAttributes <- MCResourceAttributes,
        Environments <- MCEnvironments,
        AbacRuleSets <- MCAbacRuleSets, SodConstraintSets <- MCSodConstraintSets

ASSUME PartsAssumption ==
  /\ Parts \subseteq {"database", "monitor", "bus", "firewall", "ids", "files", "antivirus",
                     "services", "policy"}
  /\ Atomic!AtomicAssumption
  /\ Mo!MonitorAssumption /\ Bu!BusAssumption
  /\ Fw!FirewallAssumption /\ Id!IdsAssumption /\ Fi!FilesAssumption
  /\ Av!AntivirusAssumption /\ Sv!ServicesAssumption /\ Po!EngineAssumption

monitorVars == <<mon, due, taken, metrics, collector, monReq, now, torn>>
busVars == <<bus, task, waiting, guards>>
firewallVars == <<ufwActive, rules, ufwReq, listing>>
idsVars == <<idsUp, jails, bans, idsReq, idsEver, idsAlways>>
filesVars == <<size, fileReq, filePast>>
antivirusVars == <<clamUp, infected, current, clamReq, clamEver, clamAlways, wasCurrent>>
servicesVars == <<unitActive, enabled, unitReq, unitPast>>
policyVars == <<abac_rules, sod_constraints, performed>>
processVars == <<part, vars, monitorVars, busVars, policyVars>>
hostVars == <<firewallVars, idsVars, filesVars, antivirusVars, servicesVars>>

\* How the host is found matters to the part that is explored and to no other.
MCInit ==
  /\ part \in Parts
  /\ Init /\ Mo!Init /\ Bu!Init /\ Po!Init
  /\ Fw!Init /\ (part # "firewall" => ufwActive)
  /\ Id!Init /\ (part # "ids" => idsUp)
  /\ Fi!Init /\ (part # "files" => \A n \in Directory : size[n] = 0)
  /\ Av!Init /\ (part # "antivirus" => clamUp /\ current)
  /\ Sv!Init /\ (part # "services" => unitActive = {} /\ enabled = {})

MCNext ==
  \/ part = "database" /\ Next /\ UNCHANGED <<part, monitorVars, busVars, policyVars, hostVars>>
  \/ part = "monitor" /\ Mo!Next /\ UNCHANGED <<part, vars, busVars, policyVars, hostVars>>
  \/ part = "bus" /\ Bu!Next /\ UNCHANGED <<part, vars, monitorVars, policyVars, hostVars>>
  \/ part = "policy" /\ Po!Next /\ UNCHANGED <<part, vars, monitorVars, busVars, hostVars>>
  \/ /\ part = "firewall" /\ Fw!Next
     /\ UNCHANGED <<processVars, idsVars, filesVars, antivirusVars, servicesVars>>
  \/ /\ part = "ids" /\ Id!Next
     /\ UNCHANGED <<processVars, firewallVars, filesVars, antivirusVars, servicesVars>>
  \/ /\ part = "files" /\ Fi!Next
     /\ UNCHANGED <<processVars, firewallVars, idsVars, antivirusVars, servicesVars>>
  \/ /\ part = "antivirus" /\ Av!Next
     /\ UNCHANGED <<processVars, firewallVars, idsVars, filesVars, servicesVars>>
  \/ /\ part = "services" /\ Sv!Next
     /\ UNCHANGED <<processVars, firewallVars, idsVars, filesVars, antivirusVars>>

\* Fairness asks nothing of a part that is not explored: nothing of it is enabled.
MCSpec ==
  /\ MCInit /\ [][MCNext]_<<processVars, hostVars>>
  /\ Fairness /\ Mo!Fairness /\ Bu!Scheduling

-----------------------------------------------------------------------------
\* Types, and the shape of requests: one whose client has gone holds nothing but a child
\* that still changes something; who waits for the collector or the bus stands in its
\* queue once; nobody has the collector across a database call (collect_metrics).
PartsTyped ==
  CASE part = "database"  -> TypeOK
    [] part = "monitor"   -> Mo!TypeOK
    [] part = "bus"       -> Bu!TypeOK
    [] part = "policy"    -> Po!TypeOK
    [] part = "firewall"  -> Fw!TypeOK
    [] part = "ids"       -> Id!TypeOK
    [] part = "files"     -> Fi!TypeOK
    [] part = "antivirus" -> Av!TypeOK
    [] part = "services"  -> Sv!TypeOK

\* A client that reads the cpu chart and then the memory chart finds with every point of
\* the first the one of the same sample, unless newer ones have taken its place, or the
\* sample was cut short by an error or a crash (collect_metrics, get_metrics).
ChartsAgree == Mo!ChartsAgree

\* Whatever fails, and however many overviews are asked for, the monitor always comes
\* back to its next tick (start_monitor).
MonitorGoesOn == Mo!MonitorGoesOn

\* Every overview gets its turn at the collector (get_system_overview).
OverviewsEnd == Mo!OverviewsEnd

\* The answer to an overview of all adapters names each of those that were in the map at
\* one moment, the failing ones too, whatever was registered while the checks went on
\* (health_check_all).
ReportsAreASnapshot == Bu!ReportsAreASnapshot

\* Tasks that are stuck in health checks that never end make a list wait only if some
\* task comes to register an adapter (list, health_check_all, register).
ListsPassChecks == Bu!ListsPassChecks

\* If adapters do answer, a stream of readers cannot keep a registration waiting
\* (register, list).
WritersGetTheirTurn == Bu!WritersGetTheirTurn

\* "A hard floor": nobody ever performs an action on a resource labelled above
\* their clearance, whatever rules and constraints were loaded when (mac.rs).
MacIsFloor == Po!MacIsFloor

\* No action that a user performs takes them above max_per_user of the
\* conflicting actions on that resource, for any constraint then in force and
\* whatever they did before it was loaded (sod::evaluate).
SodLimitKept == Po!SodLimitKept

\* {"ok": true} means that the command of this very request did what was asked, whatever
\* other requests, abandoned children, administrators and the programs themselves did
\* around it (add_rule, delete_rule, enable, disable; ban, unban; update; service_action).
OkMeansDone == Fw!OkMeansDone /\ Id!OkMeansSet /\ Av!OkMeansUpdated /\ Sv!OkMeansDone

\* Rules are deleted by position, and the position is read in a listing that may be old:
\* a delete by a number that its listing shows removes the rule shown under it, if the
\* rules are still those that the listing was made from (get_status, delete_rule).
DeletesWhatIsListed == Fw!DeletesWhatIsListed

\* Jails stop, and bans come and go, between the commands an overview is put together
\* from: an IPv4 address is listed under a jail only if that jail had it banned at some
\* moment since the request arrived, and a ban that holds for as long as the request
\* lives is listed, if no command fails and no IPv6 address is banned next to it
\* (get_status and parse_jail_status of ids.rs).
BansHeld == Id!ListedBansHeld /\ Id!StableBansAreListed

\* ids.rs:37: "GET /api/ids — fail2ban status and jail overview": every IPv4 address that
\* a jail has banned for as long as the request lives is in the overview it gets, if no
\* command fails and no IPv6 address is banned next to it (get_status, parse_jail_list).
OverviewsAreComplete == Id!OverviewsAreComplete

\* Each answer to a read was right of some moment since the request arrived: the file had
\* the size that came back, within the limit or beyond it, or was not there; and what was
\* read of it, while it was written, replaced or deleted, is no shorter than it once was,
\* and no longer (read_file).
ReadsAreJustified == Fi!ReadsAreJustified

\* A listing shows nothing that was not there, at that size, at some moment while the
\* directory was walked; and files that come and go do not hide those that stay: what
\* was there all the time is listed, unless a system call failed (browse).
ListingsHeld == Fi!ListedEntriesHeld /\ Fi!StableEntriesAreListed

\* A report of a scan that ended by itself names every file that was infected for as long
\* as the request lived, and none that never was (scan, parse_clam_output).
StableThreatsAreReported == Av!StableThreatsAreReported

\* What is shown of a unit was so, in all its parts, at one moment since the request
\* arrived, also in the middle of a restart, unless nothing is known; a list may say so
\* of what is active (get_service, list_services).
ReportsHeld == Sv!ReportsHeld
=============================================================================
