-------------------------------- MODULE Rbac --------------------------------
(***************************************************************************)
(* Layer 1 of the access control: the roles, their numeric level and the   *)
(* static permission set of each (src/src/auth/rbac.rs).  Constant         *)
(* definitions only; every module that authorises a request extends it.    *)
(***************************************************************************)
EXTENDS Naturals

Roles == {"admin", "operator", "support", "client"}

\* Role::level: higher is meant to be more privileged.
Level == [admin |-> 100, operator |-> 75, support |-> 50, client |-> 25]

Permission ==
  { "ViewDashboard", "ManageFirewall", "ViewFirewall", "ManageIds", "ViewIds",
    "ManageAntivirus", "ViewAntivirus", "ManageServices", "ViewServices",
    "BrowseFiles", "EditFiles", "DeleteFiles", "ManageUsers", "ManageRoles",
    "ManagePolicies", "ViewAuditLog", "CreateTicket", "ViewOwnTickets",
    "ViewAllTickets", "ManageTickets", "ManageIntegrations",
    "ViewIntegrations", "WebTerminal", "ViewAnalytics", "ExportData" }

\* Role::permissions.
RolePermissions ==
  [ admin    |-> Permission,
    operator |-> { "ViewDashboard", "ManageFirewall", "ViewFirewall",
                   "ManageIds", "ViewIds", "ManageAntivirus", "ViewAntivirus",
                   "ManageServices", "ViewServices", "BrowseFiles",
                   "ViewAuditLog", "CreateTicket", "ViewOwnTickets",
                   "ViewAllTickets", "ViewIntegrations", "ViewAnalytics" },
    support  |-> { "ViewDashboard", "ViewFirewall", "ViewIds", "ViewAntivirus",
                   "ViewServices", "CreateTicket", "ViewOwnTickets",
                   "ViewAllTickets", "ManageTickets", "ViewIntegrations" },
    client   |-> { "ViewDashboard", "CreateTicket", "ViewOwnTickets" } ]

\* Role::has_permission.
HasPermission(role, perm) == perm \in RolePermissions[role]
=============================================================================
