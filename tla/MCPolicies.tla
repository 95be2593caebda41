----------------------------- MODULE MCPolicies -----------------------------
(***************************************************************************)
(* Users, resources, rules and constraints for TLC's instances of          *)
(* PolicyEngine: a firewall change that one person makes and another       *)
(* approves.                                                               *)
(***************************************************************************)
EXTENDS Naturals, TLC

MCUsers == {"ada", "bob", "cid"}
MCResources == {"rule", "vault"}
MCActions == {"create", "approve", "view"}

MCRoleOf == [ada |-> "admin", bob |-> "operator", cid |-> "client"]
MCClearance == [ada |-> "internal", bob |-> "restricted", cid |-> "restricted"]
MCLabelOf == [rule |-> "public", vault |-> "confidential"]
MCNeeds == [create |-> "ManageFirewall", approve |-> "ManageFirewall",
            view |-> "ViewFirewall"]

Str(s) == [kind |-> "str", v |-> s]
Num(n) == [kind |-> "num", v |-> n]
List(s) == [kind |-> "list", v |-> s]

MCSubstrings == [it |-> {"it"}, ops |-> {"ops"}, itops |-> {"it", "ops", "itops"}]
MCUserAttributes == [ada |-> [dept |-> Str("itops")], bob |-> [dept |-> Str("ops")],
                     cid |-> <<>>]
MCResourceAttributes == [rule |-> [risk |-> Num(2)], vault |-> <<>>]
MCEnvironments == {<<>>, [hour |-> Num(9)]}

Cond(target, key, operator, value) ==
  [target |-> target, key |-> key, operator |-> operator, value |-> value]
Rule(effect, conditions) == [effect |-> effect, conditions |-> conditions]

AllowAll == Rule("allow", {})
AllowIt == Rule("allow", {Cond("user", "dept", "contains", Str("it"))})
AllowOps == Rule("allow", {Cond("user", "dept", "equals", Str("ops")),
                           Cond("resource", "risk", "less_than", Num(3))})
DenyNight == Rule("deny", {Cond("environment", "hour", "greater_than", Num(8))})
DenyRest == Rule("deny", {Cond("user", "dept", "in", List({Str("ops")})),
                          Cond("resource", "risk", "not_equals", Num(1))})
Unknown == Rule("allow", {Cond("session", "dept", "equals", Str("it"))})

MCAbacRuleSets ==
  {{}, {AllowAll}, {AllowIt, AllowOps}, {AllowAll, DenyNight}, {AllowAll, DenyRest}, {Unknown}}

Sod(max) == [conflicting |-> {"create", "approve"}, max |-> max]
MCSodConstraintSets ==
  {{}, {Sod(1)}, {Sod(0)}, {Sod(2), [conflicting |-> MCActions, max |-> 2]}}
=============================================================================
