---------------------------- MODULE PolicyEngine ----------------------------
(***************************************************************************)
(* The policy engine of src/src/auth: RBAC, ABAC (abac.rs), MAC (mac.rs)   *)
(* and SoD (sod.rs) joined by policy_engine.rs; PBAC and the contextual    *)
(* layer allow everything there.  No handler calls the engine yet, so the  *)
(* caller is the one its comments describe: it takes the user's prior      *)
(* actions on the resource from the audit log, evaluates, and performs and *)
(* logs the action if it is allowed.                                       *)
(***************************************************************************)
EXTENDS Rbac, FiniteSets

CONSTANTS
  Users, Resources, Actions,
  RoleOf, Clearance,          \* of each user
  LabelOf,                    \* of each resource
  Needs,                      \* the permission each action requires
  Substrings,                 \* the strings contained in each string
  UserAttributes, ResourceAttributes,
  Environments,               \* the environment attributes a request may have
  AbacRuleSets, SodConstraintSets  \* what set_abac_rules and set_sod_... load

\* Public < Internal < Confidential < Restricted.
SecurityLabel == [public |-> 0, internal |-> 1, confidential |-> 2, restricted |-> 3]

\* Asserted by the modules that instantiate this one.
EngineAssumption ==
  /\ RoleOf \in [Users -> Roles]
  /\ Clearance \in [Users -> DOMAIN SecurityLabel]
  /\ LabelOf \in [Resources -> DOMAIN SecurityLabel]
  /\ Needs \in [Actions -> Permission]
  /\ IsFiniteSet(Actions)
  /\ \A cs \in SodConstraintSets : \A c \in cs :
       c.conflicting \subseteq Actions /\ c.max \in Nat

VARIABLES
  abac_rules,       \* the loaded ABAC rules
  sod_constraints,  \* the loaded SoD constraints
  performed         \* the audit log: <<user, resource, action>>

vars == <<abac_rules, sod_constraints, performed>>

Init ==
  /\ abac_rules = {}
  /\ sod_constraints = {}
  /\ performed = {}

-----------------------------------------------------------------------------
(* ABAC.  A JSON value is a record with a kind: "str", "num" or "list".    *)

\* The Contains, In, GreaterThan and LessThan of other kinds never match.
Compare(operator, actual, value) ==
  \/ operator = "equals" /\ actual = value
  \/ operator = "not_equals" /\ actual # value
  \/ /\ operator = "contains"
     /\ actual.kind = "str" /\ value.kind = "str"
     /\ value.v \in Substrings[actual.v]
  \/ operator = "in" /\ value.kind = "list" /\ actual \in value.v
  \/ /\ actual.kind = "num" /\ value.kind = "num"
     /\ \/ operator = "greater_than" /\ actual.v > value.v
        \/ operator = "less_than" /\ actual.v < value.v

\* An unknown target or a missing attribute matches no operator.
ConditionMatches(cond, attrs) ==
  /\ cond.target \in {"user", "resource", "environment"}
  /\ cond.key \in DOMAIN attrs[cond.target]
  /\ Compare(cond.operator, attrs[cond.target][cond.key], cond.value)

RuleMatches(rule, attrs) == \A cond \in rule.conditions : ConditionMatches(cond, attrs)

AbacEvaluate(rules, attrs) ==
  /\ \A rule \in rules : rule.effect = "deny" => ~RuleMatches(rule, attrs)
  /\ \E rule \in rules : rule.effect = "allow" /\ RuleMatches(rule, attrs)

\* Mutant for MacIsFloor: labels compared as the strings they are stored as.
MacByName(clearance, label) ==
  LET byName == [confidential |-> 0, internal |-> 1, public |-> 2, restricted |-> 3]
  IN  byName[clearance] >= byName[label]

\* MAC: the floor.
MacEvaluate(clearance, label) == SecurityLabel[clearance] >= SecurityLabel[label]

\* Mutant for SodLimitKept: one off at the limit.
SodBeyond(constraints, action, prior) ==
  \A c \in constraints :
    action \in c.conflicting => Cardinality(prior \cap c.conflicting) <= c.max

\* SoD: no constraint that names the action has reached its max_per_user.
SodEvaluate(constraints, action, prior) ==
  \A c \in constraints :
    action \in c.conflicting => Cardinality(prior \cap c.conflicting) < c.max

-----------------------------------------------------------------------------
Prior(u, res) == {a \in Actions : <<u, res, a>> \in performed}

Attributes(u, res, env) ==
  [user |-> UserAttributes[u], resource |-> ResourceAttributes[res], environment |-> env]

\* The layers that deny, as policy_engine::evaluate asks them; an empty rule
\* set passes the request through.
Denials(rules, constraints, u, res, a, env) ==
  {layer \in {"rbac", "abac", "mac", "sod"} :
     CASE layer = "rbac" -> ~HasPermission(RoleOf[u], Needs[a])
       [] layer = "abac" -> rules # {} /\ ~AbacEvaluate(rules, Attributes(u, res, env))
       [] layer = "mac"  -> ~MacEvaluate(Clearance[u], LabelOf[res])
       [] layer = "sod"  -> ~SodEvaluate(constraints, a, Prior(u, res))}

Grants(rules, constraints, u, res, a, env) ==
  Denials(rules, constraints, u, res, a, env) = {}

SetAbacRules(rules) ==
  /\ abac_rules' = rules
  /\ UNCHANGED <<sod_constraints, performed>>

SetSodConstraints(constraints) ==
  /\ sod_constraints' = constraints
  /\ UNCHANGED <<abac_rules, performed>>

\* A denied request changes nothing but the log, which keeps its reasons.
Perform(u, res, a, env) ==
  /\ Grants(abac_rules, sod_constraints, u, res, a, env)
  /\ performed' = performed \cup {<<u, res, a>>}
  /\ UNCHANGED <<abac_rules, sod_constraints>>

Next ==
  \/ \E rules \in AbacRuleSets : SetAbacRules(rules)
  \/ \E constraints \in SodConstraintSets : SetSodConstraints(constraints)
  \/ \E u \in Users, res \in Resources, a \in Actions, env \in Environments :
       Perform(u, res, a, env)

Spec == Init /\ [][Next]_vars

-----------------------------------------------------------------------------
TypeOK ==
  /\ abac_rules \in AbacRuleSets \cup {{}}
  /\ sod_constraints \in SodConstraintSets \cup {{}}
  /\ performed \subseteq Users \X Resources \X Actions

\* No action that a user performs takes them above max_per_user of the
\* conflicting actions on that resource, for any constraint then in force and
\* whatever they did before it was loaded (sod::evaluate).
SodLimitKept ==
  [][\A u \in Users, res \in Resources, c \in sod_constraints :
       /\ Prior(u, res)' # Prior(u, res)
       /\ (Prior(u, res)' \ Prior(u, res)) \cap c.conflicting # {}
       => Cardinality(Prior(u, res)' \cap c.conflicting) <= c.max]_vars

\* "A hard floor": nobody ever performs an action on a resource labelled above
\* their clearance, whatever rules and constraints were loaded when (mac.rs).
MacIsFloor ==
  \A p \in performed :
    LET rank == <<"public", "internal", "confidential", "restricted">>
        At(label) == CHOOSE i \in 1 .. 4 : rank[i] = label
    IN  At(LabelOf[p[2]]) <= At(Clearance[p[1]])

\* sod.rs: a constraint is violated when "the requested action would push them
\* over the limit": more than max_per_user conflicting actions by one user.
SodDeniesOnlyOverLimit ==
  \A u \in Users, res \in Resources, a \in Actions :
    ~SodEvaluate(sod_constraints, a, Prior(u, res)) =>
      \E c \in sod_constraints :
        Cardinality((Prior(u, res) \cup {a}) \cap c.conflicting) > c.max
=============================================================================
