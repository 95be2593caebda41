------------------------- MODULE PolicyEngineProofs -------------------------
(***************************************************************************)
(* What the policy engine promises, proved for all users, resources,       *)
(* actions, rules and constraints that are typed as EngineAssumption says. *)
(***************************************************************************)
EXTENDS PolicyEngine, FiniteSetTheorems, TLAPS

\* Every reachable state is well typed: only loaded rules and constraints count.
THEOREM Typing == Spec => []TypeOK
<1>1. Init => TypeOK
  BY DEF Init, TypeOK
<1>2. TypeOK /\ [Next]_vars => TypeOK'
  BY DEF TypeOK, Next, SetAbacRules, SetSodConstraints, Perform, vars
<1> QED BY <1>1, <1>2, PTL DEF Spec

-----------------------------------------------------------------------------
(* Separation of duties.                                                   *)

\* One more action than a number below the limit does not exceed the limit.
LEMMA OneMore ==
  ASSUME NEW S, NEW a, NEW C, NEW n \in Nat, IsFiniteSet(S), Cardinality(S \cap C) < n
  PROVE  Cardinality((S \cup {a}) \cap C) <= n
<1>1. IsFiniteSet(S \cap C)
  BY FS_Intersection
<1>2. Cardinality(S \cap C) \in Nat
  BY <1>1, FS_CardinalityType
<1>3. (S \cup {a}) \cap C = S \cap C \/ (S \cup {a}) \cap C = (S \cap C) \cup {a}
  OBVIOUS
<1>4. Cardinality((S \cap C) \cup {a})
         \in {Cardinality(S \cap C), Cardinality(S \cap C) + 1}
  BY <1>1, FS_AddElement
<1>5. Cardinality((S \cup {a}) \cap C) \in {Cardinality(S \cap C), Cardinality(S \cap C) + 1}
  BY <1>3, <1>4
<1> QED BY <1>2, <1>5

LEMMA PriorFinite ==
  ASSUME EngineAssumption
  PROVE  \A u, res : IsFiniteSet(Prior(u, res))
BY FS_Subset DEF EngineAssumption, Prior

\* An action adds itself to what its user has done to its resource, and nothing
\* to what anybody has done to any other.
LEMMA PriorGrows ==
  ASSUME NEW u \in Users, NEW res \in Resources, NEW a \in Actions,
         performed' = performed \cup {<<u, res, a>>},
         NEW v \in Users, NEW r \in Resources
  PROVE  Prior(v, r)' = IF v = u /\ r = res THEN Prior(v, r) \cup {a} ELSE Prior(v, r)
BY DEF Prior

\* Whatever was done before a constraint was loaded, no action performed while it
\* is in force takes its user above max_per_user.
THEOREM SodKept == EngineAssumption => (Spec => SodLimitKept)
<1> SUFFICES ASSUME EngineAssumption PROVE Spec => SodLimitKept
  OBVIOUS
<1> DEFINE Kept ==
      \A u \in Users, res \in Resources, c \in sod_constraints :
        /\ Prior(u, res)' # Prior(u, res)
        /\ (Prior(u, res)' \ Prior(u, res)) \cap c.conflicting # {}
        => Cardinality(Prior(u, res)' \cap c.conflicting) <= c.max
<1>1. ASSUME TypeOK, NEW u \in Users, NEW res \in Resources, NEW a \in Actions,
             NEW env \in Environments, Perform(u, res, a, env)
      PROVE  Kept
  <2> SUFFICES ASSUME NEW v \in Users, NEW r \in Resources, NEW c \in sod_constraints,
                      Prior(v, r)' # Prior(v, r),
                      (Prior(v, r)' \ Prior(v, r)) \cap c.conflicting # {}
               PROVE  Cardinality(Prior(v, r)' \cap c.conflicting) <= c.max
    OBVIOUS
  <2>1. v = u /\ r = res /\ Prior(v, r)' = Prior(v, r) \cup {a}
    BY <1>1, PriorGrows DEF Perform
  <2>2. a \in c.conflicting
    BY <2>1
  <2>3. SodEvaluate(sod_constraints, a, Prior(u, res))
    BY <1>1 DEF Perform, Grants, Denials
  <2>4. Cardinality(Prior(u, res) \cap c.conflicting) < c.max
    BY <2>2, <2>3 DEF SodEvaluate
  <2>5. c.max \in Nat
    BY <1>1 DEF EngineAssumption, TypeOK
  <2> QED BY <2>1, <2>4, <2>5, OneMore, PriorFinite
<1>2. TypeOK /\ [Next]_vars => [Kept]_vars
  <2>1. ASSUME NEW rules, SetAbacRules(rules)
        PROVE  \A u, res : Prior(u, res)' = Prior(u, res)
    BY <2>1 DEF SetAbacRules, Prior
  <2>2. ASSUME NEW constraints, SetSodConstraints(constraints)
        PROVE  \A u, res : Prior(u, res)' = Prior(u, res)
    BY <2>2 DEF SetSodConstraints, Prior
  <2> QED BY <1>1, <2>1, <2>2 DEF Next
<1> QED BY <1>2, Typing, PTL DEF Spec, SodLimitKept

-----------------------------------------------------------------------------
(* Clearances.                                                             *)

Rank(label) ==
  CHOOSE i \in 1 .. 4 : <<"public", "internal", "confidential", "restricted">>[i] = label

LEMMA RankIsLabel == \A label \in DOMAIN SecurityLabel : Rank(label) = SecurityLabel[label] + 1
<1> DEFINE names == <<"public", "internal", "confidential", "restricted">>
<1>1. /\ \A i \in 1 .. 4 : names[i] = "public" <=> i = 1
      /\ \A i \in 1 .. 4 : names[i] = "internal" <=> i = 2
      /\ \A i \in 1 .. 4 : names[i] = "confidential" <=> i = 3
      /\ \A i \in 1 .. 4 : names[i] = "restricted" <=> i = 4
  OBVIOUS
<1>2. /\ 1 \in 1 .. 4 /\ 2 \in 1 .. 4 /\ 3 \in 1 .. 4 /\ 4 \in 1 .. 4
  OBVIOUS
<1> HIDE DEF names
<1>3. ASSUME NEW label, NEW n \in 1 .. 4, \A i \in 1 .. 4 : names[i] = label <=> i = n
      PROVE  (CHOOSE i \in 1 .. 4 : names[i] = label) = n
  BY <1>3
<1>4. /\ Rank("public") = 1 /\ Rank("internal") = 2
      /\ Rank("confidential") = 3 /\ Rank("restricted") = 4
  BY <1>1, <1>2, <1>3 DEF Rank, names
<1> QED BY <1>4 DEF SecurityLabel

\* Nobody ever performs an action on a resource labelled above their clearance.
THEOREM FloorHolds == EngineAssumption => (Spec => []MacIsFloor)
<1> SUFFICES ASSUME EngineAssumption PROVE Spec => []MacIsFloor
  OBVIOUS
<1> DEFINE Cleared == \A p \in performed : MacEvaluate(Clearance[p[1]], LabelOf[p[2]])
<1>1. Init => Cleared
  BY DEF Init
<1>2. Cleared /\ [Next]_vars => Cleared'
  <2> SUFFICES ASSUME Cleared, [Next]_vars
               PROVE  Cleared'
    OBVIOUS
  <2>1. ASSUME NEW u \in Users, NEW res \in Resources, NEW a \in Actions,
               NEW env \in Environments, Perform(u, res, a, env)
        PROVE  Cleared'
    <3>1. MacEvaluate(Clearance[u], LabelOf[res])
      BY <2>1 DEF Perform, Grants, Denials
    <3> QED BY <2>1, <3>1 DEF Perform, MacEvaluate
  <2>2. CASE UNCHANGED performed
    BY <2>2 DEF MacEvaluate
  <2> QED BY <2>1, <2>2 DEF Next, SetAbacRules, SetSodConstraints, vars
<1>3. TypeOK /\ Cleared => MacIsFloor
  <2> SUFFICES ASSUME TypeOK, Cleared, NEW p \in performed
               PROVE  Rank(LabelOf[p[2]]) <= Rank(Clearance[p[1]])
    BY DEF MacIsFloor, Rank
  <2>1. p[1] \in Users /\ p[2] \in Resources
    BY DEF TypeOK
  <2>2. /\ LabelOf[p[2]] \in DOMAIN SecurityLabel /\ Clearance[p[1]] \in DOMAIN SecurityLabel
        /\ \A label \in DOMAIN SecurityLabel : SecurityLabel[label] \in Int
    BY <2>1 DEF EngineAssumption, SecurityLabel
  <2>3. SecurityLabel[LabelOf[p[2]]] <= SecurityLabel[Clearance[p[1]]]
    BY DEF MacEvaluate
  <2> QED BY <2>2, <2>3, RankIsLabel
<1> QED BY <1>1, <1>2, <1>3, Typing, PTL DEF Spec
=============================================================================
