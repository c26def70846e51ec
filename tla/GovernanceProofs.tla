-------------------------- MODULE GovernanceProofs --------------------------
(***************************************************************************)
(* What the composite gate guarantees for every input: its answer is the   *)
(* most restrictive one among the three axes, so no axis can be overruled. *)
(***************************************************************************)
EXTENDS Governance, TLAPS

\* The ranks of _DECISION_RANK are natural numbers, different for different answers.
LEMMA RankFacts ==
    /\ \A d \in GateDecision : Rank[d] \in Nat
    /\ \A d, e \in GateDecision : Rank[d] = Rank[e] => d = e
BY DEF GateDecision, Rank

\* Each axis gives one of the four answers of GateDecision.
LEMMA AxisTypes ==
    ASSUME NEW level \in AccessLevel, NEW dryRunAvailable \in BOOLEAN,
           NEW mode \in ApprovalMode, NEW enabled \in BOOLEAN, NEW exhausted \in BOOLEAN
    PROVE  /\ RiskAxis(level, dryRunAvailable) \in GateDecision
           /\ CategoryAxis(mode) \in GateDecision
           /\ BudgetAxis(enabled, exhausted) \in GateDecision
<1>1. RiskAxis(level, dryRunAvailable) \in GateDecision
  BY DEF RiskAxis, GateDecision
<1>2. CategoryAxis(mode) \in GateDecision
  BY DEF CategoryAxis, GateDecision, ApprovalMode
<1>3. BudgetAxis(enabled, exhausted) \in GateDecision
  BY DEF BudgetAxis, GateDecision
<1>. QED BY <1>1, <1>2, <1>3

\* Among three answers there is a most restrictive one, and MostRestrictive returns it.
LEMMA MostRestrictiveOfThree ==
    ASSUME NEW a \in GateDecision, NEW b \in GateDecision, NEW c \in GateDecision
    PROVE  /\ MostRestrictive({a, b, c}) \in {a, b, c}
           /\ \A e \in {a, b, c} : Rank[e] <= Rank[MostRestrictive({a, b, c})]
<1>. DEFINE S == {a, b, c}
            Top(d) == \A e \in S : Rank[e] <= Rank[d]
<1>1. Rank[a] \in Nat /\ Rank[b] \in Nat /\ Rank[c] \in Nat
  BY RankFacts
<1>2. \E d \in S : Top(d)
  <2>1. CASE Rank[b] <= Rank[a] /\ Rank[c] <= Rank[a]
    BY <1>1, <2>1
  <2>2. CASE Rank[a] <= Rank[b] /\ Rank[c] <= Rank[b]
    BY <1>1, <2>2
  <2>3. CASE Rank[a] <= Rank[c] /\ Rank[b] <= Rank[c]
    BY <1>1, <2>3
  <2>. QED BY <1>1, <2>1, <2>2, <2>3
<1>3. MostRestrictive(S) = CHOOSE d \in S : Top(d)
  BY DEF MostRestrictive
<1>. HIDE DEF S, Top
<1>4. MostRestrictive(S) \in S /\ Top(MostRestrictive(S))
  BY <1>2, <1>3
<1>. QED BY <1>4 DEF S, Top

\* Governance.gate never answers less than any of its three axes asks for: a category in
\* mode NEVER, an exhausted budget or a risky access level cannot be overruled.
THEOREM GateIsMostRestrictive ==
    ASSUME NEW level \in AccessLevel, NEW dryRunAvailable \in BOOLEAN,
           NEW mode \in ApprovalMode, NEW enabled \in BOOLEAN, NEW exhausted \in BOOLEAN
    PROVE  LET decision == Gate(level, dryRunAvailable, mode, enabled, exhausted)
           IN /\ decision \in GateDecision
              /\ Rank[RiskAxis(level, dryRunAvailable)] <= Rank[decision]
              /\ Rank[CategoryAxis(mode)] <= Rank[decision]
              /\ Rank[BudgetAxis(enabled, exhausted)] <= Rank[decision]
<1>. DEFINE a == RiskAxis(level, dryRunAvailable)
            b == CategoryAxis(mode)
            c == BudgetAxis(enabled, exhausted)
<1>1. a \in GateDecision /\ b \in GateDecision /\ c \in GateDecision
  BY AxisTypes
<1>2. Gate(level, dryRunAvailable, mode, enabled, exhausted) = MostRestrictive({a, b, c})
  BY DEF Gate
<1>. HIDE DEF a, b, c
<1>3. /\ MostRestrictive({a, b, c}) \in {a, b, c}
      /\ \A e \in {a, b, c} : Rank[e] <= Rank[MostRestrictive({a, b, c})]
  BY <1>1, MostRestrictiveOfThree
<1>4. /\ MostRestrictive({a, b, c}) \in GateDecision
      /\ Rank[a] <= Rank[MostRestrictive({a, b, c})]
      /\ Rank[b] <= Rank[MostRestrictive({a, b, c})]
      /\ Rank[c] <= Rank[MostRestrictive({a, b, c})]
  BY <1>1, <1>3
<1>. QED BY <1>2, <1>4 DEF a, b, c

\* The gate lets a step run without a human only if its access level is at most
\* AUTO_MAX_LEVEL, its category is in mode ALWAYS and its budget is not exhausted.
THEOREM AutoOnlyWhenAllAgree ==
    ASSUME NEW level \in AccessLevel, NEW dryRunAvailable \in BOOLEAN,
           NEW mode \in ApprovalMode, NEW enabled \in BOOLEAN, NEW exhausted \in BOOLEAN,
           Gate(level, dryRunAvailable, mode, enabled, exhausted) = "auto"
    PROVE  level <= AUTO_MAX_LEVEL /\ mode = "always" /\ ~(enabled /\ exhausted)
<1>1. /\ Rank[RiskAxis(level, dryRunAvailable)] <= Rank["auto"]
      /\ Rank[CategoryAxis(mode)] <= Rank["auto"]
      /\ Rank[BudgetAxis(enabled, exhausted)] <= Rank["auto"]
  BY GateIsMostRestrictive
<1>2. \A d \in GateDecision : Rank[d] <= Rank["auto"] => d = "auto"
  BY DEF Rank, GateDecision
<1>3. /\ RiskAxis(level, dryRunAvailable) = "auto"
      /\ CategoryAxis(mode) = "auto"
      /\ BudgetAxis(enabled, exhausted) = "auto"
  BY <1>1, <1>2, AxisTypes
<1>4. level <= AUTO_MAX_LEVEL
  BY <1>3 DEF RiskAxis
<1>5. mode = "always"
  BY <1>3 DEF CategoryAxis, ApprovalMode
<1>6. ~(enabled /\ exhausted)
  BY <1>3 DEF BudgetAxis
<1>. QED BY <1>4, <1>5, <1>6

=============================================================================
