----------------------------- MODULE Governance -----------------------------
(***************************************************************************)
(* The composite gate of the mission engine (engine/mission/governance.py):*)
(* three independent axes (technical risk, approval category, budget) are  *)
(* evaluated and the most restrictive answer wins.  Pure operators, used   *)
(* by MissionEngine for every step it is about to execute.                 *)
(***************************************************************************)
EXTENDS Naturals

GateDecision == {"auto", "dry_run", "approval", "refused"}

\* _DECISION_RANK: from the most permissive to the most restrictive answer.
Rank == [auto |-> 0, dry_run |-> 1, approval |-> 2, refused |-> 3]

\* kernel/vocab.py, AccessLevel: READ_ONLY, WRITE_LOCAL, EXECUTE_CODE, NETWORK,
\* INSTALL_PACKAGE, MODIFY_CORE.
AccessLevel    == 0..5
EXECUTE_CODE   == 2
INSTALL_PACKAGE == 4
MODIFY_CORE    == 5
AUTO_MAX_LEVEL == EXECUTE_CODE

\* kernel/approvals.py, ApprovalMode.
ApprovalMode == {"always", "ask", "never"}

RiskAxis(level, dryRunAvailable) ==
    IF level \in {INSTALL_PACKAGE, MODIFY_CORE} THEN "approval"
    ELSE IF level <= AUTO_MAX_LEVEL THEN "auto"
    ELSE IF dryRunAvailable THEN "dry_run" ELSE "approval"

CategoryAxis(mode) ==
    [always |-> "auto", ask |-> "approval", never |-> "refused"][mode]

\* exhausted stands for remaining(scope) < estimated cost.  A disabled guard is neutral.
BudgetAxis(enabled, exhausted) ==
    IF enabled /\ exhausted THEN "refused" ELSE "auto"

MostRestrictive(decisions) ==
    CHOOSE d \in decisions : \A e \in decisions : Rank[e] <= Rank[d]

Gate(level, dryRunAvailable, mode, enabled, exhausted) ==
    MostRestrictive({RiskAxis(level, dryRunAvailable),
                     CategoryAxis(mode),
                     BudgetAxis(enabled, exhausted)})

=============================================================================
