------------------------------ MODULE BudgetGuard ------------------------------
(***************************************************************************)
(* The budget of Jarvis: reserve, record and the seeding of BudgetGuard    *)
(* (engine/budget.py), the usage log it reads (engine/tracking.py) and the *)
(* workers that ask before each LLM call (_run_step_llm).                  *)
(*                                                                         *)
(* reserve decides without an await, so that its lock changes nothing, and *)
(* books nothing: what a call costs is only known by its rounds, while     *)
(* other workers ask.  The log on disk is exact, but where it cannot be    *)
(* summed up it counts as nothing spent; the ledger of a project is kept   *)
(* in memory and seeded from the current month at a restart.               *)
(***************************************************************************)
EXTENDS Naturals, FiniteSets, Folds

CONSTANTS
    Payers,        \* workers of missions
    ProjectOf,     \* the project of each worker
    Elsewhere,     \* whatever else uses an LLM: the chat, the voice
    MonthlyLimit, ProjectLimit,
    Estimate,      \* what reserve is asked for: 0.02 USD for a step
    MaxCost,       \* bounds what one call (a loop of rounds) costs
    WarnLevel,     \* the spending from which a scope is warned about
    MaxElsewhere,  \* bounds what Elsewhere spends in a month
    MaxUsage       \* bounds what a project costs in a month, also beyond every limit

VARIABLES
    readable,    \* the log of the month can be summed up
    usage,       \* the log of the month: what each project and Elsewhere cost
    ledger,      \* _project_spent
    warned,      \* _warned: the scopes about which the user was told
    payer,       \* the workers
    toSpend,     \* history: what the call of each worker can still cost
    seedFailed,  \* history: a seeding ended in an exception
    blind        \* history: reserve was asked this month while the log could not be read

budgetVars == <<readable, usage, ledger, warned, payer, toSpend, seedFailed, blind>>

Projects == {ProjectOf[p] : p \in Payers}

\* The scope of a project has a prefix, so that it is neither "global" nor Elsewhere.
ASSUME BudgetAssumption ==
    /\ IsFiniteSet(Payers)
    /\ Elsewhere \notin Projects /\ "global" \notin Projects
    /\ Estimate \in Nat \ {0} /\ MaxCost \in Nat /\ MaxElsewhere \in Nat /\ MaxUsage \in Nat
    /\ MonthlyLimit \in Nat /\ Estimate <= MonthlyLimit
    /\ ProjectLimit \in Nat /\ Estimate <= ProjectLimit

Scope == {"global"} \union Projects

SumOver(f, ids) == MapThenFoldSet(LAMBDA x, y : x + y, 0, LAMBDA i : f[i],
                                  LAMBDA s : CHOOSE i \in s : TRUE, ids)

\* get_monthly_totals.
MonthTotal == SumOver(usage, Projects \union {Elsewhere})

\* _global_spent: any exception on the way to the total counts as nothing spent.
GlobalSpent == IF readable THEN MonthTotal ELSE 0

Paid(scope) == IF scope = "global" THEN GlobalSpent ELSE ledger[scope]

LimitOf(scope) == IF scope = "global" THEN MonthlyLimit ELSE ProjectLimit

-----------------------------------------------------------------------------

BudgetInit ==
    /\ usage = [i \in Projects \union {Elsewhere} |-> 0]
    /\ ledger = [i \in Projects |-> 0]
    /\ warned = {}
    /\ payer = [p \in Payers |-> "idle"] /\ toSpend = [p \in Payers |-> 0]
    /\ readable = TRUE /\ seedFailed = FALSE /\ blind = FALSE

\* mutant: what was spent is compared, not what the call would make of it
Spent(scope) == Paid(scope) < LimitOf(scope)

\* reserve says no when the estimate would go over the limit.
Fits(scope) == Paid(scope) + Estimate <= LimitOf(scope)

\* A scope is warned about once per session.
Warns(scope) ==
    warned' = IF /\ Fits(scope) /\ Paid(scope) + Estimate >= WarnLevel
                 /\ Paid(scope) + Estimate < LimitOf(scope)
              THEN warned \union {scope} ELSE warned

\* Both scopes are asked whatever the first answers; a no pauses the step.
AsksGlobal(p) ==
    /\ payer[p] = "idle"
    /\ Warns("global")
    /\ payer' = [payer EXCEPT ![p] = IF Fits("global") THEN "granted" ELSE "refused"]
    /\ blind' = (blind \/ ~readable)
    /\ UNCHANGED <<readable, usage, ledger, toSpend, seedFailed>>

AsksProject(p) ==
    /\ payer[p] \in {"granted", "refused"}
    /\ Warns(ProjectOf[p])
    /\ IF payer[p] = "granted" /\ Fits(ProjectOf[p])
       THEN /\ payer' = [payer EXCEPT ![p] = "calling"]
            /\ toSpend' = [toSpend EXCEPT ![p] = MaxCost]
       ELSE payer' = [payer EXCEPT ![p] = "idle"] /\ UNCHANGED toSpend
    /\ UNCHANGED <<readable, usage, ledger, seedFailed, blind>>

\* record, called by the tracker for each entry of a mission.
Recorded(i, cost) == [ledger EXCEPT ![i] = @ + cost]

\* A round of the tool loop: track appends to the log, then calls record.
CallCosts(p, cost) ==
    /\ payer[p] = "calling" /\ cost <= toSpend[p]
    /\ usage[ProjectOf[p]] + cost <= MaxUsage
    /\ usage' = [usage EXCEPT ![ProjectOf[p]] = @ + cost]
    /\ ledger' = Recorded(ProjectOf[p], cost)
    /\ toSpend' = [toSpend EXCEPT ![p] = @ - cost]
    /\ UNCHANGED <<readable, warned, payer, seedFailed, blind>>

CallEnds(p) ==
    /\ payer[p] = "calling"
    /\ payer' = [payer EXCEPT ![p] = "idle"] /\ toSpend' = [toSpend EXCEPT ![p] = 0]
    /\ UNCHANGED <<readable, usage, ledger, warned, seedFailed, blind>>

ElsewhereCosts(cost) ==
    /\ usage[Elsewhere] + cost <= MaxElsewhere
    /\ usage' = [usage EXCEPT ![Elsewhere] = @ + cost]
    /\ UNCHANGED <<readable, ledger, warned, payer, toSpend, seedFailed, blind>>

\* A file of the month cannot be opened any more, or holds an entry that cannot be added up:
\* or it can be again.
LogBreaksOrMends ==
    /\ readable' = ~readable
    /\ UNCHANGED <<usage, ledger, warned, payer, toSpend, seedFailed, blind>>

\* The log of the new month is empty, the ledger in memory goes on.
MonthTurns ==
    /\ readable' = TRUE /\ blind' = FALSE
    /\ usage' = [i \in Projects \union {Elsewhere} |-> 0]
    /\ UNCHANGED <<ledger, warned, payer, toSpend, seedFailed>>

\* mutant: the ledger starts empty
SeededEmpty == [i \in Projects |-> 0]

\* _seed_from_history: the entries of this month, mission by mission.  One that is no
\* mission's may be beyond get_monthly_totals and not in its way.
Seeded == [i \in Projects |-> usage[i]]

\* The process dies and starts again; its calls are gone.
Restarts ==
    /\ ledger' = Seeded
    /\ warned' = {}
    /\ payer' = [p \in Payers |-> "idle"] /\ toSpend' = [p \in Payers |-> 0]
    /\ UNCHANGED <<readable, usage, seedFailed, blind>>

\* An entry that cannot be read ends the seeding: what was read before it stays.
SeedFails ==
    /\ ~readable
    /\ seedFailed' = TRUE
    /\ \E partial \in [Projects -> 0 .. ProjectLimit] :
         (\A i \in Projects : partial[i] <= usage[i]) /\ ledger' = partial
    /\ warned' = {}
    /\ payer' = [p \in Payers |-> "idle"] /\ toSpend' = [p \in Payers |-> 0]
    /\ UNCHANGED <<readable, usage, blind>>

BudgetNext ==
    \/ \E p \in Payers :
         \/ AsksGlobal(p) \/ AsksProject(p) \/ CallEnds(p)
         \/ \E cost \in 1 .. MaxCost : CallCosts(p, cost)
    \/ \E cost \in 1 .. MaxElsewhere : ElsewhereCosts(cost)
    \/ LogBreaksOrMends \/ MonthTurns \/ Restarts \/ SeedFails

BudgetSpec == BudgetInit /\ [][BudgetNext]_budgetVars

-----------------------------------------------------------------------------
(* Properties *)

BudgetTypeOK ==
    /\ usage \in [Projects \union {Elsewhere} -> Nat] /\ ledger \in [Projects -> Nat]
    /\ warned \in SUBSET Scope
    /\ payer \in [Payers -> {"idle", "granted", "refused", "calling"}]
    /\ toSpend \in [Payers -> 0 .. MaxCost]
    /\ readable \in BOOLEAN /\ seedFailed \in BOOLEAN /\ blind \in BOOLEAN

\* Reserving books nothing, but the damage is bounded: in a month the missions go over the
\* monthly limit by no more than the calls that can be under way at once, one per worker,
\* unless reserve was asked this month while the log could not be read: then it says yes.
MissionsStayNearTheLimit ==
    ~blind => SumOver(usage, Projects) <= MonthlyLimit - Estimate + Cardinality(Payers) * MaxCost

\* The same of one project and its own limit, which is checked against memory and holds of
\* the log, over calls in flight, months that turn and restarts (unless a seeding failed).
ProjectStaysNearItsLimit ==
    ~seedFailed => \A i \in Projects :
        usage[i] <= ProjectLimit - Estimate
                      + Cardinality({p \in Payers : ProjectOf[p] = i}) * MaxCost

=============================================================================
