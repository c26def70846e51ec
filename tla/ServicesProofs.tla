---------------------------- MODULE ServicesProofs ----------------------------
(***************************************************************************)
(* Theorems about MCServices, the module in which TLC explores the eight   *)
(* services.  There a step belongs to the service in focus and leaves the  *)
(* variables of the others alone, so that each service does what its own   *)
(* specification says, or stutters.  A theorem about one service is then   *)
(* a theorem about the runs, for every value of the constants.             *)
(***************************************************************************)
EXTENDS MCServices, AgentMissionsProofs, AccountsProofs, ClientServicesProofs,
        JarvisServicesProofs

\* Every service behaves in the composition as its own specification says: focus neither
\* adds a step to a service nor lets the step of another one touch its state.
THEOREM ComposedServicesAreTheirOwn ==
    ServicesSpec =>
        /\ AgentSpec /\ WatchSpec /\ AccountSpec /\ PreferenceSpec /\ TicketSpec
        /\ BudgetSpec /\ LabSpec /\ RoutineSpec
<1>1. ServicesInit => /\ AgentInit /\ WatchInit /\ AccountInit /\ PreferenceInit /\ TicketInit
                      /\ BudgetInit /\ LabInit /\ RoutineInit
  BY DEF ServicesInit
<1>2. [ServicesNext]_servicesVars =>
        /\ [AgentNext]_agentVars /\ [WatchNext]_watchVars /\ [AccountNext]_accountVars
        /\ [PreferenceNext]_preferenceVars /\ [TicketNext]_ticketVars
        /\ [BudgetNext]_budgetVars /\ [LabNext]_labVars /\ [RoutineNext]_routineVars
  BY DEF ServicesNext, servicesVars
<1>. QED BY <1>1, <1>2, PTL DEF ServicesSpec, AgentSpec, WatchSpec, AccountSpec, PreferenceSpec,
                               TicketSpec, BudgetSpec, LabSpec, RoutineSpec

\* The rows, files, threads and requests of every service keep their types, for any number
\* of requests, threads, workers, skills and events.
THEOREM ServicesTypeCorrect == ServicesSpec => []ServicesTypeOK
BY ComposedServicesAreTheirOwn, AgentTypeCorrect, WatchTypeCorrect, AccountTypeCorrect,
   PreferenceTypeCorrect, TicketTypeCorrect, BudgetTypeCorrect, LabTypeCorrect,
   RoutineTypeCorrect, PTL DEF ServicesTypeOK

=============================================================================
