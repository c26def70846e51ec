------------------------------- MODULE MCServices -------------------------------
(***************************************************************************)
(* The services of globex-fedex, and the budget guard, the Skill Lab and   *)
(* the routines of Jarvis, for TLC.  They share no row and no variable, so *)
(* that a property of one says nothing of the others: instead of the       *)
(* product of their states, `focus' chooses one of them in the initial     *)
(* state and only that one takes steps.  Each is so explored as if it ran  *)
(* alone.                                                                  *)
(***************************************************************************)
EXTENDS AgentMissions, ShipmentWatch, Accounts, Preferences, SupportTickets, BudgetGuard,
        SkillLab, Routines, TLC

CONSTANTS
    Foci,               \* the services of the run
    w1, w2, w3, m1, m2  \* three workers of two projects

VARIABLE focus

servicesVars == <<focus, agentVars, watchVars, accountVars, preferenceVars, ticketVars,
                  budgetVars, labVars, routineVars>>

MCProjectOf == [p \in Payers |-> IF p = w3 THEN m2 ELSE m1]

\* Every event, or the delivery alone.
MCWishes == {[alert |-> EventId, inApp |-> TRUE],
             [alert |-> {e \in EventId : IsDelivery(e)}, inApp |-> TRUE]}

\* The watch begins without a cursor and with every event asked for; cycles and the client
\* lead to the other initial states of its own.  Services out of focus stay in one of their
\* initial states.
ServicesInit ==
    /\ focus \in Foci
    /\ AgentInit /\ WatchInit /\ AccountInit /\ PreferenceInit /\ TicketInit /\ BudgetInit
    /\ LabInit /\ RoutineInit
    /\ cursor = NoCursor /\ EventId \subseteq choice.alert
    /\ focus # "agent" => require /\ ~direct
    /\ focus # "account" => account = "active" /\ twoFactor
    /\ focus # "lab" => \A n \in Skills : record[n].status = "none"
    /\ focus # "routine" => policy = "skip"

ServicesNext ==
    \/ /\ focus = "agent" /\ AgentNext
       /\ UNCHANGED <<focus, watchVars, accountVars, preferenceVars, ticketVars, budgetVars,
                      labVars, routineVars>>
    \/ /\ focus = "watch" /\ WatchNext
       /\ UNCHANGED <<focus, agentVars, accountVars, preferenceVars, ticketVars, budgetVars,
                      labVars, routineVars>>
    \/ /\ focus = "account" /\ AccountNext
       /\ UNCHANGED <<focus, agentVars, watchVars, preferenceVars, ticketVars, budgetVars,
                      labVars, routineVars>>
    \/ /\ focus = "preference" /\ PreferenceNext
       /\ UNCHANGED <<focus, agentVars, watchVars, accountVars, ticketVars, budgetVars,
                      labVars, routineVars>>
    \/ /\ focus = "ticket" /\ TicketNext
       /\ UNCHANGED <<focus, agentVars, watchVars, accountVars, preferenceVars, budgetVars,
                      labVars, routineVars>>
    \/ /\ focus = "budget" /\ BudgetNext
       /\ UNCHANGED <<focus, agentVars, watchVars, accountVars, preferenceVars, ticketVars,
                      labVars, routineVars>>
    \/ /\ focus = "lab" /\ LabNext
       /\ UNCHANGED <<focus, agentVars, watchVars, accountVars, preferenceVars, ticketVars,
                      budgetVars, routineVars>>
    \/ /\ focus = "routine" /\ RoutineNext
       /\ UNCHANGED <<focus, agentVars, watchVars, accountVars, preferenceVars, ticketVars,
                      budgetVars, labVars>>

\* AgentFairness, WatchFairness and RoutineFairness, each of the service in focus.
ServicesFairness ==
    /\ \A r \in AgentRequests : WF_agentVars(focus = "agent" /\ AgentProgress(r))
    /\ WF_watchVars(focus = "watch" /\ CycleLoads(Loop))
    /\ SF_watchVars(focus = "watch" /\ CycleSyncs(Loop))
    /\ \A t \in Threads : WF_watchVars(focus = "watch" /\ WatchStep(t))
    /\ <>[][\A t \in Threads : ~RollsBack(t)]_watchVars
    /\ WF_routineVars(focus = "routine" /\ RoutineFires)

\* But for fairness, the two threads that run watch cycles are alike.
AnyPoller == Permutations({Loop, Startup})

ServicesSpec == ServicesInit /\ [][ServicesNext]_servicesVars

FairServicesSpec == ServicesSpec /\ ServicesFairness

ServicesTypeOK ==
    /\ AgentTypeOK /\ WatchTypeOK /\ AccountTypeOK /\ PreferenceTypeOK /\ TicketTypeOK
    /\ BudgetTypeOK /\ LabTypeOK /\ RoutineTypeOK

=============================================================================
