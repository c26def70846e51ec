SPECIFICATION ServicesSpec
CONSTANTS
    Foci = {"agent", "watch", "account", "preference", "ticket", "budget", "lab", "routine"}
    AgentRequests = {q1, q2, q3}
    Assistant = Assistant
    MaxTasks = 2
    Loop = Loop
    Startup = Startup
    Hooks = {h1}
    Client = Client
    MaxEvents = 2
    MailCap = 1
    MaxBusy = 2
    MaxSubscriptions = 1
    Wishes <- MCWishes
    MailsFail = FALSE
    DemoMode = FALSE
    Calls = {a1, a2, a3}
    Legacy = Legacy
    Nobody = Nobody
    Forms = {f1, f2, f3}
    Default = Default
    Letters = {l1, l2, l3}
    NoLetter = NoLetter
    w1 = w1
    w2 = w2
    w3 = w3
    m1 = m1
    m2 = m2
    Payers = {w1, w2, w3}
    ProjectOf <- MCProjectOf
    Elsewhere = Elsewhere
    MonthlyLimit = 3
    ProjectLimit = 2
    Estimate = 2
    MaxCost = 1
    WarnLevel = 2
    MaxElsewhere = 1
    MaxUsage = 3
    Skills = {s1, s2}
    Proposals = {p1, p2}
    Events = {e1}
    NoEvent = NoEvent
    NoCode = NoCode
    Foreign = Foreign
    History = 3
    CatchUpMax = 2
SYMMETRY AnyPoller
CHECK_DEADLOCK FALSE
INVARIANTS
    ServicesTypeOK
    QuestionHasItsStep WaitingHasQuestion ActsOncePerQuestion CompletedRanEveryTask
    CursorLeavesNothing MailsWithinCap
    SuspendedHasNoSession ChallengeOpensOnce
    OnePending InForceIsApproved
    MissionsStayNearTheLimit ProjectStaysNearItsLimit
    InstalledWasTested EventProposedOnce CandidateIsJudged
    NoRunLeftActive
PROPERTIES
    OverStaysOver OnlyAClientRevives ClosedStaysClosed
