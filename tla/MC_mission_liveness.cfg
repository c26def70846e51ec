SPECIFICATION FairSpec
CONSTANTS
    w1 = w1
    w2 = w2
    w3 = w3
    NoWorker = NoWorker
    Workers <- TwoWorkers
    NSteps = 2
    Level <- RisingLevels
    Flagged = {1}
    BudgetEnabled = TRUE
    IsFusion = TRUE
PROPERTIES
    EveryRunEnds
