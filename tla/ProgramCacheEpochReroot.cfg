SPECIFICATION Spec
CONSTANTS
    MaxSlot = 5
    Blocks = {0, 1, 3, 4, 5}
    Trees <- AheadOfTime
    Threads = {t1}
    NoThread = NoThread
    Keys = {k1}
    LoaderOf <- AllV4
    DeployedAtGenesis = {k1}
    EpochStart = 3
    Fragile = {}
    CheckDeploymentSlot = FALSE
    LimitToLoad = TRUE
    ShrinkTo = 1
    MaxResults = 2
CHECK_DEADLOCK FALSE
INVARIANTS FindAgreesWithAccounts
