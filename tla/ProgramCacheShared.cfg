SPECIFICATION FairSpec
CONSTANTS
    MaxSlot = 1
    Blocks = {0, 1}
    Trees <- Chain
    Threads = {t1, t2}
    NoThread = NoThread
    Keys = {k1, k2}
    LoaderOf <- OneOfEach
    DeployedAtGenesis = {k1}
    EpochStart = 9
    Fragile = {}
    CheckDeploymentSlot = TRUE
    LimitToLoad = FALSE
    ShrinkTo = 1
    MaxResults = 2
CHECK_DEADLOCK FALSE
PROPERTIES EvictionReachesTarget CooperativeLoadingSpec ReplenishReturns
