SPECIFICATION Spec
CONSTANTS
    MaxSlot = 4
    Blocks = {0, 1, 3, 4}
    Trees <- SkippedSlot
    Threads = {t1, t2}
    NoThread = NoThread
    Keys = {k1}
    LoaderOf <- AllV4
    DeployedAtGenesis = {k1}
    EpochStart = 4
    Fragile = {1, 3}
    CheckDeploymentSlot = FALSE
    LimitToLoad = TRUE
    ShrinkTo = 0
    MaxResults = 2
CHECK_DEADLOCK FALSE
SYMMETRY Symmetry
INVARIANTS FindAgreesWithAccounts IndexIsSound
PROPERTIES PruneKeepsWhatIsVisible
