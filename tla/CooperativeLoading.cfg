SPECIFICATION FairSpec
CONSTANTS
    Threads = {t1, t2, t3}
    Keys = {k1, k2, k3}
    NoThread = NoThread
INVARIANTS LoadsAreExclusive NoLostWakeup
PROPERTIES SleepersWake
