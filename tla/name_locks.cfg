SPECIFICATION FairSpec
CONSTANTS
    Threads = {t1, t2, t3}
    Names = {n1, n2}
    Locks = {l1, l2, l3}
    None = None
INVARIANTS TypeOK MutualExclusion OneLockPerName BlockedBySameName
PROPERTIES WaitedForIsHeld
