SPECIFICATION MCSpec
CONSTANTS
    tr1 = tr1
    tr2 = tr2
    t1 = t1
    t2 = t2
    t3 = t3
    t4 = t4
    t5 = t5
    s1 = s1
    s2 = s2
    s3 = s3
    key = key
    NoKey = NoKey
    NoThread = NoThread
    NoSnapshot = NoSnapshot
    Trajectories = {tr1}
    Threads = {t1, t2, t3, t4, t5}
    Stores = {s1, s2, s3}
    StoreOf <- StoresOfThreads
    KeyOf <- SignedByThird
    Keys = {"a", "b", "c"}
    Requests = {"x", "y", "bad"}
    Rejected = {"bad"}
    Jobs <- RacingJobs
    Peekers = {t2}
    Savers = {t1}
    Crashing = {s1, s2}
    Resubmitters = {t1, t2}
    CheckpointEvery = 2
    MaxLen = 3
    Casts = {{t1, t2}, {t3, t4, t5}}
INVARIANTS TypeOK UniqueKeys IndexMatchesLog AcknowledgedIsDurable SnapshotsAreCommitted UnsignedHeadLoadable OneSignerPerTrajectory
PROPERTIES CommitsOnlyOnHead ReadYourWrites ImplementsLog
