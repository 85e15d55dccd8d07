SPECIFICATION MCSpec
CONSTANTS
    tr1 = tr1
    tr2 = tr2
    t1 = t1
    t2 = t2
    t3 = t3
    t4 = t4
    t5 = t5
    s1 = s1
    s2 = s2
    s3 = s3
    key = key
    NoKey = NoKey
    NoThread = NoThread
    NoSnapshot = NoSnapshot
    Trajectories = {tr1}
    Threads = {t1, t2}
    Stores = {s1}
    StoreOf <- StoresOfThreads
    KeyOf <- AllSigned
    Keys = {"a", "b", "c"}
    Requests = {"x"}
    Rejected = {}
    Jobs <- DisjointJobs
    Peekers = {}
    Savers = {}
    Crashing = {}
    Resubmitters = {t1, t2}
    CheckpointEvery = 2
    MaxLen = 3
    Casts = {{t1, t2}}
INVARIANTS HeadLoadable
