SPECIFICATION Spec
CONSTANTS
    CandidateIds = {"c1"}
    ItemIds = {"m1", "m2"}
    ClaimIds = {"k1"}
    LinkIds = {"l1", "l2"}
    RecordIds = {"v1", "v2"}
    TaskIds = {"t1"}
    InvocationIds = {"i1", "i2"}
    SubmissionIds = {"b1"}
    Epochs = {"e0", "e1"}
    Times = {0, 1}
    NoId = NoId
    Workloads <- Histories
INVARIANTS TypeOK ClaimIndexConsistent VerdictsCurrent ReplayReproducesHead EvictsFromTheBottom NothingSilentlyLost
PROPERTIES HistoryIsKept StablePrefixKept
CHECK_DEADLOCK FALSE
