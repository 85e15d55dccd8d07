SPECIFICATION Spec
CONSTANTS
    CandidateIds = {"c1"}
    ItemIds = {"m1", "m2"}
    ClaimIds = {"k1"}
    LinkIds = {"l1", "l2"}
    RecordIds = {"v1", "v2"}
    TaskIds = {"t1", "t2"}
    InvocationIds = {"i1", "i2"}
    SubmissionIds = {"b1"}
    Epochs = {"e0", "e1"}
    Times = {0, 1}
    NoId = NoId
    Workloads <- ClaimHistories
INVARIANTS ReplayReproducesHead
CHECK_DEADLOCK FALSE
