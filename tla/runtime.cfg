SPECIFICATION Spec
CONSTANTS
    CandidateIds <- SomeCandidates
    ItemIds = {"m1"}
    ClaimIds = {"k1"}
    LinkIds = {"l1"}
    RecordIds = {"v1"}
    TaskIds = {"t1"}
    InvocationIds <- RunTools
    SubmissionIds = {"b1", "b2"}
    Epochs = {"e0"}
    Times = {0}
    NoId = NoId
    c1 = c1
    NoAction = NoAction
    Runs = {r1, r2, r3, r4}
    r1 = r1
    r2 = r2
    r3 = r3
    r4 = r4
    n1 = n1
    n2 = n2
    Normalizers = {n1, n2}
    Sessions <- TheSessions
    Offered <- Policies
    AllowedTools = {"web_search"}
    MaxToolCalls = 2
    MaxSteps <- Steps
    MaxTries = 2
INVARIANTS TypeOK ToolBudgetKept RaisesOnlyForReusedIds SubmissionEndsRun
PROPERTIES NormalizationIsComplete
