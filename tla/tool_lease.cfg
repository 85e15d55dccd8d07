SPECIFICATION Spec
CONSTANTS
    i1 = i1
    i2 = i2
    i3 = i3
    p1 = p1
    p2 = p2
    p3 = p3
    w1 = w1
    w2 = w2
    s1 = s1
    s2 = s2
    NoPass = NoPass
    Invocations = {i1}
    DependsOn <- Independent
    Refused = {}
    Deadlined = {}
    Successes = {"ok"}
    Preloaded <- FirstPreloaded
    PolicyStore = s1
    Stores = {s1}
    Workers = {w1}
    StoreOf <- OneStore
    Passes = {p1, p2}
    Sessions <- AllTogether
    WorkerOf <- OneWorker
    Stoppable = {}
    MaxDetached = 1
INVARIANTS NotRunTwice
