SPECIFICATION Spec
CONSTANTS
    Subjects = {"migration"}
    Pages = {"p1", "p2", "p3"}
    MaxPages = 2
    MaxPins = 1
    MaxTime = 3
    Positions = {0, 1, 2, 3, 4, 5}
    MaxCount = 2
    MaxEntries = 4
    BranchIds = {"a", "b"}
    NodeIds = {"n1", "n2", "n3", "n4"}
    NoNode = "empty"
    Given <- SomeGiven
    MaxBranches = 3
    PageIds = {"p1", "p2"}
    Contents = {"x", "y"}
    Empty = "empty"
    Meta = {"identity"}
    Bytes = {0, 1, 100, 255}
    MaxLength = 5
    GroupSizes = {2, 3}
    Writers = {"w1", "w2"}
    Strings = {"x", "y", "d"}
    Batches <- SomeBatches
    Directories = {"d1", "d2"}
    DirectoryOf <- SomeDirectories
    Disposable = {"d"}
    Openers = {"q1", "q2"}
    KeyOf <- OpenerKeys
    NoKey = NoKey
    NoOpener = NoOpener
    key = key
    Logs <- SomeLogs
INVARIANTS OldDatabasesOpen
