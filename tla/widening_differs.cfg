CONSTANTS
    Threads = {t1, t2}
    t1 = t1
    t2 = t2
    Processes = {p1, p2, p3}
    p1 = p1
    p2 = p2
    p3 = p3
    Accepts = 2
    Dur = 4
    Delay = 1
    Hold = 16
    MinElapsed = 10
    Cap = 17
    TableSize = 8
    ScanEnd = 6
    Rounds = 3
    Loops = 3
    MaxTags = 14
    Chunk = 3
    ChunksApart = 2
    TagsApart = 3
    Numbers = 4
    MaxCtr = 3
    MaxFd = 3
    MaxOpens = 5
    Word = 256
    Huge = 100
    Header = 8
    MaxReparse = 16
    ReparseHeader = 4
    PathOffset = 2
    NameOffset = 4
    Buffer = 4
    NameMax = 2
    HandleSize = 8
    Short = 16
    Machine = 64
    Page = 4
    Narrow = 8
    HeaderSize = 2
    Size = 3
    PathCap = 8
    MaxDepth = 2
    FileNames = {".", "..", "a", "target"}
    MinAlign = 4
    Nesting = 1
    Levels <- SmallLevels
    Inputs <- SmallInputs
SPECIFICATION Spec
INVARIANTS WideningDiffers
CHECK_DEADLOCK FALSE
