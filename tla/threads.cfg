SPECIFICATION Spec
CONSTANTS
    Threads = {t1, t2, t3, t4}
    MaxTasks = 2
    a1 = a1
    a2 = a2
    b1 = b1
    coreA = coreA
    coreB = coreB
    Tasks <- MCTasks
    Cores <- MCCores
    core <- MCcore
    Callers = {g1, g2, g3}
    Cases = {c1, c2}
    Conns = {h1, h2}
    Handlers <- AllHandlers
INVARIANTS
    TaskLimit
    CountExact
    MutualExclusion
    NeverPreempted
    LockWordExact
    ResultAgrees
    LateCancelHarmless
    OneHandshake
    LeftoverIsKilled
    PassMeansReaped
    NoHandlerLeft
PROPERTIES
    DispatchRestored
    SomeoneEnters
    CancelReturns
    MainEnds
