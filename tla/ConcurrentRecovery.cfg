SPECIFICATION Spec
CONSTANTS
    t1 = t1  t2 = t2  r1 = r1  r2 = r2  s1 = s1  s2 = s2
    p1 = p1  p2 = p2  h1 = h1  h2 = h2  w1 = w1  w2 = w2
    Nil = Nil
    Invalid = Invalid
    Tasks = {t1}
    Runtimes = {r1, r2}
    NumSteps = 1
    Irreversible <- AllReversible
    HumanGated = {}
    DemoTasks = {}
    Streaming = {}
    Submitters = {s1}
    Approvers = {}
    Cancelers = {}
    Handlers = {h1}
    Workers = {w1, w2}
    LoopWorkers = {w1}
    MaxAttempts = 3
    MaxRecoveryAttempts = 1
    MaxCrashes = 0
    StoreFaults = FALSE
    RuntimeEnds = {"completed", "failed"}
SYMMETRY RuntimeSymmetry
INVARIANTS
    RecoveryBudget
    RecoveringIsOwned
CHECK_DEADLOCK FALSE
