SPECIFICATION Spec
CONSTANTS
    t1 = t1  t2 = t2  r1 = r1  r2 = r2  s1 = s1  s2 = s2
    p1 = p1  p2 = p2  h1 = h1  h2 = h2  w1 = w1  w2 = w2
    Nil = Nil
    Invalid = Invalid
    Tasks = {t1, t2}
    Runtimes = {r1, r2}
    NumSteps = 2
    Irreversible <- LastIrreversible
    HumanGated = {}
    DemoTasks = {t2}
    Streaming = {}
    Submitters = {s1}
    Approvers = {}
    Cancelers = {}
    Handlers = {}
    Workers = {w1}
    LoopWorkers = {w1}
    MaxAttempts = 2
    MaxRecoveryAttempts = 1
    MaxCrashes = 1
    StoreFaults = TRUE
    RuntimeEnds = {"completed"}
SYMMETRY RuntimeSymmetry
INVARIANTS
    ResumeSeedsWholePrefix
    RecoveryAheadOfIrreversible
CHECK_DEADLOCK FALSE
