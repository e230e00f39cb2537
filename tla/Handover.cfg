SPECIFICATION Spec
CONSTANTS
    t1 = t1  t2 = t2  r1 = r1  r2 = r2  s1 = s1  s2 = s2
    p1 = p1  p2 = p2  h1 = h1  h2 = h2  w1 = w1  w2 = w2
    Nil = Nil
    Invalid = Invalid
    Tasks = {t1, t2}
    Runtimes = {r1, r2}
    NumSteps = 2
    Irreversible <- LastIrreversible
    HumanGated = {}
    DemoTasks = {}
    Streaming = {t2}
    Submitters = {s1}
    Approvers = {}
    Cancelers = {}
    Handlers = {h1}
    Workers = {w1}
    LoopWorkers = {w1}
    MaxAttempts = 2
    MaxRecoveryAttempts = 1
    MaxCrashes = 0
    StoreFaults = FALSE
    RuntimeEnds = {"completed"}
SYMMETRY RuntimeSymmetry
INVARIANTS
    TypeOK
    NewestRowIsWatermark
    ResumeSeedsWholePrefix
    CompletedMeansExecuted
    RecoveryAheadOfIrreversible
    
PROPERTIES
    TerminalIsFinal
    WatermarkNeverRegresses
    
CHECK_DEADLOCK FALSE
