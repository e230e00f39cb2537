SPECIFICATION FairSpec
CONSTANTS
    t1 = t1  t2 = t2  r1 = r1  r2 = r2
    Nil = Nil
    Tasks = {t1, t2}
    Runtimes = {r1, r2}
    NumSteps = 1
    MaxAttempts = 1
PROPERTY
    ExpiredIsReaped
CHECK_DEADLOCK FALSE
