SPECIFICATION Spec
CONSTANTS
    t1 = t1
    t2 = t2
    d1 = d1
    NoCpu = NoCpu
    NoThread = NoThread
    First = t1
    Cpus = {0, 1}
    Threads = {t1, t2}
    Mortal = {t1, t2}
    Deferred = {d1}
    timer_expiry_dpc <- MCTimer
INVARIANTS
    DoneQueueExclusive
