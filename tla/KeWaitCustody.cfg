SPECIFICATION Spec
CONSTANTS
    t1 = t1
    t2 = t2
    t3 = t3
    m1 = m1
    m2 = m2
    s1 = s1
    e1 = e1
    Threads = {t1, t2, t3}
    Mutexes = {m1, m2}
    Semaphores = {}
    Events = {}
    NoThread = NoThread
    NoObject = NoObject
    Workloads <- NestedWorkloads
    SemInit = 1
    MaxCount = 2
INVARIANT
    WakesOnlyInCustody
CHECK_DEADLOCK FALSE
