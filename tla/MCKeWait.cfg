SPECIFICATION FairSpec
CONSTANTS
    t1 = t1
    t2 = t2
    t3 = t3
    m1 = m1
    m2 = m2
    s1 = s1
    e1 = e1
    Threads = {t1, t2, t3}
    Mutexes = {m1}
    Semaphores = {s1}
    Events = {e1}
    NoThread = NoThread
    NoObject = NoObject
    Workloads <- MCWorkloads
    SemInit = 1
    MaxCount = 2
INVARIANTS
    TypeOK
    MutualExclusion
    NoPhantomOwner
    TokensConserved
    NoLostWakeup
    OneSatisfier
    NoAssertionFails
PROPERTIES
    KeepsTheLine
    SatisfiedIsWoken
    MutexHandedOver
CHECK_DEADLOCK FALSE
