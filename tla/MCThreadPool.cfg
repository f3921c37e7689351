CONSTANTS
    w1 = w1
    w2 = w2
    c1 = c1
    c2 = c2
    t1 = t1
    t2 = t2
    t3 = t3
    loop = loop
    NoTask = NoTask
    Workers <- MCWorkers
    Callers <- MCCallers
    Tasks <- MCTasks
    LoopTasks <- MCLoopTasks
SPECIFICATION FairSpec
INVARIANTS TypeOK AcceptedInOrder NoLostWakeup StopWakesAll JoinedAfterAllTasks
PROPERTIES EveryTaskStarts DestroyReturns
CHECK_DEADLOCK FALSE
