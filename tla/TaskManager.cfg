\* Two tasks in a chain, each spawned by the PutTask of one event and from
\* outside, one DestroyTask of either, as many pool threads as tasks. The system
\* may stop: nobody has to put an event, and an exception ends the process.
CONSTANTS
    t1 = t1
    t2 = t2
    e1 = e1
    d1 = d1
    w1 = w1
    w2 = w2
    Task = {t1, t2}
    Event = {e1}
    Destroy = {d1}
    Worker = {w1, w2}
    Spawned = {t1, t2}
    Nothing = Nothing
    Elsewhere = Elsewhere
    FirstTask <- MCFirstTask
    NextLocations <- MCNextLocations
    OriginOf <- MCOriginOf
SPECIFICATION FairSpec
INVARIANTS TypeOK QueueIsServed ExecutorsCanBeStopped OnlyDestroyThrows
PROPERTY NoEventIsStuck
CHECK_DEADLOCK FALSE
