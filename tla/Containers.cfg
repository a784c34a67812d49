\* Three parcels, two of them for one file; two processes of the queue service,
\* a client on one of them, two tasks or events, up to two SIGTERMs each. Both
\* stop: all parcels are acked, all processes are gone.
CONSTANTS
    TypeError = TypeError
    Indeterminate = Indeterminate
    f1 = f1
    f2 = f2
    s1 = s1
    s2 = s2
    x1 = x1
    Name = {f1, f2, s1, s2, x1}
    Queued = 1
    InProgress = 2
    Done = 3
    Nodes = 2
    Client = {x1}
    MaxSignals = 2
    Request <- MCRequest
    Fresh <- MCFresh
    Chain <- MCChain
    Item <- MCItem
    NodeOf <- MCNodeOf
SPECIFICATION Spec
INVARIANT AckedIsWritten ExitIsOrderly TakenWasPut
PROPERTY PushedReachesSink TermEndsService
CHECK_DEADLOCK FALSE
