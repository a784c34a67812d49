\* Two ranks, each publishes a block, waits for it and reads it back; one
\* source task and one sink in each job. The jobs may stop: they are finalized.
CONSTANTS
    w1 = w1
    w2 = w2
    q1 = q1
    q2 = q2
    b1 = b1
    b2 = b2
    c1 = c1
    c2 = c2
    k1 = k1
    Ranks = 2
    Job = {0, 1}
    Services = 2
    Regulators = 1
    Publication = {w1, w2}
    Subscription = {q1, q2}
    AwaitFirst = TRUE
    Block = {b1, b2}
    WriteCollector = {c1, c2}
    ReadCollector = {c1, c2}
    WriteSink = {k1}
    ReadSink = {k1}
    Nothing = Nothing
    Blank = Blank
    ProgramOf <- MCProgramOf
    ReadsBack <- MCReadsBack
    WriteBlockOf <- MCWriteBlockOf
    WriteHomeOf <- MCWriteHomeOf
    ReadHomeOf <- MCReadHomeOf
    WriteRankOf <- MCWriteRankOf
    ReadRankOf <- MCReadRankOf
    WriteServes <- MCServes
    ReadServes <- MCServes
    KeyOf <- MCKeyOf
SPECIFICATION FairSpec
INVARIANT ReadsOwnWrite JobOutlivesCalls CallsReachServedQueue
PROPERTY EveryRankFinishes
CHECK_DEADLOCK FALSE
