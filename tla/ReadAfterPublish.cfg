\* One rank that publishes a block and reads it back without waiting.
CONSTANTS
    w1 = w1
    w2 = w2
    q1 = q1
    q2 = q2
    b1 = b1
    b2 = b2
    c1 = c1
    c2 = c2
    k1 = k1
    Ranks = 1
    Job = {0, 1}
    Services = 1
    Regulators = 1
    Publication = {w1}
    Subscription = {q1}
    AwaitFirst = FALSE
    Block = {b1, b2}
    WriteCollector = {c1}
    ReadCollector = {c1}
    WriteSink = {k1}
    ReadSink = {k1}
    Nothing = Nothing
    Blank = Blank
    ProgramOf <- MCProgramOf
    ReadsBack <- MCReadsBack
    WriteBlockOf <- MCWriteBlockOf
    WriteHomeOf <- MCWriteHomeOf
    ReadHomeOf <- MCReadHomeOf
    WriteRankOf <- MCWriteRankOf
    ReadRankOf <- MCReadRankOf
    WriteServes <- MCServes
    ReadServes <- MCServes
    KeyOf <- MCKeyOf
SPECIFICATION Spec
INVARIANT ReadsOwnWrite
CHECK_DEADLOCK FALSE
