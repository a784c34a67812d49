\* Two parcels of two ranks in one queue, two source tasks that share it,
\* two sinks, every call of Publish may fail, FinalizeClient at any time.
\* The job may stop: it is finalized, or a rank waits for ever.
CONSTANTS
    p1 = p1
    p2 = p2
    p3 = p3
    b1 = b1
    b2 = b2
    b3 = b3
    r1 = r1
    r2 = r2
    s1 = s1
    s2 = s2
    c1 = c1
    c2 = c2
    k1 = k1
    k2 = k2
    Parcel = {p1, p2}
    Block = {b1, b2}
    Rank = {r1, r2}
    Server = {s1}
    Collector = {c1, c2}
    Sink = {k1, k2}
    Payload = {p1, p2}
    Nothing = Nothing
    Blank = Blank
    BlockOf <- OwnBlock
    RankOf <- TwoRanks
    HomeOf <- OneHome
    Serves <- SharedQueue
    KeyOf <- TwoSinks
SPECIFICATION FairSpec
INVARIANTS TypeOK OneHolder DataInPlace DoneIsDurable
PROPERTIES PushedIsStored TimelyRecordIsAcked DoneLostOnlyToLateRecord ImplementsDurableWrite
CHECK_DEADLOCK FALSE
