\* Two parcels of two ranks for one block, two source tasks on the queue, one
\* sink, another job that keeps rewriting the block with two payloads. The job
\* may stop: it is finalized, or a rank waits for ever.
CONSTANTS
    p1 = p1
    p2 = p2
    b1 = b1
    r1 = r1
    r2 = r2
    s1 = s1
    c1 = c1
    c2 = c2
    k1 = k1
    k2 = k2
    v1 = v1
    v2 = v2
    Parcel = {p1, p2}
    Block = {b1}
    Rank = {r1, r2}
    Server = {s1}
    Collector = {c1, c2}
    Sink = {k1}
    Payload = {v1, v2}
    Nothing = Nothing
    Blank = Blank
    BlockOf <- MCBlockOf
    RankOf <- MCRankOf
    HomeOf <- MCHomeOf
    Serves <- MCServes
SPECIFICATION FairSpec
INVARIANTS TypeOK FreshRead DoneHasData SubscribeCleansUp
PROPERTY FirstWaitReturns
CHECK_DEADLOCK FALSE
