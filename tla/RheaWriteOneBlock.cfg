\* Two parcels of one rank for one block, one source task, one sink.
CONSTANTS
    p1 = p1
    p2 = p2
    p3 = p3
    b1 = b1
    b2 = b2
    b3 = b3
    r1 = r1
    r2 = r2
    s1 = s1
    s2 = s2
    c1 = c1
    c2 = c2
    k1 = k1
    k2 = k2
    Parcel = {p1, p2}
    Block = {b1}
    Rank = {r1, r2}
    Server = {s1}
    Collector = {c1}
    Sink = {k1}
    Payload = {p1, p2, p3}
    Nothing = Nothing
    Blank = Blank
    BlockOf <- OneBlock
    RankOf <- OneRank
    HomeOf <- OneHome
    Serves <- SharedQueue
    KeyOf <- OneSink
SPECIFICATION Spec
INVARIANT BlocksHoldPublishedData
CHECK_DEADLOCK FALSE
