\* One parcel, every thread keeps running.
CONSTANTS
    p1 = p1
    p2 = p2
    b1 = b1
    r1 = r1
    r2 = r2
    s1 = s1
    c1 = c1
    c2 = c2
    k1 = k1
    k2 = k2
    v1 = v1
    v2 = v2
    Parcel = {p1}
    Block = {b1}
    Rank = {r1, r2}
    Server = {s1}
    Collector = {c1, c2}
    Sink = {k1, k2}
    Payload = {v1}
    Nothing = Nothing
    Blank = Blank
    BlockOf <- MCBlockOf
    RankOf <- MCRankOf
    HomeOf <- MCHomeOf
    Serves <- MCServes
SPECIFICATION FairSpec
PROPERTY WaitAfterSubscribeReturns
CHECK_DEADLOCK FALSE
