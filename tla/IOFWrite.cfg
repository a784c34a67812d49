\* p1 and p2 for one block through one server, p3 through another; every call
\* of Publish may fail. The job may stop: it is finalized, or a rank waits for
\* ever.
CONSTANTS
    p1 = p1
    p2 = p2
    p3 = p3
    b1 = b1
    b2 = b2
    r1 = r1
    r2 = r2
    r3 = r3
    s1 = s1
    s2 = s2
    c1 = c1
    c2 = c2
    Parcel = {p1, p2, p3}
    Block = {b1, b2}
    Rank = {r1, r2, r3}
    Server = {s1, s2}
    Collector = {c1, c2}
    Payload = {p1, p2, p3}
    Nothing = Nothing
    Blank = Blank
    BlockOf <- MCBlockOf
    RankOf <- MCRankOf
    HomeOf <- MCHomeOf
    Serves <- MCServes
SPECIFICATION OrderFairSpec
INVARIANTS TypeOK BlocksFollowPushOrder
PROPERTIES ImplementsDurableWrite PushedIsWritten
CHECK_DEADLOCK FALSE
