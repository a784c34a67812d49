\* Two jobs, two RPC threads, rates that differ by less and by more than the
\* variation, configuration defaults.
CONSTANTS
    j1 = j1
    j2 = j2
    h1 = h1
    h2 = h2
    Job = {j1, j2}
    Handler = {h1, h2}
    Rate = {150, 160000}
    Nobody = Nobody
    Variation = 100
    Step = 5
SPECIFICATION FairSpec
INVARIANTS TypeOK AtMostOneLateRequest GrowthIsProportional
PROPERTY ImbalanceIsAnswered
