\* One job, one RPC thread, configuration defaults.
CONSTANTS
    j1 = j1
    j2 = j2
    h1 = h1
    h2 = h2
    Job = {j1}
    Handler = {h1}
    Rate = {150, 400}
    Nobody = Nobody
    Variation = 100
    Step = 5
SPECIFICATION Spec
INVARIANT ShrinkTakesNodes
