\* One instance with one background thread and a Redis; the clock stands still.
CONSTANTS
    a1 = a1  a2 = a2  a3 = a3  b1 = b1  c1 = c1
    i1 = i1  i2 = i2
    d1 = d1  d2 = d2  d3 = d3
    Attempts = {a1, a2, b1, c1}
    Deliveries = {d1, d2, d3}
    Instances = {i1}
    NoInstance = NoInstance
    Of <- LiveOf
    Verified <- LiveVerified
    Payload <- LivePayload
    TestRepo = "demo"
    RedisConfigured = TRUE
    TTL = 1
    RetryWindow = 0
    Horizon = 1
    Threads = 1
SPECIFICATION FairSpec
PROPERTY EveryClaimSettles
