\* Two deliveries, d1 sent three times; two instances that share a Redis.
CONSTANTS
    a1 = a1  a2 = a2  a3 = a3  b1 = b1  c1 = c1
    i1 = i1  i2 = i2
    d1 = d1  d2 = d2  d3 = d3
    Attempts = {a1, a2, a3, b1}
    Deliveries = {d1, d2}
    Instances = {i1, i2}
    NoInstance = NoInstance
    Of <- RetriesOf
    Verified <- RetriesVerified
    Payload <- RetriesPayload
    TestRepo = "demo"
    RedisConfigured = TRUE
    TTL = 2
    RetryWindow = 1
    Horizon = 3
    Threads = 1
SPECIFICATION Spec
INVARIANTS TypeOK AtMostOneClaim KillSwitchHolds KeyComesFromAPullRequest
PROPERTY KeepsThePromise OffStaysOff
SYMMETRY RetriesSymmetry
