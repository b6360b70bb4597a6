SPECIFICATION DSpec
CONSTANTS
    w1 = w1  c1 = c1  k1 = k1  k2 = k2  p1 = p1  p2 = p2
    None = None
    JobIds <- MCJobIds
    Workers <- MCWorkers
    Callers <- MCCallers
    Types = {"full_run"}
    Keys <- MCKeys
    DedupeKeys = {}
    Funders <- MCFunders
    ApiRequests <- MCApiRequests
    MaxAttempts = 1
    MaxPublishes = 3
    Dispatchers <- MCDispatchers
INVARIANT PublishedWasHandedOver
PROPERTY EnvelopesComeToRest
