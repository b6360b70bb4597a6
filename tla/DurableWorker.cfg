SPECIFICATION FairWSpec
CONSTANTS
    w1 = w1  w2 = w2  c1 = c1  k1 = k1  d1 = d1  f1 = f1
    None = None
    JobIds <- MCJobIds
    Workers <- MCWorkers
    Callers <- MCCallers
    Types = {"refresh_grants"}
    Keys <- MCKeys
    DedupeKeys = {d1}
    Funders <- MCFunders
    ApiRequests <- MCApiRequests
    MaxAttempts = 1
    MaxPublishes = 2
    Handled <- MCHandled
    MaxFaults = 1
INVARIANTS OneExecutor EffectsAtMostOnce BeatTellsTruth
PROPERTIES RunningSettles QueuedIsTaken
