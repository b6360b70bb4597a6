SPECIFICATION Spec
CONSTANTS
    w1 = w1  c1 = c1  c2 = c2  k1 = k1  k2 = k2  d1 = d1  f1 = f1
    None = None
    JobIds <- MCJobIds
    Workers <- MCWorkers
    Callers <- MCCallers
    Types = {"full_run"}
    Keys <- MCKeys
    DedupeKeys = {d1}
    Funders <- MCFunders
    ApiRequests <- MCApiRequests
    MaxAttempts = 2
    MaxPublishes = 2
INVARIANTS TypeOK NoDuplicateJob AnswerIsOwnJob
PROPERTIES TerminalIsFinal FailureReleasesCache ImplementsLifecycle
SYMMETRY MCSymmetry
