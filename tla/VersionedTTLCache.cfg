SPECIFICATION Spec
CONSTANTS
    k1 = k1  k2 = k2  r1 = r1  r2 = r2  r3 = r3  r4 = r4  d1 = d1  d2 = d2
    None = None
    Keys <- MCKeys
    DatasetOf <- MCDatasetOf
    Requests <- MCRequests
    Ttl = 1
    MaxEntries = 1
    MaxTime = 2
INVARIANTS SingleFlight AnswersAreFresh NoResultIsLeftBehind
SYMMETRY MCSymmetry
CHECK_DEADLOCK FALSE
