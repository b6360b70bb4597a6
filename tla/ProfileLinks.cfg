SPECIFICATION Spec
CONSTANTS
    d1 = d1  d2 = d2  p1 = p1  p2 = p2  j1 = j1  j2 = j2
    a1 = a1  a2 = a2  c1 = c1  c2 = c2
    None = None  NoProfile = NoProfile
    Datasets <- MCDatasets
    First = d1
    Profiles <- MCProfiles
    Has <- MCHas
    Observed <- MCObserved
    Jobs <- MCJobs
    Admins <- MCAdmins
    Callers <- MCCallers
    MaxRollbacks = 1
INVARIANTS PayloadIsOfRow PendingHasWork RevisionsAreDistinct RevisionTellsLink
CHECK_DEADLOCK FALSE
SYMMETRY MCSymmetry
