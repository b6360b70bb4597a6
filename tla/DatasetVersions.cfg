SPECIFICATION Spec
CONSTANTS
    v1 = v1  v2 = v2  v3 = v3  m1 = m1  m2 = m2  m3 = m3
    None = None
    Versions <- MCThree
    Runs <- MCThreeRuns
    Target <- MCThreeOwn
    Tables = 1
    Reuse = FALSE
    MaxKills = 1
INVARIANT RunTellsTruth
PROPERTIES GlobalsFollowActivation ImplementsServing
SYMMETRY MCSymmetry
