SPECIFICATION Spec
CONSTANTS
    j1 = j1  j2 = j2  j3 = j3
    None = None
    Jobs <- MCJobs
    FullRuns <- MCFullRuns
INVARIANTS NoWorkIsLost SnapshotCoversDatabase
SYMMETRY MCSymmetry
CHECK_DEADLOCK FALSE
