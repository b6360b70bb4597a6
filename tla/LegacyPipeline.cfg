SPECIFICATION Spec
CONSTANTS
    p1 = p1  p2 = p2  r1 = r1  r2 = r2  r3 = r3  e1 = e1
    None = None
    Procs <- MCProcs
    Runs <- MCRuns
    ModeOf <- MCModeOf
    Edits <- MCEdits
    Mortal <- MCMortal
    Unshown <- MCUnshown
INVARIANTS ClaimsExclude SuccessIsLive RunningIsShown
PROPERTIES ImportsStay OnlyLateEditsAreLost LockIsGivenBack
CHECK_DEADLOCK FALSE
