SPECIFICATION USpec
CONSTANTS
    a = a  b = b  c = c  r1 = r1  r2 = r2  r3 = r3  s1 = s1  s2 = s2
    None = None
    Requests <- MCThree
    Keys <- MCMutations
    Users <- MCUsers
    Servers <- MCServers
    Founders <- MCFounders
INVARIANTS HolderIsAlone EffectOnce LastAdminStaysAlone RolesAreSingle
PROPERTY ImplementsRequests
SYMMETRY MCSymmetry
CHECK_DEADLOCK FALSE
