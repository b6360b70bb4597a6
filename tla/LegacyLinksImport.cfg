SPECIFICATION Spec
CONSTANTS
    own = own  other = other  q1 = q1  q2 = q2  h1 = h1
    NoLink = NoLink  Absent = Absent  None = None
    Grants <- MCGrants
    Profiles <- MCProfiles
    Own = own
    Requests <- MCRequests
    Hydrations <- MCHydrations
    MaxImports = 1
PROPERTY ClearedLinkStaysCleared
