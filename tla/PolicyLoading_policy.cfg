SPECIFICATION Spec
CONSTANTS
    Documents <- MCDocuments
    About <- MCAbout
    Readable = {"derived"}
    MaxPolicies = 1
    Owner = "owner"
    PublicAgent = "public"
    NoAgent = "nobody"
    r1 = r1
    r2 = r2
    Requests = {r1, r2}
    Asks <- MCAsks
    Order <- MCOrder
    SameType = {"derived"}
    MaxPolicySources = 2
    MaxRetries = 1
    MaxFetchRetries = 1
    Timeout = 2
    Expiry = 2
    MaxTime = 6
    None = None
INVARIANTS AgeBounded MissingNeverGrants
CHECK_DEADLOCK FALSE
SYMMETRY Symmetry
