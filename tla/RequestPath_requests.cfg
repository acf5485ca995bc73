SPECIFICATION RunSpec
CONSTANTS
    g1 = g1  g2 = g2  k1 = k1  k2 = k2  k3 = k3  h1 = h1  h2 = h2  None = None
    Handlers = {g1, g2}
    Keys = {k1, k2, k3}
    MaxEntries = 2
    ReplayWindow = 2  MaxClockSkew = 1  Grace = 1
    RequireDPoPForDPoPAuthorization = TRUE
    TimeBound = 3
    Requests = {h1, h2}
    BaseDelay = 1
    MaxDelay = 5
SYMMETRY Symmetry
INVARIANTS CacheBounded AcceptedIsRemembered BackoffFollowsFailures
PROPERTIES ReuseOnlyPastWindow FailureNeverShortensBackoff RequestsAreServed
    EvaluatorRecovers
