CONSTANTS
    p1 = p1  v1 = v1  v2 = v2  d1 = d1  d2 = d2  a = a  c1 = c1  alice = alice  nobody = nobody
    card = card  None = None  NoVersion = NoVersion
    Paths = {p1}
    Versions = {NoVersion, v1, v2, d1, d2}
    RequestVersion <- DocumentsHash
    Chans = {a}
    Capacity = 1
    Triggers = {}
    Callers = {c1}
    Agents = {alice}
    Anonymous = nobody
    Resources = {card}
    Outcome <- AllAllowed
    TTL = 1  MaxTTL = 1  MaxSize = 1
    EnableNegativeCache = FALSE  NegativeCacheTTL = 0
    TimeBound = 0
SPECIFICATION Spec
PROPERTY UpdateForgotten
