SPECIFICATION RunSpec
CONSTANTS
    p1 = p1  v1 = v1  a = a  b = b  c1 = c1  c2 = c2
    alice = alice  nobody = nobody  notes = notes
    None = None  NoVersion = NoVersion
    Versions = {NoVersion, v1}
    Paths = {p1}
    Chans = {a, b}
    Capacity = 1
    Triggers <- OneTrigger
    Callers = {c1, c2}
    Agents = {alice, nobody}
    Anonymous = nobody
    Resources = {notes}
    Outcome <- AliceOutcome
    TTL = 3  MaxTTL = 2  MaxSize = 1
    EnableNegativeCache = TRUE  NegativeCacheTTL = 1
    TimeBound = 3
SYMMETRY Symmetry
INVARIANTS TypeOK WithinLimits AgreesWithEvaluator OneMonitor SubscribersInSync
PROPERTIES ImplementsAuthorizer ChangeNoticed
CHECK_DEADLOCK FALSE
