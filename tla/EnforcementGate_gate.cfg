CONSTANTS
    c1 = c1  c2 = c2  get = get  put = put  good = good  wrong = wrong
    NoRequest = NoRequest
    Callers = {c1}
    Requests = {get, put}
    MethodAllowlisted = {get}
    ResourceAllowlisted = {get, put}
    StorageAllowlisted = {get, put}
    CanaryMatched = {put}
    Tokens = {good, wrong}
    EmergencyBypassToken = good
    Configs <- AllConfigs
    CountBound <- SomeCounts
    CanaryBound <- TwoHundreds
SPECIFICATION FairSpec
INVARIANTS TypeOK ThresholdEvidence StartupGuardrail AutoDisableHasCause
    CanaryShare
PROPERTIES EnabledOnEvidence ClosedGateOnlyRelaxes ExpiryReverts
