SPECIFICATION Spec
CONSTANTS
    Clients = {c1, c2}
    URIs = {acl}
    Policies = {acl}
    Bodies = {"short", "long"}
    Fragments = {"cut"}
    SizeOf <- BodySizes
    Overhead = 1
    Limits = {0}
    Backends = {"filesystem"}
    Conditions <- Preconditions
    None = None
    Broken = Broken
CONSTRAINT Bound
SYMMETRY ClientSymmetry
VIEW Uncounted
INVARIANTS PolicyCacheFresh
PROPERTIES ConditionalWriteReplacesNamed
