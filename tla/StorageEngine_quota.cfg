SPECIFICATION Spec
CONSTANTS
    Clients = {c1}
    URIs = {r1, r2}
    Policies = {}
    Bodies = {"long"}
    Fragments = {"cut"}
    SizeOf <- BodySizes
    Overhead = 0
    Limits = {3}
    Backends = {"filesystem", "memory"}
    Conditions <- Blind
    None = None
    Broken = Broken
CONSTRAINT QuotaBound
SYMMETRY ResourceSymmetry
VIEW Counted
INVARIANTS QuotaCovers
