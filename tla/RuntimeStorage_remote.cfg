CONSTANTS
    c1 = c1  c2 = c2  mem = mem  css = css  x = x  y = y
    Absent = Absent  NoTag = NoTag  Star = Star  None = None
    Callers = {c1, c2}
    Memory = {mem}
    Remote = {css}
    Bodies = {x, y}
    Operations <- Writes
    MaxRetries = 1
    LateBound = 1
SPECIFICATION Spec

INVARIANT ReportsAreTrue
PROPERTIES ConditionalReplacesNamed CreateNeverReplaces CallsReturn
