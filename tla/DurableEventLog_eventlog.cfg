SPECIFICATION Spec
CONSTANTS
    Events = {e1, e2}
    Matching = {e1, e2}
    MaxEventsPerFile = 2
    MaxTotalSize = 3
    Radix = 2
    MaxFiles = 3
    Starts = {3}
    Cursors <- ResumePoints
    Garbled = Garbled
    None = None
INVARIANTS SequenceUnique WrittenIsFound NoGap
PROPERTIES SentInTheEnd
CHECK_DEADLOCK FALSE
