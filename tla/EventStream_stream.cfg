SPECIFICATION Spec
CONSTANTS
    Events = {"e1", "e2"}
    Subscribers = {"s1", "s2"}
    Shows <- Filters
    Wants <- Visible
    Reading = {"s1"}
    MaxStreamBufferSize = 1
    RecentEvents = 1
    MaxStreamSubscribers = 2
    BufferSize = 1
    MaxWaiting = 1
INVARIANTS NoThirdCopy
PROPERTIES DeliveredInTheEnd
CHECK_DEADLOCK FALSE
