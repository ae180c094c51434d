\* Two processes visit two sessions with two order events each.
SPECIFICATION OrdersSpec
CONSTANTS
    Visitor = {i1, i2}
    Session = {1, 2}
    MaxEvent = 2
    Limit = 1
    MaxFailures = 2
    Nowhere = Nowhere
CHECK_DEADLOCK FALSE
INVARIANTS
    NoEventSkipped
    SentOnce
PROPERTIES
    EventsArrive
