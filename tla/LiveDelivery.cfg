\* One process delivers two messages to two sessions, with one failure.
SPECIFICATION Safety
CONSTANTS
    Instance = {i1}
    Sub = {s1, s2}
    MaxMessage = 2
    MaxFaults = 1
    Capacity = 2
    TTL = 1
    None = None
SYMMETRY SessionSymmetry
CHECK_DEADLOCK FALSE
INVARIANTS
    StreamInOrder
    FlightHoldsSlots
