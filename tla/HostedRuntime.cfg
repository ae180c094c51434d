\* Two calls, two names, one session, one fault.
SPECIFICATION Spec
CONSTANTS
    Call = {c1, c2}
    Name = {n1, n2}
    Session = {s1}
    PlanLimit = 2
    PlatformLimit = 3
    MaxFaults = 1
    None = None
SYMMETRY HostedSymmetry
CHECK_DEADLOCK FALSE
INVARIANTS
    ContainersAccountedFor
    OneHostedUnlessOverlapping
    SessionsReleased
