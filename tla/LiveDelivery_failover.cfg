\* Two processes compete for one subscription, with one failure: the lease has
\* one user, and the lease and the consumer recover.
SPECIFICATION Spec
CONSTANTS
    Instance = {i1, i2}
    Sub = {s1}
    MaxMessage = 1
    MaxFaults = 1
    Capacity = 1
    TTL = 1
    None = None
CHECK_DEADLOCK FALSE
INVARIANTS
    OneValidSender
PROPERTIES
    LeaseFailsOver
    ConsumerComesBack
