\* One HELLO of any content with credentials of two users; or HELLOs that are
\* right, shown again and late, to two processes with small caches.
SPECIFICATION Spec
CONSTANTS
    Instance = {i1, i2}
    Handler = {g1, g2}
    Hello = {h1, h2}
    Skew = 1
    TTL = 3
    MaxSize = 1
    MaxTime = 4
    MaxStored = 2
    User = {u1, u2}
    Name = {1}
    MaxKey = 2
    AllowBare = TRUE
    Address = {TRUE, FALSE}
    None = None
SYMMETRY AdmissionSymmetry
CHECK_DEADLOCK FALSE
INVARIANTS
    AdmittedAsIssued
    HelloPassesOnce
