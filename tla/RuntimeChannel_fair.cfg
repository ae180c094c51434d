\* Handlers and reapers are fair, and one of two processes may die; the
\* credential is of a hosted runtime, and a runtime may come without one.
SPECIFICATION FairSpec
CONSTANTS
    Runtime = {r1}
    Key = {k1}
    HostedKey = {k1}
    Stream = {s1}
    Instance = {i1, i2}
    Crashable = {i1}
    AllowBare = TRUE
    MaxToken = 1
    MaxAge = 2
    None = None
PROPERTIES
    EndedStreamDrains
    SilentRuntimeReaped
