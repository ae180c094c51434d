\* Two runtimes contend for one credential over two connections to two
\* processes, one of which may die; three tokens let RESUMEs race.
SPECIFICATION Spec
CONSTANTS
    Runtime = {r1, r2}
    Key = {k1}
    HostedKey = {}
    Stream = {s1, s2}
    Instance = {i1, i2}
    Crashable = {i1}
    AllowBare = FALSE
    MaxToken = 3
    MaxAge = 0
    None = None
SYMMETRY RuntimeSymmetry
INVARIANTS
    RegistryConsistent
    ServingIsRegistered
    OneRuntimePerCredential
    RevokedRowsStayEnded
    ResumeTokenSingleUse
PROPERTIES
    TerminalIsFinal
