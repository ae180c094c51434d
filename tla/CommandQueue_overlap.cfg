\* Two overlapping dispatches contend for three commands.
SPECIFICATION Spec
CONSTANTS
    Command = {1, 2, 3}
    Key = {k1}
    Instance = {i1}
    Dispatcher = {d1, d2}
    Limit = 1
    MaxFrames = 1
    None = None
SYMMETRY CallSymmetry
INVARIANTS
    OverlapBounded
PROPERTIES
    LifeSpec
    OnlyLateFramesCloseStream
