SPECIFICATION Spec
CONSTANTS
    Jpeg <- TwoJpegs
    Png <- TwoPngs
    Strays <- ThreeStrays
    MaxImages = 3
    MaxCamera = 1
    MaxStrays = 1
    MaxReplaced = 1
INVARIANTS
    Unpacked
    CameraFresh
CHECK_DEADLOCK FALSE
