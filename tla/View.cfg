SPECIFICATION Spec
CONSTANTS
    Width = 12
    Height = 40
    Depths <- MCDepths
    MjpegLengths <- MCMjpegLengths
    YuyvLength = 2
    Options <- MCOptions
    Terms <- MCTerms
    MaxFrame = 3
    MaxResize = 2
    MaxBuffers = 3
INVARIANTS
    FrameIntact
    NeverStarved
    DumpLayers
    PictureExact
    NoStalePicture
    NearerIsBrighter
PROPERTIES
    EndsWhenUnplugged
CHECK_DEADLOCK FALSE
