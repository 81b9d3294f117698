SPECIFICATION StreamSpec
CONSTANTS
    Shapes <- Hosts
    MinMain = 1
    MinAux = 1
    AllowUnproven = FALSE
    MaxFrameNum = 16
    None = None
    MaxCarry = 2
    MaxPictures = 5
    MaxOthers = 1
    WireCap = 1
CHECK_DEADLOCK FALSE
INVARIANTS NeverSpliced WholeStreams MainViewsIntact
