SPECIFICATION Spec
CONSTANTS
    Frames <- MCFrames
    Patterns <- MCPatterns
    FillFloor = 15
    Histograms <- MCHistograms
    Adjustment = 0
INVARIANTS
    KeptTargetIsReachable
    NoneDroppedInVain
    SuitedBoardIsThresholded
    CutsMidway
