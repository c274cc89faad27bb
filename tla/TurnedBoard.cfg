SPECIFICATION Spec
CONSTANTS
    Frames <- BinnedFrame
    Patterns <- DefaultPattern
    FillFloor = 15
    Histograms <- MCHistograms
    Adjustment = 0
INVARIANTS
    BoardIsThresholded
