SPECIFICATION Spec
CONSTANTS
    Sizes = {4, 6}
    CalibWidth = 8
    Undistort = FALSE
    Fisheye = FALSE
    Markers = {{}}
    MaxPerFrame = 1
    MaxDecoded = 1
    MaxResizes = 1
INVARIANTS
    IntrinsicsMatchFrame
