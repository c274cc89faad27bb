SPECIFICATION Spec
CONSTANTS
    Sizes = {4, 6, 8}
    CalibWidth = 8
    Undistort = TRUE
    Fisheye = TRUE
    Markers = {{}, {"id", "reproj"}, {"pnp"}, {"range", "reproj"}, {"reproj"}}
    MaxPerFrame = 2
    MaxDecoded = 3
    MaxResizes = 3
INVARIANTS
    SolvesAtFrameSize
    CandidatesAccounted
    FirstSizeIsRight
