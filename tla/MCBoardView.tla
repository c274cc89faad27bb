---------------------------- MODULE MCBoardView ----------------------------
\* Three frame shapes, the default board, ModalAI's 5x6 and one too slender for
\* some targets, and tiles of two grey levels.
EXTENDS BoardView

MCFrames == {[w |-> 160, h |-> 120], [w |-> 320, h |-> 200], [w |-> 410, h |-> 308]}
MCPatterns == {[a |-> 8, b |-> 5], [a |-> 4, b |-> 5], [a |-> 2, b |-> 9]}

\* The default board of 9x6 inner corners, and an IMX219 sensor's shape.
DefaultPattern == {[a |-> 8, b |-> 5]}
BinnedFrame == {[w |-> 820, h |-> 616]}

MCHistograms ==
    {h \in [black : {0, 120, 249}, white : {4, 200, 255},
            blacks : {0, 1, 20}, whites : {0, 1, 20}] :
        h.black < h.white /\ h.blacks + h.whites > 0}
=============================================================================
