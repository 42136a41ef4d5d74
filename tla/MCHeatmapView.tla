--------------------------- MODULE MCHeatmapView ---------------------------
EXTENDS HeatmapView

CONSTANTS b1, b2

MCBands  == {b1, b2}
MCBins   == [b \in MCBands |-> 1]
MCStarts == {0, 6}
MCFar    == {0}
\* A look back, and one past the clock: the second is in what the first loads.
MCSpans  == {[lo |-> 2, hi |-> 10], [lo |-> 6, hi |-> 14]}
MCRange  == {[lo |-> 0, hi |-> 8]}
=============================================================================
