--------------------------- MODULE MCCandleFraming ---------------------------
EXTENDS CandleFraming
=============================================================================
