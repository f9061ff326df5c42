--------------------------- MODULE MCCandleSeries ---------------------------
EXTENDS CandleSeries
CONSTANTS btc, thin
=============================================================================
