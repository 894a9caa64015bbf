--------------------------- MODULE MCBiteDetector ---------------------------
EXTENDS BiteDetector
=============================================================================
