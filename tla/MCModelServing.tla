--------------------------- MODULE MCModelServing ---------------------------
EXTENDS ModelServing
=============================================================================
