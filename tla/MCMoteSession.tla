--------------------------- MODULE MCMoteSession ---------------------------
EXTENDS MoteSession
============================================================================
