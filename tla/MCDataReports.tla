--------------------------- MODULE MCDataReports ---------------------------
EXTENDS DataReports
============================================================================
