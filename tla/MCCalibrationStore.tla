------------------------- MODULE MCCalibrationStore -------------------------
EXTENDS CalibrationStore
=============================================================================
