------------------------- MODULE MCMemoryReports --------------------------
(***************************************************************************)
(* The limits of MemoryReports scaled down: an EEPROM of 6 bytes, chunks   *)
(* of 2 and a uint8_t of 5 values. Offsets and sizes reach one past every  *)
(* limit.                                                                  *)
(***************************************************************************)
EXTENDS MemoryReports

MCOffsets == 0..6
MCSizes == 0..6
============================================================================
