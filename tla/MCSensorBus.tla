---------------------------- MODULE MCSensorBus ----------------------------
(***************************************************************************)
(* Instance of SensorBus for TLC: the mode register, off after a reset or  *)
(* in one of the formats the reports know; the full scale of a reset, the  *)
(* one app_main wants, and a code of the field that stands for none.       *)
(***************************************************************************)
EXTENDS SensorBus

MCWanted == [s \in Sensors |-> "wanted"]

============================================================================
