------------------------- MODULE MCExtensionBus -------------------------
(***************************************************************************)
(* Instance of ExtensionBus for TLC: the data register, which both loops   *)
(* sample, and the identifier, which the HID loop and the hosts read.      *)
(***************************************************************************)
EXTENDS ExtensionBus

MCRegs == {"00", "FA"}

=============================================================================
