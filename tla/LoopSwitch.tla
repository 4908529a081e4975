----------------------------- MODULE LoopSwitch -----------------------------
(***************************************************************************)
(* What bt_hid_task_start_up and bt_hid_task_shut_down promise the rest of *)
(* the program: after boot exactly one main loop exists except while one   *)
(* is being replaced, the HID loop only ever takes over from the other     *)
(* loop, and a replacement once begun is finished.                         *)
(***************************************************************************)
VARIABLE phase

Phases == {"boot", "other", "to_hid", "hid", "to_other"}

Init == phase = "boot"

Begin   == phase = "boot" /\ phase' = "other"
Opening == phase = "other" /\ phase' = "to_hid"
Opened  == phase = "to_hid" /\ phase' = "hid"
Closing == phase \in {"hid", "other"} /\ phase' = "to_other"
Closed  == phase = "to_other" /\ phase' = "other"

Next == Begin \/ Opening \/ Opened \/ Closing \/ Closed
Spec == Init /\ [][Next]_phase /\ WF_phase(Opened) /\ WF_phase(Closed)
============================================================================
