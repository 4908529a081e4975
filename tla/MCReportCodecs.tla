------------------------- MODULE MCReportCodecs -------------------------
(***************************************************************************)
(* Instance of ReportCodecs for TLC: one sensor moves at a time, over the  *)
(* values around every carry, limit and bit that a byte boundary splits.   *)
(***************************************************************************)
EXTENDS ReportCodecs

MCRest == [pressed |-> {}, mg |-> <<0, 0, 0>>, rate |-> <<0, 0, 0>>,
           nunchuk |-> <<128, 128, 128, 128, 128, 3>>]

Accelerations == {-32768, -4000, -1001, -15, -1, 0, 9, 35, 1000, 1027, 4000}
Rates == {-32768, -7259, -2500, -1, 0, 900, 6285, 6286, 20000, 32264, 32767}
Bytes == {0, 1, 85, 170, 254, 255}
MCUnset == {-1, 21845}

Changed(field, values) == {[MCRest EXCEPT ![field] = v] : v \in values}

Pressed == {S \in SUBSET Buttons : S \cap {"Up", "Left", "Home", "A", "B"} = {}}
           \cup {Buttons \ {b} : b \in Buttons} \cup {{b} : b \in Buttons} \cup {Buttons}

MCSamples ==
    {[MCRest EXCEPT !.pressed = S, !.mg = <<a, a, a>>] : S \in Pressed, a \in {0, 35, 1027}}
    \cup {[MCRest EXCEPT !.mg = m, !.pressed = Buttons] : m \in [1..3 -> Accelerations]}
    \cup Changed("rate", [1..3 -> Rates])
    \cup {[MCRest EXCEPT !.nunchuk = <<0, 255, 7, 129, hi, lo>>] : hi \in Bytes, lo \in Byte}
    \cup {[MCRest EXCEPT !.nunchuk = AllFF]}

=============================================================================
