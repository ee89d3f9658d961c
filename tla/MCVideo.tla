------------------------------ MODULE MCVideo ------------------------------
(* Two tiles, their flags in one word, and two depths: a byte to a span at 1  *)
(* bit, two at 2 bits: a store lands on other tiles after a switch.          *)
EXTENDS Video, TLC
CONSTANTS one, two, black, grey
MCSpanBytes == [m \in Mode |-> IF m = one THEN 1 ELSE 2]
MCDefaultPalette == [m \in Mode |-> IF m = one THEN black ELSE grey]
=============================================================================
