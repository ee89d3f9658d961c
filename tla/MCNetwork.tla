----------------------------- MODULE MCNetwork -----------------------------
(* One buffer, one slot, one connection of two bytes.                         *)
EXTENDS Network, TLC
MCSegments == {{"SYN"}, {"ACK"}, {"ACK", "DATA"}, {"ACK", "FIN"}, {"FIN"}, {"RST"}}
=============================================================================
