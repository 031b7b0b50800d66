---------------------------- MODULE MCFlowControl ----------------------------
(* Model-checking instance of FlowControl: a 3-bit sequence space so that  *)
(* last_seq_out and the update words wrap within a few windows.           *)
EXTENDS FlowControl

CONSTANTS s1, s2

MCSenders1 == {s1}
MCSenders2 == {s1, s2}
=============================================================================
