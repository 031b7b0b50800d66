------------------------- MODULE MCReceptionMonitor -------------------------
(* Model-checking instance of ReceptionMonitor: one board (two pirates),  *)
(* a fifo of two reports so that three reports overflow it.              *)
EXTENDS ReceptionMonitor

CONSTANT r1
MCTickRates == {r1}
=============================================================================
