---------------------------- MODULE MCChannelMap ----------------------------
EXTENDS ChannelMap

\* Daughterboard A's frontend is wired IQ, B's QI (I/Q swapped), so both
\* values of every swap flag occur.
MCFeConn == [d \in DbNames |-> IF d = "A" THEN "IQ" ELSE "QI"]
=============================================================================
