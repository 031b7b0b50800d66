--------------------------- MODULE MCStreamerRates ---------------------------
EXTENDS StreamerRates, TLC
CONSTANTS s1, s2, s3, ra, rb, ta, tb
MCStreamers == {s1, s2, s3}
MCRates == {ra, rb}
MCTicks == {ta, tb}
MCSymmetry == Permutations(MCStreamers)
=============================================================================
