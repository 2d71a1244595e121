--------------------------- MODULE MCPauseControl ---------------------------
EXTENDS PauseControl, TLC

CONSTANTS t1, t2, d1, d2

OneThread == {t1}
TwoThreads == {t1, t2}
OneDir == {d1}
TwoDirs == {d1, d2}
Symmetry == Permutations(Threads) \cup Permutations(Dirs)

=============================================================================
