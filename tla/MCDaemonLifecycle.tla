------------------------- MODULE MCDaemonLifecycle -------------------------
EXTENDS DaemonLifecycle, TLC

CONSTANTS p1, p2, p3

ThreeProcs == {p1, p2, p3}
OneProc == {p1}
TwoProcs == {p1, p2}
Symmetry == Permutations(Procs)

AllSignalPoints == BindPoints \cup {"writePid", "serving"}

=============================================================================
