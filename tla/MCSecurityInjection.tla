------------------------- MODULE MCSecurityInjection -------------------------
EXTENDS SecurityInjection, TLC

CONSTANTS h1, h2, s1, s2, w1, w2, w3

OneHook == {h1}
TwoHooks == {h1, h2}
OneSession == {s1}
TwoSessions == {s1, s2}
OneTimer == {w1}
TwoTimers == {w1, w2}
ThreeTimers == {w1, w2, w3}
Symmetry == Permutations(Hooks) \cup Permutations(Sessions) \cup Permutations(Timers)

=============================================================================
