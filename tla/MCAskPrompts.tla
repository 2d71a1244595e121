---------------------------- MODULE MCAskPrompts ----------------------------
EXTENDS AskPrompts, TLC

CONSTANTS i1, i2, t1, t2

OneInvocation == {i1}
TwoInvocations == {i1, i2}
OneTray == {t1}
TwoTrays == {t1, t2}
Symmetry == Permutations(Invocations) \cup Permutations(Trays)

=============================================================================
