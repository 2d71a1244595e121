------------------------- MODULE MCNotificationOutbox -------------------------
EXTENDS NotificationOutbox, TLC

CONSTANTS e1, e2, p1, p2

OneEvent == {e1}
TwoEvents == {e1, e2}
OnePoller == {p1}
TwoPollers == {p1, p2}
Symmetry == Permutations(Events) \cup Permutations(Pollers)

===============================================================================
