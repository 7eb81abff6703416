------------------------- MODULE MCRotationBrowser -------------------------
(* TLC instances of RotationBrowser: tabs and passphrases are exchangeable. *)
EXTENDS RotationBrowser, TLC

CONSTANTS t1, t2, x1, x2

\* One tab goes further, two tabs work across each other.
OneTab == [tabs |-> {t1}, rotations |-> {x1, x2}, versions |-> 2, inFlight |-> 6]
TwoTabs == [tabs |-> {t1, t2}, rotations |-> {x1}, versions |-> 1, inFlight |-> 2]
BrowserCases == {OneTab, TwoTabs}
OneTabOnly == {[OneTab EXCEPT !.inFlight = 3]}

Symmetry == Permutations(Tabs) \cup Permutations(Keys)
=============================================================================
