----------------------------- MODULE MCStorage -----------------------------
(* Finite instances of Storage for TLC. *)
EXTENDS Storage, TLC
CONSTANTS p1, p2, a, b, s1, s2
TwoProcs == {p1, p2}
OneProc == {p1}
TwoNames == {a, b}
OneLegacy == {a}
NoLegacy == {}
TwoSubnets == {s1, s2}
PullAndImport == {"pull", "snapimport"}
Symmetric == Permutations(TwoSubnets) \cup Permutations(TwoProcs)
=============================================================================
