-------------------------- MODULE MCModuleRegistry --------------------------
(* Small instances of ModuleRegistry for TLC. *)
EXTENDS ModuleRegistry, TLC

CONSTANTS c1, c2, c3, s1

TwoContents   == {c1, c2}
ThreeContents == {c1, c2, c3}
OneSession    == {s1}

Symmetry == Permutations(Contents)
=============================================================================
