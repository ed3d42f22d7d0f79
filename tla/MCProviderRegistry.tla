------------------------- MODULE MCProviderRegistry -------------------------
(* Small instances of ProviderRegistry for TLC. *)
EXTENDS ProviderRegistry, FiniteSets, TLC

CONSTANTS v1, p1, p2, c1, c2

OneVersion  == {v1}
OnePlatform  == {p1}
TwoPlatforms == {p1, p2}
OneContent  == {c1}
TwoContents == {c1, c2}

(* The bound of the run with two platforms: a version directory goes on    *)
(* with at most three archives, those of both platforms and the one that   *)
(* replaces another, or that a kill has left behind.                       *)
Bounded == \A v \in Versions : Cardinality(dir[v].zips) <= 3

Symmetry == Permutations(Platforms) \cup Permutations(Contents)
=============================================================================
