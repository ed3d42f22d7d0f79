--------------------------- MODULE MCVersionIndex ---------------------------
(* Version strings for TLC, with 20 as the largest number that fits. *)
EXTENDS VersionIndex

N(n) == IF n < 10 THEN <<n>> ELSE <<n \div 10, n % 10>>
a == 10
b == 11

V(core, pre, build) == [core |-> core, pre |-> pre, build |-> build]
One == <<N(1), N(0), N(0)>>

(* 1.0.0 and the shapes its pre-release and build parts may take, with a   *)
(* number that has two digits, a hyphen, and identifiers that start alike. *)
Ordered ==
    {V(One, pre, <<>>) : pre \in {<<>>, <<N(2)>>, <<N(10)>>, <<<<a>>>>, <<<<a>>, N(2)>>,
                                  <<<<a>>, N(10)>>, <<<<a>>, <<b>>>>, <<<<a, Hyphen>>>>,
                                  <<<<Hyphen>>>>}}
    \cup {V(One, <<>>, <<N(0)>>), V(One, <<>>, <<<<0, 0>>>>), V(One, <<<<a>>>>, <<<<b>>>>)}
    \cup {V(<<N(0), N(2), N(0)>>, <<>>, <<>>), V(<<N(0), N(10), N(0)>>, <<>>, <<>>),
          V(<<N(20), N(0), N(0)>>, <<>>, <<>>)}

(* Strings that are refused: padded, empty, foreign characters, too short, *)
(* too large.                                                              *)
Unsound ==
    {V(One, <<<<0, 1>>>>, <<>>), V(<<<<0, 1>>, N(0), N(0)>>, <<>>, <<>>),
     V(One, <<<<>>>>, <<>>), V(One, <<>>, <<<<>>>>), V(One, <<<<-2>>>>, <<>>),
     V(<<N(1), N(0)>>, <<>>, <<>>), V(<<N(21), N(0), N(0)>>, <<>>, <<>>)}

(* Pre-release numbers beyond the largest one that fits.                   *)
Large == {V(One, <<N(30)>>, <<>>), V(One, <<<<1, 0, 0>>>>, <<>>)}

All == Ordered \cup Unsound \cup Large
=============================================================================
