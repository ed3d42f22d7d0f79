------------------------- MODULE VersionIndexProofs -------------------------
(***************************************************************************)
(* Proofs about VersionIndex, for any version strings and any largest      *)
(* number: that the comparison is an order, what the stable sort and the   *)
(* removal of a version do, and the properties of the index.               *)
(***************************************************************************)
EXTENDS VersionIndex, FiniteSetTheorems, WellFoundedInduction, TLAPS

(* A set of natural numbers has a least element.                           *)
LEMMA LeastNumber ==
    ASSUME NEW T \in SUBSET Nat, T # {}
    PROVE  \E m \in T : \A k \in T : m <= k
<1>1. IsWellFoundedOn({ss \in Nat \X Nat : ss[1] < ss[2]}, Nat)
    BY NatLessThanWellFounded DEF OpToRel
<1>2. PICK R : R = {ss \in Nat \X Nat : ss[1] < ss[2]}
    OBVIOUS
<1>3. IsWellFoundedOn(R, Nat)
    BY <1>1, <1>2
<1>4. PICK m \in T : \A k \in T : ~(<<k, m>> \in R)
    BY <1>3, WFMin
<1>5. \A k \in T : ~(k < m)
  <2>1. ASSUME NEW k \in T, k < m PROVE FALSE
    <3>1. <<k, m>> \in R
        BY <1>2, <2>1
    <3> QED
        BY <1>4, <3>1
  <2> QED
      BY <2>1
<1> QED
    BY <1>4, <1>5

-----------------------------------------------------------------------------
(* Comparing element by element *)

Signs == {-1, 0, 1}

(* What comparing the first c elements yields.                             *)
Comparison(d, c) == c \in Nat /\ d \in [1..c -> Signs]

(* Position i is the first one at which d finds a difference.              *)
DiffersFirstAt(d, i) == d[i] # 0 /\ \A k \in 1..(i - 1) : d[k] = 0

(* Comparisons of a with b, of b with c and of a with c that fit together. *)
Composes(x, y, z) == x <= 0 /\ y <= 0 => z <= 0 /\ (z = 0 <=> x = 0 /\ y = 0)

(* The first elements that differ decide, then the length.                 *)
LEMMA FirstDifferenceIs ==
    ASSUME NEW c, NEW d, Comparison(d, c), NEW m \in Nat, NEW n \in Nat
    PROVE  \/ (\A i \in 1..c : d[i] = 0) /\ FirstDifference(d, m, n) = Sign(m - n)
           \/ \E i \in 1..c : DiffersFirstAt(d, i) /\ FirstDifference(d, m, n) = d[i]
<1> c \in Nat /\ d \in [1..c -> Signs]
    BY DEF Comparison
<1>1. CASE \A i \in 1..c : d[i] = 0
    BY <1>1 DEF FirstDifference
<1>2. CASE \E i \in 1..c : d[i] # 0
  <2>1. PICK T : T = {i \in 1..c : d[i] # 0}
      OBVIOUS
  <2>2. PICK i \in T : \A k \in T : i <= k
    <3>1. T \in SUBSET Nat /\ T # {}
        BY <1>2, <2>1
    <3> QED
        BY <3>1, LeastNumber
  <2>3. i \in DOMAIN d /\ d[i] # 0 /\ \A k \in 1..(i - 1) : d[k] = 0
      BY <2>1, <2>2
  <2>4. PICK j : j = CHOOSE q \in DOMAIN d : d[q] # 0 /\ \A k \in 1..(q - 1) : d[k] = 0
      OBVIOUS
  <2>5. j \in 1..c /\ d[j] # 0 /\ \A k \in 1..(j - 1) : d[k] = 0
      BY <2>3, <2>4
  <2>6. FirstDifference(d, m, n) = d[j]
      BY <1>2, <2>4 DEF FirstDifference
  <2> QED
      BY <2>5, <2>6 DEF DiffersFirstAt
<1> QED
    BY <1>1, <1>2

(* So a position up to which all is equal and which differs decides.       *)
LEMMA DecidedAt ==
    ASSUME NEW c, NEW d, Comparison(d, c), NEW m \in Nat, NEW n \in Nat,
           NEW i \in 1..c, DiffersFirstAt(d, i)
    PROVE  FirstDifference(d, m, n) = d[i]
<1>3. \/ (\A j \in 1..c : d[j] = 0) /\ FirstDifference(d, m, n) = Sign(m - n)
      \/ \E j \in 1..c : DiffersFirstAt(d, j) /\ FirstDifference(d, m, n) = d[j]
    BY FirstDifferenceIs
<1> c \in Nat /\ d \in [1..c -> Signs]
    BY DEF Comparison
<1>1. CASE (\A j \in 1..c : d[j] = 0) /\ FirstDifference(d, m, n) = Sign(m - n)
    BY <1>1 DEF DiffersFirstAt
<1>2. CASE \E j \in 1..c : DiffersFirstAt(d, j) /\ FirstDifference(d, m, n) = d[j]
  <2>1. PICK j \in 1..c : /\ d[j] # 0 /\ \A k \in 1..(j - 1) : d[k] = 0
                          /\ FirstDifference(d, m, n) = d[j]
      BY <1>2 DEF DiffersFirstAt
  <2>2. j = i
      BY <2>1 DEF DiffersFirstAt
  <2> QED
      BY <2>1, <2>2
<1> QED
    BY <1>1, <1>2, <1>3

(* Nor does anything but the length if all is equal.                       *)
LEMMA DecidedByLength ==
    ASSUME NEW c, NEW d, Comparison(d, c), NEW m \in Nat, NEW n \in Nat,
           \A i \in 1..c : d[i] = 0
    PROVE  FirstDifference(d, m, n) = Sign(m - n)
BY FirstDifferenceIs DEF DiffersFirstAt

(* The result is one of three.                                             *)
LEMMA DifferenceType ==
    ASSUME NEW c, NEW d, Comparison(d, c), NEW m \in Nat, NEW n \in Nat
    PROVE  FirstDifference(d, m, n) \in Signs
<1>1. CASE (\A i \in 1..c : d[i] = 0) /\ FirstDifference(d, m, n) = Sign(m - n)
    BY <1>1 DEF Sign, Signs
<1>2. CASE \E i \in 1..c : DiffersFirstAt(d, i) /\ FirstDifference(d, m, n) = d[i]
    BY <1>2 DEF Comparison
<1> QED
    BY <1>1, <1>2, FirstDifferenceIs

(* Comparing the other way round gives the opposite.                       *)
LEMMA DifferenceOpposite ==
    ASSUME NEW c, NEW d, NEW e, Comparison(d, c), Comparison(e, c),
           NEW m \in Nat, NEW n \in Nat, \A i \in 1..c : e[i] = -d[i]
    PROVE  FirstDifference(e, n, m) = -FirstDifference(d, m, n)
<1>3. \/ (\A i \in 1..c : d[i] = 0) /\ FirstDifference(d, m, n) = Sign(m - n)
      \/ \E i \in 1..c : DiffersFirstAt(d, i) /\ FirstDifference(d, m, n) = d[i]
    BY FirstDifferenceIs
<1> c \in Nat /\ d \in [1..c -> Signs] /\ e \in [1..c -> Signs]
    BY DEF Comparison
<1>1. CASE \A i \in 1..c : d[i] = 0
  <2>1. FirstDifference(d, m, n) = Sign(m - n)
      BY <1>1, DecidedByLength
  <2>2. FirstDifference(e, n, m) = Sign(n - m)
    <3>1. \A i \in 1..c : e[i] = 0
        BY <1>1
    <3> QED
        BY <3>1, DecidedByLength
  <2> QED
      BY <2>1, <2>2 DEF Sign
<1>2. CASE ~(\A i \in 1..c : d[i] = 0)
  <2>1. PICK i \in 1..c : DiffersFirstAt(d, i) /\ FirstDifference(d, m, n) = d[i]
      BY <1>2, <1>3
  <2>2. DiffersFirstAt(e, i)
      BY <2>1 DEF Signs, DiffersFirstAt
  <2>3. FirstDifference(e, n, m) = e[i]
      BY <2>2, DecidedAt
  <2> QED
      BY <2>1, <2>3
<1> QED
    BY <1>1, <1>2

(* Comparisons that fit together element by element fit together.          *)
LEMMA DifferenceComposes ==
    ASSUME NEW l \in Nat, NEW m \in Nat, NEW n \in Nat,
           NEW lm, lm = IF l < m THEN l ELSE m, NEW d, Comparison(d, lm),
           NEW mn, mn = IF m < n THEN m ELSE n, NEW e, Comparison(e, mn),
           NEW ln, ln = IF l < n THEN l ELSE n, NEW f, Comparison(f, ln),
           \A i \in Nat : 1 <= i /\ i <= l /\ i <= m /\ i <= n => Composes(d[i], e[i], f[i])
    PROVE  Composes(FirstDifference(d, l, m), FirstDifference(e, m, n), FirstDifference(f, l, n))
<1> DEFINE D == FirstDifference(d, l, m)
           E == FirstDifference(e, m, n)
           F == FirstDifference(f, l, n)
<1>8. \/ (\A i \in 1..lm : d[i] = 0) /\ D = Sign(l - m)
      \/ \E i \in 1..lm : DiffersFirstAt(d, i) /\ D = d[i]
    BY ONLY FirstDifferenceIs, Comparison(d, lm), l \in Nat, m \in Nat
<1>2. \/ (\A i \in 1..mn : e[i] = 0) /\ E = Sign(m - n)
      \/ \E i \in 1..mn : DiffersFirstAt(e, i) /\ E = e[i]
    BY FirstDifferenceIs
<1> /\ lm \in Nat /\ d \in [1..lm -> Signs]
    /\ mn \in Nat /\ e \in [1..mn -> Signs]
    /\ ln \in Nat /\ f \in [1..ln -> Signs]
    BY DEF Comparison
<1>1. SUFFICES ASSUME D <= 0, E <= 0
               PROVE  F <= 0 /\ (F = 0 <=> D = 0 /\ E = 0)
    BY DEF Composes
<1>3. \A i \in 1..ln : f[i] # 0 /\ (\A k \in 1..(i - 1) : f[k] = 0) => F = f[i]
  <2>1. \A i \in 1..ln : DiffersFirstAt(f, i) => F = f[i]
      BY DecidedAt
  <2> QED
      BY <2>1 DEF DiffersFirstAt
<1>4. (\A i \in 1..ln : f[i] = 0) => F = Sign(l - n)
    BY DecidedByLength
<1> HIDE DEF D, E, F
<1>5. \A i \in 1..ln : i <= m => Composes(d[i], e[i], f[i])
    OBVIOUS
<1>6. CASE (\A i \in 1..lm : d[i] = 0) /\ D = Sign(l - m)
  <2>1. l <= m
      BY <1>1, <1>6 DEF Sign
  <2>2. CASE (\A i \in 1..mn : e[i] = 0) /\ E = Sign(m - n)
    <3>1. m <= n
        BY <1>1, <2>2 DEF Sign
    <3>2. \A i \in 1..ln : f[i] = 0
        BY <1>5, <1>6, <2>1, <2>2, <3>1 DEF Composes
    <3> QED
        BY <1>4, <1>6, <2>1, <2>2, <3>1, <3>2 DEF Sign
  <2>3. CASE \E i \in 1..mn : DiffersFirstAt(e, i) /\ E = e[i]
    <3>1. PICK i \in 1..mn : e[i] # 0 /\ (\A k \in 1..(i - 1) : e[k] = 0) /\ E = e[i]
        BY <2>3 DEF DiffersFirstAt
    <3>2. E < 0
        BY <1>1, <3>1 DEF Signs
    <3>3. \A k \in 1..(i - 1) : k <= l => f[k] = 0
      <4>1. ASSUME NEW k \in 1..(i - 1), k <= l PROVE f[k] = 0
        <5>1. k \in 1..ln /\ k <= m /\ k \in 1..lm /\ e[k] = 0
            BY <3>1, <4>1
        <5> QED
            BY <1>5, <1>6, <5>1 DEF Composes
      <4> QED
          BY <4>1
    <3>4. CASE i <= l
      <4>1. i \in 1..ln /\ i \in 1..lm
          BY <2>1, <3>4
      <4>2. f[i] < 0
          BY <1>5, <1>6, <3>1, <3>2, <4>1, <2>1 DEF Composes, Signs
      <4>3. F = f[i]
          BY <1>3, <3>3, <3>4, <4>1, <4>2
      <4>4. f[i] \in Signs /\ E \in Signs
          BY <3>1, <4>1
      <4> QED
          BY <3>2, <4>2, <4>3, <4>4 DEF Signs
    <3>5. CASE ~(i <= l)
      <4>1. ln = l /\ l < n
          BY <3>5
      <4>2. \A k \in 1..ln : f[k] = 0
          BY <3>3, <3>5, <4>1
      <4>3. F = Sign(l - n)
          BY <1>4, <4>2
      <4> QED
          BY <3>2, <4>1, <4>3 DEF Sign
    <3> QED
        BY <3>4, <3>5
  <2> QED
      BY <1>2, <2>2, <2>3
<1>7. CASE \E i \in 1..lm : DiffersFirstAt(d, i) /\ D = d[i]
  <2>1. PICK i \in 1..lm : d[i] # 0 /\ (\A k \in 1..(i - 1) : d[k] = 0) /\ D = d[i]
      BY <1>7 DEF DiffersFirstAt
  <2>2. D < 0
      BY <1>1, <2>1 DEF Signs
  <2>3. SUFFICES \E k \in 1..ln : f[k] < 0 /\ \A j \in 1..(k - 1) : f[j] = 0
    <3>1. ASSUME NEW k \in 1..ln, f[k] < 0, \A j \in 1..(k - 1) : f[j] = 0 PROVE F = f[k]
        BY <1>3, <3>1
    <3>2. PICK k \in 1..ln : f[k] < 0 /\ \A j \in 1..(k - 1) : f[j] = 0
        BY <2>3
    <3>3. F = f[k] /\ F < 0 /\ f[k] \in Signs /\ D \in Signs
        BY <2>1, <3>1, <3>2
    <3> QED
        BY <2>2, <3>3 DEF Signs
  <2>4. CASE i <= mn /\ \A k \in 1..(i - 1) : e[k] = 0
    <3>1. e[i] <= 0
      <4>1. CASE e[i] = 0
          BY <4>1
      <4>2. CASE e[i] # 0
        <5>1. E = e[i]
          <6>1. DiffersFirstAt(e, i) /\ i \in 1..mn
              BY <2>4, <4>2 DEF DiffersFirstAt
          <6> QED
              BY <6>1, DecidedAt DEF E
        <5> QED
            BY <1>1, <5>1
      <4> QED
          BY <4>1, <4>2
    <3>2. i \in 1..ln /\ i <= m
        BY <2>4
    <3>3. f[i] < 0
        BY <1>5, <2>1, <2>2, <3>1, <3>2 DEF Composes, Signs
    <3>4. \A j \in 1..(i - 1) : f[j] = 0
      <4>1. ASSUME NEW j \in 1..(i - 1) PROVE f[j] = 0
        <5>1. j \in 1..ln /\ j <= m /\ d[j] = 0 /\ e[j] = 0
            BY <2>1, <2>4, <3>2
        <5> QED
            BY <1>5, <5>1 DEF Composes
      <4> QED
          BY <4>1
    <3> QED
        BY <3>2, <3>3, <3>4
  <2>5. CASE ~(i <= mn /\ \A k \in 1..(i - 1) : e[k] = 0)
    <3>1. PICK k \in 1..mn : e[k] # 0 /\ (\A j \in 1..(k - 1) : e[j] = 0) /\ E = e[k]
      <4>1. CASE (\A j \in 1..mn : e[j] = 0) /\ E = Sign(m - n)
        <5>1. m <= n
            BY <1>1, <4>1 DEF Sign
        <5>2. i <= mn /\ \A j \in 1..(i - 1) : j \in 1..mn
            BY <5>1
        <5> QED
            BY <2>5, <4>1, <5>2
      <4> QED
          BY <1>2, <4>1 DEF DiffersFirstAt
    <3>2. k < i
      <4>1. ASSUME i <= k PROVE FALSE
        <5>1. i <= mn /\ \A j \in 1..(i - 1) : j \in 1..(k - 1)
            BY <4>1
        <5> QED
            BY <2>5, <3>1, <5>1
      <4> QED
          BY <4>1
    <3>3. k \in 1..ln /\ k <= m /\ d[k] = 0 /\ e[k] < 0
        BY <1>1, <2>1, <3>1, <3>2 DEF Signs
    <3>4. f[k] < 0
        BY <1>5, <3>3 DEF Composes, Signs
    <3>5. \A j \in 1..(k - 1) : f[j] = 0
      <4>1. ASSUME NEW j \in 1..(k - 1) PROVE f[j] = 0
        <5>1. j \in 1..ln /\ j <= m /\ d[j] = 0 /\ e[j] = 0
            BY <2>1, <3>1, <3>2, <3>3
        <5> QED
            BY <1>5, <5>1 DEF Composes
      <4> QED
          BY <4>1
    <3> QED
        BY <3>3, <3>4, <3>5
  <2> QED
      BY <2>4, <2>5
<1> QED
    BY <1>6, <1>7, <1>8

-----------------------------------------------------------------------------
(* The number that digits spell *)

(* Values is the function its recursive definition describes.              *)
LEMMA ValuesDefined ==
    ASSUME NEW id \in Seq(Int)
    PROVE  /\ Values(id) \in [0..Len(id) -> Int]
           /\ Values(id)[0] = 0
           /\ \A n \in 1..Len(id) : Values(id)[n] = 10 * Values(id)[n - 1] + id[n]
<1> DEFINE L == Len(id)
           Spells(g, m) == g \in [0..m -> Int] /\ \A n \in 0..m : g[n] = IF n = 0 THEN 0 ELSE 10 * g[n - 1] + id[n]
           Bad == {m \in 0..L : ~\E g : Spells(g, m)}
<1>1. L \in Nat /\ \A n \in 1..L : id[n] \in Int
    OBVIOUS
<1> HIDE DEF L
<1>2. Bad = {}
  <2>1. SUFFICES ASSUME Bad # {} PROVE FALSE
      OBVIOUS
  <2>2. PICK m \in Bad : \A k \in Bad : m <= k
    <3>1. Bad \in SUBSET Nat
        BY <1>1
    <3> HIDE DEF Bad
    <3> QED
        BY <2>1, <3>1, LeastNumber
  <2>3. CASE m = 0
    <3>1. Spells([n \in 0..0 |-> 0], 0)
        OBVIOUS
    <3> QED
        BY <2>2, <2>3, <3>1
  <2>4. CASE m # 0
    <3>1. m \in 1..L /\ m - 1 \in 0..L /\ m - 1 \notin Bad
      <4>1. m \in 0..L
          OBVIOUS
      <4>2. m - 1 \in Int /\ ~(m <= m - 1)
          BY <1>1, <4>1
      <4> HIDE DEF Bad
      <4> QED
          BY <1>1, <2>2, <2>4, <4>1, <4>2
    <3>2. PICK g : Spells(g, m - 1)
      <4> HIDE DEF Spells
      <4> QED
          BY <3>1
    <3>3. PICK h : h = [n \in 0..m |-> IF n = m THEN 10 * g[m - 1] + id[m] ELSE g[n]]
        OBVIOUS
    <3>4. g[m - 1] \in Int /\ id[m] \in Int
        BY <1>1, <3>1, <3>2
    <3>5. h \in [0..m -> Int]
      <4>1. \A n \in 0..m : n # m => g[n] \in Int
          BY <1>1, <3>1, <3>2
      <4> QED
          BY <3>3, <3>4, <4>1
    <3>6. ASSUME NEW n \in 0..m PROVE h[n] = IF n = 0 THEN 0 ELSE 10 * h[n - 1] + id[n]
      <4>1. CASE n = m
        <5>1. h[n - 1] = g[m - 1] /\ n # 0
            BY <1>1, <3>1, <3>3, <4>1
        <5> QED
            BY <3>3, <4>1, <5>1
      <4>2. CASE n # m
        <5>1. n \in 0..(m - 1) /\ h[n] = g[n] /\ (n # 0 => h[n - 1] = g[n - 1])
            BY <1>1, <3>1, <3>3, <4>2
        <5> QED
            BY <3>2, <5>1
      <4> QED
          BY <4>1, <4>2
    <3>7. Spells(h, m)
        BY <3>5, <3>6
    <3> QED
        BY <2>2, <3>7
  <2> QED
      BY <2>3, <2>4
<1>3. PICK v : v = Values(id)
    OBVIOUS
<1>4. v = [n \in 0..L |-> IF n = 0 THEN 0 ELSE 10 * v[n - 1] + id[n]]
  <2>1. PICK g : Spells(g, L)
    <3>1. L \in 0..L /\ L \notin Bad
      <4> HIDE DEF Bad
      <4> QED
          BY <1>1, <1>2
    <3> HIDE DEF Spells
    <3> QED
        BY <3>1
  <2>2. g = [n \in 0..L |-> IF n = 0 THEN 0 ELSE 10 * g[n - 1] + id[n]]
      BY <2>1
  <2>3. v = CHOOSE f : f = [n \in 0..L |-> IF n = 0 THEN 0 ELSE 10 * f[n - 1] + id[n]]
      BY <1>3 DEF Values, L
  <2> QED
      BY <2>2, <2>3
<1>5. \A n \in 0..L : v[n] \in Int
  <2>1. PICK T : T = {n \in 0..L : v[n] \notin Int}
      OBVIOUS
  <2>2. SUFFICES ASSUME T # {} PROVE FALSE
      BY <2>1
  <2>3. PICK n \in T : \A k \in T : n <= k
    <3>1. T \in SUBSET Nat
        BY <1>1, <2>1
    <3> QED
        BY <2>2, <3>1, LeastNumber
  <2>4. n \in 1..L /\ v[n - 1] \in Int
    <3>1. v[0] = 0
        BY <1>1, <1>4
    <3>2. n \in 0..L /\ v[n] \notin Int
        BY <2>1, <2>3
    <3>3. n # 0
        BY <3>1, <3>2
    <3>4. n - 1 \in 0..L /\ n - 1 \notin T
        BY <1>1, <2>3, <3>2, <3>3
    <3> QED
        BY <1>1, <2>1, <3>2, <3>3, <3>4
  <2>5. v[n] = 10 * v[n - 1] + id[n] /\ id[n] \in Int
      BY <1>1, <1>4, <2>4
  <2> QED
      BY <2>1, <2>3, <2>4, <2>5
<1>6. v \in [0..L -> Int] /\ v[0] = 0
    BY <1>1, <1>4, <1>5
<1>7. \A n \in 1..L : v[n] = 10 * v[n - 1] + id[n]
    BY <1>1, <1>4
<1> QED
    BY <1>3, <1>6, <1>7 DEF L

(* So digits, and whatever characters take their place, spell a number.    *)
LEMMA ValueType ==
    ASSUME NEW id \in Seq(Int)
    PROVE  Value(id) \in Int
<1>1. Values(id) \in [0..Len(id) -> Int] /\ Len(id) \in Nat
    BY ValuesDefined
<1> QED
    BY <1>1 DEF Value

(* Without a leading zero every beginning spells a positive number.        *)
LEMMA BeginningPositive ==
    ASSUME NEW id \in Seq(Int), AllDigits(id), Len(id) > 0, id[1] # 0
    PROVE  \A n \in 1..Len(id) : Values(id)[n] > 0
<1>1. PICK v : v = Values(id)
    OBVIOUS
<1>2. PICK L : L = Len(id)
    OBVIOUS
<1>3. /\ v \in [0..L -> Int] /\ v[0] = 0
      /\ \A n \in 1..L : v[n] = 10 * v[n - 1] + id[n]
    BY <1>1, <1>2, ValuesDefined
<1>4. L \in Nat /\ \A n \in 1..L : id[n] \in 0..9
    BY <1>2 DEF AllDigits, Digits
<1>5. PICK T : T = {n \in 1..L : ~(v[n] > 0)}
    OBVIOUS
<1>6. SUFFICES ASSUME T # {} PROVE FALSE
    BY <1>1, <1>2, <1>5
<1>7. PICK n \in T : \A k \in T : n <= k
  <2>1. T \in SUBSET Nat
      BY <1>4, <1>5
  <2> QED
      BY <1>6, <2>1, LeastNumber
<1>8. n \in 1..L /\ v[n] = 10 * v[n - 1] + id[n] /\ id[n] \in 0..9
    BY <1>3, <1>4, <1>5, <1>7
<1>9. CASE n = 1
  <2>1. v[n] = id[1] /\ id[1] > 0
      BY <1>2, <1>3, <1>4, <1>8, <1>9
  <2> QED
      BY <1>5, <1>7, <2>1
<1>10. CASE n # 1
  <2>1. n - 1 \in 1..L /\ n - 1 \notin T
      BY <1>4, <1>7, <1>8, <1>10
  <2>2. v[n - 1] > 0 /\ v[n - 1] \in Int
      BY <1>3, <1>4, <1>5, <2>1
  <2>3. v[n] > 0
    <3>1. PICK x, y : x = v[n - 1] /\ y = id[n]
        OBVIOUS
    <3>2. v[n] = 10 * x + y /\ x \in Int /\ x > 0 /\ y \in 0..9
        BY <1>8, <2>2, <3>1
    <3> QED
        BY <3>2
  <2> QED
      BY <1>5, <1>7, <2>3
<1> QED
    BY <1>9, <1>10

(* Digits that spell the same number agree from the end on.                *)
LEMMA SameEnds ==
    ASSUME NEW a \in Seq(Int), NEW b \in Seq(Int), AllDigits(a), AllDigits(b), Value(a) = Value(b)
    PROVE  \A k \in Nat : k <= Len(a) /\ k <= Len(b) => Values(a)[Len(a) - k] = Values(b)[Len(b) - k]
<1>1. PICK v, w, m, n : v = Values(a) /\ w = Values(b) /\ m = Len(a) /\ n = Len(b)
    OBVIOUS
<1>2. /\ v \in [0..m -> Int] /\ v[0] = 0
      /\ \A i \in 1..m : v[i] = 10 * v[i - 1] + a[i]
    BY <1>1, ValuesDefined
<1>3. /\ w \in [0..n -> Int] /\ w[0] = 0
      /\ \A i \in 1..n : w[i] = 10 * w[i - 1] + b[i]
    BY <1>1, ValuesDefined
<1>4. m \in Nat /\ n \in Nat /\ (\A i \in 1..m : a[i] \in 0..9) /\ \A i \in 1..n : b[i] \in 0..9
  <2>1. m \in Nat /\ DOMAIN a = 1..m /\ n \in Nat /\ DOMAIN b = 1..n
      BY <1>1
  <2>2. \A i \in 1..m : a[i] \in 0..9
      BY <2>1 DEF AllDigits, Digits
  <2>3. \A i \in 1..n : b[i] \in 0..9
      BY <2>1 DEF AllDigits, Digits
  <2> QED
      BY <2>1, <2>2, <2>3
<1>5. v[m] = w[n]
    BY <1>1 DEF Value
<1>6. PICK T : T = {k \in Nat : k <= m /\ k <= n /\ v[m - k] # w[n - k]}
    OBVIOUS
<1>7. SUFFICES ASSUME T # {} PROVE FALSE
    BY <1>1, <1>6
<1>8. PICK k \in T : \A j \in T : k <= j
  <2>1. T \in SUBSET Nat
      BY <1>6
  <2> QED
      BY <1>7, <2>1, LeastNumber
<1>9. k \in Nat /\ k <= m /\ k <= n /\ v[m - k] # w[n - k]
    BY <1>6, <1>8
<1>10. k # 0
    BY <1>4, <1>5, <1>9
<1>11. v[m - (k - 1)] = w[n - (k - 1)]
  <2>1. k - 1 \in Nat /\ k - 1 <= m /\ k - 1 <= n /\ k - 1 \notin T
      BY <1>4, <1>8, <1>9, <1>10
  <2> QED
      BY <1>6, <2>1
<1>12. PICK i, j : i = m - (k - 1) /\ j = n - (k - 1)
    OBVIOUS
<1>13. i \in 1..m /\ j \in 1..n /\ i - 1 = m - k /\ j - 1 = n - k
    BY <1>4, <1>9, <1>10, <1>12
<1>14. PICK x, y, d, e : x = v[i - 1] /\ y = w[j - 1] /\ d = a[i] /\ e = b[j]
    OBVIOUS
<1>15. x \in Int /\ y \in Int /\ d \in 0..9 /\ e \in 0..9
  <2>1. i - 1 \in 0..m /\ j - 1 \in 0..n
      BY <1>4, <1>13
  <2>2. x \in Int
      BY <1>2, <1>14, <2>1
  <2>3. y \in Int
      BY <1>3, <1>14, <2>1
  <2> QED
      BY <1>4, <1>13, <1>14, <2>2, <2>3
<1>16. 10 * x + d = 10 * y + e
    BY <1>2, <1>3, <1>11, <1>12, <1>13, <1>14
<1>17. x = y
    BY <1>15, <1>16
<1> QED
    BY <1>9, <1>13, <1>14, <1>17

(* A number without leading zeros is not spelt with fewer digits too.      *)
LEMMA NoShorterSpelling ==
    ASSUME NEW a \in Seq(Int), NEW b \in Seq(Int), AllDigits(a), AllDigits(b), Value(a) = Value(b),
           Len(a) > 0, ~LeadingZero(b)
    PROVE  ~(Len(a) < Len(b))
<1>1. SUFFICES ASSUME Len(a) < Len(b) PROVE FALSE
    OBVIOUS
<1>2. Len(a) \in Nat /\ Len(b) \in Nat
    OBVIOUS
<1>3. Values(a)[Len(a) - Len(a)] = Values(b)[Len(b) - Len(a)]
    BY <1>1, <1>2, SameEnds
<1>4. Values(a)[0] = 0
    BY ValuesDefined
<1>5. b[1] # 0 /\ Len(b) > 0
    BY <1>1, <1>2 DEF LeadingZero
<1>6. Len(b) - Len(a) \in 1..Len(b)
    BY <1>1, <1>2
<1>7. Values(b)[Len(b) - Len(a)] > 0
    BY <1>5, <1>6, BeginningPositive
<1>8. Len(a) - Len(a) = 0
    BY <1>2
<1> QED
    BY <1>3, <1>4, <1>7, <1>8

(* Numbers without leading zeros are equal only if they are spelt alike.   *)
LEMMA ValueInjective ==
    ASSUME NEW a \in Seq(Int), NEW b \in Seq(Int), AllDigits(a), AllDigits(b), Value(a) = Value(b),
           Len(a) > 0, Len(b) > 0, ~LeadingZero(a), ~LeadingZero(b)
    PROVE  a = b
<1>1. Len(a) = Len(b) /\ Len(a) \in Nat
  <2>1. ~(Len(a) < Len(b)) /\ ~(Len(b) < Len(a))
      BY NoShorterSpelling
  <2> QED
      BY <2>1
<1>2. ASSUME NEW i \in 1..Len(a) PROVE a[i] = b[i]
  <2>1. PICK v, w : v = Values(a) /\ w = Values(b)
      OBVIOUS
  <2>2. \A k \in Nat : k <= Len(a) => v[Len(a) - k] = w[Len(a) - k]
      BY <1>1, <2>1, SameEnds
  <2>3. v[i] = w[i] /\ v[i - 1] = w[i - 1]
    <3>1. PICK k : k = Len(a) - i
        OBVIOUS
    <3>2. k \in Nat /\ k + 1 \in Nat /\ k <= Len(a) /\ k + 1 <= Len(a)
        BY <1>1, <3>1
    <3>3. Len(a) - k = i /\ Len(a) - (k + 1) = i - 1
        BY <1>1, <3>1
    <3> QED
        BY <2>2, <3>2, <3>3
  <2>4. v \in [0..Len(a) -> Int] /\ v[i] = 10 * v[i - 1] + a[i]
      BY <2>1, ValuesDefined
  <2>5. w \in [0..Len(b) -> Int] /\ w[i] = 10 * w[i - 1] + b[i]
      BY <1>1, <2>1, ValuesDefined
  <2>6. PICK x, d, e : x = v[i - 1] /\ d = a[i] /\ e = b[i]
      OBVIOUS
  <2>7. i - 1 \in 0..Len(a) /\ i \in 1..Len(b)
      BY <1>1
  <2>8. x \in Int /\ d \in Int /\ e \in Int
      BY <2>4, <2>6, <2>7
  <2>9. 10 * x + d = 10 * x + e
      BY <2>3, <2>4, <2>5, <2>6
  <2>10. d = e
      BY <2>8, <2>9
  <2> QED
      BY <2>6, <2>10
<1> QED
    BY <1>1, <1>2

-----------------------------------------------------------------------------
(* The comparisons are orders: comparing the other way round gives the     *)
(* opposite, and comparisons in a row fit together                         *)

(* Numbers by their value.                                                 *)
LEMMA NumbersOrdered ==
    ASSUME NEW a \in Seq(Int), NEW b \in Seq(Int), NEW c \in Seq(Int)
    PROVE  /\ CompareNumbers(a, b) \in Signs
           /\ CompareNumbers(b, a) = -CompareNumbers(a, b)
           /\ Composes(CompareNumbers(a, b), CompareNumbers(b, c), CompareNumbers(a, c))
<1>1. PICK x, y, z : x = Value(a) /\ y = Value(b) /\ z = Value(c)
    OBVIOUS
<1>2. x \in Int /\ y \in Int /\ z \in Int
    BY <1>1, ValueType
<1> QED
    BY <1>1, <1>2 DEF CompareNumbers, Sign, Signs, Composes

(* Tables of comparisons of the elements of three sequences, of lengths l, *)
(* m and n, that fit together: the sequences are ordered too.              *)
LEMMA SequencesOrdered ==
    ASSUME NEW l \in Nat, NEW m \in Nat, NEW n \in Nat,
           NEW lm, lm = IF l < m THEN l ELSE m,
           NEW mn, mn = IF m < n THEN m ELSE n,
           NEW ln, ln = IF l < n THEN l ELSE n,
           NEW d, NEW g, NEW e, NEW f,
           Comparison(d, lm), Comparison(g, lm), Comparison(e, mn), Comparison(f, ln),
           \A i \in 1..lm : g[i] = -d[i],
           \A i \in Nat : 1 <= i /\ i <= l /\ i <= m /\ i <= n => Composes(d[i], e[i], f[i])
    PROVE  /\ FirstDifference(d, l, m) \in Signs
           /\ FirstDifference(g, m, l) = -FirstDifference(d, l, m)
           /\ Composes(FirstDifference(d, l, m), FirstDifference(e, m, n), FirstDifference(f, l, n))
<1>1. FirstDifference(d, l, m) \in Signs
    BY DifferenceType
<1>2. FirstDifference(g, m, l) = -FirstDifference(d, l, m)
    BY DifferenceOpposite
<1>3. Composes(FirstDifference(d, l, m), FirstDifference(e, m, n), FirstDifference(f, l, n))
    BY DifferenceComposes
<1> QED
    BY <1>1, <1>2, <1>3

(* Texts by their characters.                                              *)
LEMMA TextOrdered ==
    ASSUME NEW a \in Seq(Int), NEW b \in Seq(Int), NEW c \in Seq(Int)
    PROVE  /\ CompareText(a, b) \in Signs
           /\ CompareText(b, a) = -CompareText(a, b)
           /\ Composes(CompareText(a, b), CompareText(b, c), CompareText(a, c))
<1>1. PICK l, m, n : l = Len(a) /\ m = Len(b) /\ n = Len(c)
    OBVIOUS
<1>2. /\ l \in Nat /\ \A i \in 1..l : a[i] \in Int
      /\ m \in Nat /\ \A i \in 1..m : b[i] \in Int
      /\ n \in Nat /\ \A i \in 1..n : c[i] \in Int
    BY <1>1
<1>3. PICK lm, mn, ln : /\ lm = IF l < m THEN l ELSE m
                        /\ mn = IF m < n THEN m ELSE n
                        /\ ln = IF l < n THEN l ELSE n
    OBVIOUS
<1>4. PICK d, g, e, f : /\ d = [i \in 1..lm |-> Sign(a[i] - b[i])]
                        /\ g = [i \in 1..lm |-> Sign(b[i] - a[i])]
                        /\ e = [i \in 1..mn |-> Sign(b[i] - c[i])]
                        /\ f = [i \in 1..ln |-> Sign(a[i] - c[i])]
    OBVIOUS
<1>5. Comparison(d, lm) /\ Comparison(g, lm)
    BY <1>2, <1>3, <1>4 DEF Comparison, Sign, Signs
<1>6. Comparison(e, mn)
    BY <1>2, <1>3, <1>4 DEF Comparison, Sign, Signs
<1>7. Comparison(f, ln)
    BY <1>2, <1>3, <1>4 DEF Comparison, Sign, Signs
<1>8. \A i \in 1..lm : g[i] = -d[i]
    BY <1>2, <1>3, <1>4 DEF Sign
<1>9. \A i \in Nat : 1 <= i /\ i <= l /\ i <= m /\ i <= n => Composes(d[i], e[i], f[i])
  <2>1. ASSUME NEW i \in Nat, 1 <= i, i <= l, i <= m, i <= n PROVE Composes(d[i], e[i], f[i])
    <3>1. i \in 1..lm /\ i \in 1..mn /\ i \in 1..ln
        BY <1>2, <1>3, <2>1
    <3>2. PICK x, y, z : x = a[i] /\ y = b[i] /\ z = c[i]
        OBVIOUS
    <3>3. x \in Int /\ y \in Int /\ z \in Int
        BY <1>2, <2>1, <3>2
    <3>4. d[i] = Sign(x - y) /\ e[i] = Sign(y - z) /\ f[i] = Sign(x - z)
        BY <1>4, <3>1, <3>2
    <3> QED
        BY <3>3, <3>4 DEF Composes, Sign
  <2> QED
      BY <2>1
<1>10. /\ CompareText(a, b) = FirstDifference(d, l, m)
       /\ CompareText(b, a) = FirstDifference(g, m, l)
       /\ CompareText(b, c) = FirstDifference(e, m, n)
       /\ CompareText(a, c) = FirstDifference(f, l, n)
  <2>1. Common(a, b) = 1..lm /\ Common(b, a) = 1..lm /\ Common(b, c) = 1..mn /\ Common(a, c) = 1..ln
      BY <1>1, <1>2, <1>3 DEF Common
  <2> QED
      BY <1>1, <1>4, <2>1 DEF CompareText
<1>11. /\ FirstDifference(d, l, m) \in Signs
       /\ FirstDifference(g, m, l) = -FirstDifference(d, l, m)
       /\ Composes(FirstDifference(d, l, m), FirstDifference(e, m, n), FirstDifference(f, l, n))
    BY <1>2, <1>3, <1>5, <1>6, <1>7, <1>8, <1>9, SequencesOrdered
<1> QED
    BY <1>10, <1>11

(* Identifiers: numbers before texts.                                      *)
LEMMA IdentifiersOrdered ==
    ASSUME NEW a \in Seq(Int), NEW b \in Seq(Int), NEW c \in Seq(Int)
    PROVE  /\ CompareIdentifiers(a, b) \in Signs
           /\ CompareIdentifiers(b, a) = -CompareIdentifiers(a, b)
           /\ Composes(CompareIdentifiers(a, b), CompareIdentifiers(b, c), CompareIdentifiers(a, c))
<1>1. /\ CompareNumbers(a, b) \in Signs
      /\ CompareNumbers(b, a) = -CompareNumbers(a, b)
      /\ Composes(CompareNumbers(a, b), CompareNumbers(b, c), CompareNumbers(a, c))
    BY NumbersOrdered
<1>2. /\ CompareText(a, b) \in Signs
      /\ CompareText(b, a) = -CompareText(a, b)
      /\ Composes(CompareText(a, b), CompareText(b, c), CompareText(a, c))
    BY TextOrdered
<1>3. numericIdentifier(a) \in BOOLEAN /\ numericIdentifier(b) \in BOOLEAN /\ numericIdentifier(c) \in BOOLEAN
    BY DEF numericIdentifier
<1>4. \A x, y \in {a, b, c} :
          /\ numericIdentifier(x) /\ numericIdentifier(y) => CompareIdentifiers(x, y) = CompareNumbers(x, y)
          /\ numericIdentifier(x) /\ ~numericIdentifier(y) => CompareIdentifiers(x, y) = -1
          /\ ~numericIdentifier(x) /\ numericIdentifier(y) => CompareIdentifiers(x, y) = 1
          /\ ~numericIdentifier(x) /\ ~numericIdentifier(y) => CompareIdentifiers(x, y) = CompareText(x, y)
    BY DEF CompareIdentifiers
<1>5. CompareIdentifiers(a, b) \in Signs
    BY <1>1, <1>2, <1>4 DEF Signs
<1>6. CompareIdentifiers(b, a) = -CompareIdentifiers(a, b)
    BY <1>1, <1>2, <1>4
<1>7. Composes(CompareIdentifiers(a, b), CompareIdentifiers(b, c), CompareIdentifiers(a, c))
    BY <1>1, <1>2, <1>4 DEF Composes
<1> QED
    BY <1>5, <1>6, <1>7

(* Pre-release parts that are there by their identifiers.                  *)
LEMMA PartsOrdered ==
    ASSUME NEW a \in Seq(Seq(Int)), NEW b \in Seq(Seq(Int)), NEW c \in Seq(Seq(Int)),
           a # <<>>, b # <<>>, c # <<>>
    PROVE  /\ ComparePre(a, b) \in Signs
           /\ ComparePre(b, a) = -ComparePre(a, b)
           /\ Composes(ComparePre(a, b), ComparePre(b, c), ComparePre(a, c))
<1>1. PICK l, m, n : l = Len(a) /\ m = Len(b) /\ n = Len(c)
    OBVIOUS
<1>2. /\ l \in Nat /\ \A i \in 1..l : a[i] \in Seq(Int)
      /\ m \in Nat /\ \A i \in 1..m : b[i] \in Seq(Int)
      /\ n \in Nat /\ \A i \in 1..n : c[i] \in Seq(Int)
    BY <1>1
<1>3. PICK lm, mn, ln : /\ lm = IF l < m THEN l ELSE m
                        /\ mn = IF m < n THEN m ELSE n
                        /\ ln = IF l < n THEN l ELSE n
    OBVIOUS
<1>4. PICK d, g, e, f : /\ d = [i \in 1..lm |-> CompareIdentifiers(a[i], b[i])]
                        /\ g = [i \in 1..lm |-> CompareIdentifiers(b[i], a[i])]
                        /\ e = [i \in 1..mn |-> CompareIdentifiers(b[i], c[i])]
                        /\ f = [i \in 1..ln |-> CompareIdentifiers(a[i], c[i])]
    OBVIOUS
<1>5. \A x, y \in Seq(Int) : CompareIdentifiers(x, y) \in Signs /\ CompareIdentifiers(y, x) = -CompareIdentifiers(x, y)
    BY IdentifiersOrdered
<1>6. Comparison(d, lm) /\ Comparison(g, lm)
    BY <1>2, <1>3, <1>4, <1>5 DEF Comparison
<1>7. Comparison(e, mn)
    BY <1>2, <1>3, <1>4, <1>5 DEF Comparison
<1>8. Comparison(f, ln)
    BY <1>2, <1>3, <1>4, <1>5 DEF Comparison
<1>9. \A i \in 1..lm : g[i] = -d[i]
    BY <1>2, <1>3, <1>4, <1>5
<1>10. \A i \in Nat : 1 <= i /\ i <= l /\ i <= m /\ i <= n => Composes(d[i], e[i], f[i])
  <2>1. ASSUME NEW i \in Nat, 1 <= i, i <= l, i <= m, i <= n PROVE Composes(d[i], e[i], f[i])
    <3>1. i \in 1..lm /\ i \in 1..mn /\ i \in 1..ln
        BY <1>2, <1>3, <2>1
    <3>2. PICK x, y, z : x = a[i] /\ y = b[i] /\ z = c[i]
        OBVIOUS
    <3>3. x \in Seq(Int) /\ y \in Seq(Int) /\ z \in Seq(Int)
        BY <1>2, <2>1, <3>2
    <3>4. /\ d[i] = CompareIdentifiers(x, y)
          /\ e[i] = CompareIdentifiers(y, z)
          /\ f[i] = CompareIdentifiers(x, z)
        BY <1>4, <3>1, <3>2
    <3>5. Composes(CompareIdentifiers(x, y), CompareIdentifiers(y, z), CompareIdentifiers(x, z))
        BY <3>3, IdentifiersOrdered
    <3> QED
        BY <3>4, <3>5
  <2> QED
      BY <2>1
<1>11. /\ ComparePre(a, b) = FirstDifference(d, l, m)
       /\ ComparePre(b, a) = FirstDifference(g, m, l)
       /\ ComparePre(b, c) = FirstDifference(e, m, n)
       /\ ComparePre(a, c) = FirstDifference(f, l, n)
  <2>1. Common(a, b) = 1..lm /\ Common(b, a) = 1..lm /\ Common(b, c) = 1..mn /\ Common(a, c) = 1..ln
      BY <1>1, <1>2, <1>3 DEF Common
  <2> QED
      BY <1>1, <1>4, <2>1 DEF ComparePre
<1>12. /\ FirstDifference(d, l, m) \in Signs
       /\ FirstDifference(g, m, l) = -FirstDifference(d, l, m)
       /\ Composes(FirstDifference(d, l, m), FirstDifference(e, m, n), FirstDifference(f, l, n))
    BY <1>2, <1>3, <1>6, <1>7, <1>8, <1>9, <1>10, SequencesOrdered
<1> QED
    BY <1>11, <1>12

(* And without one a version comes after those that have one.              *)
LEMMA PreOrdered ==
    ASSUME NEW a \in Seq(Seq(Int)), NEW b \in Seq(Seq(Int)), NEW c \in Seq(Seq(Int))
    PROVE  /\ ComparePre(a, b) \in Signs
           /\ ComparePre(b, a) = -ComparePre(a, b)
           /\ Composes(ComparePre(a, b), ComparePre(b, c), ComparePre(a, c))
<1>1. \A x, y \in {a, b, c} :
          /\ x = <<>> /\ y = <<>> => ComparePre(x, y) = 0
          /\ x = <<>> /\ y # <<>> => ComparePre(x, y) = 1
          /\ x # <<>> /\ y = <<>> => ComparePre(x, y) = -1
    BY DEF ComparePre
<1>2. \A x, y \in Seq(Seq(Int)) :
          x # <<>> /\ y # <<>> => ComparePre(x, y) \in Signs /\ ComparePre(y, x) = -ComparePre(x, y)
    BY PartsOrdered
<1>3. a # <<>> /\ b # <<>> /\ c # <<>> => Composes(ComparePre(a, b), ComparePre(b, c), ComparePre(a, c))
    BY PartsOrdered
<1>4. ComparePre(a, b) \in Signs
    BY <1>1, <1>2 DEF Signs
<1>5. ComparePre(b, a) = -ComparePre(a, b)
    BY <1>1, <1>2
<1>6. Composes(ComparePre(a, b), ComparePre(b, c), ComparePre(a, c))
  <2>1. PICK x, y, z : x = ComparePre(a, b) /\ y = ComparePre(b, c) /\ z = ComparePre(a, c)
      OBVIOUS
  <2>2. a # <<>> /\ b # <<>> => x \in Signs
      BY <1>2, <2>1
  <2>3. b # <<>> /\ c # <<>> => y \in Signs
      BY <1>2, <2>1
  <2>4. a # <<>> /\ c # <<>> => z \in Signs
      BY <1>2, <2>1
  <2>5. /\ a = <<>> /\ b = <<>> => x = 0
        /\ a = <<>> /\ b # <<>> => x = 1
        /\ a # <<>> /\ b = <<>> => x = -1
        /\ b = <<>> /\ c = <<>> => y = 0
        /\ b = <<>> /\ c # <<>> => y = 1
        /\ b # <<>> /\ c = <<>> => y = -1
        /\ a = <<>> /\ c = <<>> => z = 0
        /\ a = <<>> /\ c # <<>> => z = 1
        /\ a # <<>> /\ c = <<>> => z = -1
      BY <1>1, <2>1
  <2> QED
      BY <1>3, <2>1, <2>2, <2>3, <2>4, <2>5 DEF Composes, Signs
<1> QED
    BY <1>4, <1>5, <1>6

(* What the comparison of versions looks at.                               *)
Version(t) == t.core \in Seq(Seq(Int)) /\ Len(t.core) = 3 /\ t.pre \in Seq(Seq(Int))

(* The order of the three numbers.                                         *)
CompareCore(a, b) == FirstDifference([i \in 1..3 |-> CompareNumbers(a.core[i], b.core[i])], 3, 3)

(* The three numbers in a row.                                             *)
LEMMA CoreOrdered ==
    ASSUME NEW a, NEW b, NEW c, Version(a), Version(b), Version(c)
    PROVE  /\ CompareCore(a, b) \in Signs
           /\ CompareCore(b, a) = -CompareCore(a, b)
           /\ Composes(CompareCore(a, b), CompareCore(b, c), CompareCore(a, c))
<1>1. PICK s, t, u : s = a.core /\ t = b.core /\ u = c.core
    OBVIOUS
<1>2. \A i \in 1..3 : s[i] \in Seq(Int) /\ t[i] \in Seq(Int) /\ u[i] \in Seq(Int)
    BY <1>1 DEF Version
<1>3. PICK d, g, e, f : /\ d = [i \in 1..3 |-> CompareNumbers(s[i], t[i])]
                        /\ g = [i \in 1..3 |-> CompareNumbers(t[i], s[i])]
                        /\ e = [i \in 1..3 |-> CompareNumbers(t[i], u[i])]
                        /\ f = [i \in 1..3 |-> CompareNumbers(s[i], u[i])]
    OBVIOUS
<1>4. \A x, y \in Seq(Int) : CompareNumbers(x, y) \in Signs /\ CompareNumbers(y, x) = -CompareNumbers(x, y)
    BY NumbersOrdered
<1>5. Comparison(d, 3) /\ Comparison(g, 3) /\ Comparison(e, 3) /\ Comparison(f, 3)
    BY <1>2, <1>3, <1>4 DEF Comparison
<1>6. \A i \in 1..3 : g[i] = -d[i]
    BY <1>2, <1>3, <1>4
<1>7. \A i \in 1..3 : Composes(d[i], e[i], f[i])
  <2>1. ASSUME NEW i \in 1..3 PROVE Composes(d[i], e[i], f[i])
    <3>1. PICK x, y, z : x = s[i] /\ y = t[i] /\ z = u[i]
        OBVIOUS
    <3>2. x \in Seq(Int) /\ y \in Seq(Int) /\ z \in Seq(Int)
        BY <1>2, <3>1
    <3>3. Composes(CompareNumbers(x, y), CompareNumbers(y, z), CompareNumbers(x, z))
        BY <3>2, NumbersOrdered
    <3> QED
        BY <1>3, <3>1, <3>3
  <2> QED
      BY <2>1
<1>8. PICK n : n = 3
    OBVIOUS
<1>9. /\ n \in Nat /\ n = IF n < n THEN n ELSE n
      /\ Comparison(d, n) /\ Comparison(g, n) /\ Comparison(e, n) /\ Comparison(f, n)
      /\ \A i \in 1..n : g[i] = -d[i]
      /\ \A i \in Nat : 1 <= i /\ i <= n /\ i <= n /\ i <= n => Composes(d[i], e[i], f[i])
    BY <1>5, <1>6, <1>7, <1>8
<1>10. /\ FirstDifference(d, n, n) \in Signs
       /\ FirstDifference(g, n, n) = -FirstDifference(d, n, n)
       /\ Composes(FirstDifference(d, n, n), FirstDifference(e, n, n), FirstDifference(f, n, n))
    BY <1>9, SequencesOrdered
<1> QED
    BY <1>1, <1>3, <1>8, <1>10 DEF CompareCore

(* Versions: by their numbers, then by their pre-release parts.            *)
LEMMA VersionsOrdered ==
    ASSUME NEW a, NEW b, NEW c, Version(a), Version(b), Version(c)
    PROVE  /\ compareSemver(a, b) \in Signs
           /\ compareSemver(b, a) = -compareSemver(a, b)
           /\ Composes(compareSemver(a, b), compareSemver(b, c), compareSemver(a, c))
<1>1. /\ CompareCore(a, b) \in Signs
      /\ CompareCore(b, a) = -CompareCore(a, b)
      /\ Composes(CompareCore(a, b), CompareCore(b, c), CompareCore(a, c))
    BY CoreOrdered
<1>2. CompareCore(b, c) \in Signs /\ CompareCore(a, c) \in Signs
    BY CoreOrdered
<1>3. PICK p, q, r : p = a.pre /\ q = b.pre /\ r = c.pre
    OBVIOUS
<1>4. p \in Seq(Seq(Int)) /\ q \in Seq(Seq(Int)) /\ r \in Seq(Seq(Int))
    BY <1>3 DEF Version
<1>5. /\ ComparePre(p, q) \in Signs
      /\ ComparePre(q, p) = -ComparePre(p, q)
      /\ Composes(ComparePre(p, q), ComparePre(q, r), ComparePre(p, r))
    BY <1>4, PreOrdered
<1>6. /\ compareSemver(a, b) = IF CompareCore(a, b) # 0 THEN CompareCore(a, b) ELSE ComparePre(p, q)
      /\ compareSemver(b, a) = IF CompareCore(b, a) # 0 THEN CompareCore(b, a) ELSE ComparePre(q, p)
      /\ compareSemver(b, c) = IF CompareCore(b, c) # 0 THEN CompareCore(b, c) ELSE ComparePre(q, r)
      /\ compareSemver(a, c) = IF CompareCore(a, c) # 0 THEN CompareCore(a, c) ELSE ComparePre(p, r)
    BY <1>3 DEF compareSemver, CompareCore
<1>7. compareSemver(a, b) \in Signs /\ compareSemver(b, a) = -compareSemver(a, b)
    BY <1>1, <1>5, <1>6 DEF Signs
<1>8. Composes(compareSemver(a, b), compareSemver(b, c), compareSemver(a, c))
    BY <1>1, <1>2, <1>5, <1>6 DEF Composes, Signs
<1> QED
    BY <1>7, <1>8

-----------------------------------------------------------------------------
(* Arranging positions *)

(* R orders the positions I one after the other.                           *)
TotalOn(R, I) ==
    /\ \A x \in I : <<x, x>> \notin R
    /\ \A x, y \in I : x = y \/ <<x, y>> \in R \/ <<y, x>> \in R
    /\ \A x, y, z \in I : <<x, y>> \in R /\ <<y, z>> \in R => <<x, z>> \in R

(* p lists the n elements of I in the order R.                             *)
Arranges(p, n, I, R) == p \in [1..n -> I] /\ \A i, k \in 1..n : i < k => <<p[i], p[k]>> \in R

(* There is an arrangement: the place of an element is the number of those *)
(* that do not come after it.                                              *)
LEMMA ArrangementExists ==
    ASSUME NEW I, IsFiniteSet(I), NEW R, TotalOn(R, I)
    PROVE  \E p : Arranges(p, Cardinality(I), I, R)
<1> DEFINE UpTo(x) == {y \in I : y = x \/ <<y, x>> \in R}
<1>1. PICK n : n = Cardinality(I)
    OBVIOUS
<1>2. n \in Nat
    BY <1>1, FS_CardinalityType
<1>3. ASSUME NEW x \in I PROVE IsFiniteSet(UpTo(x)) /\ Cardinality(UpTo(x)) \in 1..n
  <2>1. PICK U : U = UpTo(x)
      OBVIOUS
  <2>2. U \in SUBSET I /\ x \in U
      BY <2>1
  <2> HIDE DEF UpTo
  <2>3. IsFiniteSet(U) /\ Cardinality(U) <= n
      BY <1>1, <2>2, FS_Subset
  <2>4. Cardinality(U) \in Nat /\ Cardinality(U) # 0
      BY <2>2, <2>3, FS_CardinalityType, FS_EmptySet
  <2> QED
      BY <1>2, <2>1, <2>3, <2>4
<1>4. ASSUME NEW x \in I, NEW y \in I, <<x, y>> \in R PROVE Cardinality(UpTo(x)) < Cardinality(UpTo(y))
  <2>1. PICK U, V : U = UpTo(x) /\ V = UpTo(y)
      OBVIOUS
  <2>2. U \in SUBSET V
      BY <1>4, <2>1 DEF TotalOn
  <2>3. y \in V /\ y \notin U
      BY <1>4, <2>1 DEF TotalOn
  <2>4. IsFiniteSet(V) /\ Cardinality(V) \in 1..n /\ Cardinality(U) \in 1..n
      BY <1>3, <2>1
  <2> HIDE DEF UpTo
  <2>5. Cardinality(U) <= Cardinality(V) /\ (Cardinality(V) = Cardinality(U) => V = U)
      BY <2>2, <2>4, FS_Subset
  <2>6. Cardinality(V) # Cardinality(U)
      BY <2>3, <2>5
  <2> QED
      BY <1>2, <2>1, <2>4, <2>5, <2>6
<1>5. PICK rank : rank = [x \in I |-> Cardinality(UpTo(x))]
    OBVIOUS
<1>6. rank \in [I -> 1..n]
    BY <1>3, <1>5
<1>7. \A x, y \in I : <<x, y>> \in R => rank[x] < rank[y]
  <2> HIDE DEF UpTo
  <2> QED
      BY <1>4, <1>5
<1> HIDE DEF UpTo
<1>8. \A x, y \in I : rank[x] = rank[y] => x = y
  <2>1. ASSUME NEW x \in I, NEW y \in I, rank[x] = rank[y], x # y PROVE FALSE
    <3>1. <<x, y>> \in R \/ <<y, x>> \in R
        BY <2>1 DEF TotalOn
    <3>2. rank[x] \in Int /\ rank[y] \in Int
        BY <1>2, <1>6
    <3> QED
        BY <1>7, <2>1, <3>1, <3>2
  <2> QED
      BY <2>1
<1>9. \A i \in 1..n : \E x \in I : rank[x] = i
  <2>1. PICK J : J = 1..n
      OBVIOUS
  <2>2. IsFiniteSet(J) /\ Cardinality(J) = n
    <3>1. IsFiniteSet(1..n) /\ Cardinality(1..n) = IF 1 > n THEN 0 ELSE n - 1 + 1
        BY <1>2, FS_Interval
    <3> QED
        BY <1>2, <2>1, <3>1
  <2>3. rank \in Injection(I, J)
      BY <1>6, <1>8, <2>1 DEF Injection, IsInjective
  <2>4. rank \in Surjection(I, J)
      BY <1>1, <2>2, <2>3, FS_Injection
  <2> QED
      BY <2>1, <2>4 DEF Surjection
<1>10. PICK p : p = [i \in 1..n |-> CHOOSE x \in I : rank[x] = i]
    OBVIOUS
<1>11. ASSUME NEW i \in 1..n PROVE p[i] \in I /\ rank[p[i]] = i
    BY <1>9, <1>10
<1>12. p \in [1..n -> I]
    BY <1>10, <1>11
<1>13. ASSUME NEW i \in 1..n, NEW k \in 1..n, i < k PROVE <<p[i], p[k]>> \in R
  <2>1. PICK x, y : x = p[i] /\ y = p[k]
      OBVIOUS
  <2>2. x \in I /\ y \in I /\ rank[x] = i /\ rank[y] = k
      BY <1>11, <2>1
  <2>3. x # y /\ ~(<<y, x>> \in R)
      BY <1>2, <1>7, <1>13, <2>2
  <2> QED
      BY <2>1, <2>2, <2>3 DEF TotalOn
<1> QED
    BY <1>1, <1>12, <1>13 DEF Arranges

(* InOrder takes s at an arrangement of I, which has every one of them.    *)
LEMMA InOrderArranges ==
    ASSUME NEW s, NEW I, IsFiniteSet(I), NEW R, TotalOn(R, I)
    PROVE  \E p : /\ Arranges(p, Cardinality(I), I, R)
                  /\ InOrder(s, I, R) = [i \in 1..Cardinality(I) |-> s[p[i]]]
                  /\ \A x \in I : \E i \in 1..Cardinality(I) : p[i] = x
                  /\ \A i, k \in 1..Cardinality(I) : p[i] = p[k] => i = k
<1>1. PICK n : n = Cardinality(I)
    OBVIOUS
<1>2. n \in Nat
    BY <1>1, FS_CardinalityType
<1>3. PICK q : Arranges(q, n, I, R)
    BY <1>1, ArrangementExists
<1>4. PICK p : p = CHOOSE r \in [1..n -> I] : \A i, k \in 1..n : i < k => <<r[i], r[k]>> \in R
    OBVIOUS
<1>5. p \in [1..n -> I] /\ \A i, k \in 1..n : i < k => <<p[i], p[k]>> \in R
  <2>1. q \in [1..n -> I] /\ \A i, k \in 1..n : i < k => <<q[i], q[k]>> \in R
      BY <1>3 DEF Arranges
  <2> QED
      BY <1>4, <2>1
<1>6. InOrder(s, I, R) = [i \in 1..n |-> s[p[i]]]
    BY <1>1, <1>4 DEF InOrder
<1>7. \A i, k \in 1..n : p[i] = p[k] => i = k
  <2>1. ASSUME NEW i \in 1..n, NEW k \in 1..n, p[i] = p[k], i # k PROVE FALSE
    <3>1. i < k \/ k < i
        BY <1>2, <2>1
    <3>2. <<p[i], p[k]>> \in R \/ <<p[k], p[i]>> \in R
        BY <1>5, <3>1
    <3>3. p[i] \in I /\ <<p[i], p[i]>> \in R
        BY <1>5, <2>1, <3>2
    <3> QED
        BY <3>3 DEF TotalOn
  <2> QED
      BY <2>1
<1>8. \A x \in I : \E i \in 1..n : p[i] = x
  <2>1. PICK J : J = 1..n
      OBVIOUS
  <2>2. IsFiniteSet(J) /\ Cardinality(J) = n
    <3>1. IsFiniteSet(1..n) /\ Cardinality(1..n) = IF 1 > n THEN 0 ELSE n - 1 + 1
        BY <1>2, FS_Interval
    <3> QED
        BY <1>2, <2>1, <3>1
  <2>3. p \in Injection(J, I)
      BY <1>5, <1>7, <2>1 DEF Injection, IsInjective
  <2>4. p \in Surjection(J, I)
      BY <1>1, <2>2, <2>3, FS_Injection
  <2> QED
      BY <2>1, <2>4 DEF Surjection
<1>9. Arranges(p, n, I, R)
    BY <1>5 DEF Arranges
<1> QED
    BY <1>1, <1>6, <1>7, <1>8, <1>9

(* S has the elements of s at I, none of them twice if s has none twice,   *)
(* with earlier ones by R before later ones.                               *)
TakenInOrder(S, s, X, I, R) ==
    /\ S \in Seq(X) /\ Len(S) = Cardinality(I) /\ Len(S) <= Len(s) /\ Range(S) = {s[i] : i \in I}
    /\ IsInjective(s) => IsInjective(S)
    /\ \A i, k \in 1..Len(S) :
          i < k => \E m, n \in I : <<m, n>> \in R /\ S[i] = s[m] /\ S[k] = s[n]

(* That is what InOrder makes of a sequence.                               *)
LEMMA InOrderResult ==
    ASSUME NEW X, NEW s \in Seq(X), NEW I \in SUBSET (1..Len(s)), NEW R, TotalOn(R, I)
    PROVE  TakenInOrder(InOrder(s, I, R), s, X, I, R)
<1>1. Len(s) \in Nat /\ DOMAIN s = 1..Len(s) /\ \A i \in 1..Len(s) : s[i] \in X
    OBVIOUS
<1>2. PICK J : J = 1..Len(s)
    OBVIOUS
<1>3. IsFiniteSet(J) /\ Cardinality(J) = Len(s)
  <2>1. IsFiniteSet(1..Len(s)) /\ Cardinality(1..Len(s)) = IF 1 > Len(s) THEN 0 ELSE Len(s) - 1 + 1
      BY <1>1, FS_Interval
  <2> QED
      BY <1>1, <1>2, <2>1
<1>4. IsFiniteSet(I) /\ Cardinality(I) <= Len(s)
    BY <1>2, <1>3, FS_Subset
<1>5. PICK n : n = Cardinality(I)
    OBVIOUS
<1>6. n \in Nat /\ n <= Len(s)
    BY <1>4, <1>5, FS_CardinalityType
<1>7. PICK p : /\ Arranges(p, n, I, R)
               /\ InOrder(s, I, R) = [i \in 1..n |-> s[p[i]]]
               /\ \A x \in I : \E i \in 1..n : p[i] = x
               /\ \A i, k \in 1..n : p[i] = p[k] => i = k
    BY <1>4, <1>5, InOrderArranges
<1>8. p \in [1..n -> I] /\ \A i, k \in 1..n : i < k => <<p[i], p[k]>> \in R
    BY <1>7 DEF Arranges
<1>9. PICK S : S = InOrder(s, I, R)
    OBVIOUS
<1>10. S = [i \in 1..n |-> s[p[i]]]
    BY <1>7, <1>9
<1>11. \A i \in 1..n : p[i] \in I /\ p[i] \in 1..Len(s) /\ S[i] = s[p[i]]
    BY <1>8, <1>10
<1>12. S \in Seq(X) /\ Len(S) = n /\ DOMAIN S = 1..n
    BY <1>1, <1>6, <1>10, <1>11
<1>13. Range(S) = {s[i] : i \in I}
  <2>1. Range(S) = {S[i] : i \in 1..n}
      BY <1>12 DEF Range
  <2>2. ASSUME NEW i \in 1..n PROVE \E x \in I : S[i] = s[x]
      BY <1>11
  <2>3. ASSUME NEW x \in I PROVE \E i \in 1..n : S[i] = s[x]
      BY <1>7, <1>11
  <2> QED
      BY <2>1, <2>2, <2>3
<1>14. ASSUME IsInjective(s) PROVE IsInjective(S)
  <2>1. ASSUME NEW i \in 1..n, NEW k \in 1..n, S[i] = S[k] PROVE i = k
    <3>1. p[i] = p[k]
        BY <1>1, <1>11, <1>14, <2>1 DEF IsInjective
    <3> QED
        BY <1>7, <3>1
  <2> QED
      BY <1>12, <2>1 DEF IsInjective
<1>15. ASSUME NEW i \in 1..n, NEW k \in 1..n, i < k
       PROVE  \E a, b \in I : <<a, b>> \in R /\ S[i] = s[a] /\ S[k] = s[b]
    BY <1>8, <1>11, <1>15
<1> QED
    BY <1>5, <1>6, <1>9, <1>12, <1>13, <1>14, <1>15 DEF TakenInOrder

(* Every valid version is one the comparison can work with.                *)
LEMMA ListableVersion ==
    ASSUME NEW t \in Listable
    PROVE  Version(t) /\ t.build \in Seq(Seq(Int))
BY TextsAssumption DEF Listable, validVersion, Version

(* The less of the stable sort orders the positions one after the other.   *)
LEMMA SortedTotal ==
    ASSUME NEW s \in Seq(Listable)
    PROVE  TotalOn(Sorted(s), 1..Len(s))
<1>1. Len(s) \in Nat /\ DOMAIN s = 1..Len(s)
    OBVIOUS
<1>2. ASSUME NEW x \in 1..Len(s) PROVE Version(s[x])
  <2>1. s[x] \in Listable
      OBVIOUS
  <2> QED
      BY <2>1, ListableVersion
<1>3. ASSUME NEW x \in 1..Len(s), NEW y \in 1..Len(s)
      PROVE  /\ compareSemver(s[x], s[y]) \in Signs
             /\ compareSemver(s[y], s[x]) = -compareSemver(s[x], s[y])
    BY <1>2, VersionsOrdered
<1>4. ASSUME NEW x \in 1..Len(s), NEW y \in 1..Len(s), NEW z \in 1..Len(s)
      PROVE  Composes(compareSemver(s[x], s[y]), compareSemver(s[y], s[z]), compareSemver(s[x], s[z]))
    BY <1>2, VersionsOrdered
<1>5. \A x, y \in 1..Len(s) :
          <<x, y>> \in Sorted(s) <=>
              compareSemver(s[x], s[y]) < 0 \/ (compareSemver(s[x], s[y]) = 0 /\ x < y)
    BY <1>1 DEF Sorted
<1>6. ASSUME NEW x \in 1..Len(s) PROVE <<x, x>> \notin Sorted(s)
  <2>1. compareSemver(s[x], s[x]) = 0
      BY <1>3 DEF Signs
  <2> QED
      BY <1>1, <1>5, <2>1
<1>7. ASSUME NEW x \in 1..Len(s), NEW y \in 1..Len(s)
      PROVE  x = y \/ <<x, y>> \in Sorted(s) \/ <<y, x>> \in Sorted(s)
  <2>1. compareSemver(s[x], s[y]) \in Signs /\ compareSemver(s[y], s[x]) = -compareSemver(s[x], s[y])
      BY <1>3
  <2> QED
      BY <1>1, <1>5, <2>1 DEF Signs
<1>8. ASSUME NEW x \in 1..Len(s), NEW y \in 1..Len(s), NEW z \in 1..Len(s),
             <<x, y>> \in Sorted(s), <<y, z>> \in Sorted(s)
      PROVE  <<x, z>> \in Sorted(s)
  <2>1. PICK a, b, c : /\ a = compareSemver(s[x], s[y])
                       /\ b = compareSemver(s[y], s[z])
                       /\ c = compareSemver(s[x], s[z])
      OBVIOUS
  <2>2. a \in Signs /\ b \in Signs /\ c \in Signs
      BY <1>3, <2>1
  <2>3. Composes(a, b, c)
      BY <1>4, <2>1
  <2>4. (a < 0 \/ (a = 0 /\ x < y)) /\ (b < 0 \/ (b = 0 /\ y < z))
      BY <1>5, <1>8, <2>1
  <2>5. c < 0 \/ (c = 0 /\ x < z)
      BY <1>1, <2>2, <2>3, <2>4 DEF Composes, Signs
  <2> QED
      BY <1>5, <2>1, <2>5
<1> QED
    BY <1>6, <1>7, <1>8 DEF TotalOn

(* S has the versions of s, and has them in order; those that compare      *)
(* equal are in the order they have in s.                                  *)
StableSort(S, s) ==
    /\ S \in Seq(Listable) /\ Len(S) = Len(s) /\ Range(S) = Range(s)
    /\ IsInjective(s) => IsInjective(S)
    /\ \A i, k \in 1..Len(S) :
          i < k => /\ compareSemver(S[i], S[k]) <= 0
                   /\ compareSemver(S[i], S[k]) = 0 =>
                         \E m, n \in 1..Len(s) : m < n /\ S[i] = s[m] /\ S[k] = s[n]

(* W has the versions of s except for v, in the order they have in s.      *)
Removal(W, s, v) ==
    /\ W \in Seq(Listable) /\ Len(W) <= Len(s) /\ Range(W) = Range(s) \ {v}
    /\ IsInjective(s) => IsInjective(W)
    /\ \A i, k \in 1..Len(W) :
          i < k => \E m, n \in 1..Len(s) : m < n /\ W[i] = s[m] /\ W[k] = s[n]

(* SliceStable sorts, and is stable.                                       *)
THEOREM SortIsStable ==
    ASSUME NEW s \in Seq(Listable)
    PROVE  StableSort(sortSemanticVersions(s), s)
<1>1. PICK I, R, S : I = 1..Len(s) /\ R = Sorted(s) /\ S = sortSemanticVersions(s)
    OBVIOUS
<1>2. Len(s) \in Nat /\ DOMAIN s = I /\ S = InOrder(s, I, R)
    BY <1>1 DEF sortSemanticVersions
<1>3. TotalOn(R, I) /\ I \in SUBSET (1..Len(s))
    BY <1>1, SortedTotal
<1>4. /\ S \in Seq(Listable) /\ Len(S) = Cardinality(I) /\ Range(S) = {s[i] : i \in I}
      /\ IsInjective(s) => IsInjective(S)
      /\ \A i, k \in 1..Len(S) : i < k => \E m, n \in I : <<m, n>> \in R /\ S[i] = s[m] /\ S[k] = s[n]
  <2>1. TakenInOrder(S, s, Listable, I, R)
      BY <1>2, <1>3, InOrderResult
  <2> QED
      BY <2>1 DEF TakenInOrder
<1>5. Cardinality(I) = Len(s)
  <2>1. Cardinality(1..Len(s)) = IF 1 > Len(s) THEN 0 ELSE Len(s) - 1 + 1
      BY <1>2, FS_Interval
  <2> QED
      BY <1>1, <1>2, <2>1
<1>6. Range(S) = Range(s)
    BY <1>2, <1>4 DEF Range
<1>7. ASSUME NEW i \in 1..Len(S), NEW k \in 1..Len(S), i < k
      PROVE  /\ compareSemver(S[i], S[k]) <= 0
             /\ compareSemver(S[i], S[k]) = 0 =>
                   \E m, n \in 1..Len(s) : m < n /\ S[i] = s[m] /\ S[k] = s[n]
  <2>1. PICK m \in I, n \in I : <<m, n>> \in R /\ S[i] = s[m] /\ S[k] = s[n]
      BY <1>4, <1>7
  <2>2. PICK c : c = compareSemver(S[i], S[k])
      OBVIOUS
  <2>3. c < 0 \/ (c = 0 /\ m < n)
      BY <1>1, <1>2, <2>1, <2>2 DEF Sorted
  <2>4. c \in Signs
    <3>1. S[i] \in Listable /\ S[k] \in Listable
        BY <1>4
    <3>2. Version(S[i]) /\ Version(S[k])
        BY <3>1, ListableVersion
    <3> QED
        BY <2>2, <3>2, VersionsOrdered
  <2> QED
      BY <1>1, <2>1, <2>2, <2>3, <2>4 DEF Signs
<1> QED
    BY <1>1, <1>4, <1>5, <1>6, <1>7 DEF StableSort

(* The loop of removeVersionFromIndex removes a version and nothing else.  *)
LEMMA RemovesOnly ==
    ASSUME NEW s \in Seq(Listable), NEW v
    PROVE  Removal(WithoutVersion(s, v), s, v)
<1>1. PICK I, R, W : I = {i \in DOMAIN s : s[i] # v} /\ R = Positions(s) /\ W = WithoutVersion(s, v)
    OBVIOUS
<1>2. Len(s) \in Nat /\ DOMAIN s = 1..Len(s) /\ W = InOrder(s, I, R)
    BY <1>1 DEF WithoutVersion
<1>3. I \in SUBSET (1..Len(s))
    BY <1>1, <1>2
<1>4. \A m, n \in I : <<m, n>> \in R <=> m < n
    BY <1>1, <1>2, <1>3 DEF Positions
<1>5. TotalOn(R, I)
    BY <1>2, <1>3, <1>4 DEF TotalOn
<1>6. /\ W \in Seq(Listable) /\ Len(W) <= Len(s) /\ Range(W) = {s[i] : i \in I}
      /\ IsInjective(s) => IsInjective(W)
      /\ \A i, k \in 1..Len(W) : i < k => \E m, n \in I : <<m, n>> \in R /\ W[i] = s[m] /\ W[k] = s[n]
  <2>1. TakenInOrder(W, s, Listable, I, R)
      BY <1>2, <1>3, <1>5, InOrderResult
  <2> QED
      BY <2>1 DEF TakenInOrder
<1>7. Range(W) = Range(s) \ {v}
  <2>1. Range(s) = {s[i] : i \in 1..Len(s)} /\ Range(W) = {s[i] : i \in I}
      BY <1>2, <1>6 DEF Range
  <2>2. I = {i \in 1..Len(s) : s[i] # v}
      BY <1>1, <1>2
  <2> QED
      BY <2>1, <2>2
<1>8. \A i, k \in 1..Len(W) : i < k => \E m, n \in 1..Len(s) : m < n /\ W[i] = s[m] /\ W[k] = s[n]
    BY <1>3, <1>4, <1>6
<1> QED
    BY <1>1, <1>6, <1>7, <1>8 DEF Removal

-----------------------------------------------------------------------------
(* The inductive invariant *)

(* Versions of s that compare equal are in the order they have in a.       *)
InArrival(s, a) ==
    \A m, n \in 1..Len(s) :
        m < n /\ compareSemver(s[m], s[n]) = 0 =>
            \A p, q \in 1..Len(a) : a[p] = s[m] /\ a[q] = s[n] => p < q

IInv == TypeOK /\ InArrival(index, arrived)

(* Sorting does not change that.                                           *)
LEMMA SortKeepsArrival ==
    ASSUME NEW S, NEW s, NEW a, StableSort(S, s), InArrival(s, a)
    PROVE  InArrival(S, a)
<1>1. SUFFICES ASSUME NEW i \in 1..Len(S), NEW k \in 1..Len(S), i < k, compareSemver(S[i], S[k]) = 0,
                      NEW p \in 1..Len(a), NEW q \in 1..Len(a), a[p] = S[i], a[q] = S[k]
               PROVE  p < q
    BY DEF InArrival
<1>2. PICK m \in 1..Len(s), n \in 1..Len(s) : m < n /\ S[i] = s[m] /\ S[k] = s[n]
    BY <1>1 DEF StableSort
<1> QED
    BY <1>1, <1>2 DEF InArrival

(* Nor does a new version at the end of both.                              *)
LEMMA AppendKeepsArrival ==
    ASSUME NEW s \in Seq(Listable), NEW a \in Seq(Listable), NEW v \in Listable,
           v \notin Range(s), v \notin Range(a), InArrival(s, a)
    PROVE  InArrival(Append(s, v), Append(a, v))
<1>1. PICK t, b, l, e : t = Append(s, v) /\ b = Append(a, v) /\ l = Len(s) /\ e = Len(a)
    OBVIOUS
<1>2. /\ l \in Nat /\ Len(t) = l + 1 /\ t[l + 1] = v /\ \A i \in 1..l : t[i] = s[i]
      /\ e \in Nat /\ Len(b) = e + 1 /\ b[e + 1] = v /\ \A i \in 1..e : b[i] = a[i]
    BY <1>1
<1>3. (\A i \in 1..l : s[i] # v) /\ \A i \in 1..e : a[i] # v
  <2>1. DOMAIN s = 1..l /\ DOMAIN a = 1..e
      BY <1>1
  <2>2. \A i \in 1..l : s[i] # v
      BY <2>1 DEF Range
  <2>3. \A i \in 1..e : a[i] # v
      BY <2>1 DEF Range
  <2> QED
      BY <2>2, <2>3
<1>4. ASSUME NEW m \in 1..Len(t), NEW n \in 1..Len(t), m < n, compareSemver(t[m], t[n]) = 0,
             NEW p \in 1..Len(b), NEW q \in 1..Len(b), b[p] = t[m], b[q] = t[n]
      PROVE  p < q
  <2>1. m \in 1..l /\ t[m] = s[m] /\ t[m] # v
      BY <1>2, <1>3, <1>4
  <2>2. p \in 1..e /\ b[p] = a[p]
      BY <1>2, <1>4, <2>1
  <2>3. CASE n = l + 1
    <3>1. q = e + 1
      <4>1. b[q] = v /\ q \in 1..(e + 1)
          BY <1>2, <1>4, <2>3
      <4>2. ASSUME q \in 1..e PROVE FALSE
          BY <1>2, <1>3, <4>1, <4>2
      <4> QED
          BY <1>2, <4>1, <4>2
    <3> QED
        BY <1>2, <2>2, <3>1
  <2>4. CASE n # l + 1
    <3>1. n \in 1..l /\ t[n] = s[n] /\ t[n] # v
        BY <1>2, <1>3, <1>4, <2>4
    <3>2. q \in 1..e /\ b[q] = a[q]
        BY <1>2, <1>4, <3>1
    <3> QED
        BY <1>1, <1>4, <2>1, <2>2, <3>1, <3>2 DEF InArrival
  <2> QED
      BY <2>3, <2>4
<1> QED
    BY <1>1, <1>4 DEF InArrival

(* Nor does the removal of a version from both.                            *)
LEMMA RemovalKeepsArrival ==
    ASSUME NEW s, NEW a \in Seq(Listable), NEW W, NEW b, NEW v,
           Removal(W, s, v), Removal(b, a, v), InArrival(s, a)
    PROVE  InArrival(W, b)
<1>1. SUFFICES ASSUME NEW i \in 1..Len(W), NEW k \in 1..Len(W), i < k, compareSemver(W[i], W[k]) = 0,
                      NEW p \in 1..Len(b), NEW q \in 1..Len(b), b[p] = W[i], b[q] = W[k]
               PROVE  p < q
    BY DEF InArrival
<1>2. PICK m \in 1..Len(s), n \in 1..Len(s) : m < n /\ W[i] = s[m] /\ W[k] = s[n]
    BY <1>1 DEF Removal
<1>3. \A x, y \in 1..Len(a) : a[x] = W[i] /\ a[y] = W[k] => x < y
    BY <1>1, <1>2 DEF InArrival
<1>4. b \in Seq(Listable) /\ Range(b) \subseteq Range(a)
    BY DEF Removal
<1>5. p # q
  <2>1. SUFFICES ASSUME p = q PROVE FALSE
      OBVIOUS
  <2>2. b[p] \in Range(a)
    <3>1. p \in DOMAIN b
        BY <1>4
    <3>2. b[p] \in Range(b)
        BY <3>1 DEF Range
    <3> QED
        BY <1>4, <3>2
  <2>3. PICK x \in 1..Len(a) : a[x] = b[p]
      BY <2>2 DEF Range
  <2>4. x < x
      BY <1>1, <1>3, <2>1, <2>3
  <2> QED
      BY <2>4
<1>6. ~(q < p)
  <2>1. SUFFICES ASSUME q < p PROVE FALSE
      OBVIOUS
  <2>2. PICK x \in 1..Len(a), y \in 1..Len(a) : x < y /\ b[q] = a[x] /\ b[p] = a[y]
      BY <2>1 DEF Removal
  <2>3. y < x
      BY <1>1, <1>3, <2>2
  <2> QED
      BY <2>2, <2>3
<1>7. p \in Int /\ q \in Int
    BY <1>4
<1> QED
    BY <1>5, <1>6, <1>7

(* It holds of an index file in any order.                                 *)
LEMMA InitIInv == Init => IInv
<1>1. SUFFICES ASSUME Init PROVE IInv
    OBVIOUS
<1>2. PICK n \in 0..MaxListed : index \in [1..n -> Listable]
    BY <1>1 DEF Init
<1>3. n \in Nat /\ n <= MaxListed
    BY BoundAssumption
<1>4. index \in Seq(Listable) /\ Len(index) = n /\ IsInjective(index) /\ arrived = index
    BY <1>1, <1>2, <1>3 DEF Init
<1>5. TypeOK
    BY <1>3, <1>4 DEF TypeOK
<1>6. InArrival(index, arrived)
    BY <1>4 DEF InArrival, IsInjective
<1> QED
    BY <1>5, <1>6 DEF IInv

(* addVersionToIndex keeps it.                                             *)
LEMMA AddKeeps ==
    ASSUME IInv, NEW v \in Texts, AddVersion(v)
    PROVE  IInv'
<1>1. PICK s, a, S, t, b :
          s = index /\ a = arrived /\ S = Listed /\ t = index' /\ b = arrived'
    OBVIOUS
<1>2. /\ s \in Seq(Listable) /\ IsInjective(s) /\ Len(s) < MaxListed /\ v \in Listable
      /\ a \in Seq(Listable) /\ IsInjective(a) /\ Range(a) = Range(s) /\ InArrival(s, a)
    BY <1>1 DEF IInv, TypeOK, AddVersion
<1>3. StableSort(S, s)
    BY <1>1, <1>2, SortIsStable DEF Listed
<1>4. S \in Seq(Listable) /\ Len(S) = Len(s) /\ Range(S) = Range(s) /\ IsInjective(S)
    BY <1>2, <1>3 DEF StableSort
<1>5. InArrival(S, a)
    BY <1>2, <1>3, SortKeepsArrival
<1>6. CASE v \in Range(s)
  <2>1. t = s /\ b = a
      BY <1>1, <1>2, <1>4, <1>6 DEF AddVersion, WithVersion
  <2> QED
      BY <1>1, <2>1 DEF IInv, TypeOK, InArrival
<1>7. CASE v \notin Range(s)
  <2>1. PICK u : u = Append(S, v)
      OBVIOUS
  <2>2. t = sortSemanticVersions(u) /\ b = Append(a, v)
      BY <1>1, <1>2, <1>4, <1>7, <2>1 DEF AddVersion, WithVersion
  <2>3. u \in Seq(Listable) /\ Len(u) = Len(s) + 1
      BY <1>2, <1>4, <2>1
  <2>4. StableSort(t, u)
      BY <2>2, <2>3, SortIsStable
  <2>5. InArrival(u, b)
      BY <1>2, <1>4, <1>5, <1>7, <2>1, <2>2, AppendKeepsArrival
  <2>6. InArrival(t, b)
      BY <2>4, <2>5, SortKeepsArrival
  <2>7. ASSUME NEW x \in Seq(Listable), IsInjective(x), v \notin Range(x)
        PROVE  IsInjective(Append(x, v)) /\ Range(Append(x, v)) = Range(x) \cup {v}
    <3>1. PICK y, l : y = Append(x, v) /\ l = Len(x)
        OBVIOUS
    <3>2. /\ l \in Nat /\ DOMAIN x = 1..l
          /\ DOMAIN y = 1..(l + 1) /\ y[l + 1] = v /\ \A i \in 1..l : y[i] = x[i]
        BY <3>1, <1>2
    <3>3. \A i \in 1..l : x[i] # v
        BY <2>7, <3>2 DEF Range
    <3>4. IsInjective(y)
      <4>1. ASSUME NEW i \in 1..(l + 1), NEW k \in 1..(l + 1), y[i] = y[k] PROVE i = k
        <5>1. i \in 1..l /\ k \in 1..l => i = k
            BY <2>7, <3>2, <4>1 DEF IsInjective
        <5> QED
            BY <3>2, <3>3, <4>1, <5>1
      <4> QED
          BY <3>2, <4>1 DEF IsInjective
    <3>5. Range(y) = Range(x) \cup {v}
      <4>1. Range(y) = {y[i] : i \in 1..(l + 1)} /\ Range(x) = {x[i] : i \in 1..l}
          BY <3>2 DEF Range
      <4>2. \A i \in 1..(l + 1) : i \in 1..l \/ i = l + 1
          BY <3>2
      <4>3. \A i \in 1..l : i \in 1..(l + 1)
          BY <3>2
      <4>4. l + 1 \in 1..(l + 1)
          BY <3>2
      <4> QED
          BY <3>2, <4>1, <4>2, <4>3, <4>4
    <3> QED
        BY <3>1, <3>4, <3>5
  <2>8. IsInjective(u) /\ Range(u) = Range(s) \cup {v}
      BY <1>4, <1>7, <2>1, <2>7
  <2>9. b \in Seq(Listable) /\ IsInjective(b) /\ Range(b) = Range(s) \cup {v}
      BY <1>2, <1>7, <2>2, <2>7
  <2>10. t \in Seq(Listable) /\ IsInjective(t) /\ Len(t) = Len(s) + 1 /\ Range(t) = Range(b)
      BY <2>3, <2>4, <2>8, <2>9 DEF StableSort
  <2>11. Len(t) <= MaxListed
      BY <1>2, <2>10, BoundAssumption
  <2> QED
      BY <1>1, <2>6, <2>9, <2>10, <2>11 DEF IInv, TypeOK, InArrival
<1> QED
    BY <1>6, <1>7

(* So does removeVersionFromIndex.                                         *)
LEMMA RemoveKeeps ==
    ASSUME IInv, NEW v \in Texts, RemoveVersion(v)
    PROVE  IInv'
<1>1. PICK s, a, S, t, b :
          s = index /\ a = arrived /\ S = Listed /\ t = index' /\ b = arrived'
    OBVIOUS
<1>2. /\ s \in Seq(Listable) /\ IsInjective(s) /\ Len(s) <= MaxListed
      /\ a \in Seq(Listable) /\ IsInjective(a) /\ Range(a) = Range(s) /\ InArrival(s, a)
    BY <1>1 DEF IInv, TypeOK
<1>3. StableSort(S, s)
    BY <1>1, <1>2, SortIsStable DEF Listed
<1>4. S \in Seq(Listable) /\ Len(S) = Len(s) /\ Range(S) = Range(s) /\ IsInjective(S)
    BY <1>2, <1>3 DEF StableSort
<1>5. InArrival(S, a)
    BY <1>2, <1>3, SortKeepsArrival
<1>6. t = WithoutVersion(S, v) /\ b = WithoutVersion(a, v)
    BY <1>1 DEF RemoveVersion
<1>7. Removal(t, S, v) /\ Removal(b, a, v)
    BY <1>2, <1>4, <1>6, RemovesOnly
<1>8. InArrival(t, b)
    BY <1>2, <1>5, <1>7, RemovalKeepsArrival
<1>9. /\ t \in Seq(Listable) /\ IsInjective(t) /\ Len(t) <= Len(S)
      /\ b \in Seq(Listable) /\ IsInjective(b) /\ Range(b) = Range(t)
    BY <1>2, <1>4, <1>7 DEF Removal
<1>10. Len(t) <= MaxListed
    BY <1>2, <1>4, <1>9, BoundAssumption
<1> QED
    BY <1>1, <1>8, <1>9, <1>10 DEF IInv, TypeOK, InArrival

(* The index is a sequence of valid versions without repetition, and those *)
(* that compare equal are in the order of their arrival, after every step. *)
THEOREM IndexInvariant == Spec => []IInv
<1>1. IInv /\ [Next]_vars => IInv'
  <2>1. SUFFICES ASSUME IInv, [Next]_vars PROVE IInv'
      OBVIOUS
  <2>2. CASE UNCHANGED vars
      BY <2>1, <2>2 DEF IInv, TypeOK, InArrival, vars
  <2>3. CASE Next
      BY <2>1, <2>3, AddKeeps, RemoveKeeps DEF Next
  <2> QED
      BY <2>1, <2>2, <2>3
<1> QED
    BY <1>1, InitIInv, PTL DEF Spec

-----------------------------------------------------------------------------
(* The grammar *)

(* What the parser asks of a number is what the grammar asks of it, up to  *)
(* its size.                                                               *)
LEMMA NumberIs ==
    ASSUME NEW id \in Seq(Int)
    PROVE  Number(id) <=> id # <<>> /\ AllDigits(id) /\ ~LeadingZero(id)
<1>1. Len(id) \in Nat /\ (id # <<>> => Len(id) > 0)
    OBVIOUS
<1>2. id # <<>> => ((id[1] = 0 => Len(id) = 1) <=> ~(Len(id) > 1 /\ id[1] = 0))
  <2>1. PICK l, f : l = Len(id) /\ f = id[1]
      OBVIOUS
  <2>2. l \in Nat /\ l > 0 => ((f = 0 => l = 1) <=> ~(l > 1 /\ f = 0))
      OBVIOUS
  <2> QED
      BY <1>1, <2>1, <2>2
<1>3. AllDigits(id) \in BOOLEAN
    BY DEF AllDigits
<1> QED
    BY <1>2, <1>3, Zenon DEF Number, LeadingZero

(* The parts of a string in a request are sequences of texts.              *)
LEMMA TextParts ==
    ASSUME NEW t \in Texts
    PROVE  /\ t.core \in Seq(Seq(Int)) /\ t.pre \in Seq(Seq(Int)) /\ t.build \in Seq(Seq(Int))
           /\ \A i \in DOMAIN t.core : t.core[i] \in Seq(Int)
           /\ \A i \in DOMAIN t.pre : t.pre[i] \in Seq(Int)
<1>1. t.core \in Seq(Seq(Int)) /\ t.pre \in Seq(Seq(Int)) /\ t.build \in Seq(Seq(Int))
    BY TextsAssumption
<1> QED
    BY <1>1

(* The three numbers of a version that is valid, in terms of the grammar.  *)
LEMMA CoreNumbers ==
    ASSUME NEW t \in Texts
    PROVE  Len(t.core) = 3 =>
               \A i \in 1..3 : /\ t.core[i] \in Seq(Int) /\ Value(t.core[i]) \in Int
                               /\ numericIdentifier(t.core[i]) /\ ~LeadingZero(t.core[i])
                                  <=> Number(t.core[i]) /\ Value(t.core[i]) <= MaxUint
<1>1. SUFFICES ASSUME Len(t.core) = 3, NEW i \in 1..3
               PROVE  /\ t.core[i] \in Seq(Int) /\ Value(t.core[i]) \in Int
                      /\ numericIdentifier(t.core[i]) /\ ~LeadingZero(t.core[i])
                         <=> Number(t.core[i]) /\ Value(t.core[i]) <= MaxUint
    OBVIOUS
<1>2. PICK id : id = t.core[i]
    OBVIOUS
<1>3. id \in Seq(Int)
    BY <1>1, <1>2, TextParts
<1>4. Value(id) \in Int
    BY <1>3, ValueType
<1>5. Number(id) <=> id # <<>> /\ AllDigits(id) /\ ~LeadingZero(id)
    BY <1>3, NumberIs
<1> QED
    BY <1>2, <1>3, <1>4, <1>5 DEF numericIdentifier

(* The identifiers of a valid version.                                     *)
LEMMA IdentifiersGrammar ==
    ASSUME NEW t \in Texts
    PROVE  validIdentifiers(t.build, FALSE) /\ validIdentifiers(t.pre, TRUE) <=>
               /\ \A i \in DOMAIN t.pre : AllDigits(t.pre[i]) => Number(t.pre[i])
               /\ \A id \in Range(t.pre) \cup Range(t.build) :
                     id # <<>> /\ \A c \in Range(id) : c >= Hyphen
<1>1. PICK p, b : p = t.pre /\ b = t.build
    OBVIOUS
<1>2. ASSUME NEW id PROVE (\A k \in DOMAIN id : id[k] >= Hyphen) <=> \A c \in Range(id) : c >= Hyphen
    BY DEF Range
<1>3. \A s : (\A id \in Range(s) : id # <<>> /\ \A c \in Range(id) : c >= Hyphen)
             <=> \A i \in DOMAIN s : s[i] # <<>> /\ \A c \in Range(s[i]) : c >= Hyphen
  <2>1. ASSUME NEW s PROVE Range(s) = {s[i] : i \in DOMAIN s}
      BY DEF Range
  <2> QED
      BY <2>1
<1>4. \A i \in DOMAIN p : p[i] # <<>> => (Number(p[i]) <=> AllDigits(p[i]) /\ ~LeadingZero(p[i]))
    BY <1>1, TextParts, NumberIs
<1>5. validIdentifiers(b, FALSE) <=> \A i \in DOMAIN b : b[i] # <<>> /\ \A c \in Range(b[i]) : c >= Hyphen
    BY <1>2 DEF validIdentifiers
<1>6. validIdentifiers(p, TRUE) <=>
          /\ \A i \in DOMAIN p : AllDigits(p[i]) => Number(p[i])
          /\ \A i \in DOMAIN p : p[i] # <<>> /\ \A c \in Range(p[i]) : c >= Hyphen
    BY <1>2, <1>4 DEF validIdentifiers
<1> QED
    BY <1>1, <1>3, <1>5, <1>6

(* Valid are the grammatical versions whose numbers fit.                   *)
LEMMA ValidIsGrammatical ==
    ASSUME NEW t \in Texts
    PROVE  validVersion(t) <=> Grammatical(t) /\ \A i \in 1..3 : Value(t.core[i]) <= MaxUint
<1>1. validIdentifiers(t.build, FALSE) /\ validIdentifiers(t.pre, TRUE) <=>
          /\ \A i \in DOMAIN t.pre : AllDigits(t.pre[i]) => Number(t.pre[i])
          /\ \A id \in Range(t.pre) \cup Range(t.build) :
                id # <<>> /\ \A c \in Range(id) : c >= Hyphen
    BY IdentifiersGrammar
<1>2. Len(t.core) = 3 =>
          \A i \in 1..3 : numericIdentifier(t.core[i]) /\ ~LeadingZero(t.core[i])
                             <=> Number(t.core[i]) /\ Value(t.core[i]) <= MaxUint
    BY CoreNumbers
<1> QED
    BY <1>1, <1>2 DEF validVersion, Grammatical

-----------------------------------------------------------------------------
(* The precedence *)

(* Sequences with the same elements are equal.                             *)
LEMMA SequencesEqual ==
    ASSUME NEW X, NEW s \in Seq(X), NEW t \in Seq(X), Len(s) = Len(t),
           \A i \in 1..Len(s) : s[i] = t[i]
    PROVE  s = t
<1>1. s \in [1..Len(s) -> X] /\ t \in [1..Len(s) -> X]
    OBVIOUS
<1> QED
    BY <1>1

(* Sequences that differ have a first difference, or one begins with the   *)
(* other.                                                                  *)
LEMMA FirstDiffering ==
    ASSUME NEW X, NEW s \in Seq(X), NEW t \in Seq(X), s # t
    PROVE  \E n \in Nat : /\ n <= Len(s) /\ n <= Len(t)
                          /\ \A k \in 1..n : s[k] = t[k]
                          /\ \/ n = Len(s) /\ n < Len(t)
                             \/ n = Len(t) /\ n < Len(s)
                             \/ n < Len(s) /\ n < Len(t) /\ s[n + 1] # t[n + 1]
<1>1. PICK l, m : l = Len(s) /\ m = Len(t)
    OBVIOUS
<1>2. l \in Nat /\ m \in Nat
    BY <1>1
<1>3. PICK T : T = {i \in Nat : 1 <= i /\ i <= l /\ i <= m /\ s[i] # t[i]}
    OBVIOUS
<1>4. CASE T = {}
  <2>1. \A i \in Nat : 1 <= i /\ i <= l /\ i <= m => s[i] = t[i]
      BY <1>3, <1>4
  <2>2. l # m
    <3>1. SUFFICES ASSUME l = m PROVE FALSE
        OBVIOUS
    <3>2. \A i \in 1..Len(s) : s[i] = t[i]
        BY <1>1, <1>2, <2>1, <3>1
    <3>3. s = t
        BY <1>1, <3>1, <3>2, SequencesEqual
    <3> QED
        BY <3>3
  <2>3. CASE l < m
      BY <1>1, <1>2, <2>1, <2>3
  <2>4. CASE m < l
      BY <1>1, <1>2, <2>1, <2>4
  <2> QED
      BY <1>2, <2>2, <2>3, <2>4
<1>5. CASE T # {}
  <2>1. PICK i \in T : \A k \in T : i <= k
    <3>1. T \in SUBSET Nat
        BY <1>3
    <3> QED
        BY <1>5, <3>1, LeastNumber
  <2>2. PICK n : n = i - 1
      OBVIOUS
  <2>3. n \in Nat /\ n + 1 = i /\ n < l /\ n < m /\ s[n + 1] # t[n + 1]
      BY <1>2, <1>3, <2>1, <2>2
  <2>4. \A k \in 1..n : s[k] = t[k]
      BY <1>2, <1>3, <2>1, <2>3
  <2> QED
      BY <1>1, <2>3, <2>4
<1> QED
    BY <1>4, <1>5

(* Equal beginnings, as the reference has them.                            *)
LEMMA EqualBeginnings ==
    ASSUME NEW X, NEW s \in Seq(X), NEW t \in Seq(X), NEW n \in Nat, n <= Len(s), n <= Len(t)
    PROVE  SubSeq(s, 1, n) = SubSeq(t, 1, n) <=> \A k \in 1..n : s[k] = t[k]
<1>1. PICK u, w : u = SubSeq(s, 1, n) /\ w = SubSeq(t, 1, n)
    OBVIOUS
<1>2. u \in Seq(X) /\ Len(u) = n /\ \A k \in 1..n : u[k] = s[k]
    BY <1>1
<1>3. w \in Seq(X) /\ Len(w) = n /\ \A k \in 1..n : w[k] = t[k]
    BY <1>1
<1>4. ASSUME \A k \in 1..n : s[k] = t[k] PROVE u = w
  <2>1. Len(u) = Len(w) /\ \A k \in 1..Len(u) : u[k] = w[k]
      BY <1>2, <1>3, <1>4
  <2> QED
      BY <1>2, <1>3, <2>1, SequencesEqual
<1>5. ASSUME u = w PROVE \A k \in 1..n : s[k] = t[k]
    BY <1>2, <1>3, <1>5
<1> QED
    BY <1>1, <1>4, <1>5

(* Nothing differs from itself.                                            *)
LEMMA SameIsEqual ==
    /\ \A a \in Seq(Int) : CompareNumbers(a, a) = 0 /\ CompareIdentifiers(a, a) = 0
    /\ \A p \in Seq(Seq(Int)) : ComparePre(p, p) = 0
<1>1. ASSUME NEW a \in Seq(Int) PROVE CompareNumbers(a, a) = 0 /\ CompareIdentifiers(a, a) = 0
  <2>1. CompareNumbers(a, a) \in Signs /\ CompareNumbers(a, a) = -CompareNumbers(a, a)
      BY NumbersOrdered
  <2>2. CompareIdentifiers(a, a) \in Signs /\ CompareIdentifiers(a, a) = -CompareIdentifiers(a, a)
      BY IdentifiersOrdered
  <2> QED
      BY <2>1, <2>2 DEF Signs
<1>2. ASSUME NEW p \in Seq(Seq(Int)) PROVE ComparePre(p, p) = 0
  <2>1. ComparePre(p, p) \in Signs /\ ComparePre(p, p) = -ComparePre(p, p)
      BY PreOrdered
  <2> QED
      BY <2>1 DEF Signs
<1> QED
    BY <1>1, <1>2

(* Two sequences with n equal elements, of which the first is at its end   *)
(* or has the lesser one next: the comparison finds it less.               *)
LEMMA LessIsFound ==
    ASSUME NEW l \in Nat, NEW m \in Nat, NEW lm, lm = IF l < m THEN l ELSE m,
           NEW d, Comparison(d, lm), NEW n \in Nat, n <= l, n < m,
           \A k \in 1..n : d[k] = 0, n = l \/ (n < l /\ d[n + 1] = -1)
    PROVE  FirstDifference(d, l, m) = -1
<1>1. CASE n = l
  <2>1. \A i \in 1..lm : d[i] = 0
      BY <1>1
  <2>2. FirstDifference(d, l, m) = Sign(l - m)
      BY <2>1, DecidedByLength
  <2> QED
      BY <1>1, <2>2 DEF Sign
<1>2. CASE n < l /\ d[n + 1] = -1
  <2>1. PICK i : i = n + 1
      OBVIOUS
  <2>2. i \in 1..lm /\ \A k \in 1..(i - 1) : k \in 1..n
      BY <1>2, <2>1
  <2>3. DiffersFirstAt(d, i) /\ d[i] = -1
      BY <1>2, <2>1, <2>2 DEF DiffersFirstAt
  <2> QED
      BY <2>2, <2>3, DecidedAt
<1> QED
    BY <1>1, <1>2

(* Text that precedes in ASCII order compares as less.                     *)
LEMMA TextPrecedes ==
    ASSUME NEW a \in Seq(Int), NEW b \in Seq(Int), NEW n \in Nat, n <= Len(a), n < Len(b),
           \A k \in 1..n : a[k] = b[k], n = Len(a) \/ (n < Len(a) /\ a[n + 1] < b[n + 1])
    PROVE  CompareText(a, b) = -1
<1>1. PICK l, m : l = Len(a) /\ m = Len(b)
    OBVIOUS
<1>2. /\ l \in Nat /\ \A i \in 1..l : a[i] \in Int
      /\ m \in Nat /\ \A i \in 1..m : b[i] \in Int
    BY <1>1
<1>3. PICK lm : lm = IF l < m THEN l ELSE m
    OBVIOUS
<1>4. PICK d : d = [i \in 1..lm |-> Sign(a[i] - b[i])]
    OBVIOUS
<1>5. Comparison(d, lm)
    BY <1>2, <1>3, <1>4 DEF Comparison, Sign, Signs
<1>6. \A k \in 1..n : d[k] = 0
    BY <1>1, <1>2, <1>3, <1>4 DEF Sign
<1>7. n = l \/ (n < l /\ d[n + 1] = -1)
    BY <1>1, <1>2, <1>3, <1>4 DEF Sign
<1>8. FirstDifference(d, l, m) = -1
    BY <1>1, <1>2, <1>3, <1>5, <1>6, <1>7, LessIsFound
<1>9. CompareText(a, b) = FirstDifference(d, l, m)
    BY <1>1, <1>3, <1>4 DEF CompareText, Common
<1> QED
    BY <1>8, <1>9

(* An identifier that fits uint64 if it is a number.                       *)
FitsIdentifier(id) == id \in Seq(Int) /\ id # <<>> /\ (AllDigits(id) => Value(id) <= MaxUint)

(* Identifiers that fit compare as the reference orders them.              *)
LEMMA IdentifierIsFound ==
    ASSUME NEW a, NEW b, FitsIdentifier(a), FitsIdentifier(b), IdentifierPrecedes(a, b)
    PROVE  CompareIdentifiers(a, b) = -1
<1>1. a \in Seq(Int) /\ b \in Seq(Int) /\ Len(a) \in Nat /\ Len(b) \in Nat
    BY DEF FitsIdentifier
<1>2. (numericIdentifier(a) <=> AllDigits(a)) /\ (numericIdentifier(b) <=> AllDigits(b))
    BY DEF FitsIdentifier, numericIdentifier, AllDigits
<1>3. CASE AllDigits(a) /\ AllDigits(b) /\ Value(a) < Value(b)
  <2>1. Value(a) \in Int /\ Value(b) \in Int
      BY <1>1, ValueType
  <2>2. CompareNumbers(a, b) = -1
      BY <1>3, <2>1 DEF CompareNumbers, Sign
  <2> QED
      BY <1>2, <1>3, <2>2 DEF CompareIdentifiers
<1>4. CASE AllDigits(a) /\ ~AllDigits(b)
    BY <1>2, <1>4 DEF CompareIdentifiers
<1>5. CASE /\ ~AllDigits(a) /\ ~AllDigits(b)
           /\ \E n \in 0..Len(a) :
                 /\ n < Len(b) /\ SubSeq(a, 1, n) = SubSeq(b, 1, n)
                 /\ n = Len(a) \/ (n < Len(a) /\ a[n + 1] < b[n + 1])
  <2>1. PICK n \in 0..Len(a) : /\ n < Len(b) /\ SubSeq(a, 1, n) = SubSeq(b, 1, n)
                               /\ n = Len(a) \/ (n < Len(a) /\ a[n + 1] < b[n + 1])
      BY <1>5
  <2>2. n \in Nat /\ n <= Len(a) /\ n <= Len(b)
      BY <1>1, <2>1
  <2>3. \A k \in 1..n : a[k] = b[k]
      BY <1>1, <2>1, <2>2, EqualBeginnings
  <2>4. CompareText(a, b) = -1
      BY <1>1, <2>1, <2>2, <2>3, TextPrecedes
  <2> QED
      BY <1>2, <1>5, <2>4 DEF CompareIdentifiers
<1> QED
    BY <1>3, <1>4, <1>5 DEF IdentifierPrecedes

(* So do pre-release parts.                                                *)
LEMMA PreIsFound ==
    ASSUME NEW p \in Seq(Seq(Int)), NEW q \in Seq(Seq(Int)), PrePrecedes(p, q),
           \A i \in 1..Len(p) : FitsIdentifier(p[i]), \A i \in 1..Len(q) : FitsIdentifier(q[i])
    PROVE  ComparePre(p, q) = -1
<1>1. CASE p # <<>> /\ q = <<>>
    BY <1>1 DEF ComparePre
<1>2. CASE /\ p # <<>>
           /\ \E n \in 0..Len(p) :
                 /\ n < Len(q) /\ SubSeq(p, 1, n) = SubSeq(q, 1, n)
                 /\ n = Len(p) \/ (n < Len(p) /\ IdentifierPrecedes(p[n + 1], q[n + 1]))
  <2>1. PICK n \in 0..Len(p) : /\ n < Len(q) /\ SubSeq(p, 1, n) = SubSeq(q, 1, n)
                               /\ n = Len(p) \/ (n < Len(p) /\ IdentifierPrecedes(p[n + 1], q[n + 1]))
      BY <1>2
  <2>2. PICK l, m : l = Len(p) /\ m = Len(q)
      OBVIOUS
  <2>3. /\ l \in Nat /\ \A i \in 1..l : p[i] \in Seq(Int)
        /\ m \in Nat /\ \A i \in 1..m : q[i] \in Seq(Int)
      BY <2>2
  <2>4. n \in Nat /\ n <= l /\ n < m
      BY <2>1, <2>2, <2>3
  <2>5. \A k \in 1..n : p[k] = q[k]
    <3>1. n <= Len(p) /\ n <= Len(q)
        BY <2>2, <2>3, <2>4
    <3> QED
        BY <2>1, <2>4, <3>1, EqualBeginnings
  <2>6. PICK lm : lm = IF l < m THEN l ELSE m
      OBVIOUS
  <2>7. PICK d : d = [i \in 1..lm |-> CompareIdentifiers(p[i], q[i])]
      OBVIOUS
  <2>8. Comparison(d, lm)
    <3>1. \A i \in 1..lm : p[i] \in Seq(Int) /\ q[i] \in Seq(Int)
        BY <2>3, <2>6
    <3>2. \A i \in 1..lm : CompareIdentifiers(p[i], q[i]) \in Signs
        BY <3>1, IdentifiersOrdered
    <3> QED
        BY <2>3, <2>6, <2>7, <3>2 DEF Comparison
  <2>9. \A k \in 1..n : d[k] = 0
    <3>1. ASSUME NEW k \in 1..n PROVE d[k] = 0
      <4>1. k \in 1..lm /\ k \in 1..l /\ p[k] = q[k]
          BY <2>3, <2>4, <2>5, <2>6
      <4> QED
          BY <2>3, <2>7, <4>1, SameIsEqual
    <3> QED
        BY <3>1
  <2>10. n = l \/ (n < l /\ d[n + 1] = -1)
    <3>1. CASE n < l /\ IdentifierPrecedes(p[n + 1], q[n + 1])
      <4>1. PICK i : i = n + 1
          OBVIOUS
      <4>2. i \in 1..lm /\ i \in 1..l /\ i \in 1..m
          BY <2>3, <2>4, <2>6, <3>1, <4>1
      <4>3. FitsIdentifier(p[i]) /\ FitsIdentifier(q[i]) /\ IdentifierPrecedes(p[i], q[i])
          BY <2>2, <3>1, <4>1, <4>2
      <4>4. CompareIdentifiers(p[i], q[i]) = -1
          BY <4>3, IdentifierIsFound
      <4> QED
          BY <2>7, <3>1, <4>1, <4>2, <4>4
    <3> QED
        BY <2>1, <2>2, <3>1
  <2>11. FirstDifference(d, l, m) = -1
      BY <2>3, <2>4, <2>6, <2>8, <2>9, <2>10, LessIsFound
  <2>12. ComparePre(p, q) = FirstDifference(d, l, m)
    <3>1. q # <<>> /\ Common(p, q) = 1..lm
        BY <2>2, <2>3, <2>4, <2>6 DEF Common
    <3> QED
        BY <1>2, <2>2, <2>7, <3>1 DEF ComparePre
  <2> QED
      BY <2>11, <2>12
<1> QED
    BY <1>1, <1>2 DEF PrePrecedes

(* What is known of the parts of a valid version.                          *)
LEMMA ValidParts ==
    ASSUME NEW t \in Listable
    PROVE  /\ t.core \in Seq(Seq(Int)) /\ Len(t.core) = 3 /\ t.pre \in Seq(Seq(Int))
           /\ \A i \in 1..3 : t.core[i] \in Seq(Int) /\ Number(t.core[i])
           /\ \A i \in 1..Len(t.pre) : /\ t.pre[i] \in Seq(Int) /\ t.pre[i] # <<>>
                                       /\ AllDigits(t.pre[i]) => Number(t.pre[i])
<1>1. t \in Texts /\ validVersion(t)
    BY DEF Listable
<1>2. t.core \in Seq(Seq(Int)) /\ t.pre \in Seq(Seq(Int))
    BY <1>1, TextParts
<1>3. Grammatical(t)
    BY <1>1, ValidIsGrammatical
<1>4. Len(t.core) = 3 /\ \A i \in 1..3 : Number(t.core[i])
    BY <1>3 DEF Grammatical
<1>5. DOMAIN t.pre = 1..Len(t.pre)
    BY <1>2
<1>6. \A i \in 1..Len(t.pre) : t.pre[i] # <<>> /\ (AllDigits(t.pre[i]) => Number(t.pre[i]))
  <2>1. validIdentifiers(t.pre, TRUE)
      BY <1>1 DEF validVersion
  <2>2. \A i \in 1..Len(t.pre) : t.pre[i] # <<>>
      BY <1>5, <2>1 DEF validIdentifiers
  <2> QED
      BY <1>3, <1>5, <2>2 DEF Grammatical
<1> QED
    BY <1>2, <1>4, <1>6

(* The comparison finds every precedence among versions that fit.          *)
LEMMA PrecedenceIsFound ==
    ASSUME NEW x \in Listable, NEW y \in Listable, Fits(x), Fits(y), Precedes(x, y)
    PROVE  compareSemver(x, y) = -1
<1>1. PICK s, t, p, q : s = x.core /\ t = y.core /\ p = x.pre /\ q = y.pre
    OBVIOUS
<1>2. /\ s \in Seq(Seq(Int)) /\ Len(s) = 3 /\ \A i \in 1..3 : s[i] \in Seq(Int)
      /\ p \in Seq(Seq(Int)) /\ \A i \in 1..Len(p) : p[i] \in Seq(Int) /\ p[i] # <<>>
    BY <1>1, ValidParts
<1>3. /\ t \in Seq(Seq(Int)) /\ Len(t) = 3 /\ \A i \in 1..3 : t[i] \in Seq(Int)
      /\ q \in Seq(Seq(Int)) /\ \A i \in 1..Len(q) : q[i] \in Seq(Int) /\ q[i] # <<>>
    BY <1>1, ValidParts
<1>4. compareSemver(x, y) = IF CompareCore(x, y) # 0 THEN CompareCore(x, y) ELSE ComparePre(p, q)
    BY <1>1 DEF compareSemver, CompareCore
<1>5. CASE \E i \in 1..3 : Value(s[i]) < Value(t[i]) /\ \A k \in 1..(i - 1) : s[k] = t[k]
  <2>1. PICK i \in 1..3 : Value(s[i]) < Value(t[i]) /\ \A k \in 1..(i - 1) : s[k] = t[k]
      BY <1>5
  <2>2. PICK d, c : d = [j \in 1..c |-> CompareNumbers(s[j], t[j])] /\ c = 3
      OBVIOUS
  <2>3. Comparison(d, c)
    <3>1. \A j \in 1..3 : CompareNumbers(s[j], t[j]) \in Signs
        BY <1>2, <1>3, NumbersOrdered
    <3> QED
        BY <2>2, <3>1 DEF Comparison
  <2>4. d[i] = -1
    <3>1. Value(s[i]) \in Int /\ Value(t[i]) \in Int
        BY <1>2, <1>3, ValueType
    <3> QED
        BY <2>1, <2>2, <3>1 DEF CompareNumbers, Sign
  <2>5. \A k \in 1..(i - 1) : d[k] = 0
    <3>1. ASSUME NEW k \in 1..(i - 1) PROVE d[k] = 0
      <4>1. k \in 1..3 /\ s[k] = t[k] /\ s[k] \in Seq(Int)
          BY <1>2, <2>1
      <4> QED
          BY <2>2, <4>1, SameIsEqual
    <3> QED
        BY <3>1
  <2>6. DiffersFirstAt(d, i) /\ i \in 1..c /\ c \in Nat
      BY <2>2, <2>4, <2>5 DEF DiffersFirstAt
  <2>7. FirstDifference(d, c, c) = -1
      BY <2>3, <2>4, <2>6, DecidedAt
  <2>8. CompareCore(x, y) = -1
      BY <1>1, <2>2, <2>7 DEF CompareCore
  <2> QED
      BY <1>4, <2>8
<1>6. CASE s = t /\ PrePrecedes(p, q)
  <2>1. CompareCore(x, y) = 0
    <3>1. CompareCore(x, x) \in Signs /\ CompareCore(x, x) = -CompareCore(x, x)
        BY ListableVersion, CoreOrdered
    <3>2. CompareCore(x, y) = CompareCore(x, x)
        BY <1>1, <1>6 DEF CompareCore
    <3> QED
        BY <3>1, <3>2 DEF Signs
  <2>2. \A i \in 1..Len(p) : FitsIdentifier(p[i])
      BY <1>1, <1>2 DEF FitsIdentifier, Fits
  <2>3. \A i \in 1..Len(q) : FitsIdentifier(q[i])
      BY <1>1, <1>3 DEF FitsIdentifier, Fits
  <2>4. ComparePre(p, q) = -1
      BY <1>2, <1>3, <1>6, <2>2, <2>3, PreIsFound
  <2> QED
      BY <1>4, <2>1, <2>4
<1> QED
    BY <1>1, <1>5, <1>6 DEF Precedes

(* Of two identifiers that differ one precedes the other.                  *)
LEMMA IdentifiersTotal ==
    ASSUME NEW a \in Seq(Int), NEW b \in Seq(Int), a # b,
           AllDigits(a) => Number(a), AllDigits(b) => Number(b)
    PROVE  IdentifierPrecedes(a, b) \/ IdentifierPrecedes(b, a)
<1>1. CASE AllDigits(a) /\ AllDigits(b)
  <2>1. Value(a) \in Int /\ Value(b) \in Int
      BY ValueType
  <2>2. Value(a) # Value(b)
    <3>1. ~LeadingZero(a) /\ ~LeadingZero(b) /\ Len(a) > 0 /\ Len(b) > 0
        BY <1>1, NumberIs DEF Number
    <3> QED
        BY <1>1, <3>1, ValueInjective
  <2> QED
      BY <1>1, <2>1, <2>2 DEF IdentifierPrecedes
<1>2. CASE AllDigits(a) /\ ~AllDigits(b)
    BY <1>2 DEF IdentifierPrecedes
<1>3. CASE ~AllDigits(a) /\ AllDigits(b)
    BY <1>3 DEF IdentifierPrecedes
<1>4. CASE ~AllDigits(a) /\ ~AllDigits(b)
  <2>1. PICK n \in Nat : /\ n <= Len(a) /\ n <= Len(b)
                         /\ \A k \in 1..n : a[k] = b[k]
                         /\ \/ n = Len(a) /\ n < Len(b)
                            \/ n = Len(b) /\ n < Len(a)
                            \/ n < Len(a) /\ n < Len(b) /\ a[n + 1] # b[n + 1]
      BY FirstDiffering
  <2>2. SubSeq(a, 1, n) = SubSeq(b, 1, n) /\ SubSeq(b, 1, n) = SubSeq(a, 1, n)
      BY <2>1, EqualBeginnings
  <2>3. Len(a) \in Nat /\ Len(b) \in Nat /\ n \in 0..Len(a) /\ n \in 0..Len(b)
      BY <2>1
  <2>4. CASE n = Len(a) /\ n < Len(b)
      BY <1>4, <2>2, <2>3, <2>4 DEF IdentifierPrecedes
  <2>5. CASE n = Len(b) /\ n < Len(a)
      BY <1>4, <2>2, <2>3, <2>5 DEF IdentifierPrecedes
  <2>6. CASE n < Len(a) /\ n < Len(b) /\ a[n + 1] # b[n + 1]
    <3>1. a[n + 1] \in Int /\ b[n + 1] \in Int
        BY <2>3, <2>6
    <3>2. a[n + 1] < b[n + 1] \/ b[n + 1] < a[n + 1]
        BY <2>6, <3>1
    <3> QED
        BY <1>4, <2>2, <2>3, <2>6, <3>2 DEF IdentifierPrecedes
  <2> QED
      BY <2>1, <2>4, <2>5, <2>6
<1>5. AllDigits(a) \in BOOLEAN /\ AllDigits(b) \in BOOLEAN
    BY DEF AllDigits
<1> QED
    BY <1>1, <1>2, <1>3, <1>4

(* So of two pre-release parts that differ.                                *)
LEMMA PreTotal ==
    ASSUME NEW p \in Seq(Seq(Int)), NEW q \in Seq(Seq(Int)), p # q,
           \A i \in 1..Len(p) : p[i] \in Seq(Int) /\ (AllDigits(p[i]) => Number(p[i])),
           \A i \in 1..Len(q) : q[i] \in Seq(Int) /\ (AllDigits(q[i]) => Number(q[i]))
    PROVE  PrePrecedes(p, q) \/ PrePrecedes(q, p)
<1>1. CASE p = <<>> \/ q = <<>>
    BY <1>1 DEF PrePrecedes
<1>2. CASE p # <<>> /\ q # <<>>
  <2>1. PICK n \in Nat : /\ n <= Len(p) /\ n <= Len(q)
                         /\ \A k \in 1..n : p[k] = q[k]
                         /\ \/ n = Len(p) /\ n < Len(q)
                            \/ n = Len(q) /\ n < Len(p)
                            \/ n < Len(p) /\ n < Len(q) /\ p[n + 1] # q[n + 1]
      BY FirstDiffering
  <2>2. SubSeq(p, 1, n) = SubSeq(q, 1, n) /\ SubSeq(q, 1, n) = SubSeq(p, 1, n)
      BY <2>1, EqualBeginnings
  <2>3. Len(p) \in Nat /\ Len(q) \in Nat /\ n \in 0..Len(p) /\ n \in 0..Len(q)
      BY <2>1
  <2>4. CASE n = Len(p) /\ n < Len(q)
      BY <1>2, <2>2, <2>3, <2>4 DEF PrePrecedes
  <2>5. CASE n = Len(q) /\ n < Len(p)
      BY <1>2, <2>2, <2>3, <2>5 DEF PrePrecedes
  <2>6. CASE n < Len(p) /\ n < Len(q) /\ p[n + 1] # q[n + 1]
    <3>1. PICK a, b : a = p[n + 1] /\ b = q[n + 1]
        OBVIOUS
    <3>2. n + 1 \in 1..Len(p) /\ n + 1 \in 1..Len(q)
        BY <2>3, <2>6
    <3>3. a \in Seq(Int) /\ b \in Seq(Int) /\ a # b /\ (AllDigits(a) => Number(a)) /\ (AllDigits(b) => Number(b))
        BY <2>6, <3>1, <3>2
    <3>4. IdentifierPrecedes(a, b) \/ IdentifierPrecedes(b, a)
        BY <3>3, IdentifiersTotal
    <3> QED
        BY <1>2, <2>2, <2>3, <2>6, <3>1, <3>4 DEF PrePrecedes
  <2> QED
      BY <2>1, <2>4, <2>5, <2>6
<1> QED
    BY <1>1, <1>2

(* Versions neither of which precedes the other differ in their build part *)
(* only, whatever the size of their numbers: the comparison calls them     *)
(* equal.                                                                  *)
LEMMA EqualPrecedenceIsFound ==
    ASSUME NEW x \in Listable, NEW y \in Listable, ~Precedes(x, y), ~Precedes(y, x)
    PROVE  x.core = y.core /\ x.pre = y.pre /\ compareSemver(x, y) = 0
<1>1. PICK s, t, p, q : s = x.core /\ t = y.core /\ p = x.pre /\ q = y.pre
    OBVIOUS
<1>2. /\ s \in Seq(Seq(Int)) /\ Len(s) = 3 /\ \A i \in 1..3 : s[i] \in Seq(Int) /\ Number(s[i])
      /\ p \in Seq(Seq(Int))
      /\ \A i \in 1..Len(p) : p[i] \in Seq(Int) /\ (AllDigits(p[i]) => Number(p[i]))
    BY <1>1, ValidParts
<1>3. /\ t \in Seq(Seq(Int)) /\ Len(t) = 3 /\ \A i \in 1..3 : t[i] \in Seq(Int) /\ Number(t[i])
      /\ q \in Seq(Seq(Int))
      /\ \A i \in 1..Len(q) : q[i] \in Seq(Int) /\ (AllDigits(q[i]) => Number(q[i]))
    BY <1>1, ValidParts
<1>4. s = t
  <2>1. SUFFICES ASSUME s # t PROVE FALSE
      OBVIOUS
  <2>2. PICK n \in Nat : /\ n <= Len(s) /\ n <= Len(t)
                         /\ \A k \in 1..n : s[k] = t[k]
                         /\ \/ n = Len(s) /\ n < Len(t)
                            \/ n = Len(t) /\ n < Len(s)
                            \/ n < Len(s) /\ n < Len(t) /\ s[n + 1] # t[n + 1]
      BY <1>2, <1>3, <2>1, FirstDiffering
  <2>3. PICK i, a, b : i = n + 1 /\ a = s[i] /\ b = t[i]
      OBVIOUS
  <2>4. i \in 1..3 /\ a # b /\ i - 1 = n
      BY <1>2, <1>3, <2>2, <2>3
  <2>5. a \in Seq(Int) /\ b \in Seq(Int) /\ Number(a) /\ Number(b)
      BY <1>2, <1>3, <2>3, <2>4
  <2>6. Value(a) \in Int /\ Value(b) \in Int
      BY <2>5, ValueType
  <2>7. Value(a) # Value(b)
    <3>1. ~LeadingZero(a) /\ ~LeadingZero(b) /\ Len(a) > 0 /\ Len(b) > 0 /\ AllDigits(a) /\ AllDigits(b)
        BY <2>5, NumberIs DEF Number
    <3> QED
        BY <2>4, <2>5, <3>1, ValueInjective
  <2>8. (\A k \in 1..(i - 1) : s[k] = t[k]) /\ \A k \in 1..(i - 1) : t[k] = s[k]
      BY <2>2, <2>4
  <2>9. Value(a) < Value(b) => Precedes(x, y)
      BY <1>1, <2>3, <2>4, <2>8 DEF Precedes
  <2>10. Value(b) < Value(a) => Precedes(y, x)
      BY <1>1, <2>3, <2>4, <2>8 DEF Precedes
  <2> QED
      BY <2>6, <2>7, <2>9, <2>10
<1>5. p = q
  <2>1. SUFFICES ASSUME p # q PROVE FALSE
      OBVIOUS
  <2>2. PrePrecedes(p, q) \/ PrePrecedes(q, p)
      BY <1>2, <1>3, <2>1, PreTotal
  <2> QED
      BY <1>1, <1>4, <2>2 DEF Precedes
<1>6. CompareCore(x, y) = 0
  <2>1. CompareCore(x, x) \in Signs /\ CompareCore(x, x) = -CompareCore(x, x)
      BY ListableVersion, CoreOrdered
  <2>2. CompareCore(x, y) = CompareCore(x, x)
      BY <1>1, <1>4 DEF CompareCore
  <2> QED
      BY <2>1, <2>2 DEF Signs
<1>7. ComparePre(p, q) = 0
    BY <1>2, <1>5, SameIsEqual
<1>8. compareSemver(x, y) = IF CompareCore(x, y) # 0 THEN CompareCore(x, y) ELSE ComparePre(p, q)
    BY <1>1 DEF compareSemver, CompareCore
<1> QED
    BY <1>1, <1>4, <1>5, <1>6, <1>7, <1>8

-----------------------------------------------------------------------------
(* The properties *)

(* The listing that readers see, in the states of the invariant.           *)
LEMMA ListingFacts ==
    ASSUME IInv
    PROVE  /\ Listed \in Seq(Listable) /\ DOMAIN Listed = 1..Len(Listed)
           /\ \A i, k \in 1..Len(Listed) : i < k => compareSemver(Listed[i], Listed[k]) <= 0
           /\ arrived \in Seq(Listable) /\ DOMAIN arrived = 1..Len(arrived)
           /\ InArrival(Listed, arrived)
<1>1. PICK s, a, S : s = index /\ a = arrived /\ S = Listed
    OBVIOUS
<1>2. s \in Seq(Listable) /\ a \in Seq(Listable) /\ InArrival(s, a)
    BY <1>1 DEF IInv, TypeOK
<1>3. StableSort(S, s)
    BY <1>1, <1>2, SortIsStable DEF Listed
<1>4. S \in Seq(Listable) /\ \A i, k \in 1..Len(S) : i < k => compareSemver(S[i], S[k]) <= 0
    BY <1>3 DEF StableSort
<1>5. InArrival(S, a)
    BY <1>2, <1>3, SortKeepsArrival
<1>6. DOMAIN S = 1..Len(S) /\ DOMAIN a = 1..Len(a)
    BY <1>2, <1>4
<1> QED
    BY <1>1, <1>2, <1>4, <1>5, <1>6

(* addVersionToIndex and removeVersionFromIndex keep an index of different *)
(* versions, as long as the bound allows.                                  *)
THEOREM IndexTypeCorrect == Spec => []TypeOK
<1>1. IInv => TypeOK
    BY DEF IInv
<1> QED
    BY <1>1, IndexInvariant, PTL

(* getIndex always gives the order of precedence of SemVer to its readers. *)
THEOREM AlwaysListedByPrecedence == Spec => []ListedByPrecedence
<1>1. IInv => ListedByPrecedence
  <2>1. SUFFICES ASSUME IInv, NEW i \in DOMAIN Listed, NEW k \in DOMAIN Listed, i < k,
                        Fits(Listed[i]), Fits(Listed[k]), Precedes(Listed[k], Listed[i])
                 PROVE  FALSE
      BY DEF ListedByPrecedence
  <2>2. PICK S, x, y : S = Listed /\ x = Listed[i] /\ y = Listed[k]
      OBVIOUS
  <2>3. /\ S \in Seq(Listable) /\ i \in 1..Len(S) /\ k \in 1..Len(S)
        /\ compareSemver(x, y) <= 0
      BY <2>1, <2>2, ListingFacts
  <2>4. x \in Listable /\ y \in Listable
      BY <2>2, <2>3
  <2>5. compareSemver(y, x) = -1
      BY <2>1, <2>2, <2>4, PrecedenceIsFound
  <2>6. compareSemver(x, y) = -compareSemver(y, x)
      BY <2>4, ListableVersion, VersionsOrdered
  <2> QED
      BY <2>3, <2>5, <2>6
<1> QED
    BY <1>1, IndexInvariant, PTL

(* Of versions of equal precedence, the one added last is always listed    *)
(* last: sort.SliceStable keeps what addVersionToIndex appends behind.     *)
THEOREM TiesAlwaysByArrival == Spec => []TiesByArrival
<1>1. IInv => TiesByArrival
  <2>1. SUFFICES ASSUME IInv, NEW i \in DOMAIN Listed, NEW k \in DOMAIN Listed, i < k,
                        ~Precedes(Listed[i], Listed[k]), ~Precedes(Listed[k], Listed[i]),
                        NEW m \in DOMAIN arrived, NEW n \in DOMAIN arrived,
                        arrived[m] = Listed[i], arrived[n] = Listed[k]
                 PROVE  m < n
      BY DEF TiesByArrival
  <2>2. PICK S, a, x, y : S = Listed /\ a = arrived /\ x = Listed[i] /\ y = Listed[k]
      OBVIOUS
  <2>3. /\ S \in Seq(Listable) /\ i \in 1..Len(S) /\ k \in 1..Len(S)
        /\ m \in 1..Len(a) /\ n \in 1..Len(a) /\ InArrival(S, a)
      BY <2>1, <2>2, ListingFacts
  <2>4. x \in Listable /\ y \in Listable
      BY <2>2, <2>3
  <2>5. compareSemver(S[i], S[k]) = 0
      BY <2>1, <2>2, <2>4, EqualPrecedenceIsFound
  <2> QED
      BY <2>1, <2>2, <2>3, <2>5 DEF InArrival
<1> QED
    BY <1>1, IndexInvariant, PTL

(* validVersion lets exactly the grammatical versions into the index,      *)
(* numbers beyond uint64 apart.                                            *)
THEOREM AlwaysAcceptsSemVer == Spec => []AcceptsSemVer
<1>1. ASSUME IInv, NEW v \in Range(index) PROVE Grammatical(v)
  <2>1. v \in Texts /\ validVersion(v)
    <3>1. v \in Listable
        BY <1>1 DEF IInv, TypeOK, Range
    <3> QED
        BY <3>1 DEF Listable
  <2> QED
      BY <2>1, ValidIsGrammatical
<1>2. ASSUME NEW v \in Texts \ Listable, Grammatical(v)
      PROVE  \E i \in 1..3 : Value(v.core[i]) > MaxUint
  <2>1. v \in Texts /\ ~validVersion(v)
      BY DEF Listable
  <2>2. PICK i \in 1..3 : ~(Value(v.core[i]) <= MaxUint)
      BY <1>2, <2>1, ValidIsGrammatical
  <2>3. Value(v.core[i]) \in Int
    <3>1. Len(v.core) = 3
        BY <1>2 DEF Grammatical
    <3> QED
        BY <2>1, <3>1, CoreNumbers
  <2> QED
      BY <2>2, <2>3, UintAssumption
<1>3. IInv => AcceptsSemVer
    BY <1>1, <1>2 DEF AcceptsSemVer
<1> QED
    BY <1>3, IndexInvariant, PTL
=============================================================================
