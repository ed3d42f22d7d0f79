---------------------------- MODULE VersionIndex ----------------------------
(***************************************************************************)
(* The order of versions: semver.go, and the index file that is kept in    *)
(* that order (addVersionToIndex, removeVersionFromIndex and getIndex of   *)
(* registry-server/storage.go).  Readers take the last version of the      *)
(* index for the newest one.                                               *)
(*                                                                         *)
(* A version string comes split at its separators: three numbers, the      *)
(* pre-release identifiers and the build identifiers (<<>> if it has no    *)
(* such part).  An identifier is the sequence of its characters, which are *)
(* numbers in their ASCII order: -1 is the hyphen, 0 to 9 the digits,      *)
(* greater ones letters, and smaller ones what no identifier may hold.     *)
(***************************************************************************)
EXTENDS Integers, Sequences, FiniteSets, Functions

CONSTANTS
    Texts,         \* the version strings in requests and in old index files
    MaxUint,       \* the largest uint64
    MaxListed      \* bound: versions in the index

ASSUME TextsAssumption == \A t \in Texts : {t.core, t.pre, t.build} \subseteq Seq(Seq(Int))
ASSUME UintAssumption == MaxUint \in Nat
ASSUME BoundAssumption == MaxListed \in Nat

VARIABLES
    index,         \* index.json: a sequence of versions
    arrived        \* history: the same versions in order of their arrival

vars == <<index, arrived>>

-----------------------------------------------------------------------------
(* Parsing *)

Hyphen == -1
Digits == 0..9
AllDigits(id) == \A i \in DOMAIN id : id[i] \in Digits
LeadingZero(id) == Len(id) > 1 /\ id[1] = 0

(* The numbers that the beginnings of id spell, and the one it spells.     *)
Values(id) == LET v[n \in 0..Len(id)] == IF n = 0 THEN 0 ELSE 10 * v[n - 1] + id[n] IN v
Value(id) == Values(id)[Len(id)]

(* ParseUint fails on what does not fit.                                   *)
numericIdentifier(id) == id # <<>> /\ AllDigits(id) /\ Value(id) <= MaxUint

(* Mutant: numbers may have leading zeros.                                 *)
validIdentifiersPadded(ids, enforceNumericLeadingZero) ==
    \A i \in DOMAIN ids : ids[i] # <<>> /\ \A k \in DOMAIN ids[i] : ids[i][k] >= Hyphen
validIdentifiers(ids, enforceNumericLeadingZero) ==
    \A i \in DOMAIN ids :
        /\ ids[i] # <<>>
        /\ \A k \in DOMAIN ids[i] : ids[i][k] >= Hyphen
        /\ ~(enforceNumericLeadingZero /\ AllDigits(ids[i]) /\ LeadingZero(ids[i]))

validVersion(t) ==
    /\ validIdentifiers(t.build, FALSE)
    /\ validIdentifiers(t.pre, TRUE)
    /\ Len(t.core) = 3
    /\ \A i \in 1..3 : numericIdentifier(t.core[i]) /\ ~LeadingZero(t.core[i])

-----------------------------------------------------------------------------
(* Comparing: -1, 0 or 1 *)

Sign(n) == IF n < 0 THEN -1 ELSE IF n > 0 THEN 1 ELSE 0

(* Two sequences of lengths m and n, whose elements compare as d says: the *)
(* first elements that differ decide, then the length.                     *)
Common(s, t) == 1..(IF Len(s) < Len(t) THEN Len(s) ELSE Len(t))
FirstDifference(d, m, n) ==
    IF \A i \in DOMAIN d : d[i] = 0 THEN Sign(m - n)
    ELSE d[CHOOSE i \in DOMAIN d : d[i] # 0 /\ \A k \in 1..(i - 1) : d[k] = 0]

CompareNumbers(a, b) == Sign(Value(a) - Value(b))
CompareText(a, b) ==
    FirstDifference([i \in Common(a, b) |-> Sign(a[i] - b[i])], Len(a), Len(b))

(* Mutant: every identifier is compared as text.                           *)
CompareIdentifiersText(a, b) == CompareText(a, b)
CompareIdentifiers(a, b) ==
    CASE numericIdentifier(a) /\ numericIdentifier(b) -> CompareNumbers(a, b)
      [] numericIdentifier(a) /\ ~numericIdentifier(b) -> -1
      [] ~numericIdentifier(a) /\ numericIdentifier(b) -> 1
      [] OTHER -> CompareText(a, b)

ComparePre(p, q) ==
    CASE p = <<>> /\ q = <<>> -> 0
      [] p = <<>> /\ q # <<>> -> 1
      [] p # <<>> /\ q = <<>> -> -1
      [] OTHER ->
            FirstDifference([i \in Common(p, q) |-> CompareIdentifiers(p[i], q[i])], Len(p), Len(q))

(* Both are valid: the index holds no other strings.                       *)
compareSemver(a, b) ==
    LET core == FirstDifference([i \in 1..3 |-> CompareNumbers(a.core[i], b.core[i])], 3, 3)
    IN  IF core # 0 THEN core ELSE ComparePre(a.pre, b.pre)

(* The elements of s at positions I, in the order R, a total one on them.  *)
InOrder(s, I, R) ==
    LET n == Cardinality(I)
        position == CHOOSE p \in [1..n -> I] : \A i, k \in 1..n : i < k => <<p[i], p[k]>> \in R
    IN  [i \in 1..n |-> s[position[i]]]

(* Positions: in the order of s, and in the order SliceStable puts them in *)
(* by the given less: equal ones keep theirs.                              *)
Positions(s) == {p \in (DOMAIN s) \X (DOMAIN s) : p[1] < p[2]}
(* Mutant: a version goes before those of its own precedence.              *)
SortedReversingTies(s) ==
    {p \in (DOMAIN s) \X (DOMAIN s) :
        LET c == compareSemver(s[p[1]], s[p[2]]) IN c < 0 \/ (c = 0 /\ p[2] < p[1])}
Sorted(s) ==
    {p \in (DOMAIN s) \X (DOMAIN s) :
        LET c == compareSemver(s[p[1]], s[p[2]]) IN c < 0 \/ (c = 0 /\ p[1] < p[2])}

sortSemanticVersions(s) == InOrder(s, DOMAIN s, Sorted(s))

-----------------------------------------------------------------------------
(* The index *)

(* getIndex: what every reader of the file works with.                     *)
Listed == sortSemanticVersions(index)

(* routeValidationMiddleware: no other version reaches a handler.          *)
Listable == {t \in Texts : validVersion(t)}

(* Mutant: a version that is there already is listed again.                *)
WithVersionTwice(s, v) == sortSemanticVersions(Append(s, v))
WithVersion(s, v) == IF v \in Range(s) THEN index ELSE sortSemanticVersions(Append(s, v))

WithoutVersion(s, v) == InOrder(s, {i \in DOMAIN s : s[i] # v}, Positions(s))

AddVersion(v) ==
    /\ v \in Listable
    /\ Len(index) < MaxListed
    /\ index' = WithVersion(Listed, v)
    /\ arrived' = IF v \in Range(arrived) THEN arrived ELSE Append(arrived, v)

RemoveVersion(v) ==
    /\ v \in Listable
    /\ index' = WithoutVersion(Listed, v)
    /\ arrived' = WithoutVersion(arrived, v)

(* An index file of an older server may be in any order.                   *)
Init ==
    /\ \E n \in 0..MaxListed : index \in [1..n -> Listable]
    /\ IsInjective(index)
    /\ arrived = index

Next == \E v \in Texts : AddVersion(v) \/ RemoveVersion(v)

Spec == Init /\ [][Next]_vars

-----------------------------------------------------------------------------
(* The reference: precedence and grammar of Semantic Versioning 2.0.0,     *)
(* with numbers of any size.                                               *)

IdentifierPrecedes(a, b) ==
    \/ AllDigits(a) /\ AllDigits(b) /\ Value(a) < Value(b)
    \/ AllDigits(a) /\ ~AllDigits(b)
    \/ /\ ~AllDigits(a) /\ ~AllDigits(b)
       /\ \E n \in 0..Len(a) :
             /\ n < Len(b) /\ SubSeq(a, 1, n) = SubSeq(b, 1, n)
             /\ n = Len(a) \/ (n < Len(a) /\ a[n + 1] < b[n + 1])

PrePrecedes(p, q) ==
    \/ p # <<>> /\ q = <<>>
    \/ /\ p # <<>>
       /\ \E n \in 0..Len(p) :
             /\ n < Len(q) /\ SubSeq(p, 1, n) = SubSeq(q, 1, n)
             /\ n = Len(p) \/ (n < Len(p) /\ IdentifierPrecedes(p[n + 1], q[n + 1]))

Precedes(a, b) ==
    \/ \E i \in 1..3 : /\ Value(a.core[i]) < Value(b.core[i])
                       /\ \A k \in 1..(i - 1) : a.core[k] = b.core[k]
    \/ a.core = b.core /\ PrePrecedes(a.pre, b.pre)

Number(id) == id # <<>> /\ AllDigits(id) /\ (id[1] = 0 => Len(id) = 1)

Grammatical(t) ==
    /\ Len(t.core) = 3 /\ \A i \in 1..3 : Number(t.core[i])
    /\ \A i \in DOMAIN t.pre : AllDigits(t.pre[i]) => Number(t.pre[i])
    /\ \A id \in Range(t.pre) \cup Range(t.build) : id # <<>> /\ \A c \in Range(id) : c >= Hyphen

-----------------------------------------------------------------------------
(* Properties *)

(* The types: no version is listed twice, whatever order the file had.     *)
TypeOK ==
    /\ index \in Seq(Listable) /\ IsInjective(index) /\ Len(index) <= MaxListed
    /\ arrived \in Seq(Listable) /\ IsInjective(arrived) /\ Range(arrived) = Range(index)

(* Pre-release numbers beyond uint64 are compared as text.                 *)
Fits(v) == \A i \in DOMAIN v.pre : AllDigits(v.pre[i]) => Value(v.pre[i]) <= MaxUint

(* Readers of the index find it in the order of precedence of SemVer, so   *)
(* that its last version is a newest one, however the versions came in and *)
(* in whatever order the file was.  Versions with a pre-release number     *)
(* beyond uint64 may be out of place but do not displace the others.       *)
ListedByPrecedence ==
    \A i, k \in DOMAIN Listed :
        i < k /\ Fits(Listed[i]) /\ Fits(Listed[k]) => ~Precedes(Listed[k], Listed[i])

(* Versions that differ in their build part only have equal precedence:    *)
(* the one that was added last is the newest, and stays so while others    *)
(* are added and removed.                                                  *)
TiesByArrival ==
    \A i, k \in DOMAIN Listed :
        i < k /\ ~Precedes(Listed[i], Listed[k]) /\ ~Precedes(Listed[k], Listed[i]) =>
            \A m, n \in DOMAIN arrived : arrived[m] = Listed[i] /\ arrived[n] = Listed[k] => m < n

(* Exactly the grammatical versions are accepted, except for those with a  *)
(* major, minor or patch number beyond uint64.                             *)
AcceptsSemVer ==
    /\ \A v \in Range(index) : Grammatical(v)
    /\ \A v \in Texts \ Listable :
          Grammatical(v) => \E i \in 1..3 : Value(v.core[i]) > MaxUint
=============================================================================
