------------------------------ MODULE Extremes ------------------------------
(***************************************************************************)
(* Least and greatest elements: what Min and Max, of which the models take *)
(* the partition to write, to open or to delete next and the seq to resume *)
(* from, return for sets of naturals of any size.                          *)
(***************************************************************************)
EXTENDS Naturals, FiniteSetsExt, WellFoundedInduction, TLAPS

(* < is well-founded on Nat, as a set of pairs.                            *)
LEMMA NatWellFounded == IsWellFoundedOn({ss \in Nat \X Nat : ss[1] < ss[2]}, Nat)
    BY NatLessThanWellFounded, Zenon DEF OpToRel

(* A non-empty set of naturals has a least element.                        *)
LEMMA MinExists ==
    ASSUME NEW S \in SUBSET Nat, S # {}
    PROVE  Min(S) \in S /\ \A y \in S : Min(S) <= y
<1>. DEFINE R == {ss \in Nat \X Nat : ss[1] < ss[2]}
<1>1. \E x \in S : \A y \in S : ~ (<<y, x>> \in R)
  <2>. HIDE DEF R
  <2>. QED  BY NatWellFounded, WFMin DEF R
<1>2. \A x, y \in Nat : <<y, x>> \in R <=> y < x
    OBVIOUS
<1>. HIDE DEF R
<1>3. PICK x \in S : \A y \in S : ~ (<<y, x>> \in R)
    BY <1>1
<1>4. \A y \in S : x <= y
  <2>. SUFFICES ASSUME NEW y \in S PROVE x <= y
    OBVIOUS
  <2>1. x \in Nat /\ y \in Nat /\ ~ (y < x)
    BY <1>2, <1>3
  <2>. QED  BY <2>1
<1>. QED  BY <1>4 DEF Min

(* A non-empty bounded set of naturals has a greatest element.             *)
LEMMA MaxExists ==
    ASSUME NEW n \in Nat, NEW S \in SUBSET (0 .. n), S # {}
    PROVE  Max(S) \in S /\ \A y \in S : y <= Max(S)
<1>. DEFINE T == {n - y : y \in S}
<1>1. T \in SUBSET Nat /\ T # {}
  <2>1. \A y \in S : n - y \in Nat
    BY S \subseteq 0 .. n
  <2>. QED  BY <2>1
<1>2. Min(T) \in T /\ \A z \in T : Min(T) <= z
    BY <1>1, MinExists
<1>3. PICK x \in S : Min(T) = n - x
    BY <1>2
<1>4. \A y \in S : n - y \in T
    OBVIOUS
<1>5. \A y \in S : n - x <= n - y
    BY <1>2, <1>3, <1>4
<1>6. \A y \in S : x >= y
  <2>. SUFFICES ASSUME NEW y \in S PROVE x >= y
    OBVIOUS
  <2>. QED  BY <1>5, x \in 0 .. n, y \in 0 .. n
<1>. QED  BY <1>6 DEF Max

(* The greater of two naturals.                                            *)
LEMMA MaxOfTwo ==
    ASSUME NEW x \in Nat, NEW y \in Nat
    PROVE  Max({x, y}) \in {x, y} /\ Max({x, y}) >= x /\ Max({x, y}) >= y
<1>1. {x, y} \in SUBSET (0 .. x + y)
    OBVIOUS
<1>. QED  BY <1>1, MaxExists

(* Induction: a set of naturals with 0 and with the successor of each of   *)
(* its elements has them all.                                              *)
LEMMA NatInduct ==
    ASSUME NEW S \in SUBSET Nat, 0 \in S, \A n \in S : n + 1 \in S
    PROVE  S = Nat
<1>. DEFINE T == Nat \ S
<1>1. ASSUME T # {} PROVE FALSE
  <2>1. Min(T) \in T /\ \A y \in T : Min(T) <= y
    BY <1>1, MinExists
  <2>2. Min(T) \in Nat \ {0} /\ Min(T) - 1 \in Nat
    BY <2>1
  <2>3. Min(T) - 1 \in S
    BY <2>1, <2>2
  <2>4. (Min(T) - 1) + 1 \in S
    BY <2>3
  <2>. QED  BY <2>1, <2>2, <2>4
<1>. QED  BY <1>1

(* The greatest element of a set of positions.                             *)
LEMMA TopOf ==
    ASSUME NEW k \in Nat
    PROVE  /\ \A u \in SUBSET (1 .. k + 1) : k + 1 \in u => Max(u) = k + 1
           /\ \A u \in SUBSET (1 .. k) : u # {} => Max(u) \in u /\ Max(u) \in 1 .. k
<1>1. ASSUME NEW u \in SUBSET (1 .. k + 1), k + 1 \in u PROVE Max(u) = k + 1
  <2>1. u \in SUBSET (0 .. k + 1) /\ u # {}
    BY <1>1
  <2>2. Max(u) \in u /\ \A y \in u : y <= Max(u)
    BY <2>1, k + 1 \in Nat, MaxExists
  <2>3. Max(u) \in 1 .. k + 1 /\ k + 1 <= Max(u)
    BY <1>1, <2>2
  <2>. QED  BY <2>3
<1>2. ASSUME NEW u \in SUBSET (1 .. k), u # {} PROVE Max(u) \in u
  <2>1. u \in SUBSET (0 .. k)
    BY <1>2
  <2>. QED  BY <1>2, <2>1, MaxExists
<1>. QED  BY <1>1, <1>2

(* The sets a fold over a sequence goes through.                           *)
LEMMA UpToIsPrefix ==
    ASSUME NEW n \in Nat
    PROVE  /\ 1 .. 0 = {}
           /\ \A i \in 1 .. n : 1 .. i # {} /\ Max(1 .. i) = i /\ (1 .. i) \ {i} = 1 .. (i - 1)
           /\ \A i \in 0 .. n : 1 .. i \in SUBSET (1 .. n)
           /\ \A i \in 1 .. n : i \in 0 .. n /\ i - 1 \in 0 .. n
<1>1. ASSUME NEW i \in 1 .. n PROVE 1 .. i # {} /\ Max(1 .. i) = i /\ (1 .. i) \ {i} = 1 .. (i - 1)
  <2>1. i \in 1 .. i /\ 1 .. i \in SUBSET (1 .. (i - 1) + 1) /\ i - 1 \in Nat /\ (i - 1) + 1 = i
    OBVIOUS
  <2>2. Max(1 .. i) = i
    BY <2>1, TopOf
  <2>. QED  BY <2>1, <2>2
<1>2. \A i \in 0 .. n : 1 .. i \in SUBSET (1 .. n)
  OBVIOUS
<1>3. 1 .. 0 = {} /\ \A i \in 1 .. n : i \in 0 .. n /\ i - 1 \in 0 .. n
  OBVIOUS
<1>. QED  BY <1>1, <1>2, <1>3

=============================================================================
