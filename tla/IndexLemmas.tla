----------------------------- MODULE IndexLemmas -----------------------------
(***************************************************************************)
(* Facts about natural numbers and about sequences that are cut into parts *)
(* and put together again, which the proofs about the models share.  What  *)
(* would be an induction is an argument about the least number that does   *)
(* not have the property.                                                  *)
(***************************************************************************)
EXTENDS Integers, SequencesExt, WellFoundedInduction, TLAPS

(* A set of natural numbers that is not empty has a least element.         *)
LEMMA LeastNatural ==
  ASSUME NEW T, T \subseteq Nat, T # {}
  PROVE  \E x \in T : \A y \in T : x =< y
<1> DEFINE R == OpToRel(<, Nat)
<1>1. IsWellFoundedOn(R, Nat)
  BY NatLessThanWellFounded
<1> HIDE DEF R
<1>2. PICK x \in T : \A y \in T : ~(<<y, x>> \in R)
  BY <1>1, WFMin
<1>3. \A y \in T : x =< y
  <2> SUFFICES ASSUME NEW y \in T PROVE x =< y
    OBVIOUS
  <2>1. <<y, x>> \in Nat \X Nat
    OBVIOUS
  <2>2. ~(y < x)
    BY <1>2, <2>1 DEF R, OpToRel
  <2>. QED  BY <2>2
<1>. QED  BY <1>3

(* What holds of a number if it holds of all smaller ones holds of all.    *)
LEMMA NaturalsAll ==
  ASSUME NEW P, \A n \in Nat : (\A m \in Nat : m < n => m \in P) => n \in P
  PROVE  Nat \subseteq P
<1> SUFFICES ASSUME Nat \ P # {} PROVE FALSE
  OBVIOUS
<1>1. PICK n \in Nat \ P : \A m \in Nat \ P : n =< m
  BY LeastNatural
<1>2. \A m \in Nat : m < n => m \in P
  BY <1>1
<1>. QED  BY <1>1, <1>2

(* A set of indices that is not empty has a greatest element, and Max is   *)
(* that one.                                                               *)
LEMMA MaxOfIndices ==
  ASSUME NEW n \in Nat, NEW S, S \subseteq 1..n, S # {}
  PROVE  Max(S) \in S /\ \A y \in S : y =< Max(S)
<1> DEFINE T == {i \in Nat : \E y \in S : i = n - y}
<1>1. T \subseteq Nat
  OBVIOUS
<1>2. T # {}
  <2>1. PICK y \in S : TRUE
    OBVIOUS
  <2>2. n - y \in T
    BY <2>1
  <2>. QED  BY <2>2
<1>3. PICK x \in T : \A y \in T : x =< y
  BY <1>1, <1>2, LeastNatural
<1>4. PICK m \in S : x = n - m
  BY <1>3
<1>5. \A y \in S : n - y \in T
  OBVIOUS
<1>6. \A y \in S : n - m =< n - y
  BY <1>3, <1>4, <1>5
<1>7. \A y \in S : m >= y
  BY <1>6
<1>. QED  BY <1>7 DEF Max

(* The k elements of a sequence that come after the first m of them.       *)
Piece(c, m, k) == [j \in 1..k |-> c[m + j]]

(* Two pieces of a sequence, one behind the other.                         *)
LEMMA PiecesJoined ==
  ASSUME NEW c, NEW m \in Nat, NEW p \in Nat
  PROVE  Piece(c, 0, m) \o Piece(c, m, p) = Piece(c, 0, m + p)
<1> DEFINE S == {c[k] : k \in Nat}
           a == Piece(c, 0, m)
           b == Piece(c, m, p)
           d == a \o b
<1>1. a \in Seq(S) /\ Len(a) = m /\ b \in Seq(S) /\ Len(b) = p
  <2>1. a \in [1..m -> S] /\ b \in [1..p -> S]
    BY DEF Piece
  <2> HIDE DEF a, b, S
  <2>. QED  BY <2>1
<1>2. /\ \A k \in 1..m : a[k] = c[k]
      /\ \A k \in 1..p : b[k] = c[m + k]
  BY DEF Piece
<1> HIDE DEF a, b, S
<1>3. d \in Seq(S) /\ Len(d) = m + p
  BY <1>1
<1>4. ASSUME NEW k \in 1..(m + p) PROVE d[k] = c[0 + k]
  <2>1. CASE k =< m
    <3>1. k \in 1..m
      BY <2>1
    <3>. QED  BY <1>1, <1>2, <3>1
  <2>2. CASE ~(k =< m)
    <3>1. k - m \in 1..p /\ m + (k - m) = k
      BY <2>2
    <3>2. d[k] = b[k - m]
      BY <1>1, <2>2
    <3>. QED  BY <1>2, <3>1, <3>2
  <2>. QED  BY <2>1, <2>2
<1>5. d = [k \in 1..(m + p) |-> d[k]]
  <2> HIDE DEF d
  <2>. QED  BY <1>3
<1> HIDE DEF d
<1>6. d = Piece(c, 0, m + p)
  BY <1>4, <1>5 DEF Piece
<1>. QED  BY <1>6 DEF d, a, b

(* total[i] is what comes out of the first i parts.                        *)
Accumulates(parts, total) ==
  \A i \in 1..Len(parts) :
    total[i] = IF i = 1 THEN parts[i] ELSE total[i - 1] \o parts[i]

(* What FlattenSeq makes of parts, if one knows what comes out of the      *)
(* first i of them.                                                        *)
LEMMA FlattenIs ==
  ASSUME NEW parts, Len(parts) \in Nat \ {0}, NEW total, Accumulates(parts, total)
  PROVE  FlattenSeq(parts) = total[Len(parts)]
<1> DEFINE n == Len(parts)
           F(g) == g = [i \in 1..n |-> IF i = 1 THEN parts[i] ELSE g[i - 1] \o parts[i]]
           flatten == CHOOSE g : F(g)
<1>1. F(flatten)
  <2>1. \E g : F(g)
    <3> DEFINE g == [i \in 1..n |-> total[i]]
    <3>1. ASSUME NEW i \in 1..n
          PROVE  total[i] = IF i = 1 THEN parts[i] ELSE g[i - 1] \o parts[i]
      <4>1. i # 1 => i - 1 \in 1..n
        OBVIOUS
      <4>. QED  BY <4>1 DEF Accumulates
    <3>2. F(g)
      BY <3>1
    <3>. QED  BY <3>2
  <2> HIDE DEF F
  <2>. QED  BY <2>1
<1>2. FlattenSeq(parts) = flatten[n]
  BY DEF FlattenSeq
<1> HIDE DEF flatten
<1> DEFINE P == {i \in Nat : i \in 1..n => flatten[i] = total[i]}
<1>3. ASSUME NEW i \in Nat, \A m \in Nat : m < i => m \in P
      PROVE  i \in P
  <2> SUFFICES ASSUME i \in 1..n PROVE flatten[i] = total[i]
    OBVIOUS
  <2>1. /\ flatten[i] = IF i = 1 THEN parts[i] ELSE flatten[i - 1] \o parts[i]
        /\ total[i] = IF i = 1 THEN parts[i] ELSE total[i - 1] \o parts[i]
    BY <1>1 DEF Accumulates
  <2>2. ASSUME i # 1 PROVE flatten[i - 1] = total[i - 1]
    <3>1. i - 1 \in Nat /\ i - 1 < i /\ i - 1 \in 1..n
      BY <2>2
    <3>2. i - 1 \in P
      BY <1>3, <3>1
    <3>. QED  BY <3>1, <3>2
  <2>. QED  BY <2>1, <2>2
<1>4. Nat \subseteq P
  <2> HIDE DEF P
  <2>. QED  BY <1>3, NaturalsAll
<1>. QED  BY <1>2, <1>4

(* The parts of c: the i-th one ends at cut[i].                            *)
CutInto(c, cut, parts) ==
  /\ cut[0] = 0 /\ \A i \in 0..Len(parts) : cut[i] \in Nat
  /\ \A i \in 1..Len(parts) :
       cut[i - 1] =< cut[i] /\ parts[i] = Piece(c, cut[i - 1], cut[i] - cut[i - 1])

(* FlattenSeq puts together what has been cut up.                          *)
LEMMA CutUp ==
  ASSUME NEW c, NEW parts, Len(parts) \in Nat \ {0}, NEW cut, CutInto(c, cut, parts)
  PROVE  FlattenSeq(parts) = Piece(c, 0, cut[Len(parts)])
<1> DEFINE n == Len(parts)
           total == [i \in 1..n |-> Piece(c, 0, cut[i])]
<1> USE DEF CutInto
<1>1. ASSUME NEW i \in 1..n
      PROVE  total[i] = IF i = 1 THEN parts[i] ELSE total[i - 1] \o parts[i]
  <2> DEFINE m == cut[i - 1]
             p == cut[i] - m
  <2>1. i - 1 \in 0..n /\ i \in 0..n
    OBVIOUS
  <2>2. /\ m \in Nat /\ cut[i] \in Nat /\ p \in Nat /\ m + p = cut[i]
        /\ total[i] = Piece(c, 0, cut[i]) /\ parts[i] = Piece(c, m, p)
    BY <2>1
  <2>3. CASE i = 1
    BY <2>2, <2>3
  <2>4. CASE i # 1
    <3>1. total[i - 1] = Piece(c, 0, m)
      BY <2>4
    <3> HIDE DEF m, p, total
    <3>2. Piece(c, 0, m) \o Piece(c, m, p) = Piece(c, 0, m + p)
      BY <2>2, PiecesJoined
    <3>. QED  BY <2>2, <2>4, <3>1, <3>2
  <2>. QED  BY <2>3, <2>4
<1>2. FlattenSeq(parts) = total[n]
  <2> HIDE DEF total
  <2>1. Accumulates(parts, total)
    BY <1>1 DEF Accumulates
  <2>. QED  BY <2>1, FlattenIs
<1>. QED  BY <1>2
=============================================================================
