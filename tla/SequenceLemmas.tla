--------------------------- MODULE SequenceLemmas ---------------------------
(***************************************************************************)
(* Induction without an operator parameter, and what a fold computes.      *)
(*                                                                         *)
(* The induction theorems of the library are about an operator P(_), which *)
(* the provers used here cannot instantiate.  The principle below is about *)
(* a set T instead: to prove P(n) for every n, take T = {n \in Nat : P(n)}.*)
(* The lemmas about folds take the operation as a function g on pairs, and *)
(* speak of the recursive function that FoldLeft is defined by.            *)
(***************************************************************************)
EXTENDS Integers, SequencesExt, WellFoundedInduction, TLAPS

-----------------------------------------------------------------------------
(* Induction.                                                              *)

(* The numbers smaller than a number come before it.                       *)
LEMMA NatIsWellFounded ==
    \E R : IsWellFoundedOn(R, Nat) /\ \A x, y \in Nat : x < y => <<x, y>> \in R
<1>1. \A x, y \in Nat : x < y => <<x, y>> \in OpToRel(<, Nat)
  BY DEF OpToRel
<1> QED
  BY <1>1, NatLessThanWellFounded

(* A set of naturals that is not empty has a least element.                *)
LEMMA LeastNumber ==
    ASSUME NEW T, T \subseteq Nat, T # {}
    PROVE  \E x \in T : \A y \in T : x <= y
<1>1. PICK R : /\ IsWellFoundedOn(R, Nat)
               /\ \A x, y \in Nat : x < y => <<x, y>> \in R
  BY NatIsWellFounded
<1>2. IsWellFoundedOn(R, Nat)
  BY <1>1
<1>3. PICK x \in T : \A y \in T : ~(<<y, x>> \in R)
  BY <1>2, WFMin
<1>4. ASSUME NEW y \in T
      PROVE  x <= y
  <2>1. ~(<<y, x>> \in R) /\ y \in Nat /\ x \in Nat
    BY <1>3
  <2>2. ~(y < x)
    BY <1>1, <2>1
  <2> QED
    BY <2>1, <2>2
<1> QED
  BY <1>4

(* Induction, of a set: what holds zero and every successor holds all.     *)
LEMMA Induction ==
    ASSUME NEW T, 0 \in T, \A n \in Nat : n \in T => n + 1 \in T
    PROVE  Nat \subseteq T
<1> SUFFICES ASSUME Nat \ T # {} PROVE FALSE
  OBVIOUS
<1>1. PICK x \in Nat \ T : \A y \in Nat \ T : x <= y
  BY LeastNumber
<1>2. x # 0 /\ x - 1 \in Nat
  BY <1>1
<1>3. x - 1 \in T
  BY <1>1, <1>2
<1>4. x - 1 + 1 \in T /\ x - 1 + 1 = x
  BY <1>2, <1>3
<1> QED
  BY <1>4

-----------------------------------------------------------------------------
(* Sequences.                                                              *)

(* What a sequence without its element i is.                               *)
LEMMA Removed ==
    ASSUME NEW S, NEW c \in Seq(S), NEW i \in 1 .. Len(c)
    PROVE  /\ RemoveAt(c, i) \in Seq(S) /\ Len(RemoveAt(c, i)) = Len(c) - 1
           /\ \A j \in 1 .. Len(c) - 1 : RemoveAt(c, i)[j] = IF j < i THEN c[j] ELSE c[j+1]
<1> DEFINE a == SubSeq(c, 1, i-1)
           b == SubSeq(c, i+1, Len(c))
<1>1. a \in Seq(S) /\ Len(a) = i - 1 /\ \A j \in 1 .. i-1 : a[j] = c[j]
  OBVIOUS
<1>2. b \in Seq(S) /\ Len(b) = Len(c) - i /\ \A j \in 1 .. Len(c)-i : b[j] = c[j+i]
  OBVIOUS
<1>3. RemoveAt(c, i) = a \o b
  BY DEF RemoveAt
<1> HIDE DEF a, b
<1>4. /\ a \o b \in Seq(S) /\ Len(a \o b) = Len(c) - 1
      /\ \A j \in 1 .. i-1 : (a \o b)[j] = a[j]
      /\ \A j \in 1 .. Len(c)-i : (a \o b)[i-1+j] = b[j]
  <2>1. /\ a \o b \in Seq(S) /\ Len(a \o b) = Len(a) + Len(b)
        /\ \A j \in 1 .. Len(a) : (a \o b)[j] = a[j]
        /\ \A j \in 1 .. Len(b) : (a \o b)[Len(a) + j] = b[j]
    <3>1. a \in Seq(S) /\ b \in Seq(S)
      BY <1>1, <1>2
    <3> QED
      BY <3>1
  <2>2. i - 1 + (Len(c) - i) = Len(c) - 1
    OBVIOUS
  <2> QED
    BY <1>1, <1>2, <2>1, <2>2
<1>5. ASSUME NEW j \in 1 .. Len(c) - 1
      PROVE  (a \o b)[j] = IF j < i THEN c[j] ELSE c[j+1]
  <2>1. CASE j < i
    BY <1>1, <1>4, <2>1
  <2>2. CASE ~(j < i)
    <3>1. j-(i-1) \in 1 .. Len(c)-i /\ j-(i-1)+i = j+1 /\ i-1+(j-(i-1)) = j
      BY <2>2
    <3> QED
      BY <1>2, <1>4, <2>2, <3>1
  <2> QED
    BY <2>1, <2>2
<1> QED
  BY <1>3, <1>4, <1>5

(* What a sequence is whose element i was moved to the end.                *)
LEMMA MovedToEnd ==
    ASSUME NEW S, NEW c \in Seq(S), NEW i \in 1 .. Len(c)
    PROVE  LET d == Append(RemoveAt(c, i), c[i])
           IN  /\ d \in Seq(S) /\ Len(d) = Len(c)
               /\ \A j \in 1 .. Len(c) :
                     d[j] = IF j < i THEN c[j] ELSE IF j < Len(c) THEN c[j+1] ELSE c[i]
<1> DEFINE r == RemoveAt(c, i)
           d == Append(r, c[i])
<1>1. /\ r \in Seq(S) /\ Len(r) = Len(c) - 1
      /\ \A j \in 1 .. Len(c) - 1 : r[j] = IF j < i THEN c[j] ELSE c[j+1]
  BY Removed
<1>2. c[i] \in S /\ Len(c) \in Nat
  OBVIOUS
<1> HIDE DEF r
<1>3. /\ d \in Seq(S) /\ Len(d) = Len(c) /\ d[Len(c)] = c[i]
      /\ \A j \in 1 .. Len(c) - 1 : d[j] = r[j]
  BY <1>1, <1>2
<1>4. \A j \in 1 .. Len(c) : j = Len(c) \/ (j < Len(c) /\ j \in 1 .. Len(c) - 1)
  BY <1>2
<1> HIDE DEF d
<1>5. \A j \in 1 .. Len(c) :
          d[j] = IF j < i THEN c[j] ELSE IF j < Len(c) THEN c[j+1] ELSE c[i]
  BY <1>1, <1>2, <1>3, <1>4
<1> QED
  BY <1>3, <1>5 DEF d, r

-----------------------------------------------------------------------------
(* The fold over a sequence of n elements is a function on the subsets of  *)
(* its positions, the greatest position taken last.                        *)

(* A set of positions up to k that has k has it last.                      *)
LEMMA MaxIsTop ==
    ASSUME NEW k \in Nat, NEW t \in SUBSET (1..k), k \in t
    PROVE  Max(t) = k
<1>1. \A y \in t : k >= y
  OBVIOUS
<1>2. \A x \in t : (\A y \in t : x >= y) => x = k
  OBVIOUS
<1> QED
  BY <1>1, <1>2 DEF Max

(* A set of positions that is not empty has a greatest one.                *)
LEMMA MaxIsMember ==
    ASSUME NEW k \in Nat, NEW t \in SUBSET (1..k), t # {}
    PROVE  Max(t) \in t
<1> DEFINE T == {k - x : x \in t}
<1>1. T \subseteq Nat
  <2> SUFFICES ASSUME NEW x \in t PROVE k - x \in Nat
    OBVIOUS
  <2> x \in 1..k
    OBVIOUS
  <2> QED
    OBVIOUS
<1>2. T # {}
  <2> PICK x \in t : TRUE
    OBVIOUS
  <2> k - x \in T
    OBVIOUS
  <2> QED
    OBVIOUS
<1>3. PICK z \in T : \A y \in T : z <= y
  <2> HIDE DEF T
  <2> QED
    BY <1>1, <1>2, LeastNumber
<1>4. PICK x \in t : z = k - x
  OBVIOUS
<1>5. ASSUME NEW y \in t
      PROVE  x >= y
  <2>1. k - y \in T
    OBVIOUS
  <2>2. z <= k - y
    BY <1>3, <2>1
  <2>3. x \in 1..k /\ y \in 1..k
    OBVIOUS
  <2> QED
    BY <1>4, <2>2, <2>3
<1> HIDE DEF T
<1> QED
  BY <1>5 DEF Max

(* The equation of a fold of g from p, on the subsets of the first k       *)
(* positions.  It is asked for only where what f has computed so far is a  *)
(* value of B, the values that g is defined on.                            *)
FoldEquation(f, B, p, g, k) ==
    /\ f[{}] = p
    /\ \A t \in SUBSET (1..k) :
          t # {} /\ f[t \ {Max(t)}] \in B => f[t] = g[<<f[t \ {Max(t)}], Max(t)>>]

(* A set of the first k + 1 positions is one of the first k, or has the    *)
(* last one and is one of the first k without it.                          *)
LEMMA Positions ==
    ASSUME NEW k \in Nat, NEW t \in SUBSET (1..(k+1))
    PROVE  /\ t \ {k+1} \in SUBSET (1..k)
           /\ k + 1 \notin t => t \in SUBSET (1..k)
<1>1. ASSUME NEW x \in t, x # k + 1
      PROVE  x \in 1..k
  <2> x \in 1..(k+1)
    OBVIOUS
  <2> QED
    BY <1>1
<1> QED
  BY <1>1

(* The fold of one more element.                                           *)
LEMMA FoldGrows ==
    ASSUME NEW B, NEW p \in B, NEW n \in Nat, NEW g \in [B \X (1..n) -> B],
           NEW k \in Nat, k + 1 <= n,
           NEW f \in [SUBSET (1..k) -> B], FoldEquation(f, B, p, g, k)
    PROVE  \E h \in [SUBSET (1..(k+1)) -> B] : FoldEquation(h, B, p, g, k + 1)
<1> DEFINE h == [t \in SUBSET (1..(k+1)) |->
                   IF k + 1 \in t THEN g[<<f[t \ {k+1}], k + 1>>] ELSE f[t]]
<1>1. k + 1 \in 1..n
  OBVIOUS
<1>2. h \in [SUBSET (1..(k+1)) -> B]
  <2>1. ASSUME NEW t \in SUBSET (1..(k+1))
        PROVE  (IF k + 1 \in t THEN g[<<f[t \ {k+1}], k + 1>>] ELSE f[t]) \in B
    <3>1. CASE k + 1 \in t
      <4>1. t \ {k+1} \in SUBSET (1..k)
        BY Positions
      <4>2. f[t \ {k+1}] \in B
        BY <4>1
      <4>3. <<f[t \ {k+1}], k + 1>> \in B \X (1..n)
        BY <1>1, <4>2
      <4>4. g[<<f[t \ {k+1}], k + 1>>] \in B
        BY <4>3
      <4> QED
        BY <3>1, <4>4
    <3>2. CASE k + 1 \notin t
      <4>1. t \in SUBSET (1..k)
        BY <3>2, Positions
      <4> QED
        BY <3>2, <4>1
    <3> QED
      BY <3>1, <3>2
  <2> QED
    BY <2>1
<1>3. ASSUME NEW t \in SUBSET (1..k)
      PROVE  h[t] = f[t]
  <2>1. k + 1 \notin 1..k /\ 1..k \subseteq 1..(k+1)
    OBVIOUS
  <2>2. t \in SUBSET (1..(k+1)) /\ k + 1 \notin t
    BY <2>1
  <2> QED
    BY <2>2
<1>4. h[{}] = p
  BY <1>3 DEF FoldEquation
<1>5. ASSUME NEW t \in SUBSET (1..(k+1)), t # {}
      PROVE  h[t] = g[<<h[t \ {Max(t)}], Max(t)>>]
  <2>1. CASE k + 1 \in t
    <3>1. Max(t) = k + 1
      BY <2>1, MaxIsTop, k + 1 \in Nat
    <3>2. h[t \ {k+1}] = f[t \ {k+1}]
      BY <1>3, Positions
    <3>3. h[t] = g[<<f[t \ {k+1}], k + 1>>]
      BY <2>1
    <3> QED
      BY <3>1, <3>2, <3>3
  <2>2. CASE k + 1 \notin t
    <3>1. t \in SUBSET (1..k)
      BY <2>2, Positions
    <3>2. t \ {Max(t)} \in SUBSET (1..k)
      BY <3>1
    <3>3. f[t] = g[<<f[t \ {Max(t)}], Max(t)>>]
      BY <1>5, <3>1, <3>2 DEF FoldEquation
    <3>4. h[t] = f[t] /\ h[t \ {Max(t)}] = f[t \ {Max(t)}]
      BY <1>3, <3>1, <3>2
    <3> QED
      BY <3>3, <3>4
  <2> QED
    BY <2>1, <2>2
<1> HIDE DEF h
<1>6. FoldEquation(h, B, p, g, k + 1)
  BY <1>4, <1>5 DEF FoldEquation
<1> QED
  BY <1>2, <1>6

(* Such a function exists.                                                 *)
LEMMA FoldExists ==
    ASSUME NEW B, NEW p \in B, NEW n \in Nat, NEW g \in [B \X (1..n) -> B]
    PROVE  \E f \in [SUBSET (1..n) -> B] : FoldEquation(f, B, p, g, n)
<1> DEFINE T == {k \in Nat : k <= n => \E f \in [SUBSET (1..k) -> B] : FoldEquation(f, B, p, g, k)}
<1>1. 0 \in T
  <2> DEFINE f == [t \in SUBSET (1..0) |-> p]
  <2>1. 1..0 = {}
    OBVIOUS
  <2>2. f \in [SUBSET (1..0) -> B] /\ f[{}] = p
    BY <2>1
  <2>3. \A t \in SUBSET (1..0) : t = {}
    BY <2>1
  <2> HIDE DEF f
  <2>4. FoldEquation(f, B, p, g, 0)
    BY <2>2, <2>3 DEF FoldEquation
  <2>5. \E e \in [SUBSET (1..0) -> B] : FoldEquation(e, B, p, g, 0)
    BY <2>2, <2>4
  <2> QED
    BY <2>5
<1>2. ASSUME NEW k \in Nat, k \in T
      PROVE  k + 1 \in T
  <2>1. k + 1 <= n => k <= n
    OBVIOUS
  <2>2. ASSUME k + 1 <= n
        PROVE  \E h \in [SUBSET (1..(k+1)) -> B] : FoldEquation(h, B, p, g, k + 1)
    <3>1. PICK f \in [SUBSET (1..k) -> B] : FoldEquation(f, B, p, g, k)
      BY <1>2, <2>1, <2>2
    <3> QED
      BY <2>2, <3>1, FoldGrows
  <2>3. k + 1 \in Nat
    OBVIOUS
  <2> QED
    BY <2>2, <2>3
<1>3. Nat \subseteq T
  <2> HIDE DEF T
  <2> QED
    BY <1>1, <1>2, Induction
<1>4. n \in T
  BY <1>3
<1>5. n <= n => \E f \in [SUBSET (1..n) -> B] : FoldEquation(f, B, p, g, n)
  BY <1>4
<1>6. n <= n
  OBVIOUS
<1> HIDE DEF T
<1> QED
  BY <1>5, <1>6

(* What it makes of the first k positions is one step from the first k - 1.*)
FoldStep(f, g, k) == f[1..k] = g[<<f[1..(k-1)], k>>]

(* Any such function takes the positions in their order.                   *)
LEMMA FoldSteps ==
    ASSUME NEW B, NEW p \in B, NEW n \in Nat, NEW g \in [B \X (1..n) -> B],
           NEW f, FoldEquation(f, B, p, g, n)
    PROVE  \A k \in 0..n :
              /\ f[1..k] \in B
              /\ k # 0 => FoldStep(f, g, k)
<1> DEFINE P(k) == f[1..k] \in B /\ (k # 0 => f[1..k] = g[<<f[1..(k-1)], k>>])
           T == {k \in Nat : k <= n => P(k)}
<1>1. 0 \in T
  <2>1. 1..0 = {}
    OBVIOUS
  <2>2. f[1..0] = p
    BY <2>1 DEF FoldEquation
  <2> QED
    BY <2>2
<1>2. ASSUME NEW k \in Nat, k \in T
      PROVE  k + 1 \in T
  <2>1. ASSUME k + 1 <= n
        PROVE  P(k + 1)
    <3>1. k <= n
      BY <2>1
    <3>2. f[1..k] \in B
      BY <1>2, <3>1
    <3> DEFINE t == 1..(k+1)
    <3>3. t \in SUBSET (1..n)
      BY <2>1
    <3>4. k + 1 \in t /\ t # {}
      OBVIOUS
    <3>5. t \ {k+1} = 1..k
      OBVIOUS
    <3>6. Max(t) = k + 1
      BY <3>4, MaxIsTop, k + 1 \in Nat
    <3> HIDE DEF t
    <3>7. f[t] = g[<<f[t \ {Max(t)}], Max(t)>>]
      BY <3>2, <3>3, <3>4, <3>5, <3>6 DEF FoldEquation
    <3>8. f[t] = g[<<f[1..k], k + 1>>]
      BY <3>5, <3>6, <3>7
    <3>9. <<f[1..k], k + 1>> \in B \X (1..n)
      BY <2>1, <3>2
    <3>10. g[<<f[1..k], k + 1>>] \in B
      BY <3>9
    <3>11. 1..((k+1)-1) = 1..k
      OBVIOUS
    <3> QED
      BY <3>8, <3>10, <3>11 DEF t
  <2> HIDE DEF P
  <2>2. k + 1 \in Nat
    OBVIOUS
  <2> QED
    BY <2>1, <2>2
<1>3. Nat \subseteq T
  <2> HIDE DEF T
  <2> QED
    BY <1>1, <1>2, Induction
<1> SUFFICES ASSUME NEW k \in 0..n PROVE P(k)
  BY DEF FoldStep
<1>4. k \in T /\ k <= n
  BY <1>3
<1> HIDE DEF P
<1> QED
  BY <1>4
=============================================================================
