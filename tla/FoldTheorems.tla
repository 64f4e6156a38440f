----------------------------- MODULE FoldTheorems -----------------------------
(***************************************************************************)
(* What FoldLeft(Op, base, b) computes, for any operator Op: the value     *)
(* after n elements is Op of the value after n - 1 and of element n.       *)
(* FoldLeft is defined with a recursive function; that there is one is     *)
(* shown by induction, and induction from the least element of a set of    *)
(* numbers.                                                                *)
(***************************************************************************)
EXTENDS Integers, SequencesExt, WellFoundedInduction, TLAPS

CONSTANT Op(_, _)

(* The function FoldLeft chooses, for the first n elements of b.           *)
IsFold(f, base, b, n) ==
  f = [s \in SUBSET (1 .. n) |->
         IF s = {} THEN base ELSE Op(f[s \ {Max(s)}], b[Max(s)])]

Fold(base, b, n) == (CHOOSE f : IsFold(f, base, b, n))[1 .. n]

-----------------------------------------------------------------------------

LEMMA LessThanIsWellFounded == IsWellFoundedOn({p \in Nat \X Nat : p[1] < p[2]}, Nat)
BY NatLessThanWellFounded DEF OpToRel

LEMMA SetInduction ==
  ASSUME NEW S, 0 \in S, \A n \in Nat : n \in S => n + 1 \in S
  PROVE  Nat \subseteq S
<1> DEFINE T == Nat \ S
           R == {p \in Nat \X Nat : p[1] < p[2]}
<1>1. SUFFICES ASSUME T # {} PROVE FALSE
  OBVIOUS
<1>2. PICK x \in T : \A y \in T : ~(<<y, x>> \in R)
  <2>1. T \subseteq Nat
    OBVIOUS
  <2>2. IsWellFoundedOn(R, Nat)
    BY LessThanIsWellFounded
  <2> HIDE DEF R, T
  <2> QED
    BY <1>1, <2>1, <2>2, WFMin
<1>3. x \in Nat /\ x # 0 /\ x - 1 \in Nat /\ x - 1 < x
  BY <1>2
<1>4. x - 1 \in S
  BY <1>2, <1>3
<1>5. x \in S
  BY <1>3, <1>4
<1> QED
  BY <1>2, <1>5

LEMMA MaxOf ==
  ASSUME NEW n \in Nat, NEW s \in SUBSET (1 .. (n + 1)), n + 1 \in s
  PROVE  Max(s) = n + 1
<1>1. \A x \in s : (\A y \in s : x >= y) => x = n + 1
  OBVIOUS
<1>2. \A y \in s : n + 1 >= y
  OBVIOUS
<1> QED
  BY <1>1, <1>2 DEF Max

LEMMA FoldExists ==
  ASSUME NEW base, NEW b
  PROVE  \A n \in Nat : \E f : IsFold(f, base, b, n)
<1> DEFINE S == {n \in Nat : \E f : IsFold(f, base, b, n)}
<1>1. 0 \in S
  <2>1. 1 .. 0 = {}
    OBVIOUS
  <2>2. IsFold([s \in SUBSET (1 .. 0) |-> base], base, b, 0)
    BY <2>1 DEF IsFold
  <2> QED
    BY <2>2
<1>2. ASSUME NEW n \in Nat, n \in S
      PROVE  n + 1 \in S
  <2>1. PICK f : IsFold(f, base, b, n)
    BY <1>2
  <2> DEFINE g == [s \in SUBSET (1 .. (n + 1)) |->
                     IF n + 1 \in s THEN Op(f[s \ {n + 1}], b[n + 1]) ELSE f[s]]
  <2>2. ASSUME NEW s \in SUBSET (1 .. (n + 1))
        PROVE  g[s] = IF s = {} THEN base ELSE Op(g[s \ {Max(s)}], b[Max(s)])
    <3>1. CASE n + 1 \in s
      <4>1. Max(s) = n + 1
        BY <3>1, MaxOf
      <4>2. s \ {n + 1} \in SUBSET (1 .. (n + 1)) /\ n + 1 \notin s \ {n + 1}
        OBVIOUS
      <4>3. g[s \ {n + 1}] = f[s \ {n + 1}]
        BY <4>2
      <4> QED
        BY <3>1, <4>1, <4>3
    <3>2. CASE n + 1 \notin s
      <4>1. s \in SUBSET (1 .. n)
        BY <3>2
      <4>2. f[s] = IF s = {} THEN base ELSE Op(f[s \ {Max(s)}], b[Max(s)])
        BY <2>1, <4>1 DEF IsFold
      <4>3. g[s] = f[s]
        BY <3>2
      <4>4. g[s \ {Max(s)}] = f[s \ {Max(s)}]
        BY <3>2
      <4> QED
        BY <4>2, <4>3, <4>4
    <3> QED
      BY <3>1, <3>2
  <2>3. IsFold(g, base, b, n + 1)
    BY <2>2 DEF IsFold
  <2> QED
    BY <2>3
<1> HIDE DEF S
<1>3. Nat \subseteq S
  BY <1>1, <1>2, SetInduction
<1> QED
  BY <1>3 DEF S

(* The value after k elements.                                             *)
LEMMA FoldValues ==
  ASSUME NEW base, NEW b, NEW n \in Nat, NEW f, IsFold(f, base, b, n)
  PROVE  /\ f[1 .. 0] = base
         /\ \A k \in Nat : k < n => f[1 .. (k + 1)] = Op(f[1 .. k], b[k + 1])
<1>1. f[1 .. 0] = base
  <2>1. 1 .. 0 = {} /\ {} \in SUBSET (1 .. n)
    OBVIOUS
  <2> QED
    BY <2>1 DEF IsFold
<1>2. ASSUME NEW k \in Nat, k < n
      PROVE  f[1 .. (k + 1)] = Op(f[1 .. k], b[k + 1])
  <2>1. /\ 1 .. (k + 1) \in SUBSET (1 .. n)
        /\ k + 1 \in 1 .. (k + 1) /\ (1 .. (k + 1)) \ {k + 1} = 1 .. k
    <3>1. 1 .. (k + 1) \subseteq 1 .. n
      BY <1>2
    <3>2. k + 1 \in 1 .. (k + 1)
      OBVIOUS
    <3>3. (1 .. (k + 1)) \ {k + 1} = 1 .. k
      OBVIOUS
    <3> QED
      BY <3>1, <3>2, <3>3
  <2>2. Max(1 .. (k + 1)) = k + 1
    BY <2>1, MaxOf
  <2> QED
    BY <2>1, <2>2 DEF IsFold
<1> QED
  BY <1>1, <1>2

(* It depends on those elements only.                                      *)
LEMMA SameValues ==
  ASSUME NEW base, NEW b, NEW c, NEW n \in Nat, NEW m \in Nat,
         NEW f, NEW g, IsFold(f, base, b, n), IsFold(g, base, c, m)
  PROVE  \A k \in Nat :
           k <= n /\ k <= m /\ (\A j \in 1 .. k : b[j] = c[j]) => f[1 .. k] = g[1 .. k]
<1> DEFINE S == {k \in Nat : k <= n /\ k <= m /\ (\A j \in 1 .. k : b[j] = c[j])
                               => f[1 .. k] = g[1 .. k]}
<1>1. /\ f[1 .. 0] = base
      /\ \A k \in Nat : k < n => f[1 .. (k + 1)] = Op(f[1 .. k], b[k + 1])
  BY FoldValues
<1>2. /\ g[1 .. 0] = base
      /\ \A k \in Nat : k < m => g[1 .. (k + 1)] = Op(g[1 .. k], c[k + 1])
  BY FoldValues
<1>3. 0 \in S
  BY <1>1, <1>2
<1>4. ASSUME NEW k \in Nat, k \in S
      PROVE  k + 1 \in S
  <2> SUFFICES ASSUME k + 1 <= n, k + 1 <= m, \A j \in 1 .. (k + 1) : b[j] = c[j]
               PROVE  f[1 .. (k + 1)] = g[1 .. (k + 1)]
    OBVIOUS
  <2>1. k < n /\ k < m /\ b[k + 1] = c[k + 1] /\ \A j \in 1 .. k : b[j] = c[j]
    OBVIOUS
  <2>2. f[1 .. k] = g[1 .. k]
    BY <1>4, <2>1
  <2>3. f[1 .. (k + 1)] = Op(f[1 .. k], b[k + 1])
    BY <1>1, <2>1
  <2>4. g[1 .. (k + 1)] = Op(g[1 .. k], c[k + 1])
    BY <1>2, <2>1
  <2> QED
    BY <2>1, <2>2, <2>3, <2>4
<1> HIDE DEF S
<1>5. Nat \subseteq S
  BY <1>3, <1>4, SetInduction
<1> QED
  BY <1>5 DEF S

-----------------------------------------------------------------------------

LEMMA FoldIs ==
  ASSUME NEW base, NEW b, NEW n \in Nat
  PROVE  \E f : IsFold(f, base, b, n) /\ Fold(base, b, n) = f[1 .. n]
BY FoldExists DEF Fold

LEMMA FoldNothing ==
  ASSUME NEW base, NEW b
  PROVE  Fold(base, b, 0) = base
<1>1. PICK f : IsFold(f, base, b, 0) /\ Fold(base, b, 0) = f[1 .. 0]
  BY FoldIs
<1>2. f[1 .. 0] = base
  BY <1>1, FoldValues
<1> QED
  BY <1>1, <1>2

LEMMA FoldSame ==
  ASSUME NEW base, NEW b, NEW c, NEW n \in Nat, \A k \in 1 .. n : b[k] = c[k]
  PROVE  Fold(base, b, n) = Fold(base, c, n)
<1>1. PICK f : IsFold(f, base, b, n) /\ Fold(base, b, n) = f[1 .. n]
  BY FoldIs
<1>2. PICK g : IsFold(g, base, c, n) /\ Fold(base, c, n) = g[1 .. n]
  BY FoldIs
<1>3. \A k \in Nat :
        k <= n /\ k <= n /\ (\A j \in 1 .. k : b[j] = c[j]) => f[1 .. k] = g[1 .. k]
  BY <1>1, <1>2, SameValues
<1>4. f[1 .. n] = g[1 .. n]
  BY <1>3
<1> QED
  BY <1>1, <1>2, <1>4

LEMMA FoldNext ==
  ASSUME NEW base, NEW b, NEW n \in Nat
  PROVE  Fold(base, b, n + 1) = Op(Fold(base, b, n), b[n + 1])
<1>1. PICK f : IsFold(f, base, b, n) /\ Fold(base, b, n) = f[1 .. n]
  BY FoldIs
<1>2. PICK g : IsFold(g, base, b, n + 1) /\ Fold(base, b, n + 1) = g[1 .. (n + 1)]
  BY FoldIs
<1>3. f[1 .. n] = g[1 .. n]
  <2>1. \A k \in Nat :
          k <= n /\ k <= n + 1 /\ (\A j \in 1 .. k : b[j] = b[j]) => f[1 .. k] = g[1 .. k]
    BY <1>1, <1>2, SameValues
  <2> QED
    BY <2>1
<1>4. g[1 .. (n + 1)] = Op(g[1 .. n], b[n + 1])
  BY <1>2, FoldValues
<1> QED
  BY <1>1, <1>2, <1>3, <1>4

(* A sequence e that begins with the n elements of b and goes on with c.   *)
LEMMA FoldConcat ==
  ASSUME NEW base, NEW b, NEW c, NEW e, NEW n \in Nat, NEW m \in Nat,
         \A k \in 1 .. n : e[k] = b[k], \A k \in 1 .. m : e[n + k] = c[k]
  PROVE  Fold(base, e, n + m) = Fold(Fold(base, b, n), c, m)
<1> DEFINE S == {k \in Nat : k <= m => Fold(base, e, n + k) = Fold(Fold(base, b, n), c, k)}
<1>1. 0 \in S
  <2>1. Fold(base, e, n + 0) = Fold(base, b, n)
    BY FoldSame
  <2> QED
    BY <2>1, FoldNothing
<1>2. ASSUME NEW k \in Nat, k \in S
      PROVE  k + 1 \in S
  <2> SUFFICES ASSUME k + 1 <= m
               PROVE  Fold(base, e, n + (k + 1)) = Fold(Fold(base, b, n), c, k + 1)
    OBVIOUS
  <2>1. /\ k <= m /\ k + 1 \in 1 .. m /\ n + k \in Nat
        /\ n + (k + 1) = (n + k) + 1
    OBVIOUS
  <2>2. Fold(base, e, n + k) = Fold(Fold(base, b, n), c, k)
    BY <1>2, <2>1
  <2>3. Fold(base, e, (n + k) + 1) = Op(Fold(base, e, n + k), e[(n + k) + 1])
    BY <2>1, FoldNext
  <2>4. Fold(Fold(base, b, n), c, k + 1) = Op(Fold(Fold(base, b, n), c, k), c[k + 1])
    BY FoldNext
  <2>5. e[n + (k + 1)] = c[k + 1]
    BY <2>1
  <2> QED
    BY <2>1, <2>2, <2>3, <2>4, <2>5
<1> HIDE DEF S
<1>3. Nat \subseteq S
  BY <1>1, <1>2, SetInduction
<1> QED
  BY <1>3 DEF S
=============================================================================
