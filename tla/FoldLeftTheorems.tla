-------------------------- MODULE FoldLeftTheorems --------------------------
(***************************************************************************)
(* What FoldLeft computes, for every operator and every sequence: the      *)
(* result so far, and the operator applied to the next element.  A module  *)
(* instantiates this one with the operator it folds.  The induction is the *)
(* one over sets of naturals, from the well-foundedness of <.              *)
(***************************************************************************)
EXTENDS Naturals, SequencesExt, WellFoundedInduction, TLAPS

CONSTANT Op(_, _)

(* A set of naturals with 0 and with every successor has them all.         *)
LEMMA NatSetInduction ==
    ASSUME NEW S, 0 \in S, \A n \in Nat : n \in S => n + 1 \in S
    PROVE  Nat \subseteq S
<1> DEFINE T == Nat \ S
<1> SUFFICES ASSUME T # {} PROVE FALSE
  OBVIOUS
<1>1. PICK x \in T : \A y \in T : ~(<<y, x>> \in OpToRel(<, Nat))
  BY NatLessThanWellFounded, WFMin, T \subseteq Nat
<1>2. \A y \in T : ~(y < x)
  BY <1>1 DEF OpToRel
<1>3. x # 0 /\ x \in Nat
  BY <1>1
<1>4. x - 1 \in Nat /\ x - 1 \notin T
  BY <1>2, <1>3
<1> QED
  BY <1>3, <1>4

(* The fold, of the sequence only.                                         *)
Fold(base, seq) == FoldLeft(Op, base, seq)

(* The iterates of the fold over the first n elements: g[s] folds those    *)
(* whose position is in s.                                                 *)
Iterates(g, base, seq, n) ==
    g = [s \in SUBSET (1..n) |->
           IF s = {} THEN base ELSE Op(g[s \ {Max(s)}], seq[Max(s)])]

LEMMA MaxIsLast ==
    ASSUME NEW n \in Nat, NEW s \in SUBSET (1..n + 1), n + 1 \in s
    PROVE  Max(s) = n + 1
<1>1. \A y \in s : y <= n + 1 /\ y \in Nat
  OBVIOUS
<1>2. \A x \in s : (\A y \in s : x >= y) => x = n + 1
  BY <1>1
<1> QED
  BY <1>1, <1>2 DEF Max

(* Iterates exist.                                                         *)
LEMMA IteratesExist ==
    ASSUME NEW base, NEW seq
    PROVE  \A n \in Nat : \E g : Iterates(g, base, seq, n)
<1> DEFINE S == {n \in Nat : \E g : Iterates(g, base, seq, n)}
<1>1. 0 \in S
  <2> DEFINE g == [s \in SUBSET (1..0) |-> base]
  <2>1. \A s \in SUBSET (1..0) : s = {}
    OBVIOUS
  <2>2. g = [s \in SUBSET (1..0) |->
               IF s = {} THEN base ELSE Op(g[s \ {Max(s)}], seq[Max(s)])]
    BY <2>1
  <2> QED
    BY <2>2 DEF Iterates
<1>2. ASSUME NEW n \in Nat, n \in S PROVE n + 1 \in S
  <2>1. PICK g : Iterates(g, base, seq, n)
    BY <1>2
  <2> DEFINE h == [s \in SUBSET (1..n + 1) |->
                     IF n + 1 \in s THEN Op(g[s \ {n + 1}], seq[n + 1]) ELSE g[s]]
  <2>2. ASSUME NEW s \in SUBSET (1..n + 1)
        PROVE  h[s] = IF s = {} THEN base ELSE Op(h[s \ {Max(s)}], seq[Max(s)])
    <3>1. CASE n + 1 \in s
      <4>1. s \ {n + 1} \in SUBSET (1..n + 1) /\ n + 1 \notin s \ {n + 1}
        OBVIOUS
      <4>2. h[s \ {n + 1}] = g[s \ {n + 1}]
        BY <4>1
      <4>3. h[s] = Op(g[s \ {n + 1}], seq[n + 1])
        BY <3>1
      <4>4. Max(s) = n + 1
        BY <3>1, MaxIsLast
      <4> QED
        BY <3>1, <4>2, <4>3, <4>4
    <3>2. CASE n + 1 \notin s
      <4>1. s \in SUBSET (1..n)
        BY <3>2
      <4>2. h[s] = g[s] /\ h[s \ {Max(s)}] = g[s \ {Max(s)}]
        BY <3>2
      <4>3. g[s] = IF s = {} THEN base ELSE Op(g[s \ {Max(s)}], seq[Max(s)])
        BY <2>1, <4>1 DEF Iterates
      <4> QED
        BY <4>2, <4>3
    <3> QED
      BY <3>1, <3>2
  <2>3. h = [s \in SUBSET (1..n + 1) |->
               IF s = {} THEN base ELSE Op(h[s \ {Max(s)}], seq[Max(s)])]
    <3>1. h = [s \in SUBSET (1..n + 1) |-> h[s]]
      OBVIOUS
    <3> HIDE DEF h
    <3> QED
      BY <2>2, <3>1
  <2>4. Iterates(h, base, seq, n + 1)
    BY <2>3 DEF Iterates
  <2> HIDE DEF h
  <2> QED
    BY <2>4
<1> QED
  BY <1>1, <1>2, NatSetInduction

(* They depend on the elements they fold only.                             *)
LEMMA IteratesAgree ==
    ASSUME NEW base, NEW seq, NEW other, NEW n \in Nat, NEW m \in Nat, n <= m,
           NEW g, NEW h, Iterates(g, base, seq, n), Iterates(h, base, other, m),
           \A i \in 1..n : seq[i] = other[i]
    PROVE  g[1..n] = h[1..n]
<1> DEFINE S == {k \in Nat : k <= n => \A s \in SUBSET (1..k) : g[s] = h[s]}
<1>0. ASSUME NEW s \in SUBSET (1..n)
      PROVE  /\ g[s] = IF s = {} THEN base ELSE Op(g[s \ {Max(s)}], seq[Max(s)])
             /\ h[s] = IF s = {} THEN base ELSE Op(h[s \ {Max(s)}], other[Max(s)])
  <2>1. s \in SUBSET (1..m)
    OBVIOUS
  <2> QED
    BY <2>1 DEF Iterates
<1>1. 0 \in S
  <2>1. {} \in SUBSET (1..n) /\ \A s \in SUBSET (1..0) : s = {}
    OBVIOUS
  <2> QED
    BY <1>0, <2>1
<1>2. ASSUME NEW k \in Nat, k \in S PROVE k + 1 \in S
  <2> SUFFICES ASSUME k + 1 <= n, NEW s \in SUBSET (1..k + 1)
               PROVE  g[s] = h[s]
    OBVIOUS
  <2>1. \A r \in SUBSET (1..k) : g[r] = h[r]
    BY <1>2
  <2>2. CASE k + 1 \in s
    <3>1. Max(s) = k + 1
      BY <2>2, MaxIsLast
    <3>2. s \ {k + 1} \in SUBSET (1..k) /\ s \in SUBSET (1..n) /\ k + 1 \in 1..n
      OBVIOUS
    <3>3. seq[k + 1] = other[k + 1] /\ g[s \ {k + 1}] = h[s \ {k + 1}]
      BY <2>1, <3>2
    <3> QED
      BY <1>0, <3>1, <3>2, <3>3
  <2>3. CASE k + 1 \notin s
    BY <2>1, <2>3
  <2> QED
    BY <2>2, <2>3
<1>3. n \in S
  BY <1>1, <1>2, NatSetInduction
<1> QED
  BY <1>3

(* FoldLeft is the last of the iterates.                                   *)
LEMMA FoldIsIterate ==
    ASSUME NEW base, NEW n \in Nat, NEW seq, DOMAIN seq = 1..n,
           NEW g, Iterates(g, base, seq, n)
    PROVE  Fold(base, seq) = g[1..n]
<1> DEFINE iter == CHOOSE f : f = [s \in SUBSET DOMAIN seq |->
                     IF s = {} THEN base ELSE Op(f[s \ {Max(s)}], seq[Max(s)])]
<1>1. Fold(base, seq) = iter[DOMAIN seq]
  BY DEF Fold, FoldLeft, MapThenFoldSet
<1>2. iter = CHOOSE f : Iterates(f, base, seq, n)
  BY DEF Iterates
<1>3. Iterates(iter, base, seq, n)
  <2> HIDE DEF iter
  <2> QED
    BY <1>2
<1> HIDE DEF iter
<1> QED
  BY <1>1, <1>3, IteratesAgree

(* Nothing folded is the base.                                             *)
THEOREM FoldOfNone ==
    ASSUME NEW base, NEW seq, DOMAIN seq = {}
    PROVE  Fold(base, seq) = base
<1>1. PICK g : Iterates(g, base, seq, 0)
  BY IteratesExist
<1>2. DOMAIN seq = 1..0 /\ 1..0 = {}
  OBVIOUS
<1>3. Fold(base, seq) = g[1..0]
  BY <1>1, <1>2, FoldIsIterate
<1> QED
  BY <1>1, <1>2, <1>3 DEF Iterates

(* One element more is one application more.                               *)
THEOREM FoldOfNext ==
    ASSUME NEW base, NEW n \in Nat, NEW seq, DOMAIN seq = 1..n + 1,
           NEW before, DOMAIN before = 1..n, \A i \in 1..n : before[i] = seq[i]
    PROVE  Fold(base, seq) = Op(Fold(base, before), seq[n + 1])
<1>0. n + 1 \in Nat
  OBVIOUS
<1>1. PICK g : Iterates(g, base, seq, n + 1)
  BY <1>0, IteratesExist
<1>2. PICK h : Iterates(h, base, before, n)
  BY IteratesExist
<1>3. Fold(base, seq) = g[1..n + 1] /\ Fold(base, before) = h[1..n]
  BY <1>1, <1>2, FoldIsIterate
<1>4. h[1..n] = g[1..n]
  BY <1>1, <1>2, IteratesAgree
<1>5. /\ 1..n + 1 \in SUBSET (1..n + 1) /\ n + 1 \in 1..n + 1
      /\ (1..n + 1) \ {n + 1} = 1..n
  OBVIOUS
<1>6. g[1..n + 1] = Op(g[1..n], seq[n + 1])
  <2>1. Max(1..n + 1) = n + 1
    BY <1>5, MaxIsLast
  <2> QED
    BY <1>1, <1>5, <2>1, ZenonT(40) DEF Iterates
<1> QED
  BY <1>3, <1>4, <1>6

(* Sequences with the same elements fold to the same.                      *)
THEOREM FoldOfSame ==
    ASSUME NEW base, NEW n \in Nat, NEW seq, NEW other,
           DOMAIN seq = 1..n, DOMAIN other = 1..n,
           \A i \in 1..n : seq[i] = other[i]
    PROVE  Fold(base, seq) = Fold(base, other)
<1>1. PICK g : Iterates(g, base, seq, n)
  BY IteratesExist
<1>2. PICK h : Iterates(h, base, other, n)
  BY IteratesExist
<1> QED
  BY <1>1, <1>2, IteratesAgree, FoldIsIterate
=============================================================================
