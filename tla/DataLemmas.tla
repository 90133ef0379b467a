------------------------------ MODULE DataLemmas ------------------------------
(***************************************************************************)
(* Facts about numbers, maxima and folds that the proofs of the components *)
(* share.                                                                  *)
(*                                                                         *)
(* Induction is stated over sets of numbers instead of predicates, and     *)
(* derived from the least-element theorem for well-founded relations. A    *)
(* fold over a sequence is the value of a recursive function on the sets   *)
(* of its positions: FoldTable shows that there is such a function, so     *)
(* that FoldLeft can be unrolled one element at a time.                    *)
(***************************************************************************)
EXTENDS Integers, Sequences, FiniteSets, FiniteSetsExt, SequencesExt,
        WellFoundedInduction, TLAPS

-----------------------------------------------------------------------------
(* Least elements, induction, maxima *)

Below == {ss \in Nat \X Nat : ss[1] < ss[2]}

LEMMA BelowIsWellFounded == IsWellFoundedOn(Below, Nat)
<1>1. Below = OpToRel(<, Nat)
  BY DEF Below, OpToRel
<1>2. QED
  BY <1>1, NatLessThanWellFounded

\* A set of natural numbers that is not empty has a least element.
LEMMA LeastNumber ==
  ASSUME NEW T \in SUBSET Nat, T # {}
  PROVE  \E m \in T : \A k \in T : m <= k
<1>1. \E x \in T : \A y \in T : <<y, x>> \notin Below
  BY BelowIsWellFounded, WFMin
<1>2. PICK x \in T : \A y \in T : <<y, x>> \notin Below
  BY <1>1
<1>3. ASSUME NEW y \in T PROVE x <= y
  <2>1. /\ <<y, x>> \notin Below /\ <<y, x>> \in Nat \X Nat
        /\ <<y, x>>[1] = y /\ <<y, x>>[2] = x
    BY <1>2
  <2>2. ~ (y < x)
    BY <2>1 DEF Below
  <2>3. QED
    BY <2>2
<1>4. QED
  BY <1>2, <1>3

\* A set that holds 0 and with every number up to n the next holds all up to n.
LEMMA NumberInduction ==
  ASSUME NEW n \in Nat, NEW T, 0 \in T, \A k \in 0 .. n - 1 : k \in T => k + 1 \in T
  PROVE  0 .. n \subseteq T
<1>1. SUFFICES ASSUME (0 .. n) \ T # {} PROVE FALSE
  OBVIOUS
<1>2. PICK m \in (0 .. n) \ T : \A k \in (0 .. n) \ T : m <= k
  <2>1. (0 .. n) \ T \in SUBSET Nat
    OBVIOUS
  <2>2. QED
    BY <1>1, <2>1, LeastNumber
<1>3. m # 0 /\ m - 1 \in 0 .. n - 1
  BY <1>2
<1>4. m - 1 \in T
  BY <1>2, <1>3
<1>5. QED
  BY <1>2, <1>3, <1>4

\* A bounded set of positive numbers that is not empty has a maximum.
LEMMA MaxOfBounded ==
  ASSUME NEW n \in Nat, NEW t, t \subseteq 1 .. n, t # {}
  PROVE  Max(t) \in t /\ \A i \in t : i <= Max(t)
<1> DEFINE below == {i \in Nat : n - i \in t}
<1>1. below \in SUBSET Nat /\ below # {}
  <2>1. PICK i \in t : TRUE
    OBVIOUS
  <2>2. i \in 1 .. n
    BY <2>1
  <2>3. n - i \in Nat /\ n - (n - i) = i
    BY <2>2
  <2>4. n - i \in below
    BY <2>1, <2>3
  <2>5. QED
    BY <2>4
<1>2. PICK m \in below : \A k \in below : m <= k
  BY <1>1, LeastNumber
<1>3. n - m \in t
  BY <1>2
<1>4. ASSUME NEW i \in t PROVE n - m >= i
  <2>1. i \in 1 .. n /\ n - i \in Nat /\ n - (n - i) = i
    OBVIOUS
  <2>2. n - i \in below
    BY <2>1
  <2>3. m <= n - i /\ m \in Nat
    BY <1>2, <2>2
  <2>4. QED
    BY <2>1, <2>3
<1> HIDE DEF below
<1>5. \E x \in t : \A y \in t : x >= y
  BY <1>3, <1>4
<1>6. Max(t) \in t /\ \A y \in t : Max(t) >= y
  BY <1>5, Zenon DEF Max
<1>7. t \subseteq Int
  OBVIOUS
<1>8. QED
  BY <1>6, <1>7

LEMMA MinOfBounded ==
  ASSUME NEW n \in Nat, NEW t, t \subseteq 1 .. n, t # {}
  PROVE  Min(t) \in t
<1>1. t \in SUBSET Nat
  OBVIOUS
<1>2. \E x \in t : \A y \in t : x <= y
  BY <1>1, LeastNumber
<1>3. QED
  BY <1>2, Zenon DEF Min

LEMMA MaxOfInterval ==
  ASSUME NEW k \in Nat \ {0}
  PROVE  Max(1 .. k) = k /\ (1 .. k) \ {k} = 1 .. k - 1
<1>1. k \in 1 .. k
  OBVIOUS
<1>2. Max(1 .. k) \in 1 .. k /\ \A i \in 1 .. k : i <= Max(1 .. k)
  BY <1>1, MaxOfBounded
<1>3. Max(1 .. k) = k
  BY <1>1, <1>2
<1>4. QED
  BY <1>3

-----------------------------------------------------------------------------
(* Folds *)

\* What the recursive function of a fold has to satisfy on the positions t.
Folded(g, t, base, step) ==
  g[t] = IF t = {} THEN base ELSE step[Max(t)][g[t \ {Max(t)}]]

\* Steps that map B to B have a function on the sets of positions up to n.
LEMMA FoldTable ==
  ASSUME NEW n \in Nat, NEW B, NEW base \in B, NEW step \in [1 .. n -> [B -> B]]
  PROVE  \E g \in [SUBSET (1 .. n) -> B] :
           \A t \in SUBSET (1 .. n) : Folded(g, t, base, step)
<1> DEFINE Tables(k) == {g \in [SUBSET (1 .. k) -> B] :
                           \A t \in SUBSET (1 .. k) : Folded(g, t, base, step)}
           T == {k \in 0 .. n : Tables(k) # {}}
<1>1. 0 \in T
  <2>1. [t \in SUBSET (1 .. 0) |-> base] \in Tables(0)
    BY DEF Folded
  <2>2. QED
    BY <2>1
<1>2. ASSUME NEW k \in 0 .. n - 1, k \in T PROVE k + 1 \in T
  <2>1. PICK g : /\ g \in [SUBSET (1 .. k) -> B]
                 /\ \A t \in SUBSET (1 .. k) : Folded(g, t, base, step)
    BY <1>2
  <2> DEFINE new == [t \in SUBSET (1 .. k + 1) |->
                       IF k + 1 \in t THEN step[k + 1][g[t \ {k + 1}]] ELSE g[t]]
  <2>2. ASSUME NEW t \in SUBSET (1 .. k + 1), k + 1 \in t
        PROVE  /\ Max(t) = k + 1 /\ t \ {k + 1} \in SUBSET (1 .. k)
               /\ new[t] \in B /\ Folded(new, t, base, step)
    <3>1. Max(t) = k + 1
      <4>1. k + 1 \in Nat /\ t \subseteq 1 .. k + 1 /\ t # {}
        BY <2>2
      <4>2. Max(t) \in t /\ \A i \in t : i <= Max(t)
        BY <4>1, MaxOfBounded
      <4>3. Max(t) \in 1 .. k + 1 /\ k + 1 <= Max(t)
        BY <2>2, <4>1, <4>2
      <4>4. QED
        BY <4>3
    <3>2. t \ {k + 1} \in SUBSET (1 .. k) /\ k + 1 \notin t \ {k + 1}
      OBVIOUS
    <3>3. /\ new[t] = step[k + 1][g[t \ {k + 1}]]
          /\ new[t \ {k + 1}] = g[t \ {k + 1}]
      BY <2>2, <3>2
    <3>4. g[t \ {k + 1}] \in B /\ step[k + 1] \in [B -> B]
      BY <2>1, <3>2
    <3>5. new[t] \in B
      BY <3>3, <3>4
    <3>6. QED
      BY <2>2, <3>1, <3>2, <3>3, <3>5 DEF Folded
  <2>3. ASSUME NEW t \in SUBSET (1 .. k + 1), k + 1 \notin t
        PROVE  new[t] \in B /\ Folded(new, t, base, step)
    <3>1. t \in SUBSET (1 .. k)
      BY <2>3
    <3>2. new[t] = g[t] /\ g[t] \in B /\ Folded(g, t, base, step)
      BY <2>1, <2>3, <3>1
    <3>3. CASE t = {}
      BY <3>2, <3>3 DEF Folded
    <3>4. CASE t # {}
      <4>1. t \ {Max(t)} \in SUBSET (1 .. k + 1) /\ k + 1 \notin t \ {Max(t)}
        BY <2>3
      <4>2. new[t \ {Max(t)}] = g[t \ {Max(t)}]
        BY <4>1
      <4>3. QED
        BY <3>2, <3>4, <4>2 DEF Folded
    <3>5. QED
      BY <3>3, <3>4
  <2>4. new \in [SUBSET (1 .. k + 1) -> B]
    BY <2>2, <2>3
  <2>5. new \in Tables(k + 1)
    BY <2>2, <2>3, <2>4
  <2>6. k + 1 \in 0 .. n
    OBVIOUS
  <2>7. Tables(k + 1) # {}
    BY <2>5
  <2> HIDE DEF Tables
  <2>8. QED
    BY <2>6, <2>7
<1> HIDE DEF Tables, T
<1>3. n \in T
  <2>1. 0 .. n \subseteq T
    BY <1>1, <1>2, NumberInduction
  <2>2. QED
    BY <2>1
<1>4. QED
  BY <1>3 DEF T, Tables

\* A function of that kind, whatever it is where a step is applied to something
\* outside B.
IsFold(iter, n, B, base, step) ==
  /\ iter[{}] = base
  /\ \A t \in SUBSET (1 .. n) : t # {} /\ iter[t \ {Max(t)}] \in B
       => iter[t] = step[Max(t)][iter[t \ {Max(t)}]]

\* It runs through the steps one after the other.
LEMMA FoldUnrolls ==
  ASSUME NEW n \in Nat, NEW B, NEW base \in B, NEW step \in [1 .. n -> [B -> B]],
         NEW iter, IsFold(iter, n, B, base, step)
  PROVE  \E h \in [0 .. n -> B] :
           /\ h[0] = base /\ h[n] = iter[1 .. n]
           /\ \A k \in 1 .. n : h[k] = step[k][h[k - 1]]
<1> DEFINE T == {k \in 0 .. n : iter[1 .. k] \in B}
           h == [k \in 0 .. n |-> iter[1 .. k]]
<1>0. /\ iter[{}] = base
      /\ \A t \in SUBSET (1 .. n) : t # {} /\ iter[t \ {Max(t)}] \in B
           => iter[t] = step[Max(t)][iter[t \ {Max(t)}]]
  BY DEF IsFold
<1>1. 1 .. 0 = {}
  OBVIOUS
<1>2. 0 \in T
  BY <1>0, <1>1
<1>3. ASSUME NEW k \in 1 .. n, iter[1 .. k - 1] \in B
      PROVE  iter[1 .. k] = step[k][iter[1 .. k - 1]] /\ iter[1 .. k] \in B
  <2>1. Max(1 .. k) = k /\ (1 .. k) \ {k} = 1 .. k - 1
    BY MaxOfInterval
  <2>2. k \in 1 .. k /\ 1 .. k \subseteq 1 .. n
    OBVIOUS
  <2>3. iter[1 .. k] = step[k][iter[1 .. k - 1]]
    <3>1. 1 .. k \in SUBSET (1 .. n) /\ 1 .. k # {}
      BY <2>2, Zenon
    <3>2. QED
      BY <1>0, <1>3, <2>1, <3>1, Zenon
  <2>4. step[k] \in [B -> B]
    OBVIOUS
  <2>5. QED
    BY <1>3, <2>3, <2>4
<1>4. ASSUME NEW k \in 0 .. n - 1, k \in T PROVE k + 1 \in T
  <2>1. k + 1 \in 1 .. n /\ k + 1 \in 0 .. n /\ (k + 1) - 1 = k
    OBVIOUS
  <2>2. QED
    BY <1>3, <1>4, <2>1
<1> HIDE DEF T
<1>5. 0 .. n \subseteq T
  BY <1>2, <1>4, NumberInduction
<1>6. \A k \in 0 .. n : iter[1 .. k] \in B
  BY <1>5 DEF T
<1>7. h \in [0 .. n -> B]
  BY <1>6
<1>8. h[0] = base
  BY <1>0, <1>1
<1>9. \A k \in 1 .. n : h[k] = step[k][h[k - 1]]
  <2>1. SUFFICES ASSUME NEW k \in 1 .. n PROVE h[k] = step[k][h[k - 1]]
    OBVIOUS
  <2>2. k \in 0 .. n /\ k - 1 \in 0 .. n
    OBVIOUS
  <2>3. QED
    BY <1>3, <1>6, <2>2
<1>10. h[n] = iter[1 .. n]
  OBVIOUS
<1> HIDE DEF h
<1>11. QED
  BY <1>7, <1>8, <1>9, <1>10
=============================================================================
