----------------------------- MODULE FoldLemmas ------------------------------
(***************************************************************************)
(* Induction over numbers, what a fold over a sequence goes through, and   *)
(* sums over finite sets.                                                  *)
(*                                                                         *)
(* FoldLeft is a recursive function over the sets of a sequence's indices, *)
(* which takes the last index away.  Whoever proves something of a fold    *)
(* shows that its function exists (FoldExists, with the step as a          *)
(* function), reads it along the prefixes (Prefix), and inducts over them  *)
(* (Induction, with the claim as a set of numbers).  A sum over a set is   *)
(* known by what it is of no element and of one element more (Sums); with  *)
(* that, the heaviest of a set outweigh as many others (SumOfTheHeavier).  *)
(***************************************************************************)
EXTENDS FiniteSetsExt, FiniteSetTheorems, WellFoundedInduction, TLAPS

Below == {ss \in Nat \X Nat : ss[1] < ss[2]}

LEMMA BelowIsWellFounded == IsWellFoundedOn(Below, Nat)
<1>1. OpToRel(<, Nat) = Below
  BY Zenon DEF OpToRel, Below
<1> QED
  BY <1>1, NatLessThanWellFounded, Zenon

LEMMA HasLeast ==
  ASSUME NEW S \in SUBSET Nat, S # {}
  PROVE  \E m \in S : \A o \in S : m <= o
<1>1. \E x \in S : \A y \in S : ~ (<<y, x>> \in Below)
  BY BelowIsWellFounded, WFMin
<1>2. \A m, n \in Nat : <<m, n>> \in Below <=> m < n
  BY DEF Below
<1>3. \A m, n \in Nat : m <= n <=> ~ (n < m)
  OBVIOUS
<1> QED
  BY <1>1, <1>2, <1>3

LEMMA LeastIsOne ==
  ASSUME NEW S \in SUBSET Nat, S # {}
  PROVE  Min(S) \in S
  BY HasLeast DEF Min

LEMMA Induction ==
  ASSUME NEW S \in SUBSET Nat, 0 \in S, \A n \in S : n + 1 \in S
  PROVE  S = Nat
<1> DEFINE R == Nat \ S
<1>1. SUFFICES ASSUME R # {} PROVE FALSE
  OBVIOUS
<1>2. PICK x \in R : \A y \in R : x <= y
  BY <1>1, HasLeast
<1>3. x - 1 \in Nat /\ x - 1 < x
  BY <1>2
<1>4. x - 1 \in S
  BY <1>2, <1>3
<1> QED
  BY <1>2, <1>3, <1>4

LEMMA MaxIsOne ==
  ASSUME NEW n \in Nat, NEW S \in SUBSET (1..n), S # {}
  PROVE  /\ Max(S) \in S
         /\ \A x \in S : x <= Max(S)
<1> DEFINE bounds == {k \in Nat : \A x \in S : x <= k}
<1>1. n \in bounds
  OBVIOUS
<1>2. PICK k \in bounds : \A o \in bounds : k <= o
  <2>1. bounds # {} /\ bounds \in SUBSET Nat
    BY <1>1
  <2> QED
    BY <2>1, HasLeast
<1>3. k \in S
  <2>1. SUFFICES ASSUME k \notin S PROVE FALSE
    OBVIOUS
  <2>2. \A x \in S : x \in Nat /\ x <= k - 1 /\ k - 1 \in Nat
    BY <1>2, <2>1
  <2>3. k - 1 \in bounds
    BY <1>2, <2>2
  <2> QED
    BY <1>2, <2>3
<1>4. \A x \in S : k >= x
  BY <1>2
<1> HIDE DEF bounds
<1>5. Max(S) \in S /\ \A y \in S : Max(S) >= y
  BY <1>3, <1>4 DEF Max
<1> QED
  BY <1>5

(* The last of a prefix, and the prefix before it.                          *)
LEMMA Prefix ==
  ASSUME NEW n \in Nat, NEW k \in 1..n
  PROVE  /\ 1..k \in SUBSET (1..n) /\ 1..k # {}
         /\ Max(1..k) = k
         /\ (1..k) \ {k} = 1..(k - 1)
<1>1. 1..k \in SUBSET (1..n) /\ 1..k # {}
  OBVIOUS
<1>2. Max(1..k) \in 1..k /\ \A x \in 1..k : x <= Max(1..k)
  BY <1>1, MaxIsOne
<1> QED
  BY <1>1, <1>2

(* The function of a fold whose steps are those of a function.              *)
FoldsTo(g, R, base, m, step) ==
  /\ g \in [SUBSET (1..m) -> R]
  /\ \A s \in SUBSET (1..m) :
       g[s] = IF s = {} THEN base ELSE step[<<g[s \ {Max(s)}], Max(s)>>]

LEMMA FoldExists ==
  ASSUME NEW R, NEW base \in R, NEW n \in Nat, NEW step \in [R \X (1..n) -> R]
  PROVE  \E g : FoldsTo(g, R, base, n, step)
<1> DEFINE Folds(g, m) == FoldsTo(g, R, base, m, step)
           S == {m \in Nat : m <= n => \E g : Folds(g, m)}
<1> USE DEF FoldsTo
<1>1. 0 \in S
  <2>1. 1..0 = {}
    OBVIOUS
  <2>2. Folds([s \in SUBSET (1..0) |-> base], 0)
    BY <2>1
  <2> QED
    BY <2>2
<1>2. ASSUME NEW m \in S PROVE m + 1 \in S
  <2>1. SUFFICES ASSUME m + 1 <= n PROVE \E g : Folds(g, m + 1)
    BY <1>2, m + 1 \in Nat
  <2>2. m \in Nat /\ m + 1 \in 1..n /\ m <= n
    BY <2>1
  <2>3. PICK g : Folds(g, m)
    BY <2>2
  <2> DEFINE h == [s \in SUBSET (1..(m + 1)) |->
                     IF m + 1 \in s THEN step[<<g[s \ {m + 1}], m + 1>>] ELSE g[s]]
  <2>4. \A s \in SUBSET (1..(m + 1)) : /\ s \ {m + 1} \in SUBSET (1..m)
                                       /\ m + 1 \notin s => s \in SUBSET (1..m)
    BY <2>2
  <2>5. h \in [SUBSET (1..(m + 1)) -> R]
    BY <2>2, <2>3, <2>4
  <2>6. ASSUME NEW s \in SUBSET (1..(m + 1))
        PROVE  h[s] = IF s = {} THEN base ELSE step[<<h[s \ {Max(s)}], Max(s)>>]
    <3>1. CASE m + 1 \in s
      <4>1. Max(s) = m + 1
        <5>1. Max(s) \in s /\ \A x \in s : x <= Max(s)
          <6>1. m + 1 \in Nat /\ s # {}
            BY <2>2, <3>1
          <6> QED
            BY <6>1, MaxIsOne
        <5>2. m + 1 <= Max(s) /\ Max(s) \in 1..(m + 1)
          BY <3>1, <5>1
        <5> HIDE DEF S
        <5> QED
          BY <2>2, <5>2
      <4>2. h[s \ {m + 1}] = g[s \ {m + 1}]
        BY <2>4
      <4> QED
        BY <3>1, <4>1, <4>2
    <3>2. CASE m + 1 \notin s
      <4>1. s \in SUBSET (1..m) /\ h[s] = g[s]
        BY <2>4, <3>2
      <4>2. h[s \ {Max(s)}] = g[s \ {Max(s)}]
        BY <2>4, <3>2
      <4> QED
        BY <2>3, <4>1, <4>2
    <3> QED
      BY <3>1, <3>2
  <2> HIDE DEF h
  <2> QED
    BY <2>5, <2>6
<1> HIDE DEF Folds
<1>3. S = Nat
  BY <1>1, <1>2, Induction
<1>4. \E g : Folds(g, n)
  BY <1>3
<1> HIDE DEF FoldsTo
<1> QED
  BY <1>4 DEF Folds
-----------------------------------------------------------------------------
(* Sums over a finite set.  MapThenSumSet takes one element after the other *)
(* away, whichever CHOOSE gives; the sum is the same in any order.          *)
Picked(s) == CHOOSE x \in s : TRUE

Sums(g, w, S) ==
  g = [s \in SUBSET S |-> IF s = {} THEN 0 ELSE w[Picked(s)] + g[s \ {Picked(s)}]]

LEMMA OneLess ==
  ASSUME NEW H, IsFiniteSet(H), NEW s \in SUBSET H, NEW x \in s
  PROVE  /\ s \ {x} \in SUBSET H
         /\ Cardinality(s) \in Nat /\ Cardinality(s \ {x}) \in Nat
         /\ Cardinality(s) > 0 /\ Cardinality(s \ {x}) = Cardinality(s) - 1
<1>1. IsFiniteSet(s)
  BY FS_Subset
<1>2. IsFiniteSet(s \ {x}) /\ Cardinality(s \ {x}) = Cardinality(s) - 1
  BY <1>1, FS_RemoveElement
<1> QED
  BY <1>1, <1>2, FS_CardinalityType

LEMMA SumExists ==
  ASSUME NEW H, IsFiniteSet(H), NEW w \in [H -> Nat]
  PROVE  \E g \in [SUBSET H -> Nat] : Sums(g, w, H)
<1> DEFINE Sum(g, s) == g[s] = IF s = {} THEN 0 ELSE w[Picked(s)] + g[s \ {Picked(s)}]
           Upto(g, n) == \A s \in SUBSET H : Cardinality(s) <= n => Sum(g, s)
           S == {n \in Nat : \E g \in [SUBSET H -> Nat] : Upto(g, n)}
<1>1. \A s \in SUBSET H : /\ IsFiniteSet(s) /\ Cardinality(s) \in Nat
                          /\ Cardinality(s) = 0 <=> s = {}
  BY FS_Subset, FS_CardinalityType, FS_EmptySet
<1>2. \A s \in SUBSET H : s # {} => /\ Picked(s) \in s /\ s \ {Picked(s)} \in SUBSET H
                                  /\ Cardinality(s \ {Picked(s)}) = Cardinality(s) - 1
  <2> SUFFICES ASSUME NEW s \in SUBSET H, s # {}
               PROVE  /\ Picked(s) \in s /\ s \ {Picked(s)} \in SUBSET H
                      /\ Cardinality(s \ {Picked(s)}) = Cardinality(s) - 1
    OBVIOUS
  <2>1. Picked(s) \in s
    BY DEF Picked
  <2> QED
    BY <2>1, OneLess
<1>3. 0 \in S
  <2>1. Upto([s \in SUBSET H |-> 0], 0)
    BY <1>1
  <2> QED
    BY <2>1
<1>4. ASSUME NEW n \in S PROVE n + 1 \in S
  <2>1. PICK g \in [SUBSET H -> Nat] : Upto(g, n)
    BY <1>4
  <2> DEFINE h == [s \in SUBSET H |-> IF Cardinality(s) = n + 1
                                      THEN w[Picked(s)] + g[s \ {Picked(s)}] ELSE g[s]]
  <2>2. \A s \in SUBSET H : Cardinality(s) = n + 1 => s # {}
    BY <1>1
  <2>3. h \in [SUBSET H -> Nat]
    <3> SUFFICES ASSUME NEW s \in SUBSET H
                 PROVE  (IF Cardinality(s) = n + 1
                         THEN w[Picked(s)] + g[s \ {Picked(s)}] ELSE g[s]) \in Nat
      OBVIOUS
    <3>1. Cardinality(s) = n + 1 => w[Picked(s)] \in Nat /\ g[s \ {Picked(s)}] \in Nat
      BY <1>2, <2>2
    <3> QED
      BY <3>1
  <2>4. ASSUME NEW s \in SUBSET H, Cardinality(s) <= n + 1 PROVE Sum(h, s)
    <3>1. s # {} => h[s \ {Picked(s)}] = g[s \ {Picked(s)}]
      BY <1>1, <1>2, <2>4
    <3>2. CASE Cardinality(s) = n + 1
      BY <2>2, <3>1, <3>2
    <3>3. CASE Cardinality(s) # n + 1
      <4>1. Cardinality(s) <= n /\ h[s] = g[s]
        BY <1>1, <2>4, <3>3
      <4> QED
        BY <2>1, <3>1, <4>1
    <3> QED
      BY <3>2, <3>3
  <2> HIDE DEF h
  <2>5. Upto(h, n + 1)
    BY <2>4
  <2>6. n + 1 \in Nat
    OBVIOUS
  <2> QED
    BY <2>3, <2>5, <2>6
<1> HIDE DEF S
<1>5. S = Nat
  BY <1>3, <1>4, Induction DEF S
<1>6. PICK g \in [SUBSET H -> Nat] : Upto(g, Cardinality(H))
  BY <1>1, <1>5 DEF S
<1>7. \A s \in SUBSET H : Cardinality(s) <= Cardinality(H)
  BY FS_Subset
<1> QED
  BY <1>6, <1>7 DEF Sums

LEMMA SumIs ==
  ASSUME NEW H, IsFiniteSet(H), NEW w, NEW g, Sums(g, w, H), NEW Q \in SUBSET H
  PROVE  (CHOOSE f : Sums(f, w, Q))[Q] = g[Q]
<1>1. \A s \in SUBSET H : s # {} => Picked(s) \in s
  BY DEF Picked
<1>2. Sums([s \in SUBSET Q |-> g[s]], w, Q)
  BY <1>1 DEF Sums
<1> DEFINE f == CHOOSE f : Sums(f, w, Q)
           S == {n \in Nat : \A s \in SUBSET Q : Cardinality(s) <= n => f[s] = g[s]}
<1>3. Sums(f, w, Q)
  BY <1>2
<1> HIDE DEF f
<1>4. \A s \in SUBSET Q :
        /\ f[s] = IF s = {} THEN 0 ELSE w[Picked(s)] + f[s \ {Picked(s)}]
        /\ g[s] = IF s = {} THEN 0 ELSE w[Picked(s)] + g[s \ {Picked(s)}]
  BY <1>3 DEF Sums
<1>5. \A s \in SUBSET Q : IsFiniteSet(s) /\ Cardinality(s) \in Nat /\ Cardinality(s) <= Cardinality(Q)
  BY FS_Subset, FS_CardinalityType
<1>6. 0 \in S
  BY <1>4, <1>5, FS_EmptySet
<1>7. ASSUME NEW n \in S PROVE n + 1 \in S
  <2> SUFFICES ASSUME NEW s \in SUBSET Q, Cardinality(s) <= n + 1 PROVE f[s] = g[s]
    OBVIOUS
  <2>1. CASE s = {}
    BY <1>4, <2>1
  <2>2. CASE s # {}
    <3>1. Picked(s) \in s
      BY <2>2 DEF Picked
    <3>2. s \ {Picked(s)} \in SUBSET Q /\ Cardinality(s \ {Picked(s)}) <= n
      BY <1>5, <3>1, OneLess
    <3>3. f[s \ {Picked(s)}] = g[s \ {Picked(s)}]
      BY <3>2
    <3> QED
      BY <1>4, <2>2, <3>3
  <2> QED
    BY <2>1, <2>2
<1>8. S = Nat
  <2> HIDE DEF S
  <2> QED
    BY <1>6, <1>7, Induction DEF S
<1> QED
  BY <1>5, <1>8 DEF f

(* The sum without one of its elements.                                     *)
LEMMA SumLess ==
  ASSUME NEW H, IsFiniteSet(H), NEW w \in [H -> Nat], NEW g \in [SUBSET H -> Nat], Sums(g, w, H),
         NEW s \in SUBSET H, NEW x \in s
  PROVE  g[s] = w[x] + g[s \ {x}]
<1> DEFINE Less(r) == \A y \in r : g[r] = w[y] + g[r \ {y}]
           S == {n \in Nat : \A r \in SUBSET H : Cardinality(r) <= n => Less(r)}
<1>1. \A r \in SUBSET H : IsFiniteSet(r) /\ Cardinality(r) \in Nat
  BY FS_Subset, FS_CardinalityType
<1>2. 0 \in S
  BY <1>1, FS_EmptySet
<1>3. ASSUME NEW n \in S PROVE n + 1 \in S
  <2> SUFFICES ASSUME NEW r \in SUBSET H, Cardinality(r) <= n + 1, NEW y \in r
               PROVE  g[r] = w[y] + g[r \ {y}]
    OBVIOUS
  <2> DEFINE c == Picked(r)
  <2>1. c \in r
    BY DEF Picked
  <2>2. g[r] = w[c] + g[r \ {c}]
    BY DEF Sums
  <2>3. CASE c # y
    <3>1. /\ r \ {c} \in SUBSET H /\ Cardinality(r \ {c}) <= n
          /\ r \ {y} \in SUBSET H /\ Cardinality(r \ {y}) <= n
      BY <1>1, <2>1, OneLess
    <3>2. y \in r \ {c} /\ c \in r \ {y} /\ (r \ {c}) \ {y} = (r \ {y}) \ {c}
      BY <2>1, <2>3
    <3>3. g[r \ {c}] = w[y] + g[(r \ {c}) \ {y}]
      BY <3>1, <3>2
    <3>4. g[r \ {y}] = w[c] + g[(r \ {c}) \ {y}]
      BY <3>1, <3>2
    <3>5. w[c] \in Nat /\ w[y] \in Nat /\ g[(r \ {c}) \ {y}] \in Nat
      BY <2>1
    <3> QED
      BY <2>2, <3>3, <3>4, <3>5
  <2> QED
    BY <2>2, <2>3
<1>4. S = Nat
  <2> HIDE DEF S
  <2> QED
    BY <1>2, <1>3, Induction DEF S
<1> QED
  BY <1>1, <1>4

(* As many, of which each that the other does not have weighs as much as    *)
(* any that only the other has, weigh as much together.                     *)
LEMMA SumOfTheHeavier ==
  ASSUME NEW H, IsFiniteSet(H), NEW w \in [H -> Nat], NEW g \in [SUBSET H -> Nat], Sums(g, w, H),
         NEW L \in SUBSET H, NEW Q \in SUBSET H, Cardinality(L) = Cardinality(Q),
         \A x \in L, y \in Q \ L : w[x] >= w[y]
  PROVE  g[L] >= g[Q]
<1> DEFINE Heavier(l, q) == \A x \in l, y \in q \ l : w[x] >= w[y]
           S == {n \in Nat : \A l, q \in SUBSET H :
                   Cardinality(l) = n /\ Cardinality(q) = n /\ Heavier(l, q) => g[l] >= g[q]}
<1>1. \A r \in SUBSET H : /\ IsFiniteSet(r) /\ Cardinality(r) \in Nat
                          /\ Cardinality(r) = 0 <=> r = {}
  BY FS_Subset, FS_CardinalityType, FS_EmptySet
<1>2. 0 \in S
  <2>1. \A l, q \in SUBSET H : Cardinality(l) = 0 /\ Cardinality(q) = 0 => g[l] >= g[q]
    <3> SUFFICES ASSUME NEW l \in SUBSET H, NEW q \in SUBSET H,
                        Cardinality(l) = 0, Cardinality(q) = 0
                 PROVE  g[l] >= g[q]
      OBVIOUS
    <3>1. l = q
      BY <1>1
    <3>2. g[q] \in Nat
      OBVIOUS
    <3> QED
      BY <3>1, <3>2
  <2> QED
    BY <2>1
<1>3. ASSUME NEW n \in S PROVE n + 1 \in S
  <2> SUFFICES ASSUME NEW l \in SUBSET H, NEW q \in SUBSET H,
                      Cardinality(l) = n + 1, Cardinality(q) = n + 1, Heavier(l, q)
               PROVE  g[l] >= g[q]
    OBVIOUS
  <2>1. CASE l \subseteq q
    <3>1. l = q
      BY <1>1, <2>1, FS_Subset
    <3> QED
      BY <3>1
  <2>2. CASE ~ l \subseteq q
    <3>1. PICK x \in l : x \notin q
      BY <2>2
    <3>2. ~ q \subseteq l
      <4>1. SUFFICES ASSUME q \subseteq l PROVE FALSE
        OBVIOUS
      <4>2. q = l
        BY <1>1, <4>1, FS_Subset
      <4> QED
        BY <3>1, <4>2
    <3>3. PICK y \in q : y \notin l
      BY <3>2
    <3>4. /\ l \ {x} \in SUBSET H /\ Cardinality(l \ {x}) = n
          /\ q \ {y} \in SUBSET H /\ Cardinality(q \ {y}) = n
      BY <3>1, <3>3, OneLess
    <3>5. Heavier(l \ {x}, q \ {y})
      BY <3>1
    <3>6. g[l \ {x}] >= g[q \ {y}]
      BY <1>3, <3>4, <3>5
    <3>7. g[l] = w[x] + g[l \ {x}] /\ g[q] = w[y] + g[q \ {y}]
      <4> HIDE DEF S, Heavier
      <4>1. g[l] = w[x] + g[l \ {x}]
        BY SumLess
      <4>2. g[q] = w[y] + g[q \ {y}]
        BY SumLess
      <4> QED
        BY <4>1, <4>2
    <3>8. w[x] >= w[y]
      BY <3>1, <3>3
    <3>9. {w[x], w[y], g[l \ {x}], g[q \ {y}]} \subseteq Nat
      BY <3>4
    <3> QED
      BY <3>6, <3>7, <3>8, <3>9
  <2> QED
    BY <2>1, <2>2
<1>4. S = Nat
  <2> HIDE DEF S
  <2> QED
    BY <1>2, <1>3, Induction DEF S
<1> QED
  BY <1>1, <1>4

LEMMA HeaviestOne ==
  ASSUME NEW H, IsFiniteSet(H), NEW w \in [H -> Nat], NEW s \in SUBSET H, s # {}
  PROVE  \E x \in s : \A y \in s : w[x] >= w[y]
<1> DEFINE bounds == {n \in Nat : \A y \in s : w[y] <= n}
<1>1. PICK g \in [SUBSET H -> Nat] : Sums(g, w, H)
  BY SumExists
<1>2. g[s] \in bounds
  <2> SUFFICES ASSUME NEW y \in s PROVE w[y] <= g[s]
    OBVIOUS
  <2>1. g[s] = w[y] + g[s \ {y}]
    BY <1>1, SumLess
  <2>2. w[y] \in Nat /\ g[s \ {y}] \in Nat
    OBVIOUS
  <2> QED
    BY <2>1, <2>2
<1>3. PICK n \in bounds : \A o \in bounds : n <= o
  <2>1. bounds # {} /\ bounds \in SUBSET Nat
    BY <1>2
  <2> QED
    BY <2>1, HasLeast
<1>4. \E x \in s : w[x] = n
  <2>1. SUFFICES ASSUME \A x \in s : w[x] # n PROVE FALSE
    OBVIOUS
  <2>2. \A x \in s : w[x] \in Nat /\ w[x] <= n - 1 /\ n - 1 \in Nat
    BY <1>3, <2>1
  <2>3. n - 1 \in bounds
    BY <2>2
  <2> QED
    BY <1>3, <2>3
<1> QED
  BY <1>3, <1>4

(* Of any number of them there are the heaviest.                            *)
LEMMA HeaviestExist ==
  ASSUME NEW H, IsFiniteSet(H), NEW w \in [H -> Nat], NEW k \in Nat, k <= Cardinality(H)
  PROVE  \E L \in SUBSET H : /\ Cardinality(L) = k
                            /\ \A x \in L, y \in H \ L : w[x] >= w[y]
<1> DEFINE Heaviest(L) == \A x \in L, y \in H \ L : w[x] >= w[y]
           S == {n \in Nat : n <= Cardinality(H) =>
                   \E L \in SUBSET H : Cardinality(L) = n /\ Heaviest(L)}
<1>1. Cardinality(H) \in Nat
  BY FS_CardinalityType
<1>2. 0 \in S
  <2>1. Cardinality({}) = 0 /\ Heaviest({})
    BY FS_EmptySet
  <2> QED
    BY <2>1
<1>3. ASSUME NEW n \in S PROVE n + 1 \in S
  <2> SUFFICES ASSUME n + 1 <= Cardinality(H)
               PROVE  \E L \in SUBSET H : Cardinality(L) = n + 1 /\ Heaviest(L)
    OBVIOUS
  <2>1. PICK L \in SUBSET H : Cardinality(L) = n /\ Heaviest(L)
    BY <1>1, <1>3
  <2>2. H \ L # {}
    <3>1. SUFFICES ASSUME H = L PROVE FALSE
      OBVIOUS
    <3> QED
      BY <1>1, <2>1, <3>1
  <2>3. PICK x \in H \ L : \A y \in H \ L : w[x] >= w[y]
    <3>1. H \ L \in SUBSET H
      OBVIOUS
    <3> HIDE DEF S
    <3> QED
      BY <2>2, <3>1, HeaviestOne
  <2>4. IsFiniteSet(L)
    BY FS_Subset
  <2>5. Cardinality(L \cup {x}) = n + 1
    BY <2>1, <2>3, <2>4, FS_AddElement
  <2>6. Heaviest(L \cup {x})
    BY <2>1, <2>3
  <2> QED
    BY <2>5, <2>6
<1>4. S = Nat
  <2> HIDE DEF S
  <2> QED
    BY <1>2, <1>3, Induction DEF S
<1> QED
  BY <1>4
=============================================================================
