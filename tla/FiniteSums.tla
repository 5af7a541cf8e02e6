------------------------------ MODULE FiniteSums ------------------------------
(***************************************************************************)
(* Induction over the naturals and over the subsets of a finite set, with  *)
(* sets where a textbook has predicates, and what follows of the sums of   *)
(* SumFunctionOnSet: the sequencer's counters and the bus's bill are such. *)
(***************************************************************************)
EXTENDS Integers, FiniteSets, Functions, FiniteSetTheorems, WellFoundedInduction, TLAPS

------------------------------------------------------------------------------
(* Induction, from the finite sets being well-founded by inclusion *)

\* A nonempty set of naturals has a least element: of the intervals 0..n that
\* end in the set, one is smallest.
LEMMA LeastNatural ==
  ASSUME NEW S \in SUBSET Nat, S # {}
  PROVE  \E m \in S : \A n \in S : m <= n
<1> DEFINE Upto == {0..n : n \in S}
<1>1. Upto \subseteq FiniteSubsetsOf(Nat) /\ Upto # {}
  <2>1. \A n \in S : 0..n \in SUBSET Nat /\ IsFiniteSet(0..n)
    BY FS_Interval
  <2> QED BY <2>1 DEF FiniteSubsetsOf
<1>2. PICK I \in Upto : \A J \in Upto : <<J, I>> \notin StrictSubsetOrdering(Nat)
  <2>1. IsWellFoundedOn(StrictSubsetOrdering(Nat), FiniteSubsetsOf(Nat))
    BY FS_StrictSubsetOrderingWellFounded
  <2> HIDE DEF Upto
  <2> QED BY <1>1, <2>1, WFMin
<1>3. PICK m \in S : I = 0..m
  BY <1>2
<1>4. ASSUME NEW n \in S, n < m PROVE FALSE
  <2>1. 0..n \subseteq 0..m /\ m \in 0..m /\ m \notin 0..n /\ 0..n \subseteq Nat /\ 0..m \subseteq Nat
    BY <1>4
  <2>2. <<0..n, 0..m>> \in StrictSubsetOrdering(Nat)
    BY <2>1 DEF StrictSubsetOrdering
  <2> QED BY <1>2, <1>3, <2>2
<1> QED BY <1>4

LEMMA InductionOnNat ==
  ASSUME NEW S \in SUBSET Nat, 0 \in S, \A n \in S : n + 1 \in S
  PROVE  S = Nat
<1>1. SUFFICES ASSUME Nat \ S # {} PROVE FALSE
  OBVIOUS
<1>2. PICK m \in Nat \ S : \A n \in Nat \ S : m <= n
  BY <1>1, LeastNatural
<1>3. m - 1 \in S
  BY <1>2
<1> QED BY <1>2, <1>3

\* What holds of {}, and of a set when it holds of the set less any one element,
\* holds of every subset of a finite set.
LEMMA InductionOnFiniteSets ==
  ASSUME NEW S, IsFiniteSet(S), NEW G, {} \in G,
         \A s \in SUBSET S : s # {} /\ (\A x \in s : s \ {x} \in G) => s \in G
  PROVE  SUBSET S \subseteq G
<1> DEFINE N == {n \in Nat : \A s \in SUBSET S : Cardinality(s) <= n => s \in G}
<1>0. \A s \in SUBSET S : IsFiniteSet(s) /\ Cardinality(s) \in Nat
  BY FS_Subset, FS_CardinalityType
<1>1. 0 \in N
  <2> SUFFICES ASSUME NEW s \in SUBSET S, Cardinality(s) <= 0 PROVE s \in G
    OBVIOUS
  <2>1. Cardinality(s) = 0
    BY <1>0
  <2>2. s = {}
    BY <1>0, <2>1, FS_EmptySet
  <2> QED BY <2>2
<1>2. ASSUME NEW n \in N PROVE n + 1 \in N
  <2> SUFFICES ASSUME NEW s \in SUBSET S, Cardinality(s) <= n + 1 PROVE s \in G
    OBVIOUS
  <2>1. CASE s = {}
    BY <2>1
  <2>2. CASE s # {}
    <3>1. ASSUME NEW x \in s PROVE s \ {x} \in G
      <4>1. Cardinality(s \ {x}) = Cardinality(s) - 1
        BY <1>0, FS_RemoveElement
      <4>2. Cardinality(s \ {x}) <= n /\ s \ {x} \in SUBSET S
        BY <1>0, <4>1
      <4> QED BY <4>2
    <3> QED BY <2>2, <3>1
  <2> QED BY <2>1, <2>2
<1>3. N = Nat
  <2>1. N \in SUBSET Nat
    OBVIOUS
  <2> HIDE DEF N
  <2> QED BY <1>1, <1>2, <2>1, InductionOnNat
<1> SUFFICES ASSUME NEW s \in SUBSET S PROVE s \in G
  OBVIOUS
<1>4. Cardinality(s) \in N
  BY <1>0, <1>3
<1>5. Cardinality(s) <= Cardinality(s)
  BY <1>0
<1> QED BY <1>4, <1>5

------------------------------------------------------------------------------
(* Sums over finite sets *)

\* The element SumFunctionOnSet takes next, and the equation of its recursion.
Taken(s) == CHOOSE x \in s : TRUE

IsSum(g, w, S) ==
  g = [s \in SUBSET S |-> IF s = {} THEN 0 ELSE w[Taken(s)] + g[s \ {Taken(s)}]]

\* The same, when it is enough to take away the element SumFunctionOnSet takes.
LEMMA InductionOnSubsets ==
  ASSUME NEW S, IsFiniteSet(S), NEW G, {} \in G,
         \A s \in SUBSET S : s # {} /\ s \ {Taken(s)} \in G => s \in G
  PROVE  SUBSET S \subseteq G
<1>1. ASSUME NEW s \in SUBSET S, s # {}, \A x \in s : s \ {x} \in G PROVE s \in G
  <2>1. Taken(s) \in s
    BY <1>1 DEF Taken
  <2> QED BY <1>1, <2>1
<1> QED BY <1>1, InductionOnFiniteSets

\* The equation has a solution: one that is right for sets of n elements is
\* made right for n + 1.
LEMMA SumExists ==
  ASSUME NEW S, IsFiniteSet(S), NEW w, \A x \in S : w[x] \in Nat
  PROVE  \E g \in [SUBSET S -> Nat] : IsSum(g, w, S)
<1> DEFINE Next1(g, s) == IF s = {} THEN 0 ELSE w[Taken(s)] + g[s \ {Taken(s)}]
           Right(g, n) == \A s \in SUBSET S : Cardinality(s) <= n => g[s] = Next1(g, s)
           N == {n \in Nat : \E g \in [SUBSET S -> Nat] : Right(g, n)}
<1>0. \A s \in SUBSET S : IsFiniteSet(s) /\ Cardinality(s) \in Nat
  BY FS_Subset, FS_CardinalityType
<1>a. \A s \in SUBSET S : s # {} =>
        /\ Taken(s) \in S /\ s \ {Taken(s)} \in SUBSET S
        /\ Cardinality(s \ {Taken(s)}) = Cardinality(s) - 1
  <2> SUFFICES ASSUME NEW s \in SUBSET S, s # {}
               PROVE  /\ Taken(s) \in S /\ s \ {Taken(s)} \in SUBSET S
                      /\ Cardinality(s \ {Taken(s)}) = Cardinality(s) - 1
    OBVIOUS
  <2>1. Taken(s) \in s
    BY DEF Taken
  <2> QED BY <1>0, <2>1, FS_RemoveElement
<1>b. ASSUME NEW g \in [SUBSET S -> Nat], NEW s \in SUBSET S PROVE Next1(g, s) \in Nat
  <2>1. CASE s # {}
    <3>1. w[Taken(s)] \in Nat /\ g[s \ {Taken(s)}] \in Nat
      BY <1>a, <2>1
    <3> QED BY <2>1, <3>1
  <2> QED BY <2>1
<1>1. 0 \in N
  <2> DEFINE g == [s \in SUBSET S |-> 0]
  <2>1. ASSUME NEW s \in SUBSET S, Cardinality(s) <= 0 PROVE s = {}
    <3>1. Cardinality(s) = 0
      BY <1>0, <2>1
    <3> QED BY <1>0, <3>1, FS_EmptySet
  <2>2. Right(g, 0) /\ g \in [SUBSET S -> Nat]
    BY <2>1
  <2> QED BY <2>2
<1>2. ASSUME NEW n \in N PROVE n + 1 \in N
  <2>1. PICK g \in [SUBSET S -> Nat] : Right(g, n)
    OBVIOUS
  <2> DEFINE h == [s \in SUBSET S |-> Next1(g, s)]
  <2>2. h \in [SUBSET S -> Nat]
    BY <1>b
  <2>3. ASSUME NEW s \in SUBSET S, Cardinality(s) <= n + 1 PROVE h[s] = Next1(h, s)
    <3>1. CASE s = {}
      BY <3>1
    <3>2. CASE s # {}
      <4> DEFINE r == s \ {Taken(s)}
      <4>1. r \in SUBSET S /\ Cardinality(r) <= n
        BY <1>0, <1>a, <2>3, <3>2
      <4>2. g[r] = Next1(g, r)
        BY <2>1, <4>1
      <4>3. h[r] = g[r]
        BY <4>1, <4>2
      <4> QED BY <3>2, <4>3
    <3> QED BY <3>1, <3>2
  <2>4. Right(h, n + 1)
    BY <2>3
  <2>5. n + 1 \in Nat
    OBVIOUS
  <2> QED BY <2>2, <2>4, <2>5
<1>3. N = Nat
  <2>1. N \in SUBSET Nat
    OBVIOUS
  <2> HIDE DEF N
  <2> QED BY <1>1, <1>2, <2>1, InductionOnNat
<1>4. Cardinality(S) \in N
  BY <1>3, FS_CardinalityType
<1>5. PICK g \in [SUBSET S -> Nat] : Right(g, Cardinality(S))
  BY <1>4
<1>6. \A s \in SUBSET S : g[s] = Next1(g, s)
  BY <1>5, FS_Subset
<1>7. g = [s \in SUBSET S |-> Next1(g, s)]
  BY <1>6
<1> QED BY <1>7 DEF IsSum

\* The sums of w over the subsets of S, by that equation.
Sums(w, S) == CHOOSE g : IsSum(g, w, S)

Summing(g, w, S) ==
  /\ SumFunctionOnSet(w, S) = g[S]
  /\ g \in [SUBSET S -> Nat] /\ g[{}] = 0
  /\ \A s \in SUBSET S : s # {} =>
       /\ Taken(s) \in s /\ s \ {Taken(s)} \in SUBSET S
       /\ g[s] = w[Taken(s)] + g[s \ {Taken(s)}]

LEMMA SumIsSum ==
  ASSUME NEW S, IsFiniteSet(S), NEW w, \A x \in S : w[x] \in Nat
  PROVE  Summing(Sums(w, S), w, S)
<1> DEFINE g == Sums(w, S)
<1>1. PICK f \in [SUBSET S -> Nat] : IsSum(f, w, S)
  BY SumExists
<1>2. IsSum(g, w, S)
  BY <1>1 DEF Sums
<1>3. SumFunctionOnSet(w, S) = g[S]
  BY DEF SumFunctionOnSet, FoldFunctionOnSet, MapThenFoldSet, IsSum, Taken, Sums
<1> HIDE DEF g
<1>4. \A s \in SUBSET S : g[s] = IF s = {} THEN 0 ELSE w[Taken(s)] + g[s \ {Taken(s)}]
  BY <1>2 DEF IsSum
<1>5. \A s \in SUBSET S : s # {} => Taken(s) \in s
  BY DEF Taken
<1>6. g[{}] = 0
  BY <1>4
<1>7. g \in [SUBSET S -> Nat]
  <2> DEFINE G == {s \in SUBSET S : g[s] \in Nat}
  <2>1. {} \in G
    BY <1>6
  <2>2. ASSUME NEW s \in SUBSET S, s # {}, s \ {Taken(s)} \in G PROVE s \in G
    BY <2>2, <1>4, <1>5
  <2> HIDE DEF G
  <2>3. SUBSET S \subseteq G
    BY <2>1, <2>2, InductionOnSubsets
  <2>4. \A s \in SUBSET S : g[s] \in Nat
    BY <2>3 DEF G
  <2>5. g = [s \in SUBSET S |-> g[s]]
    BY <1>2 DEF IsSum
  <2> QED BY <2>4, <2>5
<1> QED BY <1>3, <1>4, <1>5, <1>6, <1>7 DEF g, Summing

LEMMA SumType ==
  ASSUME NEW S, IsFiniteSet(S), NEW w, \A x \in S : w[x] \in Nat
  PROVE  SumFunctionOnSet(w, S) \in Nat
<1>1. SumFunctionOnSet(w, S) = Sums(w, S)[S] /\ Sums(w, S) \in [SUBSET S -> Nat]
  BY SumIsSum DEF Summing
<1> QED BY <1>1 DEF Summing

LEMMA SumMonotone ==
  ASSUME NEW S, IsFiniteSet(S), NEW w, NEW v,
         \A x \in S : w[x] \in Nat /\ v[x] \in Nat /\ w[x] <= v[x]
  PROVE  SumFunctionOnSet(w, S) <= SumFunctionOnSet(v, S)
<1>1. PICK g : Summing(g, w, S)
  BY SumIsSum
<1>2. PICK h : Summing(h, v, S)
  BY SumIsSum
<1> DEFINE G == {s \in SUBSET S : g[s] <= h[s]}
<1>3. {} \in G
  BY <1>1, <1>2 DEF Summing
<1>4. ASSUME NEW s \in SUBSET S, s # {}, s \ {Taken(s)} \in G PROVE s \in G
  <2>1. Taken(s) \in S /\ g[s \ {Taken(s)}] \in Nat /\ h[s \ {Taken(s)}] \in Nat
    BY <1>1, <1>2, <1>4 DEF Summing
  <2>2. g[s] <= h[s]
    BY <1>1, <1>2, <1>4, <2>1 DEF Summing
  <2> QED BY <2>2
<1> HIDE DEF G
<1>5. S \in G
  BY <1>3, <1>4, InductionOnSubsets
<1> QED BY <1>1, <1>2, <1>5 DEF G, Summing

\* One more in one place is one more in the sum.
LEMMA SumBump ==
  ASSUME NEW S, IsFiniteSet(S), NEW w, NEW v, NEW a \in S,
         \A x \in S : w[x] \in Nat /\ v[x] = IF x = a THEN w[x] + 1 ELSE w[x]
  PROVE  SumFunctionOnSet(v, S) = SumFunctionOnSet(w, S) + 1
<1>1. PICK g : Summing(g, w, S)
  BY SumIsSum
<1>a. \A x \in S : v[x] \in Nat
  OBVIOUS
<1>2. PICK h : Summing(h, v, S)
  BY <1>a, SumIsSum
<1> DEFINE G == {s \in SUBSET S : h[s] = IF a \in s THEN g[s] + 1 ELSE g[s]}
<1>3. {} \in G
  BY <1>1, <1>2 DEF Summing
<1>4. ASSUME NEW s \in SUBSET S, s # {}, s \ {Taken(s)} \in G PROVE s \in G
  <2> DEFINE r == s \ {Taken(s)}
  <2>1. /\ Taken(s) \in S /\ g[r] \in Nat /\ h[r] \in Nat
        /\ g[s] = w[Taken(s)] + g[r] /\ h[s] = v[Taken(s)] + h[r]
    BY <1>1, <1>2, <1>4 DEF Summing
  <2>2. h[r] = IF a \in r THEN g[r] + 1 ELSE g[r]
    BY <1>4
  <2>3. CASE a = Taken(s)
    <3>1. a \notin r /\ a \in s
      BY <1>1, <1>4, <2>3 DEF Summing
    <3> HIDE DEF r
    <3>2. h[s] = g[s] + 1
      BY <2>1, <2>2, <2>3, <3>1
    <3> QED BY <3>1, <3>2
  <2>4. CASE a # Taken(s)
    <3>1. a \in r <=> a \in s
      BY <2>4
    <3> HIDE DEF r
    <3>2. h[s] = IF a \in s THEN g[s] + 1 ELSE g[s]
      BY <2>1, <2>2, <2>4, <3>1
    <3> QED BY <3>2
  <2> QED BY <2>3, <2>4
<1> HIDE DEF G
<1>5. S \in G
  BY <1>3, <1>4, InductionOnSubsets
<1> QED BY <1>1, <1>2, <1>5 DEF G, Summing

LEMMA SumBound ==
  ASSUME NEW S, IsFiniteSet(S), NEW M \in Nat, NEW w, \A x \in S : w[x] \in 0..M
  PROVE  SumFunctionOnSet(w, S) <= Cardinality(S) * M
<1>0. \A x \in S : w[x] \in Nat
  OBVIOUS
<1>1. PICK g : Summing(g, w, S)
  BY <1>0, SumIsSum
<1> DEFINE G == {s \in SUBSET S : g[s] <= Cardinality(s) * M}
<1>3. {} \in G
  BY <1>1, FS_EmptySet DEF Summing
<1>4. ASSUME NEW s \in SUBSET S, s # {}, s \ {Taken(s)} \in G PROVE s \in G
  <2> DEFINE r == s \ {Taken(s)}
             c == Cardinality(s)
             d == Cardinality(r)
  <2>1. IsFiniteSet(s) /\ IsFiniteSet(r) /\ Taken(s) \in s
    BY <1>1, <1>4, FS_Subset DEF Summing
  <2>2. c = d + 1 /\ d \in Nat
    BY <2>1, FS_RemoveElement, FS_CardinalityType
  <2>3. /\ w[Taken(s)] \in 0..M /\ g[r] \in Nat /\ g[s] = w[Taken(s)] + g[r]
        /\ g[r] <= d * M
    BY <1>1, <1>4 DEF Summing
  <2> HIDE DEF r, c, d
  <2>4. c * M = d * M + M /\ d * M \in Nat
    BY <2>2
  <2>5. g[s] <= c * M
    BY <2>3, <2>4
  <2> QED BY <2>5 DEF c
<1> HIDE DEF G
<1>5. S \in G
  BY <1>3, <1>4, InductionOnSubsets
<1> QED BY <1>1, <1>5 DEF G, Summing

\* A sum depends on the values at the elements of the set, and on no others.
LEMMA SumsAgree ==
  ASSUME NEW T, NEW S \in SUBSET T, IsFiniteSet(T), NEW w, NEW v,
         \A x \in S : v[x] = w[x],
         NEW g, Summing(g, w, T), NEW h, Summing(h, v, S)
  PROVE  g[S] = h[S]
<1> DEFINE G == {s \in SUBSET S : g[s] = h[s]}
<1>1. {} \in G
  BY DEF Summing
<1>2. ASSUME NEW s \in SUBSET S, s # {}, s \ {Taken(s)} \in G PROVE s \in G
  <2>1. Taken(s) \in S /\ g[s \ {Taken(s)}] = h[s \ {Taken(s)}]
    BY <1>2 DEF Summing
  <2>2. g[s] = w[Taken(s)] + g[s \ {Taken(s)}]
    BY <1>2 DEF Summing
  <2>3. h[s] = v[Taken(s)] + h[s \ {Taken(s)}]
    BY <1>2 DEF Summing
  <2>4. g[s] = h[s]
    BY <2>1, <2>2, <2>3
  <2> QED BY <2>4
<1>3. IsFiniteSet(S)
  BY FS_Subset
<1> HIDE DEF G
<1>4. S \in G
  BY <1>1, <1>2, <1>3, InductionOnSubsets
<1> QED BY <1>4 DEF G

LEMMA SumCongruent ==
  ASSUME NEW S, IsFiniteSet(S), NEW w, NEW v, \A x \in S : w[x] \in Nat /\ v[x] = w[x]
  PROVE  SumFunctionOnSet(v, S) = SumFunctionOnSet(w, S)
<1>1. PICK g : Summing(g, w, S)
  BY SumIsSum
<1>2. PICK h : Summing(h, v, S)
  BY SumIsSum
<1>3. g[S] = h[S]
  BY <1>1, <1>2, SumsAgree
<1> QED BY <1>1, <1>2, <1>3 DEF Summing

\* The order in which a sum takes its elements does not matter.
LEMMA SumCommutes ==
  ASSUME NEW S, IsFiniteSet(S), NEW w, \A x \in S : w[x] \in Nat,
         NEW g, Summing(g, w, S), NEW a \in S
  PROVE  g[S] = w[a] + g[S \ {a}]
<1> DEFINE G == {s \in SUBSET S : \A x \in s : g[s] = w[x] + g[s \ {x}]}
<1>1. {} \in G
  OBVIOUS
<1>2. ASSUME NEW s \in SUBSET S, s # {}, \A x \in s : s \ {x} \in G PROVE s \in G
  <2> DEFINE y == Taken(s)
  <2>1. y \in s /\ g[s] = w[y] + g[s \ {y}]
    BY <1>2 DEF Summing
  <2> HIDE DEF y
  <2>2. ASSUME NEW x \in s, x # y PROVE g[s] = w[x] + g[s \ {x}]
    <3> DEFINE r == (s \ {y}) \ {x}
    <3>1. r = (s \ {x}) \ {y} /\ r \in SUBSET S
      OBVIOUS
    <3>2. g[s \ {y}] = w[x] + g[r]
      BY <1>2, <2>1, <2>2
    <3>3. g[s \ {x}] = w[y] + g[r]
      BY <1>2, <2>1, <2>2, <3>1
    <3>4. w[x] \in Nat /\ w[y] \in Nat /\ g[r] \in Nat
      BY <2>1, <3>1 DEF Summing
    <3> HIDE DEF r
    <3> QED BY <2>1, <3>2, <3>3, <3>4
  <2>3. \A x \in s : g[s] = w[x] + g[s \ {x}]
    BY <2>1, <2>2
  <2> QED BY <2>3
<1> HIDE DEF G
<1>3. S \in G
  BY <1>1, <1>2, InductionOnFiniteSets
<1> QED BY <1>3 DEF G

LEMMA SumEmpty ==
  ASSUME NEW w
  PROVE  SumFunctionOnSet(w, {}) = 0
<1>1. PICK g : Summing(g, w, {})
  BY SumIsSum, FS_EmptySet
<1> QED BY <1>1 DEF Summing

LEMMA SumAdd ==
  ASSUME NEW S, IsFiniteSet(S), NEW a, a \notin S, NEW w, \A x \in S \cup {a} : w[x] \in Nat
  PROVE  SumFunctionOnSet(w, S \cup {a}) = SumFunctionOnSet(w, S) + w[a]
<1> DEFINE T == S \cup {a}
<1>1. IsFiniteSet(T) /\ S \in SUBSET T /\ a \in T /\ T \ {a} = S
  BY FS_AddElement
<1> HIDE DEF T
<1>2. \A x \in T : w[x] \in Nat
  BY DEF T
<1>3. PICK g : Summing(g, w, T)
  BY <1>1, <1>2, SumIsSum
<1>4. PICK h : Summing(h, w, S)
  BY <1>1, <1>2, SumIsSum
<1>5. g[S] = h[S]
  BY <1>1, <1>3, <1>4, SumsAgree
<1>6. g[T] = w[a] + g[S]
  BY <1>1, <1>2, <1>3, SumCommutes
<1>7. g[S] \in Nat /\ w[a] \in Nat
  BY <1>1, <1>2, <1>3 DEF Summing
<1> QED BY <1>3, <1>4, <1>5, <1>6, <1>7 DEF Summing, T
==============================================================================
