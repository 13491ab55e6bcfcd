------------------------------ MODULE SumLemmas ------------------------------
(***************************************************************************)
(* Sums over finite sets and sequences, as the folds of the community      *)
(* modules compute them: they exist, and they do not depend on the order   *)
(* in which the elements are taken. The inductions are written out over    *)
(* sets of naturals (NaturalsByStep): the library's induction theorems     *)
(* take an operator, which the provers here cannot instantiate.            *)
(***************************************************************************)
EXTENDS Integers, Sequences, FiniteSets, Functions, FiniteSetTheorems,
        WellFoundedInduction, TLAPS

(* Every nonempty set of naturals has a least element. *)
LEMMA LeastNatural ==
    ASSUME NEW T, T \subseteq Nat, T # {}
    PROVE  \E m \in T : \A n \in T : m <= n
<1> DEFINE LT == {ss \in Nat \X Nat : ss[1] < ss[2]}
<1>1. IsWellFoundedOn(LT, Nat)
  BY NatLessThanWellFounded DEF OpToRel
<1>2. \E m \in T : \A n \in T : ~ (<< n, m >> \in LT)
  <2> HIDE DEF LT
  <2> QED
    BY <1>1, WFMin
<1>3. PICK m \in T : \A n \in T : ~ (<< n, m >> \in LT)
  BY <1>2
<1>4. ASSUME NEW n \in T PROVE m <= n
  <2>1. n \in Nat /\ m \in Nat
    OBVIOUS
  <2>2. ~ (<< n, m >> \in LT)
    BY <1>3
  <2>3. n < m => << n, m >> \in LT
    BY <2>1
  <2> QED
    BY <2>1, <2>2, <2>3
<1> QED
  BY <1>4

(* Induction on the naturals, for a set of them. *)
LEMMA NaturalsByStep ==
    ASSUME NEW T, T \subseteq Nat, 0 \in T, \A n \in T : n + 1 \in T
    PROVE  T = Nat
<1>1. SUFFICES ASSUME Nat \ T # {} PROVE FALSE
  OBVIOUS
<1>2. PICK m \in Nat \ T : \A n \in Nat \ T : m <= n
  <2>1. Nat \ T \subseteq Nat
    OBVIOUS
  <2> QED
    BY <1>1, <2>1, LeastNatural
<1>3. m # 0 /\ m - 1 \in Nat
  BY <1>2
<1>4. m - 1 \in T
  BY <1>2, <1>3
<1> QED
  BY <1>2, <1>3, <1>4

-----------------------------------------------------------------------------
(* The recursion of FoldSeq and FoldSet, for addition: g sums f over every  *)
(* subset of S, taking out one element at a time.                           *)

One(s) == CHOOSE x \in s : TRUE

Sums(g, f, S) ==
    g = [s \in SUBSET S |-> IF s = {} THEN 0 ELSE f[One(s)] + g[s \ {One(s)}]]

(* What such a function gives for a set with an element taken out. *)
LEMMA SumsStep ==
    ASSUME NEW g, NEW f, NEW S, Sums(g, f, S)
    PROVE  /\ g[{}] = 0
           /\ \A s \in SUBSET S : s # {} =>
                  /\ One(s) \in s
                  /\ g[s] = f[One(s)] + g[s \ {One(s)}]
<1>1. \A s : s # {} => One(s) \in s
  BY DEF One
<1>2. ASSUME NEW s \in SUBSET S
      PROVE g[s] = IF s = {} THEN 0 ELSE f[One(s)] + g[s \ {One(s)}]
  BY Zenon DEF Sums
<1>3. {} \in SUBSET S
  OBVIOUS
<1> QED
  BY <1>1, <1>2, <1>3

(* Two such functions agree on every finite set both sum, as their terms do. *)
LEMMA SumsAgree ==
    ASSUME NEW g, NEW f, NEW S, Sums(g, f, S),
           NEW h, NEW e, NEW R, Sums(h, e, R),
           NEW T, IsFiniteSet(T), T \subseteq S, T \subseteq R,
           \A x \in T : f[x] = e[x]
    PROVE  g[T] = h[T]
<1>0. /\ g[{}] = 0 /\ h[{}] = 0
      /\ \A s \in SUBSET S : s # {} => g[s] = f[One(s)] + g[s \ {One(s)}]
      /\ \A s \in SUBSET R : s # {} => h[s] = e[One(s)] + h[s \ {One(s)}]
  <2>1. Sums(g, f, S) /\ Sums(h, e, R)
    OBVIOUS
  <2> QED
    BY <2>1, SumsStep
<1> DEFINE Good == {n \in Nat : \A U \in SUBSET T : Cardinality(U) = n => g[U] = h[U]}
<1>1. 0 \in Good
  <2>1. ASSUME NEW U \in SUBSET T, Cardinality(U) = 0 PROVE g[U] = h[U]
    <3>1. IsFiniteSet(U)
      BY FS_Subset
    <3>2. U = {}
      BY <2>1, <3>1, FS_EmptySet
    <3> QED
      BY <3>2, <1>0
  <2> QED
    BY <2>1
<1>2. ASSUME NEW n \in Good PROVE n + 1 \in Good
  <2>1. ASSUME NEW U \in SUBSET T, Cardinality(U) = n + 1 PROVE g[U] = h[U]
    <3>1. IsFiniteSet(U)
      BY FS_Subset
    <3>2. n \in Nat /\ Cardinality(U) # 0
      BY <2>1
    <3>3. U # {}
      BY <3>1, <3>2, FS_EmptySet
    <3> DEFINE x == One(U)
               V == U \ {x}
    <3>4. x \in U
      BY <3>3 DEF One
    <3>5. V \in SUBSET T
      OBVIOUS
    <3>6. Cardinality(V) = Cardinality(U) - 1
      BY <3>1, <3>4, FS_RemoveElement
    <3>7. g[V] = h[V]
      BY <2>1, <3>2, <3>5, <3>6
    <3>8. g[U] = f[x] + g[V]
      BY <3>3, <1>0
    <3>9. h[U] = e[x] + h[V]
      BY <3>3, <1>0
    <3> QED
      BY <3>4, <3>7, <3>8, <3>9
  <2> QED
    BY <2>1
<1>3. Good = Nat
  <2> HIDE DEF Good
  <2>1. Good \subseteq Nat
    BY DEF Good
  <2> QED
    BY <1>1, <1>2, <2>1, NaturalsByStep
<1>4. Cardinality(T) \in Good
  BY <1>3, FS_CardinalityType
<1> QED
  BY <1>4

(* Over a finite set there is one. *)
LEMMA SumsExist ==
    ASSUME NEW f, NEW S, IsFiniteSet(S)
    PROVE  \E g : Sums(g, f, S)
<1> DEFINE of(T) == CHOOSE h : Sums(h, f, T)
           Good == {n \in Nat : \A U \in SUBSET S :
                        Cardinality(U) <= n => \E g : Sums(g, f, U)}
<1>1. 0 \in Good
  <2>1. ASSUME NEW U \in SUBSET S, Cardinality(U) <= 0 PROVE \E g : Sums(g, f, U)
    <3>1. U = {}
      <4>1. IsFiniteSet(U)
        BY FS_Subset
      <4>2. Cardinality(U) = 0
        BY <2>1, <4>1, FS_CardinalityType
      <4> QED
        BY <4>1, <4>2, FS_EmptySet
    <3> DEFINE g == [s \in SUBSET U |-> 0]
    <3>2. Sums(g, f, U)
      <4>1. \A s \in SUBSET U : s = {}
        BY <3>1
      <4> QED
        BY <4>1 DEF Sums
    <3> QED
      BY <3>2
  <2> QED
    BY <2>1
<1>2. ASSUME NEW n \in Good PROVE n + 1 \in Good
  <2>1. ASSUME NEW U \in SUBSET S, Cardinality(U) <= n + 1 PROVE \E g : Sums(g, f, U)
    <3> DEFINE g == [s \in SUBSET U |-> IF s = {} THEN 0
                                        ELSE f[One(s)] + of(s \ {One(s)})[s \ {One(s)}]]
    \* What is left of a subset has a sum, by the induction.
    <3>1. ASSUME NEW s \in SUBSET U, s # {}
          PROVE  /\ One(s) \in s
                 /\ s \ {One(s)} \in SUBSET S
                 /\ IsFiniteSet(s \ {One(s)})
                 /\ Sums(of(s \ {One(s)}), f, s \ {One(s)})
      <4>1. One(s) \in s
        BY <3>1 DEF One
      <4>2. IsFiniteSet(U) /\ IsFiniteSet(s) /\ Cardinality(s) <= Cardinality(U)
        BY FS_Subset
      <4>3. Cardinality(s \ {One(s)}) = Cardinality(s) - 1
        BY <4>1, <4>2, FS_RemoveElement
      <4>4. IsFiniteSet(s \ {One(s)}) /\ s \ {One(s)} \in SUBSET S
        BY FS_Subset
      <4>5. Cardinality(s \ {One(s)}) <= n
        BY <2>1, <4>2, <4>3, FS_CardinalityType
      <4>6. \E h : Sums(h, f, s \ {One(s)})
        BY <4>4, <4>5
      <4> QED
        BY <4>1, <4>4, <4>6
    <3>2. ASSUME NEW s \in SUBSET U, s # {}
          PROVE  g[s \ {One(s)}] = of(s \ {One(s)})[s \ {One(s)}]
      <4> DEFINE t == s \ {One(s)}
      <4>1. t \in SUBSET U
        OBVIOUS
      <4>2. Sums(of(t), f, t) /\ IsFiniteSet(t)
        BY <3>1, <3>2
      <4>3. CASE t = {}
        <5>1. of(t)[{}] = 0
          BY <4>2, SumsStep
        <5>2. g[{}] = 0
          OBVIOUS
        <5> QED
          BY <4>3, <5>1, <5>2
      <4>4. CASE t # {}
        <5> DEFINE u == t \ {One(t)}
        <5>1. Sums(of(u), f, u) /\ IsFiniteSet(u)
          BY <3>1, <4>1, <4>4
        <5>2. g[t] = f[One(t)] + of(u)[u]
          BY <4>1, <4>4
        <5>3. of(t)[t] = f[One(t)] + of(t)[u]
          <6> HIDE DEF of
          <6>1. t \in SUBSET t
            OBVIOUS
          <6> QED
            BY <4>2, <4>4, <6>1, SumsStep
        <5>4. of(t)[u] = of(u)[u]
          <6> HIDE DEF of
          <6>1. u \subseteq t /\ u \subseteq u /\ \A x \in u : f[x] = f[x]
            OBVIOUS
          <6> QED
            BY <4>2, <5>1, <6>1, SumsAgree
        <5> QED
          BY <5>2, <5>3, <5>4
      <4> QED
        BY <4>3, <4>4
    <3>3. Sums(g, f, U)
      <4> HIDE DEF of
      <4>1. ASSUME NEW s \in SUBSET U
            PROVE (IF s = {} THEN 0 ELSE f[One(s)] + of(s \ {One(s)})[s \ {One(s)}])
                  = (IF s = {} THEN 0 ELSE f[One(s)] + g[s \ {One(s)}])
        <5> HIDE DEF g
        <5> QED
          BY <3>2
      <4> QED
        BY <4>1, Zenon DEF Sums
    <3> QED
      BY <3>3
  <2> QED
    BY <2>1
<1>3. Good = Nat
  <2> HIDE DEF Good
  <2>1. Good \subseteq Nat
    BY DEF Good
  <2> QED
    BY <1>1, <1>2, <2>1, NaturalsByStep
<1>4. Cardinality(S) \in Good
  BY <1>3, FS_CardinalityType
<1> QED
  BY <1>4, FS_CardinalityType

-----------------------------------------------------------------------------
(* The sum of f over a finite set, and what its order does not matter for.  *)

SumOf(f, S) == (CHOOSE g : Sums(g, f, S))[S]

(* The sum is what a function that sums f gives. *)
LEMMA SumChosen ==
    ASSUME NEW f, NEW S, IsFiniteSet(S)
    PROVE  Sums(CHOOSE g : Sums(g, f, S), f, S)
BY SumsExist

(* Any function that sums f over a set with T in it gives the sum over T. *)
LEMMA SumByAny ==
    ASSUME NEW g, NEW e, NEW R, Sums(g, e, R),
           NEW f, NEW T, IsFiniteSet(T), T \subseteq R, \A x \in T : e[x] = f[x]
    PROVE  g[T] = SumOf(f, T)
<1> DEFINE h == CHOOSE h : Sums(h, f, T)
<1>1. Sums(h, f, T)
  BY SumChosen
<1>2. T \subseteq T
  OBVIOUS
<1>3. g[T] = h[T]
  <2> HIDE DEF h
  <2> QED
    BY <1>1, <1>2, SumsAgree
<1> QED
  BY <1>3 DEF SumOf

(* Equal terms have equal sums. *)
LEMMA SumEqual ==
    ASSUME NEW f, NEW e, NEW T, IsFiniteSet(T), \A x \in T : e[x] = f[x]
    PROVE  SumOf(e, T) = SumOf(f, T)
<1> DEFINE g == CHOOSE g : Sums(g, e, T)
<1>1. Sums(g, e, T)
  BY SumChosen
<1>2. T \subseteq T
  OBVIOUS
<1>3. g[T] = SumOf(f, T)
  <2> HIDE DEF g
  <2> QED
    BY <1>1, <1>2, SumByAny
<1> QED
  BY <1>3 DEF SumOf

(* Nothing sums to zero. *)
LEMMA SumEmpty ==
    ASSUME NEW f
    PROVE  SumOf(f, {}) = 0
<1> DEFINE g == CHOOSE g : Sums(g, f, {})
<1>1. Sums(g, f, {})
  BY SumChosen, FS_EmptySet
<1>2. g[{}] = 0
  <2> HIDE DEF g
  <2> QED
    BY <1>1, SumsStep
<1> QED
  BY <1>2 DEF SumOf

(* The recursion takes out One(S); ... *)
LEMMA SumTakesOne ==
    ASSUME NEW f, NEW S, IsFiniteSet(S), S # {}
    PROVE  /\ One(S) \in S
           /\ SumOf(f, S) = f[One(S)] + SumOf(f, S \ {One(S)})
<1> DEFINE g == CHOOSE g : Sums(g, f, S)
<1>1. Sums(g, f, S)
  BY SumChosen
<1>2. S \in SUBSET S
  OBVIOUS
<1>3. One(S) \in S /\ g[S] = f[One(S)] + g[S \ {One(S)}]
  <2> HIDE DEF g
  <2> QED
    BY <1>1, <1>2, SumsStep
<1>4. g[S \ {One(S)}] = SumOf(f, S \ {One(S)})
  <2> HIDE DEF g
  <2>1. /\ IsFiniteSet(S \ {One(S)}) /\ S \ {One(S)} \subseteq S
        /\ \A x \in S \ {One(S)} : f[x] = f[x]
    BY FS_Subset
  <2> QED
    BY <1>1, <2>1, SumByAny
<1> QED
  BY <1>3, <1>4 DEF SumOf

(* ... but any element may be taken out first. *)
LEMMA SumRemove ==
    ASSUME NEW f, NEW S, IsFiniteSet(S), \A x \in S : f[x] \in Int
    PROVE  /\ SumOf(f, S) \in Int
           /\ \A x \in S : SumOf(f, S) = f[x] + SumOf(f, S \ {x})
<1> DEFINE Holds(U) == /\ SumOf(f, U) \in Int
                       /\ \A x \in U : SumOf(f, U) = f[x] + SumOf(f, U \ {x})
           Good == {n \in Nat : \A U \in SUBSET S : Cardinality(U) <= n => Holds(U)}
<1>1. 0 \in Good
  <2>1. ASSUME NEW U \in SUBSET S, Cardinality(U) <= 0 PROVE Holds(U)
    <3>1. IsFiniteSet(U)
      BY FS_Subset
    <3>2. Cardinality(U) = 0
      BY <2>1, <3>1, FS_CardinalityType
    <3>3. U = {}
      BY <3>1, <3>2, FS_EmptySet
    <3> QED
      BY <3>3, SumEmpty
  <2> QED
    BY <2>1
<1>2. ASSUME NEW n \in Good PROVE n + 1 \in Good
  <2>1. ASSUME NEW U \in SUBSET S, Cardinality(U) <= n + 1 PROVE Holds(U)
    <3>0. n \in Nat /\ \A V \in SUBSET S : Cardinality(V) <= n => Holds(V)
      OBVIOUS
    <3> HIDE DEF Good
    <3>1. IsFiniteSet(U)
      BY FS_Subset
    <3>2. CASE U = {}
      BY <3>2, SumEmpty
    <3>3. CASE U # {}
      \* One element less is covered by the induction.
      <4>1. ASSUME NEW x \in U
            PROVE  /\ IsFiniteSet(U \ {x}) /\ U \ {x} \in SUBSET S
                   /\ Cardinality(U \ {x}) <= n
                   /\ Holds(U \ {x})
        <5>1. IsFiniteSet(U \ {x}) /\ Cardinality(U \ {x}) = Cardinality(U) - 1
          BY <3>1, FS_RemoveElement
        <5>2. Cardinality(U \ {x}) <= n
          BY <2>1, <3>0, <3>1, <5>1, FS_CardinalityType
        <5> HIDE DEF Holds
        <5> QED
          BY <3>0, <5>1, <5>2
      <4> DEFINE y == One(U)
      <4>2. y \in U /\ SumOf(f, U) = f[y] + SumOf(f, U \ {y})
        BY <3>1, <3>3, SumTakesOne
      <4> HIDE DEF y
      <4>3. SumOf(f, U) \in Int
        <5>1. SumOf(f, U \ {y}) \in Int
          BY <4>1, <4>2
        <5>2. f[y] \in Int
          BY <4>2
        <5> QED
          BY <4>2, <5>1, <5>2
      <4>4. ASSUME NEW x \in U PROVE SumOf(f, U) = f[x] + SumOf(f, U \ {x})
        <5>1. CASE x = y
          BY <4>2, <5>1
        <5>2. CASE x # y
          <6>1. (U \ {y}) \ {x} = (U \ {x}) \ {y}
            OBVIOUS
          <6>2. SumOf(f, U \ {y}) = f[x] + SumOf(f, (U \ {x}) \ {y})
            <7>1. Holds(U \ {y}) /\ x \in U \ {y}
              BY <4>1, <4>2, <5>2
            <7> QED
              BY <6>1, <7>1
          <6>3. SumOf(f, U \ {x}) = f[y] + SumOf(f, (U \ {x}) \ {y})
            BY <4>1, <4>2, <5>2
          <6>4. SumOf(f, (U \ {x}) \ {y}) \in Int
            <7>1. (U \ {x}) \ {y} \in SUBSET S
              OBVIOUS
            <7>2. Cardinality((U \ {x}) \ {y}) <= n
              <8>1. IsFiniteSet(U \ {x}) /\ y \in U \ {x}
                BY <4>1, <4>2, <5>2
              <8>2. Cardinality((U \ {x}) \ {y}) = Cardinality(U \ {x}) - 1
                BY <8>1, FS_RemoveElement
              <8>3. Cardinality(U \ {x}) <= n /\ Cardinality(U \ {x}) \in Nat
                BY <4>1, FS_CardinalityType
              <8> QED
                BY <3>0, <8>2, <8>3
            <7> QED
              BY <3>0, <7>1, <7>2
          <6>5. f[x] \in Int /\ f[y] \in Int
            BY <4>2
          <6> DEFINE rest == SumOf(f, (U \ {x}) \ {y})
          <6>6. /\ rest \in Int
                /\ SumOf(f, U) = f[y] + (f[x] + rest)
                /\ SumOf(f, U \ {x}) = f[y] + rest
            BY <4>2, <6>2, <6>3, <6>4
          <6> HIDE DEF rest
          <6> QED
            BY <6>5, <6>6
        <5> QED
          BY <5>1, <5>2
      <4> QED
        BY <4>3, <4>4
    <3> QED
      BY <3>2, <3>3
  <2> QED
    BY <2>1
<1>3. Good = Nat
  <2> HIDE DEF Good
  <2>1. Good \subseteq Nat
    BY DEF Good
  <2> QED
    BY <1>1, <1>2, <2>1, NaturalsByStep
<1>4. Cardinality(S) \in Good
  BY <1>3, FS_CardinalityType
<1> QED
  BY <1>4, FS_CardinalityType

(* Adding an element. *)
LEMMA SumAdd ==
    ASSUME NEW f, NEW S, IsFiniteSet(S), NEW x, x \notin S,
           \A y \in S \cup {x} : f[y] \in Int
    PROVE  SumOf(f, S \cup {x}) = f[x] + SumOf(f, S)
<1>1. IsFiniteSet(S \cup {x})
  BY FS_AddElement
<1>2. (S \cup {x}) \ {x} = S
  OBVIOUS
<1>3. x \in S \cup {x}
  OBVIOUS
<1>4. SumOf(f, S \cup {x}) = f[x] + SumOf(f, (S \cup {x}) \ {x})
  BY <1>1, <1>3, SumRemove
<1> QED
  BY <1>2, <1>4

(* Amounts that are not negative, and none of them exceeds their sum. *)
LEMMA SumOfNaturals ==
    ASSUME NEW f, NEW S, IsFiniteSet(S), \A x \in S : f[x] \in Nat
    PROVE  SumOf(f, S) \in Nat
<1> DEFINE Good == {n \in Nat : \A U \in SUBSET S :
                        Cardinality(U) = n => SumOf(f, U) \in Nat}
<1>1. 0 \in Good
  <2>1. ASSUME NEW U \in SUBSET S, Cardinality(U) = 0 PROVE SumOf(f, U) \in Nat
    <3>1. IsFiniteSet(U)
      BY FS_Subset
    <3>2. U = {}
      BY <2>1, <3>1, FS_EmptySet
    <3> QED
      BY <3>2, SumEmpty
  <2> QED
    BY <2>1
<1>2. ASSUME NEW n \in Good PROVE n + 1 \in Good
  <2>1. ASSUME NEW U \in SUBSET S, Cardinality(U) = n + 1 PROVE SumOf(f, U) \in Nat
    <3>1. IsFiniteSet(U) /\ n \in Nat /\ Cardinality(U) # 0
      BY <2>1, FS_Subset
    <3>2. U # {}
      BY <3>1, FS_EmptySet
    <3> DEFINE y == One(U)
    <3>3. y \in U /\ SumOf(f, U) = f[y] + SumOf(f, U \ {y})
      BY <3>1, <3>2, SumTakesOne
    <3> HIDE DEF y
    <3>4. Cardinality(U \ {y}) = Cardinality(U) - 1
      BY <3>1, <3>3, FS_RemoveElement
    <3>5. SumOf(f, U \ {y}) \in Nat
      BY <2>1, <3>1, <3>4
    <3>6. f[y] \in Nat
      BY <3>3
    <3> QED
      BY <3>3, <3>5, <3>6
  <2> QED
    BY <2>1
<1>3. Good = Nat
  <2> HIDE DEF Good
  <2>1. Good \subseteq Nat
    BY DEF Good
  <2> QED
    BY <1>1, <1>2, <2>1, NaturalsByStep
<1>4. Cardinality(S) \in Good
  BY <1>3, FS_CardinalityType
<1> QED
  BY <1>4

(* Induction on the subsets of a finite set, for a set of them. *)
LEMMA SubsetsByStep ==
    ASSUME NEW S, IsFiniteSet(S), NEW G, {} \in G,
           \A T \in SUBSET S : \A x \in S \ T : T \in G => T \cup {x} \in G
    PROVE  S \in G
<1> DEFINE Good == {n \in Nat : \A T \in SUBSET S : Cardinality(T) = n => T \in G}
<1>1. 0 \in Good
  <2>1. ASSUME NEW T \in SUBSET S, Cardinality(T) = 0 PROVE T \in G
    <3>1. IsFiniteSet(T)
      BY FS_Subset
    <3>2. T = {}
      BY <2>1, <3>1, FS_EmptySet
    <3> QED
      BY <3>2
  <2> QED
    BY <2>1
<1>2. ASSUME NEW n \in Good PROVE n + 1 \in Good
  <2>0. n \in Nat /\ \A T \in SUBSET S : Cardinality(T) = n => T \in G
    OBVIOUS
  <2> HIDE DEF Good
  <2>1. ASSUME NEW T \in SUBSET S, Cardinality(T) = n + 1 PROVE T \in G
    <3>1. IsFiniteSet(T)
      BY FS_Subset
    <3>2. T # {}
      BY <2>0, <2>1, FS_EmptySet
    <3>3. PICK x \in T : TRUE
      BY <3>2
    <3>4. Cardinality(T \ {x}) = n
      <4>1. Cardinality(T \ {x}) = Cardinality(T) - 1
        BY <3>1, FS_RemoveElement
      <4> QED
        BY <2>0, <2>1, <4>1
    <3>5. T \ {x} \in SUBSET S /\ x \in S \ (T \ {x}) /\ T = (T \ {x}) \cup {x}
      OBVIOUS
    <3>6. T \ {x} \in G
      BY <2>0, <3>4, <3>5
    <3>7. (T \ {x}) \cup {x} \in G
      BY <3>5, <3>6
    <3> QED
      BY <3>5, <3>7
  <2> QED
    BY <2>0, <2>1 DEF Good
<1>3. Good = Nat
  <2> HIDE DEF Good
  <2>1. Good \subseteq Nat
    BY DEF Good
  <2> QED
    BY <1>1, <1>2, <2>1, NaturalsByStep
<1>4. Cardinality(S) \in Good
  BY <1>3, FS_CardinalityType
<1> QED
  BY <1>4

(* The sum of nothing but zeros. *)
LEMMA SumZero ==
    ASSUME NEW f, NEW S, IsFiniteSet(S), \A x \in S : f[x] = 0
    PROVE  SumOf(f, S) = 0
<1> DEFINE G == {T \in SUBSET S : SumOf(f, T) = 0}
<1>1. {} \in G
  BY SumEmpty
<1>2. ASSUME NEW T \in SUBSET S, NEW x \in S \ T, T \in G PROVE T \cup {x} \in G
  <2>1. IsFiniteSet(T) /\ x \notin T /\ \A y \in T \cup {x} : f[y] \in Int
    BY FS_Subset
  <2>2. SumOf(f, T \cup {x}) = f[x] + SumOf(f, T)
    BY <2>1, SumAdd
  <2> QED
    BY <1>2, <2>2
<1>3. S \in G
  <2> HIDE DEF G
  <2> QED
    BY <1>1, <1>2, SubsetsByStep
<1> QED
  BY <1>3

ImageOf(c, J) == {c[j] : j \in J}

(* What finitely many indices stand for is finite. *)
LEMMA ImageFinite ==
    ASSUME NEW c, NEW J, IsFiniteSet(J)
    PROVE  IsFiniteSet(ImageOf(c, J))
<1> DEFINE G == {T \in SUBSET J : IsFiniteSet(ImageOf(c, T))}
<1>1. {} \in G
  <2>1. ImageOf(c, {}) = {}
    BY DEF ImageOf
  <2>2. IsFiniteSet(ImageOf(c, {}))
    BY <2>1, FS_EmptySet, Zenon
  <2> QED
    BY <2>2
<1>2. ASSUME NEW T \in SUBSET J, NEW x \in J \ T, T \in G PROVE T \cup {x} \in G
  <2>1. ImageOf(c, T \cup {x}) = ImageOf(c, T) \cup {c[x]}
    BY DEF ImageOf
  <2>2. IsFiniteSet(ImageOf(c, T) \cup {c[x]})
    BY <1>2, FS_AddElement
  <2>3. IsFiniteSet(ImageOf(c, T \cup {x}))
    BY <2>1, <2>2, Zenon
  <2> QED
    BY <1>2, <2>3
<1>3. J \in G
  <2> HIDE DEF G
  <2> QED
    BY <1>1, <1>2, SubsetsByStep
<1> QED
  BY <1>3

(* Adding the elements that distinct indices stand for. *)
LEMMA SumImage ==
    ASSUME NEW v, NEW A, IsFiniteSet(A), NEW J, IsFiniteSet(J), NEW c, NEW w,
           \A j \in J : c[j] \notin A,
           \A i, j \in J : c[i] = c[j] => i = j,
           \A x \in A \cup ImageOf(c, J) : v[x] \in Int,
           \A j \in J : w[j] = v[c[j]]
    PROVE  /\ IsFiniteSet(A \cup ImageOf(c, J))
           /\ SumOf(v, A \cup ImageOf(c, J)) = SumOf(v, A) + SumOf(w, J)
<1> DEFINE With(T) == A \cup ImageOf(c, T)
           G == {T \in SUBSET J : /\ IsFiniteSet(With(T))
                                  /\ SumOf(v, With(T)) = SumOf(v, A) + SumOf(w, T)}
<1>0. SumOf(v, A) \in Int
  BY SumRemove
<1>1. {} \in G
  <2>1. With({}) = A
    BY DEF ImageOf
  <2>2. SumOf(w, {}) = 0
    BY SumEmpty
  <2> HIDE DEF With
  <2>3. IsFiniteSet(With({})) /\ SumOf(v, With({})) = SumOf(v, A)
    BY <2>1, Zenon
  <2>4. SumOf(v, With({})) = SumOf(v, A) + SumOf(w, {})
    BY <1>0, <2>2, <2>3
  <2> QED
    BY <2>3, <2>4
<1>2. ASSUME NEW T \in SUBSET J, NEW x \in J \ T, T \in G PROVE T \cup {x} \in G
  <2>1. /\ IsFiniteSet(With(T))
        /\ SumOf(v, With(T)) = SumOf(v, A) + SumOf(w, T)
    BY <1>2
  <2>2. With(T \cup {x}) = With(T) \cup {c[x]} /\ c[x] \notin With(T)
    <3>1. ImageOf(c, T \cup {x}) = ImageOf(c, T) \cup {c[x]}
      BY DEF ImageOf
    <3>2. c[x] \notin ImageOf(c, T) /\ c[x] \notin A
      BY DEF ImageOf
    <3> QED
      BY <3>1, <3>2
  <2>3. \A y \in With(T) \cup {c[x]} : v[y] \in Int
    <3>1. ImageOf(c, T) \subseteq ImageOf(c, J) /\ c[x] \in ImageOf(c, J)
      BY DEF ImageOf
    <3>2. With(T) \cup {c[x]} \subseteq A \cup ImageOf(c, J)
      BY <3>1
    <3> HIDE DEF With, G
    <3> QED
      BY <3>2
  <2>4. IsFiniteSet(T) /\ x \notin T /\ \A y \in T \cup {x} : w[y] \in Int
    <3>1. \A y \in J : w[y] \in Int
      BY DEF ImageOf
    <3> QED
      BY <3>1, FS_Subset
  <2>5. SumOf(w, T \cup {x}) = w[x] + SumOf(w, T)
    BY <2>4, SumAdd
  <2>6. SumOf(w, T) \in Int
    BY <2>4, SumRemove
  <2>7. w[x] = v[c[x]] /\ w[x] \in Int
    BY <2>4
  <2>11. SumOf(v, With(T)) = SumOf(v, A) + SumOf(w, T)
    BY <2>1
  <2> HIDE DEF With
  <2>8. IsFiniteSet(With(T) \cup {c[x]})
    BY <2>1, FS_AddElement
  <2>9. SumOf(v, With(T) \cup {c[x]}) = v[c[x]] + SumOf(v, With(T))
    BY <2>1, <2>2, <2>3, SumAdd
  <2>12. SumOf(v, With(T \cup {x})) = v[c[x]] + SumOf(v, With(T))
    BY <2>2, <2>9, Zenon
  <2> HIDE DEF G
  <2>10. SumOf(v, With(T \cup {x})) = SumOf(v, A) + SumOf(w, T \cup {x})
    BY <1>0, <2>5, <2>6, <2>7, <2>11, <2>12
  <2>13. IsFiniteSet(With(T \cup {x}))
    BY <2>2, <2>8, Zenon
  <2> QED
    BY <2>10, <2>13 DEF G
<1>3. J \in G
  <2> HIDE DEF G
  <2> QED
    BY <1>1, <1>2, SubsetsByStep
<1> QED
  BY <1>3

(* The sum over two sets that share nothing. *)
LEMMA SumUnion ==
    ASSUME NEW f, NEW A, IsFiniteSet(A), NEW B, IsFiniteSet(B), A \cap B = {},
           \A x \in A \cup B : f[x] \in Int
    PROVE  SumOf(f, A \cup B) = SumOf(f, A) + SumOf(f, B)
<1> DEFINE c == [x \in B |-> x]
<1>1. \A j \in B : c[j] \notin A
  OBVIOUS
<1>2. \A i, j \in B : c[i] = c[j] => i = j
  OBVIOUS
<1>3. ImageOf(c, B) = B
  BY DEF ImageOf
<1>4. \A j \in B : f[j] = f[c[j]]
  OBVIOUS
<1>5. \A x \in A \cup ImageOf(c, B) : f[x] \in Int
  BY <1>3
<1> HIDE DEF c
<1>6. SumOf(f, A \cup ImageOf(c, B)) = SumOf(f, A) + SumOf(f, B)
  BY <1>1, <1>2, <1>4, <1>5, SumImage
<1> QED
  BY <1>3, <1>6, Zenon

(* Terms that are zero may be left out. *)
LEMMA SumFiltered ==
    ASSUME NEW f, NEW S, IsFiniteSet(S), NEW T, T \subseteq S,
           \A x \in S : f[x] \in Int, \A x \in S \ T : f[x] = 0
    PROVE  SumOf(f, S) = SumOf(f, T)
<1>1. /\ IsFiniteSet(T) /\ IsFiniteSet(S \ T)
      /\ T \cap (S \ T) = {} /\ T \cup (S \ T) = S
  BY FS_Subset
<1>2. \A x \in T \cup (S \ T) : f[x] \in Int
  BY <1>1
<1>3. SumOf(f, T \cup (S \ T)) = SumOf(f, T) + SumOf(f, S \ T)
  BY <1>1, <1>2, SumUnion
<1>4. SumOf(f, S \ T) = 0
  BY <1>1, SumZero
<1>5. SumOf(f, T) \in Int
  BY <1>1, SumRemove
<1>6. SumOf(f, S) = SumOf(f, T) + SumOf(f, S \ T)
  BY <1>1, <1>3, Zenon
<1> QED
  BY <1>4, <1>5, <1>6

(* SumFunction of the community modules is such a sum. *)
LEMMA SumFunctionIsSum ==
    ASSUME NEW f
    PROVE  SumFunction(f) = SumOf(f, DOMAIN f)
BY DEF SumFunction, SumFunctionOnSet, FoldFunctionOnSet, MapThenFoldSet,
       SumOf, Sums, One

-----------------------------------------------------------------------------
(* Sums of sequences of integers. *)

SeqSum(seq) == SumOf(seq, DOMAIN seq)

(* The sum of a sequence of integers is one. *)
LEMMA SeqSumType ==
    ASSUME NEW seq \in Seq(Int)
    PROVE  SeqSum(seq) \in Int
<1>1. IsFiniteSet(DOMAIN seq)
  BY FS_Interval
<1>2. \A i \in DOMAIN seq : seq[i] \in Int
  OBVIOUS
<1> QED
  BY <1>1, <1>2, SumRemove DEF SeqSum

(* The sum of the empty sequence, ... *)
LEMMA SeqSumEmpty == SeqSum(<< >>) = 0
<1>1. DOMAIN << >> = {}
  OBVIOUS
<1> QED
  BY <1>1, SumEmpty DEF SeqSum

(* ... of one with an element appended, ... *)
LEMMA SeqSumAppend ==
    ASSUME NEW seq \in Seq(Int), NEW x \in Int
    PROVE  SeqSum(Append(seq, x)) = SeqSum(seq) + x
<1> DEFINE D == 1 .. Len(seq)
           n == Len(seq) + 1
           longer == Append(seq, x)
<1>1. /\ DOMAIN seq = D /\ DOMAIN longer = D \cup {n} /\ n \notin D
      /\ longer[n] = x
      /\ \A i \in D : longer[i] = seq[i]
      /\ \A i \in D \cup {n} : longer[i] \in Int
  OBVIOUS
<1>2. IsFiniteSet(D)
  BY FS_Interval
<1>3. SumOf(longer, D) \in Int
  BY <1>1, <1>2, SumRemove
<1> HIDE DEF D, n, longer
<1>4. SumOf(longer, D \cup {n}) = longer[n] + SumOf(longer, D)
  BY <1>1, <1>2, SumAdd
<1>5. SumOf(longer, D) = SumOf(seq, D)
  BY <1>1, <1>2, SumEqual
<1>6. SeqSum(longer) = x + SumOf(seq, D) /\ SeqSum(seq) = SumOf(seq, D)
  BY <1>1, <1>4, <1>5 DEF SeqSum
<1> QED
  BY <1>3, <1>5, <1>6 DEF longer

(* ... and of one with a single element. *)
LEMMA SeqSumSingle ==
    ASSUME NEW x \in Int
    PROVE  SeqSum(<< x >>) = x
<1>1. << x >> = Append(<< >>, x) /\ << >> \in Seq(Int)
  OBVIOUS
<1>2. SeqSum(Append(<< >>, x)) = SeqSum(<< >>) + x
  BY <1>1, SeqSumAppend
<1> QED
  BY <1>1, <1>2, SeqSumEmpty

(* The sum of a sequence is that of its front and its last element; ... *)
LEMMA SeqSumFront ==
    ASSUME NEW seq \in Seq(Int), seq # << >>
    PROVE  /\ SubSeq(seq, 1, Len(seq) - 1) \in Seq(Int)
           /\ SeqSum(seq) = SeqSum(SubSeq(seq, 1, Len(seq) - 1)) + seq[Len(seq)]
<1> DEFINE front == SubSeq(seq, 1, Len(seq) - 1)
           x == seq[Len(seq)]
<1>1. front \in Seq(Int) /\ x \in Int
  OBVIOUS
<1>2. seq = Append(front, x)
  OBVIOUS
<1> HIDE DEF front, x
<1>3. SeqSum(Append(front, x)) = SeqSum(front) + x
  BY <1>1, SeqSumAppend
<1> QED
  BY <1>1, <1>2, <1>3 DEF front, x

(* ... and that of a concatenation, of the two. *)
LEMMA SeqSumConcat ==
    ASSUME NEW s \in Seq(Int), NEW t \in Seq(Int)
    PROVE  s \o t \in Seq(Int) /\ SeqSum(s \o t) = SeqSum(s) + SeqSum(t)
<1> DEFINE Good == {n \in Nat : \A u \in Seq(Int) :
                        Len(u) = n => SeqSum(s \o u) = SeqSum(s) + SeqSum(u)}
<1>1. 0 \in Good
  <2>1. ASSUME NEW u \in Seq(Int), Len(u) = 0
        PROVE  SeqSum(s \o u) = SeqSum(s) + SeqSum(u)
    <3>1. u = << >> /\ s \o u = s
      BY <2>1
    <3>2. SeqSum(u) = 0 /\ SeqSum(s) \in Int
      BY <3>1, SeqSumEmpty, SeqSumType
    <3> QED
      BY <3>1, <3>2
  <2> QED
    BY <2>1
<1>2. ASSUME NEW n \in Good PROVE n + 1 \in Good
  <2>1. ASSUME NEW u \in Seq(Int), Len(u) = n + 1
        PROVE  SeqSum(s \o u) = SeqSum(s) + SeqSum(u)
    <3>0. n \in Nat
      OBVIOUS
    <3> DEFINE front == SubSeq(u, 1, Len(u) - 1)
               x == u[Len(u)]
    <3>1. /\ front \in Seq(Int) /\ x \in Int /\ Len(front) = n
          /\ u = Append(front, x)
      BY <2>1, <3>0
    <3> HIDE DEF front, x
    <3>2. s \o u = Append(s \o front, x) /\ s \o front \in Seq(Int)
      BY <3>1
    <3>3. SeqSum(s \o front) = SeqSum(s) + SeqSum(front)
      BY <3>1
    <3>4. SeqSum(u) = SeqSum(front) + x /\ SeqSum(s \o u) = SeqSum(s \o front) + x
      BY <3>1, <3>2, SeqSumAppend
    <3>5. SeqSum(s) \in Int /\ SeqSum(front) \in Int
      BY <3>1, SeqSumType
    <3> QED
      BY <3>1, <3>3, <3>4, <3>5
  <2> QED
    BY <2>1
<1>3. Good = Nat
  <2> HIDE DEF Good
  <2>1. Good \subseteq Nat
    BY DEF Good
  <2> QED
    BY <1>1, <1>2, <2>1, NaturalsByStep
<1>4. Len(t) \in Good
  BY <1>3
<1> QED
  BY <1>4
=============================================================================
