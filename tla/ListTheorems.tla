----------------------------- MODULE ListTheorems -----------------------------
(***************************************************************************)
(* Lemmas about what the modules are built from: least numbers, sums over  *)
(* finite sets, and sequences that grow, shrink and are counted.           *)
(***************************************************************************)
EXTENDS Integers, Sequences, FiniteSets, FiniteSetTheorems, WellFoundedInduction, TLAPS

-----------------------------------------------------------------------------
(* Least elements, and induction over the subsets of a finite set.         *)

LessNat == {p \in Nat \X Nat : p[1] < p[2]}

LEMMA LeastNatural ==
  ASSUME NEW S \in SUBSET Nat, S # {}
  PROVE  \E n \in S : \A m \in S : n <= m
<1>1. IsWellFoundedOn(LessNat, Nat)
  BY NatLessThanWellFounded DEF OpToRel, LessNat
<1>2. PICK n \in S : \A m \in S : ~ (<<m, n>> \in LessNat)
  BY <1>1, WFMin
<1>3. ASSUME NEW m \in S PROVE n <= m
  <2>1. ~ (<<m, n>> \in LessNat) /\ m \in Nat /\ n \in Nat
    BY <1>2
  <2> QED BY <2>1 DEF LessNat
<1> QED BY <1>3

LEMMA SubsetInduction ==
  ASSUME NEW S, IsFiniteSet(S), NEW Good,
         \A T \in SUBSET S : (\A U \in SUBSET T : U # T => U \in Good) => T \in Good
  PROVE  \A T \in SUBSET S : T \in Good
<1> SUFFICES ASSUME NEW T0 \in SUBSET S, T0 \notin Good PROVE FALSE
  OBVIOUS
<1> DEFINE Bad == {T \in SUBSET S : T \notin Good}
           Sizes == {Cardinality(T) : T \in Bad}
<1>1. \A T \in SUBSET S : IsFiniteSet(T) /\ Cardinality(T) \in Nat
  BY FS_Subset, FS_CardinalityType
<1>2. Sizes \in SUBSET Nat /\ Sizes # {}
  BY <1>1
<1>3. PICK n \in Sizes : \A m \in Sizes : n <= m
  BY <1>2, LeastNatural
<1>4. PICK T \in Bad : Cardinality(T) = n
  BY <1>3
<1>5. ASSUME NEW U \in SUBSET T, U # T PROVE U \in Good
  <2>1. Cardinality(U) < Cardinality(T)
    BY <1>1, <1>4, <1>5, FS_Subset
  <2>2. Cardinality(U) \in Nat /\ Cardinality(T) \in Nat /\ U \in SUBSET S
    BY <1>1, <1>4, <1>5
  <2>3. U \notin Bad
    BY <1>3, <1>4, <2>1, <2>2
  <2> QED BY <2>2, <2>3
<1> QED BY <1>4, <1>5

-----------------------------------------------------------------------------
(* The values of a function added up over a set, in whatever order.        *)

First(s) == CHOOSE x \in s : TRUE
Adds(g, f, S) == g = [s \in SUBSET S |-> IF s = {} THEN 0 ELSE f[First(s)] + g[s \ {First(s)}]]
Adder(f, S) == CHOOSE g : Adds(g, f, S)
Over(f, S) == Adder(f, S)[S]

LEMMA FirstIsIn == ASSUME NEW S, S # {} PROVE First(S) \in S
BY DEF First

LEMMA AddsBelow ==
  ASSUME NEW f, NEW T, NEW U \in SUBSET T, NEW g, Adds(g, f, T)
  PROVE  Adds([s \in SUBSET U |-> g[s]], f, U)
<1> DEFINE h == [s \in SUBSET U |-> g[s]]
<1>1. ASSUME NEW s \in SUBSET U
      PROVE  g[s] = IF s = {} THEN 0 ELSE f[First(s)] + g[s \ {First(s)}]
  <2>1. s \in SUBSET T
    OBVIOUS
  <2> QED BY <2>1 DEF Adds
<1>2. ASSUME NEW s \in SUBSET U
      PROVE  g[s] = IF s = {} THEN 0 ELSE f[First(s)] + h[s \ {First(s)}]
  <2>1. s \ {First(s)} \in SUBSET U
    OBVIOUS
  <2>2. h[s \ {First(s)}] = g[s \ {First(s)}]
    BY <2>1
  <2> QED BY <1>1, <2>2
<1> QED BY <1>2 DEF Adds

UniquelyAdds(f, T) == \E g : Adds(g, f, T) /\ \A h : Adds(h, f, T) => h = g

LEMMA AdderAdds ==
  ASSUME NEW f, NEW T, UniquelyAdds(f, T)
  PROVE  Adds(Adder(f, T), f, T) /\ \A h : Adds(h, f, T) => h = Adder(f, T)
BY DEF UniquelyAdds, Adder

LEMMA OverStep ==
  ASSUME NEW f, NEW T, T # {}, UniquelyAdds(f, T), UniquelyAdds(f, T \ {First(T)})
  PROVE  Over(f, T) = f[First(T)] + Over(f, T \ {First(T)})
<1> DEFINE g == Adder(f, T)
           U == T \ {First(T)}
           h == [s \in SUBSET U |-> g[s]]
<1>1. Adds(g, f, T)
  BY AdderAdds
<1> HIDE DEF g
<1>2. g[T] = f[First(T)] + g[U]
  <2>1. T \in SUBSET T
    OBVIOUS
  <2> QED BY <1>1, <2>1 DEF Adds
<1>3. Adds(h, f, U)
  BY <1>1, AddsBelow
<1>4. h = Adder(f, U)
  BY <1>3, AdderAdds
<1>5. U \in SUBSET U
  OBVIOUS
<1>6. Over(f, U) = g[U]
  BY <1>4, <1>5 DEF Over
<1> QED BY <1>2, <1>6 DEF g, Over

LEMMA EveryFiniteAdds ==
  ASSUME NEW f, NEW S, IsFiniteSet(S)
  PROVE  \A T \in SUBSET S : UniquelyAdds(f, T)
<1> DEFINE Good == {T \in SUBSET S : UniquelyAdds(f, T)}
<1>1. ASSUME NEW T \in SUBSET S, \A U \in SUBSET T : U # T => U \in Good
      PROVE  UniquelyAdds(f, T)
  <2> DEFINE g == [s \in SUBSET T |-> IF s = {} THEN 0 ELSE f[First(s)] + Over(f, s \ {First(s)})]
  <2>1. \A U \in SUBSET T : U # T => UniquelyAdds(f, U)
    BY <1>1
  <2>2. ASSUME NEW u \in SUBSET T, u # T PROVE g[u] = Over(f, u)
    <3>1. CASE u = {}
      <4>1. Adds(Adder(f, {}), f, {})
        BY <2>1, <2>2, <3>1, AdderAdds
      <4>2. Adder(f, {})[{}] = 0
        BY <4>1 DEF Adds
      <4> QED BY <3>1, <4>2 DEF Over
    <3>2. CASE u # {}
      <4>1. u \ {First(u)} # T /\ u \ {First(u)} \in SUBSET T
        BY <2>2, <3>2, FirstIsIn
      <4>2. Over(f, u) = f[First(u)] + Over(f, u \ {First(u)})
        BY <2>1, <2>2, <3>2, <4>1, OverStep
      <4> QED BY <3>2, <4>2
    <3> QED BY <3>1, <3>2
  <2>3. ASSUME NEW s \in SUBSET T
        PROVE  g[s] = IF s = {} THEN 0 ELSE f[First(s)] + g[s \ {First(s)}]
    <3>1. CASE s = {}
      BY <3>1
    <3>2. CASE s # {}
      <4>1. s \ {First(s)} # T /\ s \ {First(s)} \in SUBSET T
        BY <3>2, FirstIsIn
      <4>2. g[s \ {First(s)}] = Over(f, s \ {First(s)})
        BY <2>2, <4>1
      <4>3. g[s] = f[First(s)] + Over(f, s \ {First(s)})
        BY <3>2
      <4> QED BY <3>2, <4>2, <4>3
    <3> QED BY <3>1, <3>2
  <2>4. Adds(g, f, T)
    <3>1. g = [s \in SUBSET T |-> g[s]]
      OBVIOUS
    <3> HIDE DEF g
    <3>2. [s \in SUBSET T |-> g[s]] = [s \in SUBSET T |-> IF s = {} THEN 0 ELSE f[First(s)] + g[s \ {First(s)}]]
      BY <2>3
    <3> QED BY <3>1, <3>2 DEF Adds
  <2>5. ASSUME NEW h, Adds(h, f, T) PROVE h = g
    <3>1. ASSUME NEW s \in SUBSET T PROVE h[s] = g[s]
      <4>1. h[s] = IF s = {} THEN 0 ELSE f[First(s)] + h[s \ {First(s)}]
        BY <2>5 DEF Adds
      <4>2. CASE s # {}
        <5> DEFINE u == s \ {First(s)}
                   k == [r \in SUBSET u |-> h[r]]
        <5>1. u # T /\ u \in SUBSET T
          BY <4>2, FirstIsIn
        <5> HIDE DEF u
        <5>2. Adds(k, f, u)
          BY <2>5, <5>1, AddsBelow
        <5>3. k = Adder(f, u)
          BY <2>1, <5>1, <5>2, AdderAdds
        <5>4. h[u] = Over(f, u)
          <6>1. u \in SUBSET u
            OBVIOUS
          <6> QED BY <5>3, <6>1 DEF Over
        <5> QED BY <4>1, <4>2, <5>4 DEF u
      <4> QED BY <4>1, <4>2
    <3>2. h = [s \in SUBSET T |-> h[s]]
      BY <2>5 DEF Adds
    <3> QED BY <3>1, <3>2
  <2> HIDE DEF g
  <2> QED BY <2>4, <2>5 DEF UniquelyAdds
<1>2. \A T \in SUBSET S : T \in Good
  <2>1. \A T \in SUBSET S : (\A U \in SUBSET T : U # T => U \in Good) => T \in Good
    BY <1>1
  <2> HIDE DEF Good
  <2> QED BY <2>1, SubsetInduction
<1> QED BY <1>2

LEMMA OverEmpty == ASSUME NEW f PROVE Over(f, {}) = 0
<1>1. IsFiniteSet({})
  BY FS_EmptySet
<1>2. UniquelyAdds(f, {})
  BY <1>1, EveryFiniteAdds
<1>3. Adds(Adder(f, {}), f, {})
  BY <1>2, AdderAdds
<1> QED BY <1>3 DEF Adds, Over

LEMMA OverFirst ==
  ASSUME NEW f, NEW T, IsFiniteSet(T), T # {}
  PROVE  Over(f, T) = f[First(T)] + Over(f, T \ {First(T)})
BY EveryFiniteAdds, OverStep

LEMMA OverInt ==
  ASSUME NEW f, NEW S, IsFiniteSet(S), \A x \in S : f[x] \in Int
  PROVE  \A T \in SUBSET S : Over(f, T) \in Int
<1> DEFINE Good == {T \in SUBSET S : Over(f, T) \in Int}
<1>1. ASSUME NEW T \in SUBSET S, \A U \in SUBSET T : U # T => U \in Good
      PROVE  T \in Good
  <2>1. CASE T = {}
    BY <2>1, OverEmpty
  <2>2. CASE T # {}
    <3>1. First(T) \in T /\ T \ {First(T)} # T /\ IsFiniteSet(T)
      BY <2>2, FirstIsIn, FS_Subset
    <3>2. Over(f, T) = f[First(T)] + Over(f, T \ {First(T)})
      BY <2>2, <3>1, OverFirst
    <3>3. Over(f, T \ {First(T)}) \in Int /\ f[First(T)] \in Int
      BY <1>1, <3>1
    <3> QED BY <3>2, <3>3
  <2> QED BY <2>1, <2>2
<1>2. \A T \in SUBSET S : T \in Good
  <2> HIDE DEF Good
  <2> QED BY <1>1, SubsetInduction
<1> QED BY <1>2

(* One value apart. *)
LEMMA OverApart ==
  ASSUME NEW f, NEW S, IsFiniteSet(S), \A x \in S : f[x] \in Int
  PROVE  \A T \in SUBSET S : \A x \in T : Over(f, T) = f[x] + Over(f, T \ {x})
<1> DEFINE Good == {T \in SUBSET S : \A x \in T : Over(f, T) = f[x] + Over(f, T \ {x})}
<1>1. ASSUME NEW T \in SUBSET S, \A U \in SUBSET T : U # T => U \in Good
      PROVE  T \in Good
  <2>1. SUFFICES ASSUME NEW x \in T PROVE Over(f, T) = f[x] + Over(f, T \ {x})
    OBVIOUS
  <2> DEFINE a == First(T)
  <2>2. a \in T /\ Over(f, T) = f[a] + Over(f, T \ {a})
    <3>1. IsFiniteSet(T) /\ T # {}
      BY FS_Subset
    <3> QED BY <3>1, FirstIsIn, OverFirst
  <2> HIDE DEF a
  <2>3. CASE x = a
    BY <2>2, <2>3
  <2>4. CASE x # a
    <3>1. Over(f, T \ {a}) = f[x] + Over(f, (T \ {a}) \ {x})
      <4>1. T \ {a} \in SUBSET T /\ T \ {a} # T /\ x \in T \ {a}
        BY <2>2, <2>4
      <4> QED BY <1>1, <4>1
    <3>2. Over(f, T \ {x}) = f[a] + Over(f, (T \ {x}) \ {a})
      <4>1. T \ {x} \in SUBSET T /\ T \ {x} # T /\ a \in T \ {x}
        BY <2>2, <2>4
      <4> QED BY <1>1, <4>1
    <3>3. (T \ {a}) \ {x} = (T \ {x}) \ {a} /\ (T \ {a}) \ {x} \in SUBSET S
      OBVIOUS
    <3>4. Over(f, (T \ {a}) \ {x}) \in Int
      BY <3>3, OverInt
    <3>5. f[a] \in Int /\ f[x] \in Int
      BY <2>2
    <3> DEFINE r == Over(f, (T \ {a}) \ {x})
    <3>6. Over(f, T) = f[a] + (f[x] + r) /\ Over(f, T \ {x}) = f[a] + r /\ r \in Int
      BY <2>2, <3>1, <3>2, <3>3, <3>4
    <3> HIDE DEF r
    <3> QED BY <3>5, <3>6
  <2> QED BY <2>3, <2>4
<1>2. \A T \in SUBSET S : T \in Good
  <2> HIDE DEF Good
  <2> QED BY <1>1, SubsetInduction
<1> QED BY <1>2

(* Functions that agree, and functions of which one is below the other. *)
LEMMA OverSame ==
  ASSUME NEW f, NEW g, NEW S, IsFiniteSet(S), \A x \in S : f[x] = g[x]
  PROVE  \A T \in SUBSET S : Over(f, T) = Over(g, T)
<1> DEFINE Good == {T \in SUBSET S : Over(f, T) = Over(g, T)}
<1>1. ASSUME NEW T \in SUBSET S, \A U \in SUBSET T : U # T => U \in Good
      PROVE  T \in Good
  <2>1. CASE T = {}
    BY <2>1, OverEmpty
  <2>2. CASE T # {}
    <3>1. First(T) \in T /\ T \ {First(T)} # T /\ IsFiniteSet(T)
      BY <2>2, FirstIsIn, FS_Subset
    <3>2. /\ Over(f, T) = f[First(T)] + Over(f, T \ {First(T)})
          /\ Over(g, T) = g[First(T)] + Over(g, T \ {First(T)})
      BY <2>2, <3>1, OverFirst
    <3>3. Over(f, T \ {First(T)}) = Over(g, T \ {First(T)}) /\ f[First(T)] = g[First(T)]
      BY <1>1, <3>1
    <3> QED BY <3>2, <3>3
  <2> QED BY <2>1, <2>2
<1>2. \A T \in SUBSET S : T \in Good
  <2> HIDE DEF Good
  <2> QED BY <1>1, SubsetInduction
<1> QED BY <1>2

LEMMA OverBelow ==
  ASSUME NEW f, NEW g, NEW S, IsFiniteSet(S),
         \A x \in S : f[x] \in Int /\ g[x] \in Int /\ f[x] <= g[x]
  PROVE  \A T \in SUBSET S : Over(f, T) <= Over(g, T)
<1> DEFINE Good == {T \in SUBSET S : Over(f, T) <= Over(g, T)}
<1>1. ASSUME NEW T \in SUBSET S, \A U \in SUBSET T : U # T => U \in Good
      PROVE  T \in Good
  <2>1. CASE T = {}
    BY <2>1, OverEmpty
  <2>2. CASE T # {}
    <3>1. First(T) \in T /\ T \ {First(T)} # T /\ IsFiniteSet(T)
      BY <2>2, FirstIsIn, FS_Subset
    <3>2. /\ Over(f, T) = f[First(T)] + Over(f, T \ {First(T)})
          /\ Over(g, T) = g[First(T)] + Over(g, T \ {First(T)})
      BY <2>2, <3>1, OverFirst
    <3>3. Over(f, T \ {First(T)}) <= Over(g, T \ {First(T)}) /\ f[First(T)] <= g[First(T)]
      BY <1>1, <3>1
    <3>4. Over(f, T \ {First(T)}) \in Int /\ Over(g, T \ {First(T)}) \in Int
          /\ f[First(T)] \in Int /\ g[First(T)] \in Int
      BY <3>1, OverInt
    <3> QED BY <3>2, <3>3, <3>4
  <2> QED BY <2>1, <2>2
<1>2. \A T \in SUBSET S : T \in Good
  <2> HIDE DEF Good
  <2> QED BY <1>1, SubsetInduction
<1> QED BY <1>2

LEMMA OverNat ==
  ASSUME NEW f, NEW S, IsFiniteSet(S), \A x \in S : f[x] \in Nat
  PROVE  \A T \in SUBSET S : Over(f, T) \in Nat
<1> DEFINE Good == {T \in SUBSET S : Over(f, T) \in Nat}
<1>1. ASSUME NEW T \in SUBSET S, \A U \in SUBSET T : U # T => U \in Good
      PROVE  T \in Good
  <2>1. CASE T = {}
    BY <2>1, OverEmpty
  <2>2. CASE T # {}
    <3>1. First(T) \in T /\ T \ {First(T)} # T /\ IsFiniteSet(T)
      BY <2>2, FirstIsIn, FS_Subset
    <3>2. Over(f, T) = f[First(T)] + Over(f, T \ {First(T)})
      BY <2>2, <3>1, OverFirst
    <3>3. Over(f, T \ {First(T)}) \in Nat /\ f[First(T)] \in Nat
      BY <1>1, <3>1
    <3> QED BY <3>2, <3>3
  <2> QED BY <2>1, <2>2
<1>2. \A T \in SUBSET S : T \in Good
  <2> HIDE DEF Good
  <2> QED BY <1>1, SubsetInduction
<1> QED BY <1>2

-----------------------------------------------------------------------------
(* Sequences that are joined and that lose an element.                     *)

LEMMA IndicesFinite ==
  ASSUME NEW R, NEW list \in Seq(R), NEW I \in SUBSET DOMAIN list
  PROVE  IsFiniteSet(I) /\ Cardinality(I) \in Nat
<1> DEFINE n == Len(list)
<1>1. n \in Nat /\ DOMAIN list = 1 .. n
  OBVIOUS
<1> HIDE DEF n
<1>2. IsFiniteSet(1 .. n)
  BY <1>1, FS_Interval
<1> QED BY <1>1, <1>2, FS_Subset, FS_CardinalityType

LEMMA Joined ==
  ASSUME NEW R, NEW a \in Seq(R), NEW b \in Seq(R)
  PROVE  /\ a \o b \in Seq(R)
         /\ Len(a \o b) = Len(a) + Len(b)
         /\ \A i \in 1 .. Len(a) : (a \o b)[i] = a[i]
         /\ \A i \in 1 .. Len(b) : (a \o b)[Len(a) + i] = b[i]
<1>1. a \o b \in Seq(R) /\ Len(a \o b) = Len(a) + Len(b)
  OBVIOUS
<1>2. \A i \in 1 .. Len(a) : (a \o b)[i] = a[i]
  OBVIOUS
<1>3. \A i \in 1 .. Len(b) : (a \o b)[Len(a) + i] = b[i]
  OBVIOUS
<1> QED BY <1>1, <1>2, <1>3

Omitting(list, k) == SubSeq(list, 1, k - 1) \o SubSeq(list, k + 1, Len(list))

LEMMA OmittingPlaces ==
  ASSUME NEW R, NEW list \in Seq(R), NEW k \in DOMAIN list
  PROVE  /\ Omitting(list, k) \in Seq(R)
         /\ Len(Omitting(list, k)) = Len(list) - 1
         /\ \A i \in DOMAIN Omitting(list, k) :
              Omitting(list, k)[i] = IF i < k THEN list[i] ELSE list[i + 1]
<1> DEFINE n == Len(list)
           a == SubSeq(list, 1, k - 1)
           b == SubSeq(list, k + 1, n)
           short == Omitting(list, k)
<1>1. n \in Nat /\ DOMAIN list = 1 .. n /\ k \in 1 .. n
  OBVIOUS
<1>2. a \in Seq(R) /\ Len(a) = k - 1 /\ \A i \in 1 .. k - 1 : a[i] = list[i]
  BY <1>1
<1>3. b \in Seq(R) /\ Len(b) = n - k /\ \A i \in 1 .. n - k : b[i] = list[k + i]
  BY <1>1
<1>4. short = a \o b
  BY DEF Omitting
<1> HIDE DEF a, b, n, short
<1>5. /\ short \in Seq(R) /\ Len(short) = (k - 1) + (n - k)
      /\ \A i \in 1 .. k - 1 : short[i] = a[i]
      /\ \A i \in 1 .. n - k : short[(k - 1) + i] = b[i]
  <2>1. /\ a \o b \in Seq(R) /\ Len(a \o b) = Len(a) + Len(b)
        /\ \A i \in 1 .. Len(a) : (a \o b)[i] = a[i]
        /\ \A i \in 1 .. Len(b) : (a \o b)[Len(a) + i] = b[i]
    <3>1. a \in Seq(R) /\ b \in Seq(R)
      BY <1>2, <1>3
    <3> QED BY <3>1, Joined
  <2>2. Len(a) = k - 1 /\ Len(b) = n - k
    BY <1>2, <1>3
  <2> QED BY <1>4, <2>1, <2>2
<1>6. Len(short) = n - 1
  BY <1>1, <1>5
<1>7. ASSUME NEW i \in 1 .. n - 1
      PROVE  short[i] = IF i < k THEN list[i] ELSE list[i + 1]
  <2>1. CASE i < k
    <3>1. i \in 1 .. k - 1
      BY <1>1, <2>1
    <3>2. short[i] = a[i] /\ a[i] = list[i]
      BY <1>2, <1>5, <3>1
    <3> QED BY <2>1, <3>2
  <2>2. CASE i >= k
    <3> DEFINE j == i - (k - 1)
    <3>1. j \in 1 .. n - k /\ (k - 1) + j = i /\ k + j = i + 1
      BY <1>1, <2>2
    <3> HIDE DEF j
    <3>2. short[(k - 1) + j] = b[j] /\ b[j] = list[k + j]
      BY <1>3, <1>5, <3>1
    <3>3. ~ (i < k)
      BY <1>1, <2>2
    <3> QED BY <3>1, <3>2, <3>3
  <2> QED BY <1>1, <2>1, <2>2
<1>8. DOMAIN short = 1 .. n - 1
  BY <1>5, <1>6
<1> QED BY <1>5, <1>6, <1>7, <1>8 DEF n, short

LEMMA OneToOne ==
  ASSUME NEW I, NEW J, IsFiniteSet(I), NEW f \in [I -> J],
         \A i, j \in I : f[i] = f[j] => i = j,
         \A j \in J : \E i \in I : f[i] = j
  PROVE  Cardinality(I) = Cardinality(J)
<1>1. f \in Injection(I, J)
  BY DEF Injection, IsInjective
<1>2. f \in Surjection(I, J)
  BY DEF Surjection
<1>3. ExistsBijection(I, J)
  BY <1>1, <1>2 DEF Bijection, ExistsBijection
<1> QED BY <1>3, FS_Bijection
=============================================================================
