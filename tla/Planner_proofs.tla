---------------------------- MODULE Planner_proofs ----------------------------
(***************************************************************************)
(* Theorems about Planner, for any team, any pokemons that appear and each *)
(* of the four algorithms.                                                 *)
(***************************************************************************)
EXTENDS Planner, ListTheorems

-----------------------------------------------------------------------------
(* Total adds up the values of a function.                                 *)

LEMMA TotalIsOver == ASSUME NEW f PROVE Total(f) = Over(f, DOMAIN f)
BY DEF Total, MapThenSumSet, MapThenFoldSet, Over, Adder, Adds, First

LEMMA TotalInt ==
  ASSUME NEW S, IsFiniteSet(S), NEW f \in [S -> Int]
  PROVE  Total(f) \in Int
<1>1. DOMAIN f = S /\ S \in SUBSET S /\ \A x \in S : f[x] \in Int
  OBVIOUS
<1>2. Over(f, S) \in Int
  BY <1>1, OverInt
<1> QED BY <1>1, <1>2, TotalIsOver

LEMMA TotalNat ==
  ASSUME NEW S, IsFiniteSet(S), NEW f \in [S -> Nat]
  PROVE  Total(f) \in Nat
<1>1. DOMAIN f = S /\ S \in SUBSET S /\ \A x \in S : f[x] \in Nat
  OBVIOUS
<1>2. Over(f, S) \in Nat
  BY <1>1, OverNat
<1> QED BY <1>1, <1>2, TotalIsOver

LEMMA TotalBelow ==
  ASSUME NEW S, IsFiniteSet(S), NEW f \in [S -> Int], NEW g \in [S -> Int],
         \A x \in S : f[x] <= g[x]
  PROVE  Total(f) <= Total(g)
<1>1. /\ DOMAIN f = S /\ DOMAIN g = S /\ S \in SUBSET S
      /\ \A x \in S : f[x] \in Int /\ g[x] \in Int /\ f[x] <= g[x]
  OBVIOUS
<1>2. Over(f, S) <= Over(g, S)
  BY <1>1, OverBelow
<1> QED BY <1>1, <1>2, TotalIsOver

(* What the change of one value does. *)
LEMMA TotalChange ==
  ASSUME NEW S, IsFiniteSet(S), NEW f \in [S -> Int], NEW g \in [S -> Int], NEW x \in S,
         \A y \in S \ {x} : g[y] = f[y]
  PROVE  Total(g) = Total(f) - f[x] + g[x]
<1> DEFINE U == S \ {x}
<1>1. /\ DOMAIN f = S /\ DOMAIN g = S /\ S \in SUBSET S /\ U \in SUBSET S /\ U \in SUBSET U
      /\ (\A y \in S : f[y] \in Int) /\ (\A y \in S : g[y] \in Int) /\ IsFiniteSet(U)
  BY FS_Subset
<1>2. Over(f, S) = f[x] + Over(f, U) /\ Over(g, S) = g[x] + Over(g, U)
  BY <1>1, OverApart
<1>3. Over(f, U) \in Int
  BY <1>1, OverInt
<1>4. \A y \in U : f[y] = g[y]
  OBVIOUS
<1> HIDE DEF U
<1>5. Over(f, U) = Over(g, U)
  BY <1>1, <1>4, OverSame
<1>6. f[x] \in Int /\ g[x] \in Int
  BY <1>1
<1> QED BY <1>1, <1>2, <1>3, <1>5, <1>6, TotalIsOver

LEMMA TotalSame ==
  ASSUME NEW S, IsFiniteSet(S), NEW f \in [S -> Int], NEW g \in [S -> Int],
         \A y \in S : g[y] = f[y]
  PROVE  Total(g) = Total(f)
<1>1. f = g
  OBVIOUS
<1> QED BY <1>1

-----------------------------------------------------------------------------
(* How many elements of a list are in a set, when the list changes.        *)

Hits(list, S) == Cardinality({i \in DOMAIN list : list[i] \in S})

LEMMA HitsNat ==
  ASSUME NEW R, NEW list \in Seq(R), NEW S
  PROVE  Hits(list, S) \in Nat
BY IndicesFinite DEF Hits

LEMMA HitsAppend ==
  ASSUME NEW R, NEW list \in Seq(R), NEW S, NEW e \in R
  PROVE  Hits(Append(list, e), S) = Hits(list, S) + One(e \in S)
<1> DEFINE I == {i \in DOMAIN list : list[i] \in S}
           J == {i \in DOMAIN Append(list, e) : Append(list, e)[i] \in S}
           n == Len(list)
<1>1. IsFiniteSet(I) /\ Cardinality(I) \in Nat
  BY IndicesFinite
<1>2. n \in Nat /\ DOMAIN list = 1 .. n /\ n + 1 \notin I
  OBVIOUS
<1>3. /\ DOMAIN Append(list, e) = 1 .. n + 1 /\ Append(list, e)[n + 1] = e
      /\ \A i \in 1 .. n : Append(list, e)[i] = list[i]
  OBVIOUS
<1>4. J = IF e \in S THEN I \cup {n + 1} ELSE I
  BY <1>2, <1>3
<1>5. Hits(list, S) = Cardinality(I) /\ Hits(Append(list, e), S) = Cardinality(J)
  BY DEF Hits
<1> HIDE DEF I, J, n
<1>6. Cardinality(I \cup {n + 1}) = Cardinality(I) + 1
  BY <1>1, <1>2, FS_AddElement
<1> QED BY <1>1, <1>4, <1>5, <1>6 DEF One

LEMMA RemovedPlaces ==
  ASSUME NEW R, NEW list \in Seq(R), NEW k \in DOMAIN list
  PROVE  /\ RemoveAt(list, k) \in Seq(R)
         /\ Len(RemoveAt(list, k)) = Len(list) - 1
         /\ \A i \in DOMAIN RemoveAt(list, k) :
              RemoveAt(list, k)[i] = IF i < k THEN list[i] ELSE list[i + 1]
BY OmittingPlaces DEF RemoveAt, Omitting

LEMMA HitsRemoved ==
  ASSUME NEW R, NEW list \in Seq(R), NEW S, NEW k \in DOMAIN list
  PROVE  Hits(RemoveAt(list, k), S) = Hits(list, S) - One(list[k] \in S)
<1> DEFINE short == RemoveAt(list, k)
           I == {i \in DOMAIN list : list[i] \in S}
           J == {i \in DOMAIN short : short[i] \in S}
           n == Len(list)
           Old(i) == IF i < k THEN i ELSE i + 1
           f == [i \in J |-> IF i < k THEN i ELSE i + 1]
<1>1. n \in Nat /\ DOMAIN list = 1 .. n /\ k \in 1 .. n
  OBVIOUS
<1>2. short \in Seq(R) /\ Len(short) = n - 1
      /\ \A i \in DOMAIN short : short[i] = IF i < k THEN list[i] ELSE list[i + 1]
  BY RemovedPlaces
<1> HIDE DEF short, n
<1>3. DOMAIN short = 1 .. n - 1
  BY <1>1, <1>2
<1>4. /\ \A i \in J : f[i] \in I \ {k}
      /\ \A i, j \in J : f[i] = f[j] => i = j
      /\ \A i \in I \ {k} : \E j \in J : f[j] = i
  <2>1. \A i \in J : f[i] \in I \ {k}
    BY <1>1, <1>2, <1>3
  <2>2. \A i, j \in J : f[i] = f[j] => i = j
    BY <1>1, <1>3
  <2>3. ASSUME NEW i \in I \ {k} PROVE \E j \in J : f[j] = i
    <3>1. CASE i < k
      <4>1. i \in J
        BY <1>1, <1>2, <1>3, <2>3, <3>1
      <4> QED BY <3>1, <4>1
    <3>2. CASE i > k
      <4>1. i - 1 \in J /\ ~ (i - 1 < k) /\ (i - 1) + 1 = i
        <5>1. i - 1 \in 1 .. n - 1 /\ ~ (i - 1 < k) /\ (i - 1) + 1 = i
          BY <1>1, <2>3, <3>2
        <5>2. short[i - 1] = list[i]
          BY <1>2, <1>3, <5>1
        <5> QED BY <1>3, <2>3, <5>1, <5>2
      <4> QED BY <4>1
    <3> QED BY <1>1, <2>3, <3>1, <3>2
  <2> QED BY <2>1, <2>2, <2>3
<1>5. IsFiniteSet(I) /\ Cardinality(I) \in Nat /\ IsFiniteSet(J) /\ Cardinality(J) \in Nat
      /\ IsFiniteSet(I \ {k})
  BY <1>2, IndicesFinite, FS_Subset
<1>6. Cardinality(J) = Cardinality(I \ {k})
  <2> HIDE DEF I, J
  <2>1. f \in [J -> I \ {k}]
    BY <1>4
  <2> HIDE DEF f
  <2> QED BY <1>4, <1>5, <2>1, OneToOne
<1>7. Hits(list, S) = Cardinality(I) /\ Hits(RemoveAt(list, k), S) = Cardinality(J)
  BY DEF Hits, short
<1>8. k \in I <=> list[k] \in S
  OBVIOUS
<1> HIDE DEF I, J
<1>9. Cardinality(I \ {k}) = IF k \in I THEN Cardinality(I) - 1 ELSE Cardinality(I)
  BY <1>5, FS_RemoveElement
<1> QED BY <1>5, <1>6, <1>7, <1>8, <1>9 DEF One

LEMMA HitsEmpty == ASSUME NEW S PROVE Hits(<<>>, S) = 0
<1>1. {i \in DOMAIN <<>> : <<>>[i] \in S} = {}
  OBVIOUS
<1> QED BY <1>1, FS_EmptySet DEF Hits

LEMMA HitsOne ==
  ASSUME NEW R, NEW list \in Seq(R), NEW S, NEW i \in DOMAIN list, list[i] \in S
  PROVE  Hits(list, S) >= 1
<1> DEFINE I == {j \in DOMAIN list : list[j] \in S}
<1>1. IsFiniteSet(I) /\ Cardinality(I) \in Nat /\ i \in I
  BY IndicesFinite
<1>2. {i} \subseteq I /\ IsFiniteSet({i}) /\ Cardinality({i}) = 1
  BY <1>1, FS_Singleton
<1> HIDE DEF I
<1>3. Cardinality({i}) <= Cardinality(I)
  BY <1>1, <1>2, FS_Subset
<1> QED BY <1>1, <1>2, <1>3 DEF I, Hits

LEMMA HitsTwo ==
  ASSUME NEW R, NEW list \in Seq(R), NEW S,
         NEW i \in DOMAIN list, list[i] \in S, NEW j \in DOMAIN list, list[j] \in S, i # j
  PROVE  Hits(list, S) >= 2
<1> DEFINE I == {k \in DOMAIN list : list[k] \in S}
<1>1. IsFiniteSet(I) /\ Cardinality(I) \in Nat /\ i \in I /\ j \in I
  BY IndicesFinite
<1>2. IsFiniteSet({i}) /\ Cardinality({i}) = 1
  BY FS_Singleton
<1>3. Cardinality({i} \cup {j}) = Cardinality({i}) + 1
  BY <1>2, FS_AddElement
<1>4. {i} \cup {j} \subseteq I
  BY <1>1
<1> HIDE DEF I
<1>5. Cardinality({i} \cup {j}) <= Cardinality(I)
  BY <1>1, <1>4, FS_Subset
<1>6. Hits(list, S) = Cardinality(I)
  BY DEF I, Hits
<1> DEFINE one == Cardinality({i})
           two == Cardinality({i} \cup {j})
           all == Cardinality(I)
<1>7. one = 1 /\ two = one + 1 /\ two <= all /\ all \in Nat /\ Hits(list, S) = all
  BY <1>1, <1>2, <1>3, <1>5, <1>6
<1> HIDE DEF one, two, all
<1> QED BY <1>7

LEMMA HitsNone ==
  ASSUME NEW R, NEW list \in Seq(R), NEW S, Hits(list, S) >= 1
  PROVE  \E i \in DOMAIN list : list[i] \in S
<1> SUFFICES ASSUME ~ \E i \in DOMAIN list : list[i] \in S PROVE FALSE
  OBVIOUS
<1>1. {i \in DOMAIN list : list[i] \in S} = {}
  OBVIOUS
<1>2. Hits(list, S) = 0
  BY <1>1, FS_EmptySet DEF Hits
<1> QED BY <1>2

LEMMA HitsApart ==
  ASSUME NEW R, NEW list \in Seq(R), NEW S, NEW T, S \cap T = {}
  PROVE  Hits(list, S \cup T) = Hits(list, S) + Hits(list, T)
<1> DEFINE I == {i \in DOMAIN list : list[i] \in S}
           J == {i \in DOMAIN list : list[i] \in T}
<1>1. IsFiniteSet(I) /\ IsFiniteSet(J) /\ I \cap J = {}
  BY IndicesFinite
<1>2. {i \in DOMAIN list : list[i] \in S \cup T} = I \cup J
  OBVIOUS
<1>3. IsFiniteSet({})  /\ Cardinality({}) = 0 /\ Cardinality(I) \in Nat /\ Cardinality(J) \in Nat
  BY IndicesFinite, FS_EmptySet
<1> HIDE DEF I, J
<1>4. Cardinality(I \cup J) = Cardinality(I) + Cardinality(J) - Cardinality(I \cap J)
  BY <1>1, FS_Union
<1>5. Hits(list, S) = Cardinality(I) /\ Hits(list, T) = Cardinality(J)
      /\ Hits(list, S \cup T) = Cardinality(I \cup J)
  BY <1>2 DEF Hits, I, J
<1>6. Cardinality(I \cap J) = 0
  BY <1>1, <1>3
<1> QED BY <1>3, <1>4, <1>5, <1>6

-----------------------------------------------------------------------------
(* The trainers of a list: those with an id, and those in a state.         *)

WithId(t) == {r \in TrainerRecords : r.id = t}
InState(s) == {r \in TrainerRecords : r.state = s}
OfBoth(s, t) == {r \in TrainerRecords : r.state = s /\ r.id = t}
Count(list, s) == Hits(list, InState(s))
CountOf(list, s, t) == Hits(list, OfBoth(s, t))

LEMMA ListedHits ==
  ASSUME NEW list \in Seq(TrainerRecords), NEW t
  PROVE  Listed(list, t) = Hits(list, WithId(t))
<1>1. \A i \in DOMAIN list : list[i] \in TrainerRecords
  OBVIOUS
<1>2. {i \in DOMAIN list : list[i].id = t} = {i \in DOMAIN list : list[i] \in WithId(t)}
  BY <1>1 DEF WithId
<1> QED BY <1>2 DEF Hits, Listed

LEMMA FreeHits ==
  ASSUME NEW list \in Seq(TrainerRecords)
  PROVE  Cardinality(Free(list)) = Count(list, "AVAILABLE")
<1>1. \A i \in DOMAIN list : list[i] \in TrainerRecords
  OBVIOUS
<1>2. Free(list) = {i \in DOMAIN list : list[i] \in InState("AVAILABLE")}
  BY <1>1 DEF InState, Free
<1> QED BY <1>2 DEF Hits, Count

LEMMA CountsNat ==
  ASSUME NEW list \in Seq(TrainerRecords), NEW t, NEW s
  PROVE  Listed(list, t) \in Nat /\ Count(list, s) \in Nat /\ CountOf(list, s, t) \in Nat
BY HitsNat, ListedHits DEF Count, CountOf

LEMMA CountsEmpty ==
  ASSUME NEW t, NEW s
  PROVE  Listed(<<>>, t) = 0 /\ Count(<<>>, s) = 0 /\ CountOf(<<>>, s, t) = 0
<1>1. <<>> \in Seq(TrainerRecords)
  OBVIOUS
<1> QED BY <1>1, HitsEmpty, ListedHits DEF Count, CountOf

LEMMA CountsAppend ==
  ASSUME NEW list \in Seq(TrainerRecords), NEW t, NEW s, NEW e \in TrainerRecords
  PROVE  /\ Append(list, e) \in Seq(TrainerRecords)
         /\ Len(Append(list, e)) = Len(list) + 1
         /\ Listed(Append(list, e), t) = Listed(list, t) + One(e.id = t)
         /\ Count(Append(list, e), s) = Count(list, s) + One(e.state = s)
         /\ CountOf(Append(list, e), s, t) = CountOf(list, s, t) + One(e.state = s /\ e.id = t)
<1>1. Append(list, e) \in Seq(TrainerRecords) /\ Len(Append(list, e)) = Len(list) + 1
  OBVIOUS
<1>2. /\ (e \in WithId(t)) = (e.id = t) /\ (e \in InState(s)) = (e.state = s)
      /\ (e \in OfBoth(s, t)) = (e.state = s /\ e.id = t)
  BY DEF WithId, InState, OfBoth
<1>3. \A S : Hits(Append(list, e), S) = Hits(list, S) + One(e \in S)
  BY HitsAppend
<1>4. /\ Listed(Append(list, e), t) = Listed(list, t) + One(e \in WithId(t))
      /\ Count(Append(list, e), s) = Count(list, s) + One(e \in InState(s))
      /\ CountOf(Append(list, e), s, t) = CountOf(list, s, t) + One(e \in OfBoth(s, t))
  BY <1>1, <1>3, ListedHits DEF Count, CountOf
<1> QED BY <1>1, <1>2, <1>4

LEMMA CountsRemoved ==
  ASSUME NEW list \in Seq(TrainerRecords), NEW t, NEW s, NEW k \in DOMAIN list
  PROVE  /\ RemoveAt(list, k) \in Seq(TrainerRecords)
         /\ Len(RemoveAt(list, k)) = Len(list) - 1
         /\ Listed(RemoveAt(list, k), t) = Listed(list, t) - One(list[k].id = t)
         /\ Count(RemoveAt(list, k), s) = Count(list, s) - One(list[k].state = s)
         /\ CountOf(RemoveAt(list, k), s, t)
              = CountOf(list, s, t) - One(list[k].state = s /\ list[k].id = t)
<1> DEFINE e == list[k]
<1>1. e \in TrainerRecords
  OBVIOUS
<1>2. RemoveAt(list, k) \in Seq(TrainerRecords) /\ Len(RemoveAt(list, k)) = Len(list) - 1
  BY RemovedPlaces
<1>3. \A S : Hits(RemoveAt(list, k), S) = Hits(list, S) - One(e \in S)
  BY HitsRemoved
<1> HIDE DEF e
<1>4. /\ (e \in WithId(t)) = (e.id = t) /\ (e \in InState(s)) = (e.state = s)
      /\ (e \in OfBoth(s, t)) = (e.state = s /\ e.id = t)
  BY <1>1 DEF WithId, InState, OfBoth
<1>5. /\ Listed(RemoveAt(list, k), t) = Listed(list, t) - One(e.id = t)
      /\ Count(RemoveAt(list, k), s) = Count(list, s) - One(e.state = s)
      /\ CountOf(RemoveAt(list, k), s, t) = CountOf(list, s, t) - One(e.state = s /\ e.id = t)
  BY <1>2, <1>3, <1>4, ListedHits DEF Count, CountOf, One
<1> QED BY <1>2, <1>5 DEF e

LEMMA DroppedIsRemoved ==
  ASSUME NEW R, NEW list \in Seq(R), NEW k \in DOMAIN list
  PROVE  Removed(list, k) = RemoveAt(list, k)
<1>1. list # <<>> /\ k \in 1 .. Len(list) /\ Len(list) \in Nat
  OBVIOUS
<1>2. Min({k, Len(list)}) = k
  <2> DEFINE S == {k, Len(list)}
  <2>1. k \in S /\ \A y \in S : k <= y
    BY <1>1
  <2>2. \A x \in S : (\A y \in S : x <= y) => x = k
    BY <1>1
  <2> QED BY <2>1, <2>2 DEF Min
<1> QED BY <1>1, <1>2 DEF Removed

-----------------------------------------------------------------------------
(* What the threads do with a trainer, and which one they choose.          *)

LEMMA Teams ==
  /\ IsFiniteSet(Trainers) /\ trainersCount \in Nat \ {0}
  /\ \A t : t \in Trainers <=> (t \in Nat /\ t < trainersCount)
<1>1. IsFiniteSet(Trainers) /\ Trainers # {} /\ Trainers = 0 .. trainersCount - 1
  BY PlannerAssumption
<1>2. trainersCount \in Nat
  BY <1>1, FS_CardinalityType DEF trainersCount
<1> QED BY <1>1, <1>2

Pokemons == Arrivals \cup {Nothing}

LEMMA PokemonPlaces ==
  ASSUME NEW p \in Pokemons
  PROVE  p.pos \in Int \X Int
BY PlannerAssumption DEF Pokemons, Nothing

LEMMA RecordParts ==
  ASSUME NEW r \in TrainerRecords
  PROVE  /\ r.id \in Trainers /\ r.pos \in Int \X Int /\ r.held \in [Species -> Nat]
         /\ r.target \in Pokemons /\ r.state \in {"AVAILABLE", "DEADLOCK", "WAITING"}
         /\ r.burst \in Nat \cup {-1} /\ r.estimate \in Nat
BY DEF TrainerRecords, Pokemons

LEMMA NewRecord ==
  ASSUME NEW t \in Trainers
  PROVE  /\ NewTrainer(t) \in TrainerRecords
         /\ NewTrainer(t).id = t /\ NewTrainer(t).state = "AVAILABLE"
         /\ NewTrainer(t).held = StartHeld[t]
BY PlannerAssumption DEF NewTrainer, TrainerRecords

LEMMA NonNegative ==
  ASSUME NEW a \in Nat, NEW b \in Nat \ {0}
  PROVE  a \div b \in Nat
OBVIOUS

LEMMA EstimateOf ==
  ASSUME NEW r, r.burst \in Nat \cup {-1}, r.estimate \in Nat
  PROVE  Estimate(r) \in Nat /\ Clocks(r) \in Nat
<1>1. Scale \in Nat \ {0} /\ AlphaParts \in Nat /\ Scale - AlphaParts \in Nat /\ InitialEstimate \in Nat
  BY PlannerAssumption
<1>2. r.burst \in Nat \cup {-1} /\ r.estimate \in Nat
  OBVIOUS
<1>3. \A a, b \in Nat : a * b \in Nat
  OBVIOUS
<1>4. \A a, b \in Nat : a + b \in Nat
  OBVIOUS
<1>5. Estimate(r) \in Nat
  <2>1. CASE r.burst = -1
    BY <1>1, <1>3, <2>1 DEF Estimate
  <2>2. CASE r.burst # -1
    <3> DEFINE a == AlphaParts * r.estimate + (Scale - AlphaParts) * r.burst * Scale
    <3>1. AlphaParts * r.estimate \in Nat
      BY <1>1, <1>2, <1>3
    <3>2. (Scale - AlphaParts) * r.burst \in Nat
      BY <1>1, <1>2, <1>3, <2>2
    <3>3. (Scale - AlphaParts) * r.burst * Scale \in Nat
      BY <1>1, <1>3, <3>2
    <3>4. a \in Nat
      BY <1>4, <3>1, <3>3
    <3>5. Estimate(r) = a \div Scale
      BY <2>2 DEF Estimate
    <3> HIDE DEF a
    <3> QED BY <1>1, <3>4, <3>5, NonNegative
  <2> QED BY <2>1, <2>2
<1> QED BY <1>1, <1>5, NonNegative DEF Clocks

LEMMA EstimateNat ==
  ASSUME NEW r \in TrainerRecords
  PROVE  Estimate(r) \in Nat /\ Clocks(r) \in Nat
BY RecordParts, EstimateOf

SameTrainer(u, v) == u.id = v.id /\ u.held = v.held /\ u.target = v.target /\ u.state = v.state

LEMMA MovedRecord ==
  ASSUME NEW r \in TrainerRecords, NEW p \in Int \X Int, NEW b \in Nat \cup {-1},
         NEW u, u = [Moved(r, p) EXCEPT !.burst = b]
  PROVE  u \in TrainerRecords /\ SameTrainer(u, r)
<1> USE DEF SameTrainer
<1> DEFINE to == Moved(r, p).pos
<1>1. to \in Int \X Int
  <2>1. \A a, b2 \in Int : Toward(a, b2) \in Int
    BY DEF Toward
  <2>2. r.pos \in Int \X Int /\ r.pos[1] \in Int /\ r.pos[2] \in Int /\ p[1] \in Int /\ p[2] \in Int
    BY RecordParts
  <2>3. to = IF r.pos[1] # p[1] THEN <<Toward(r.pos[1], p[1]), r.pos[2]>>
                  ELSE <<r.pos[1], Toward(r.pos[2], p[2])>>
    BY DEF Moved, TrainerRecords
  <2> QED BY <2>1, <2>2, <2>3
<1>2. Moved(r, p) = [r EXCEPT !.pos = to]
  BY DEF Moved, TrainerRecords
<1> HIDE DEF to
<1> QED BY <1>1, <1>2 DEF TrainerRecords

LEMMA TargetRecord ==
  ASSUME NEW r \in TrainerRecords, NEW p \in Pokemons
  PROVE  /\ [r EXCEPT !.target = p] \in TrainerRecords
         /\ [r EXCEPT !.target = p].id = r.id /\ [r EXCEPT !.target = p].held = r.held
         /\ [r EXCEPT !.target = p].state = r.state /\ [r EXCEPT !.target = p].target = p
BY DEF TrainerRecords, Pokemons

LEMMA StateRecord ==
  ASSUME NEW r \in TrainerRecords, NEW s \in {"AVAILABLE", "DEADLOCK", "WAITING"}
  PROVE  /\ [r EXCEPT !.state = s] \in TrainerRecords
         /\ [r EXCEPT !.state = s].id = r.id /\ [r EXCEPT !.state = s].held = r.held
         /\ [r EXCEPT !.state = s].state = s
BY DEF TrainerRecords

LEMMA CaughtRecord ==
  ASSUME NEW r \in TrainerRecords
  PROVE  /\ Caught(r) \in TrainerRecords
         /\ Caught(r).id = r.id /\ Caught(r).state = r.state
         /\ Caught(r).held = [r.held EXCEPT ![r.target.name] = @ + 1]
<1>1. [r.held EXCEPT ![r.target.name] = @ + 1] \in [Species -> Nat]
  <2> DEFINE h == r.held
             n == r.target.name
  <2>1. h \in [Species -> Nat]
    BY RecordParts
  <2> HIDE DEF h, n
  <2>2. [h EXCEPT ![n] = h[n] + 1] \in [Species -> Nat]
    <3>1. CASE n \in Species
      BY <2>1, <3>1
    <3>2. CASE n \notin Species
      BY <2>1, <3>2
    <3> QED BY <3>1, <3>2
  <2> QED BY <2>2 DEF h, n
<1>2. Caught(r) = [r EXCEPT !.held = [r.held EXCEPT ![r.target.name] = @ + 1]]
  BY DEF Caught, TrainerRecords
<1> QED BY <1>1, <1>2 DEF TrainerRecords

LEMMA BegunRecord ==
  ASSUME NEW r \in TrainerRecords
  PROVE  /\ Begun(r) \in TrainerRecords
         /\ Begun(r).id = r.id /\ Begun(r).held = r.held
         /\ Begun(r).target = r.target /\ Begun(r).state = r.state
<1>1. Estimate(r) \in Nat
  BY EstimateNat
<1> QED BY <1>1 DEF Begun, TrainerRecords

LEMMA FirstOfLeast ==
  ASSUME NEW I \in SUBSET Nat, I # {}, NEW w \in [I -> Nat]
  PROVE  \E i \in I : \A j \in I \ {i} : w[i] < w[j] \/ (w[i] = w[j] /\ i < j)
<1> DEFINE W == {w[i] : i \in I}
<1>1. PICK n \in W : \A m \in W : n <= m
  <2>1. W \in SUBSET Nat /\ W # {}
    OBVIOUS
  <2> HIDE DEF W
  <2> QED BY <2>1, LeastNatural
<1> DEFINE J == {i \in I : w[i] = n}
<1>2. PICK i \in J : \A j \in J : i <= j
  <2>1. J \in SUBSET Nat /\ J # {}
    BY <1>1
  <2> HIDE DEF J
  <2> QED BY <2>1, LeastNatural
<1>3. ASSUME NEW j \in I \ {i} PROVE w[i] < w[j] \/ (w[i] = w[j] /\ i < j)
  <2>1. w[i] = n /\ n <= w[j] /\ w[j] \in Nat /\ n \in Nat /\ i \in Nat /\ j \in Nat
    BY <1>1, <1>2
  <2>2. w[j] = n => i <= j
    BY <1>2
  <2> QED BY <1>3, <2>1, <2>2
<1> QED BY <1>2, <1>3

LEMMA DistanceNat ==
  ASSUME NEW r \in TrainerRecords, NEW p \in Pokemons
  PROVE  Distance(r, p) \in Nat
<1>1. \A a \in Int : Abs(a) \in Nat
  BY DEF Abs
<1>2. r.pos \in Int \X Int /\ p.pos \in Int \X Int
  BY RecordParts, PokemonPlaces
<1>3. r.pos[1] - p.pos[1] \in Int /\ r.pos[2] - p.pos[2] \in Int
  BY <1>2
<1>4. Abs(r.pos[1] - p.pos[1]) \in Nat /\ Abs(r.pos[2] - p.pos[2]) \in Nat
  BY <1>1, <1>3
<1> QED BY <1>4 DEF Distance

LEMMA ClosestIsIn ==
  ASSUME NEW list \in Seq(TrainerRecords), NEW I \in SUBSET DOMAIN list, I # {},
         NEW p \in Pokemons
  PROVE  Closest(list, I, p) \in I
<1> DEFINE w == [i \in I |-> Distance(list[i], p)]
<1>1. w \in [I -> Nat] /\ I \in SUBSET Nat
  BY DistanceNat
<1>2. \A i \in I : w[i] = Distance(list[i], p)
  OBVIOUS
<1> HIDE DEF w
<1>3. \E i \in I : \A j \in I \ {i} : w[i] < w[j] \/ (w[i] = w[j] /\ i < j)
  BY <1>1, FirstOfLeast
<1>4. \E i \in I : \A j \in I \ {i} :
        \/ Distance(list[i], p) < Distance(list[j], p)
        \/ Distance(list[i], p) = Distance(list[j], p) /\ i < j
  BY <1>2, <1>3
<1> QED BY <1>4 DEF Closest

LEMMA BestIsReady ==
  ASSUME ready \in Seq(TrainerRecords), ready # <<>>
  PROVE  Best \in DOMAIN ready /\ Chosen \in DOMAIN ready
<1> DEFINE I == DOMAIN ready
           w == [i \in I |-> Clocks(ready[i])]
<1>1. w \in [I -> Nat] /\ I \in SUBSET Nat /\ 1 \in I
  BY EstimateNat
<1>2. \A i \in I : w[i] = Clocks(ready[i])
  OBVIOUS
<1> HIDE DEF w
<1>3. \E i \in I : \A j \in I \ {i} : w[i] < w[j] \/ (w[i] = w[j] /\ i < j)
  BY <1>1, FirstOfLeast
<1>4. \E i \in I : \A j \in I \ {i} :
        Clocks(ready[i]) < Clocks(ready[j]) \/ (Clocks(ready[i]) = Clocks(ready[j]) /\ i < j)
  BY <1>2, <1>3
<1>5. Best \in DOMAIN ready
  BY <1>4 DEF Best
<1> QED BY <1>1, <1>5 DEF Chosen

-----------------------------------------------------------------------------
(* The invariant that the theorems need: the types, and                    *)
(*   - CloserInv: the place that startCloseScheduling is about to read or  *)
(*     to remove is still there, though the other thread has added to the  *)
(*     lists since it was chosen;                                          *)
(*   - RunnerInv: the trainer that executes is there as long as            *)
(*     startAlgorithmScheduling takes it to be, and the place to be        *)
(*     removed from the ready list is the one it was copied from.          *)

Executing == {"remove", "run", "place", "release", "preempt", "giveWay"} \cup AskingPcs
Holding == {"pokemon", "lock", "look", "choose", "drop", "giveBack"}

SomebodyFree == Free(blocked) # {} \/ new # <<>>

Closing ==
  /\ closer.pc \in {"look", "choose"} => closer.pkm > 0
  /\ closer.pc = "choose" => closer.pkm \in DOMAIN available
  /\ closer.pc = "drop" => closer.pos > 0

CloserInv ==
  /\ Closing
  /\ closer.pc \in {"look", "choose"} => SomebodyFree
  /\ closer.pc = "drop" =>
       closer.pos \in IF closer.list = "new" THEN DOMAIN new ELSE Free(blocked)

RunnerInv ==
  /\ exec.on <=> runner.pc \in Executing
  /\ runner.pc = "remove" =>
       runner.pos \in DOMAIN ready /\ ready[runner.pos].id = exec.trainer.id
  /\ runner.post \in {"availableTrainersCount", "deadlockCount"}
  /\ runner.pc \in {"remove", "run"} /\ algorithm = "RR" => runner.clocks < Quantum

Sound == TypeOK /\ RunnerInv
Base == Sound /\ CloserInv

ClosersBooks == <<closer, available>>
RunnersBooks == <<algorithm, exec, missing, runner>>

LengthOf(list) == Len(list)

(* A list with one more trainer at its end, or one less. *)
Longer(old, now, e) ==
  /\ now \in Seq(TrainerRecords) /\ LengthOf(now) = LengthOf(old) + 1
  /\ \A i \in DOMAIN old : i \in DOMAIN now /\ now[i] = old[i]
  /\ now[Len(old) + 1] = e
  /\ \A t : Listed(now, t) = Listed(old, t) + One(e.id = t)
  /\ \A s : Count(now, s) = Count(old, s) + One(e.state = s)
  /\ \A s, t : CountOf(now, s, t) = CountOf(old, s, t) + One(e.state = s /\ e.id = t)

Shorter(old, now, e) ==
  /\ now \in Seq(TrainerRecords) /\ LengthOf(now) = LengthOf(old) - 1
  /\ \A t : Listed(now, t) = Listed(old, t) - One(e.id = t)
  /\ \A s : Count(now, s) = Count(old, s) - One(e.state = s)
  /\ \A s, t : CountOf(now, s, t) = CountOf(old, s, t) - One(e.state = s /\ e.id = t)

LEMMA AppendLonger ==
  ASSUME NEW list \in Seq(TrainerRecords), NEW e \in TrainerRecords
  PROVE  Longer(list, Append(list, e), e)
<1>1. /\ \A i \in DOMAIN list : i \in DOMAIN Append(list, e) /\ Append(list, e)[i] = list[i]
      /\ Append(list, e)[Len(list) + 1] = e
  OBVIOUS
<1>2. Append(list, e) \in Seq(TrainerRecords) /\ Len(Append(list, e)) = Len(list) + 1
  OBVIOUS
<1>3. \A t : Listed(Append(list, e), t) = Listed(list, t) + One(e.id = t)
  BY CountsAppend
<1>4. \A s : Count(Append(list, e), s) = Count(list, s) + One(e.state = s)
  BY CountsAppend
<1>5. \A s, t : CountOf(Append(list, e), s, t) = CountOf(list, s, t) + One(e.state = s /\ e.id = t)
  BY CountsAppend
<1> QED BY <1>1, <1>2, <1>3, <1>4, <1>5 DEF Longer, LengthOf

LEMMA RemoveShorter ==
  ASSUME NEW list \in Seq(TrainerRecords), NEW k \in DOMAIN list
  PROVE  Shorter(list, RemoveAt(list, k), list[k])
<1>1. RemoveAt(list, k) \in Seq(TrainerRecords) /\ Len(RemoveAt(list, k)) = Len(list) - 1
  BY CountsRemoved
<1>2. ASSUME NEW t, NEW s
      PROVE  /\ Listed(RemoveAt(list, k), t) = Listed(list, t) - One(list[k].id = t)
             /\ Count(RemoveAt(list, k), s) = Count(list, s) - One(list[k].state = s)
             /\ CountOf(RemoveAt(list, k), s, t)
                  = CountOf(list, s, t) - One(list[k].state = s /\ list[k].id = t)
  BY CountsRemoved
<1> QED BY <1>1, <1>2 DEF Shorter, LengthOf

LEMMA Posts ==
  ASSUME sem \in [Semaphores -> Nat], NEW s \in Semaphores, Post(s)
  PROVE  /\ sem' \in [Semaphores -> Nat]
         /\ sem'[s] = sem[s] + 1 /\ \A r \in Semaphores \ {s} : sem'[r] = sem[r]
BY DEF Post

LEMMA Waits ==
  ASSUME sem \in [Semaphores -> Nat], NEW s \in Semaphores, Wait(s)
  PROVE  /\ sem' \in [Semaphores -> Nat] /\ sem[s] > 0
         /\ sem'[s] = sem[s] - 1 /\ \A r \in Semaphores \ {s} : sem'[r] = sem[r]
BY DEF Wait

ListTypes ==
  /\ new \in Seq(TrainerRecords) /\ ready \in Seq(TrainerRecords)
  /\ blocked \in Seq(TrainerRecords) /\ exit \in Seq(TrainerRecords)
  /\ exec \in [on : BOOLEAN, trainer : TrainerRecords] /\ exec.trainer \in TrainerRecords

LEMMA Lists == TypeOK => ListTypes
<1> SUFFICES ASSUME TypeOK PROVE ListTypes
  OBVIOUS
<1>1. {new, ready, blocked, exit} \subseteq Seq(TrainerRecords)
      /\ exec \in [on : BOOLEAN, trainer : TrainerRecords]
  BY DEF TypeOK
<1> QED BY <1>1 DEF ListTypes

(* The steps of startCloseScheduling that leave every list alone. *)
CloserPcs == {"trainer", "pokemon", "lock", "look", "choose", "drop", "giveBack", "unlock"}
Closers == [pc : CloserPcs, pkm : Nat, left : Int, list : {"new", "blocked"}, pos : Nat]

Quiet == \/ WaitTrainer \/ WaitPokemon \/ LockAvailable \/ Look \/ LookedAtAll
         \/ GiveBack \/ UnlockAvailable \/ (Choose /\ UNCHANGED ready)

NoLists == <<algorithm, lists, exec, missing, appeared, runner, ends>>

SameSem(s) == sem'[s] = sem[s]

Leaves ==
  /\ closer.pc # "drop" /\ closer'.pc # "drop"
  /\ sem' \in [Semaphores -> Nat]
  /\ \A s \in {"readyTrainer", "execTrainer", "deadlockCount", "exitCount"} : SameSem(s)
  /\ sem'["availableTrainersCount"] + One(closer'.pc \in Holding)
       = sem["availableTrainersCount"] + One(closer.pc \in Holding)

LEMMA QuietTypes ==
  ASSUME Sound, Closing, Quiet
  PROVE  /\ UNCHANGED NoLists /\ UNCHANGED available /\ closer' \in Closers
         /\ Leaves /\ Closing'
         /\ closer'.pc \in {"look", "choose"} =>
              closer.pc \in {"look", "choose"} \/ SomebodyFree
<1> USE DEF NoLists, Leaves, Holding, One, Semaphores, SameSem
<1>1. closer \in Closers /\ sem \in [Semaphores -> Nat] /\ missing \in [Species -> Nat]
      /\ available \in Seq(Arrivals) /\ exec.on \in BOOLEAN
  BY DEF Sound, TypeOK, Closers, CloserPcs
<1>2. CASE WaitTrainer
  <2>1. closer.pc = "trainer" /\ closer' = [closer EXCEPT !.pc = "pokemon"]
        /\ UNCHANGED NoLists /\ UNCHANGED available
    BY <1>2 DEF WaitTrainer, Goto
  <2>2. Leaves
    <3>1. /\ sem' \in [Semaphores -> Nat] /\ sem'["availableTrainersCount"] = sem["availableTrainersCount"] - 1
          /\ \A r \in Semaphores \ {"availableTrainersCount"} : SameSem(r)
      BY <1>1, <1>2, Waits DEF WaitTrainer
    <3>2. /\ closer.pc # "drop" /\ closer'.pc # "drop"
          /\ One(closer.pc \in Holding) = 0 /\ One(closer'.pc \in Holding) = 1
      BY <1>1, <2>1 DEF Closers
    <3> QED BY <1>1, <3>1, <3>2
  <2> QED BY <1>1, <2>1, <2>2 DEF Closers, CloserPcs, Closing
<1>3. CASE WaitPokemon
  <2>1. closer.pc = "pokemon" /\ closer' = [closer EXCEPT !.pc = "lock"]
        /\ UNCHANGED NoLists /\ UNCHANGED available
    BY <1>3 DEF WaitPokemon, Goto
  <2>2. Leaves
    <3>1. /\ sem' \in [Semaphores -> Nat] /\ sem'["availablePokemonsCount"] = sem["availablePokemonsCount"] - 1
          /\ \A r \in Semaphores \ {"availablePokemonsCount"} : SameSem(r)
      BY <1>1, <1>3, Waits DEF WaitPokemon
    <3>2. /\ closer.pc # "drop" /\ closer'.pc # "drop"
          /\ One(closer.pc \in Holding) = 1 /\ One(closer'.pc \in Holding) = 1
      BY <1>1, <2>1 DEF Closers
    <3> QED BY <1>1, <3>1, <3>2
  <2> QED BY <1>1, <2>1, <2>2 DEF Closers, CloserPcs, Closing
<1>4. CASE LockAvailable
  <2>1. closer.pc = "lock" /\ UNCHANGED NoLists /\ UNCHANGED available
        /\ closer' = [closer EXCEPT !.pkm = 1,
                  !.pc = IF Free(blocked) # {} \/ new # <<>> THEN "look" ELSE "giveBack"]
    BY <1>4 DEF LockAvailable
  <2>2. Leaves
    <3>1. /\ sem' \in [Semaphores -> Nat] /\ sem'["availablePokemons"] = sem["availablePokemons"] - 1
          /\ \A r \in Semaphores \ {"availablePokemons"} : SameSem(r)
      BY <1>1, <1>4, Waits DEF LockAvailable
    <3>2. /\ closer.pc # "drop" /\ closer'.pc # "drop"
          /\ One(closer.pc \in Holding) = 1 /\ One(closer'.pc \in Holding) = 1
      BY <1>1, <2>1 DEF Closers
    <3> QED BY <1>1, <3>1, <3>2
  <2>3. closer' \in Closers /\ closer'.pkm = 1 /\ closer'.pc \in {"look", "giveBack"}
        /\ (closer'.pc = "look" => SomebodyFree)
    BY <1>1, <2>1 DEF Closers, CloserPcs, SomebodyFree
  <2>5. Closing'
    BY <2>3 DEF Closing
  <2> QED BY <2>1, <2>2, <2>3, <2>5
<1>5. CASE Look
  <2> DEFINE name == available[closer.pkm].name
             l == missing[name] - (IF exec.on /\ exec.trainer.target.name = name THEN 1 ELSE 0)
  <2>1. closer.pc = "look" /\ closer.pkm <= Len(available)
        /\ UNCHANGED <<NoLists, sem>> /\ UNCHANGED available
        /\ \/ closer' = [closer EXCEPT !.pc = "choose", !.left = l]
           \/ closer' = [closer EXCEPT !.pkm = @ + 1]
    BY <1>5 DEF Look
  <2>2. closer.pkm \in DOMAIN available
    BY <1>1, <2>1 DEF Closing, Closers
  <2>3. l \in Int
    <3>1. available[closer.pkm] \in Arrivals
      BY <1>1, <2>2
    <3>2. name \in Species
      BY <3>1, PlannerAssumption
    <3> QED BY <1>1, <3>2
  <2> HIDE DEF l
  <2>4. Leaves
    BY <1>1, <2>1 DEF Closers
  <2>5. closer' \in Closers /\ closer'.pkm > 0 /\ closer'.pc \in {"look", "choose"}
        /\ (closer'.pc = "choose" => closer'.pkm = closer.pkm)
    <3>1. closer.pkm > 0 /\ closer.pkm \in Nat
      BY <1>1, <2>1 DEF Closers, Closing
    <3>2. CASE closer' = [closer EXCEPT !.pc = "choose", !.left = l]
      BY <1>1, <2>3, <3>1, <3>2 DEF Closers, CloserPcs
    <3>3. CASE closer' = [closer EXCEPT !.pkm = @ + 1]
      <4> DEFINE k == closer.pkm + 1
      <4>1. k \in Nat /\ k > 0 /\ closer' = [closer EXCEPT !.pkm = k]
        BY <3>1, <3>3
      <4> HIDE DEF k
      <4> QED BY <1>1, <2>1, <4>1 DEF Closers, CloserPcs
    <3> QED BY <2>1, <3>2, <3>3
  <2>6. Closing'
    BY <2>1, <2>2, <2>5 DEF Closing
  <2> QED BY <2>1, <2>4, <2>5, <2>6
<1>6. CASE LookedAtAll
  <2>1. closer.pc = "look" /\ closer' = [closer EXCEPT !.pc = "giveBack"]
        /\ UNCHANGED <<NoLists, sem>> /\ UNCHANGED available
    BY <1>6 DEF LookedAtAll, Goto
  <2>2. Leaves
    BY <1>1, <2>1 DEF Closers
  <2> QED BY <1>1, <2>1, <2>2 DEF Closers, CloserPcs, Closing
<1>7. CASE GiveBack
  <2>1. closer.pc = "giveBack" /\ closer' = [closer EXCEPT !.pc = "unlock"]
        /\ UNCHANGED NoLists /\ UNCHANGED available
    BY <1>7 DEF GiveBack, Goto
  <2>2. Leaves
    <3>1. /\ sem' \in [Semaphores -> Nat] /\ sem'["availableTrainersCount"] = sem["availableTrainersCount"] + 1
          /\ \A r \in Semaphores \ {"availableTrainersCount"} : SameSem(r)
      BY <1>1, <1>7, Posts DEF GiveBack
    <3>2. /\ closer.pc # "drop" /\ closer'.pc # "drop"
          /\ One(closer.pc \in Holding) = 1 /\ One(closer'.pc \in Holding) = 0
      BY <1>1, <2>1 DEF Closers
    <3> QED BY <1>1, <3>1, <3>2
  <2> QED BY <1>1, <2>1, <2>2 DEF Closers, CloserPcs, Closing
<1>8. CASE UnlockAvailable
  <2>1. closer.pc = "unlock" /\ closer' = IdleCloser
        /\ UNCHANGED NoLists /\ UNCHANGED available
    BY <1>8 DEF UnlockAvailable
  <2>2. Leaves
    <3>1. /\ sem' \in [Semaphores -> Nat] /\ sem'["availablePokemons"] = sem["availablePokemons"] + 1
          /\ \A r \in Semaphores \ {"availablePokemons"} : SameSem(r)
      BY <1>1, <1>8, Posts DEF UnlockAvailable
    <3>2. /\ closer.pc # "drop" /\ closer'.pc # "drop"
          /\ One(closer.pc \in Holding) = 0 /\ One(closer'.pc \in Holding) = 0
      BY <1>1, <2>1 DEF IdleCloser
    <3> QED BY <1>1, <3>1, <3>2
  <2> QED BY <1>1, <2>1, <2>2 DEF Closers, CloserPcs, Closing, IdleCloser
<1>9. CASE Choose /\ UNCHANGED ready
  <2>1. closer.pc = "choose" /\ UNCHANGED <<NoLists, sem>> /\ UNCHANGED available
        /\ closer' = [closer EXCEPT !.pc = "look", !.pkm = @ + 1]
    <3>1. ASSUME NEW p, NEW list, NEW i, Plan(p, list, i) PROVE FALSE
      <4>1. ready' = Append(ready, [IF list = "new" THEN new[i] ELSE blocked[i] EXCEPT !.target = p])
        BY <3>1 DEF Plan
      <4>2. ready \in Seq(TrainerRecords)
        BY Lists DEF Sound, ListTypes
      <4> QED BY <1>9, <4>1, <4>2
    <3> QED BY <1>9, <3>1 DEF Choose
  <2>2. Leaves
    BY <1>1, <2>1 DEF Closers
  <2>3. closer' \in Closers /\ closer'.pkm > 0 /\ closer'.pc = "look"
    <3>1. closer.pkm > 0 /\ closer.pkm \in Nat
      BY <1>1, <2>1 DEF Closers, Closing
    <3> DEFINE k == closer.pkm + 1
    <3>2. k \in Nat /\ k > 0 /\ closer' = [closer EXCEPT !.pc = "look", !.pkm = k]
      BY <2>1, <3>1
    <3> HIDE DEF k
    <3> QED BY <1>1, <3>2 DEF Closers, CloserPcs
  <2>4. Closing'
    BY <2>3 DEF Closing
  <2> QED BY <2>1, <2>2, <2>3, <2>4
<1> QED BY <1>2, <1>3, <1>4, <1>5, <1>6, <1>7, <1>8, <1>9 DEF Quiet

LEMMA QuietSteps ==
  ASSUME Base, Quiet
  PROVE  /\ UNCHANGED NoLists /\ UNCHANGED available /\ closer' \in Closers
         /\ Leaves /\ CloserInv'
<1>1. Sound /\ Closing
  BY DEF Base, CloserInv
<1>2. /\ UNCHANGED NoLists /\ UNCHANGED available /\ closer' \in Closers
      /\ Leaves /\ Closing'
      /\ closer'.pc \in {"look", "choose"} =>
           closer.pc \in {"look", "choose"} \/ SomebodyFree
  BY <1>1, QuietTypes
<1>3. closer.pc \in {"look", "choose"} => SomebodyFree
  BY DEF Base, CloserInv
<1>4. UNCHANGED <<new, blocked>> /\ closer'.pc # "drop"
  BY <1>2 DEF NoLists, lists, Leaves
<1>5. CloserInv'
  BY <1>2, <1>3, <1>4 DEF CloserInv, SomebodyFree
<1> QED BY <1>2, <1>5

(* The step that gives a pokemon to a trainer, and the one that drops the  *)
(* copy it was taken from.                                                 *)
Choice == IF closer.list = "new" THEN new[closer.pos] ELSE blocked[closer.pos]

Planning(p) ==
  /\ closer.pc = "choose" /\ closer' \in Closers /\ closer'.pc = "drop"
  /\ UNCHANGED <<algorithm, new, blocked, exit, exec, missing, appeared, runner, ends>>
  /\ available' \in Seq(Arrivals)
  /\ Choice' \in TrainerRecords /\ Choice'.id = BeingDropped'
  /\ Longer(ready, ready', [Choice' EXCEPT !.target = p])
  /\ sem' \in [Semaphores -> Nat] /\ sem'["readyTrainer"] = sem["readyTrainer"] + 1
  /\ \A s \in Semaphores \ {"readyTrainer"} : SameSem(s)
  /\ CloserInv'

LEMMA PlaceOfClosest ==
  ASSUME Sound, SomebodyFree, NEW p \in Arrivals
  PROVE  \/ ClosestList(p) = "new" /\ ClosestNew(p) \in DOMAIN new
         \/ ClosestList(p) = "blocked" /\ ClosestBlocked(p) \in Free(blocked)
<1>1. new \in Seq(TrainerRecords) /\ blocked \in Seq(TrainerRecords) /\ p \in Pokemons
  BY Lists DEF Sound, ListTypes, Pokemons
<1>2. Free(blocked) # {} \/ new # <<>>
  BY DEF SomebodyFree
<1>3. ASSUME new # <<>> PROVE ClosestNew(p) \in DOMAIN new
  <2> DEFINE I == {1} \cup {i \in DOMAIN new : HasRoom(new[i])}
  <2>1. I \in SUBSET DOMAIN new /\ I # {}
    BY <1>1, <1>3
  <2> HIDE DEF I
  <2>2. Closest(new, I, p) \in I
    BY <1>1, <2>1, ClosestIsIn
  <2> QED BY <2>1, <2>2 DEF I, ClosestNew
<1>4. ASSUME Free(blocked) # {} PROVE ClosestBlocked(p) \in Free(blocked)
  <2>1. Free(blocked) \in SUBSET DOMAIN blocked
    BY DEF Free
  <2> QED BY <1>1, <1>4, <2>1, ClosestIsIn DEF ClosestBlocked
<1>5. CASE ClosestList(p) = "new"
  <2>1. new # <<>>
    BY <1>2, <1>5 DEF ClosestList
  <2> QED BY <1>3, <1>5, <2>1
<1>6. CASE ClosestList(p) # "new"
  <2>1. Free(blocked) # {} /\ ClosestList(p) = "blocked"
    BY <1>6 DEF ClosestList
  <2> QED BY <1>4, <2>1
<1> QED BY <1>5, <1>6

LEMMA PlanTypes ==
  ASSUME Sound, Closing, SomebodyFree, Choose, ready' # ready
  PROVE  \E p \in Arrivals : Planning(p)
<1> DEFINE p == available[closer.pkm]
           list == ClosestList(p)
           i == IF ClosestList(p) = "new" THEN ClosestNew(p) ELSE ClosestBlocked(p)
           u == IF list = "new" THEN new[i] ELSE blocked[i]
<1>1. closer.pc = "choose" /\ Plan(p, list, i) /\ UNCHANGED <<algorithm, exec, missing, appeared, runner, ends>>
  BY DEF Choose, lists
<1>2. /\ closer \in Closers /\ sem \in [Semaphores -> Nat] /\ available \in Seq(Arrivals)
      /\ new \in Seq(TrainerRecords) /\ blocked \in Seq(TrainerRecords)
      /\ ready \in Seq(TrainerRecords)
  BY Lists DEF Sound, ListTypes, TypeOK, Closers, CloserPcs
<1>3. closer.pkm \in DOMAIN available
  BY <1>1 DEF Closing
<1>4. p \in Arrivals /\ RemoveAt(available, closer.pkm) \in Seq(Arrivals)
  BY <1>2, <1>3, RemovedPlaces
<1> HIDE DEF p
<1>5. \/ list = "new" /\ i \in DOMAIN new
      \/ list = "blocked" /\ i \in Free(blocked) /\ i \in DOMAIN blocked
  BY <1>1, <1>4, PlaceOfClosest DEF Free
<1> HIDE DEF list, i
<1>6. i \in Nat
  BY <1>2, <1>5
<1>7. u \in TrainerRecords
  BY <1>2, <1>5
<1>8. [u EXCEPT !.target = p] \in TrainerRecords
  BY <1>4, <1>7, TargetRecord DEF Pokemons
<1>9. /\ available' = RemoveAt(available, closer.pkm)
      /\ ready' = Append(ready, [u EXCEPT !.target = p]) /\ Post("readyTrainer")
      /\ closer' = [closer EXCEPT !.pc = "drop", !.list = list, !.pos = i]
      /\ UNCHANGED <<new, blocked, exit>>
  BY <1>1 DEF Plan
<1>10. closer' \in Closers /\ closer'.pc = "drop" /\ closer'.list = list /\ closer'.pos = i
  BY <1>2, <1>5, <1>6, <1>9 DEF Closers, CloserPcs
<1>11. CloserInv'
  <2>1. i > 0
    BY <1>2, <1>5
  <2> QED BY <1>5, <1>9, <1>10, <2>1 DEF CloserInv, Closing
<1>12. Choice' = u /\ BeingDropped' = u.id
  BY <1>9, <1>10 DEF Choice, BeingDropped
<1> HIDE DEF u
<1>13. Longer(ready, ready', [u EXCEPT !.target = p])
  BY <1>2, <1>8, <1>9, AppendLonger
<1>14. /\ sem' \in [Semaphores -> Nat] /\ sem'["readyTrainer"] = sem["readyTrainer"] + 1
       /\ \A s \in Semaphores \ {"readyTrainer"} : SameSem(s)
  BY <1>2, <1>9, Posts DEF Semaphores, SameSem
<1>15. Planning(p)
  BY <1>1, <1>4, <1>7, <1>9, <1>10, <1>11, <1>12, <1>13, <1>14 DEF Planning
<1> QED BY <1>4, <1>15

LEMMA PlanStep ==
  ASSUME Base, Choose, ready' # ready
  PROVE  \E p \in Arrivals : Planning(p)
<1>1. Sound /\ Closing /\ SomebodyFree
  BY DEF Base, CloserInv, Choose
<1> QED BY <1>1, PlanTypes

Dropped ==
  /\ closer.pc = "drop" /\ closer' \in Closers /\ closer'.pc = "unlock"
  /\ UNCHANGED <<algorithm, ready, exit, exec, available, missing, sem, appeared, runner, ends>>
  /\ Choice \in TrainerRecords /\ Choice.id = BeingDropped
  /\ closer.pos \in DOMAIN (IF closer.list = "new" THEN new ELSE blocked)
  /\ \/ /\ closer.list = "new" /\ UNCHANGED blocked
        /\ new' = RemoveAt(new, closer.pos) /\ Shorter(new, new', Choice)
     \/ /\ closer.list = "blocked" /\ UNCHANGED new /\ Choice.state = "AVAILABLE"
        /\ blocked' = RemoveAt(blocked, closer.pos) /\ Shorter(blocked, blocked', Choice)
  /\ CloserInv'

LEMMA DropStep ==
  ASSUME Base, Drop
  PROVE  Dropped
<1> DEFINE k == closer.pos
<1>1. /\ closer \in Closers /\ new \in Seq(TrainerRecords) /\ blocked \in Seq(TrainerRecords)
  BY Lists DEF Base, Sound, ListTypes, TypeOK, Closers, CloserPcs
<1>2. /\ closer.pc = "drop" /\ closer' = [closer EXCEPT !.pc = "unlock"]
      /\ UNCHANGED <<algorithm, ready, exit, exec, available, missing, sem, appeared, runner, ends>>
      /\ new' = IF closer.list = "new" THEN Removed(new, k) ELSE new
      /\ blocked' = IF closer.list = "blocked" THEN Removed(blocked, k) ELSE blocked
  BY DEF Drop, Goto
<1>3. closer' \in Closers /\ closer'.pc = "unlock" /\ CloserInv'
  BY <1>1, <1>2 DEF Closers, CloserPcs, CloserInv, Closing
<1>4. CASE closer.list = "new"
  <2>1. k \in DOMAIN new /\ Choice = new[k] /\ BeingDropped = new[k].id
    BY <1>2, <1>4 DEF Base, CloserInv, Choice, BeingDropped
  <2>2. new' = RemoveAt(new, k) /\ UNCHANGED blocked
    BY <1>1, <1>2, <1>4, <2>1, DroppedIsRemoved
  <2>3. Shorter(new, new', new[k]) /\ new[k] \in TrainerRecords
    BY <1>1, <2>1, <2>2, RemoveShorter
  <2> QED BY <1>2, <1>3, <1>4, <2>1, <2>2, <2>3 DEF Dropped
<1>5. CASE closer.list # "new"
  <2>0. closer.list = "blocked"
    BY <1>1, <1>5 DEF Closers
  <2>1. k \in DOMAIN blocked /\ Choice = blocked[k] /\ BeingDropped = blocked[k].id
        /\ blocked[k].state = "AVAILABLE"
    BY <1>2, <1>5 DEF Base, CloserInv, Choice, BeingDropped, Free
  <2>2. blocked' = RemoveAt(blocked, k) /\ UNCHANGED new
    BY <1>1, <1>2, <2>0, <2>1, DroppedIsRemoved
  <2>3. Shorter(blocked, blocked', blocked[k]) /\ blocked[k] \in TrainerRecords
    BY <1>1, <2>1, <2>2, RemoveShorter
  <2> QED BY <1>2, <1>3, <2>0, <2>1, <2>2, <2>3 DEF Dropped
<1> QED BY <1>4, <1>5

-----------------------------------------------------------------------------
(* The steps of startAlgorithmScheduling. *)

RunnerPcs == {"ready", "exec", "schedule", "remove", "run", "place", "release", "post",
              "preempt", "requeue", "giveWay"} \cup AskingPcs
Runners == [pc : RunnerPcs, pos : Nat, clocks : 0 .. Quantum, left : Int, post : Semaphores]
Execs == [on : BOOLEAN, trainer : TrainerRecords]

(* What no step of the scheduler changes. *)
Apart == <<algorithm, new, available, appeared, closer, ends>>

(* A step from one place to another: its token, what it leaves alone. *)
Runs(from, to) ==
  /\ runner.pc = from /\ runner' \in Runners /\ runner'.pc = to
  /\ UNCHANGED Apart /\ sem' \in [Semaphores -> Nat]
OthersSame(S) == \A s \in Semaphores \ S : SameSem(s)
SamePost == runner'.post = runner.post /\ runner'.clocks = runner.clocks

LEMMA RunTypes ==
  ASSUME Sound
  PROVE  /\ runner \in Runners /\ exec \in Execs /\ exec.trainer \in TrainerRecords
         /\ sem \in [Semaphores -> Nat] /\ missing \in [Species -> Nat]
         /\ ready \in Seq(TrainerRecords) /\ blocked \in Seq(TrainerRecords)
         /\ exit \in Seq(TrainerRecords) /\ new \in Seq(TrainerRecords)
BY Lists DEF Sound, TypeOK, Runners, RunnerPcs, ListTypes, Execs

LEMMA RunToIsTyped ==
  ASSUME runner \in Runners, NEW pc \in RunnerPcs, RunTo(pc)
  PROVE  /\ runner' \in Runners /\ runner'.pc = pc /\ SamePost
         /\ runner'.pos = runner.pos
BY DEF Runners, RunTo, SamePost

LEMMA WaitReadyStep ==
  ASSUME Sound, WaitReady
  PROVE  /\ Runs("ready", "exec") /\ SamePost /\ UNCHANGED <<ready, blocked, exit, exec, missing>>
         /\ sem'["readyTrainer"] = sem["readyTrainer"] - 1 /\ OthersSame({"readyTrainer"})
<1>1. runner \in Runners /\ sem \in [Semaphores -> Nat]
  BY RunTypes
<1>2. Wait("readyTrainer") /\ RunTo("exec")
  BY DEF WaitReady
<1>3. /\ sem' \in [Semaphores -> Nat] /\ sem'["readyTrainer"] = sem["readyTrainer"] - 1
      /\ OthersSame({"readyTrainer"})
  BY <1>1, <1>2, Waits DEF OthersSame, SameSem, Semaphores
<1>4. runner' \in Runners /\ runner'.pc = "exec" /\ SamePost
  BY <1>1, <1>2, RunToIsTyped DEF RunnerPcs
<1> QED BY <1>3, <1>4 DEF WaitReady, Runs, Apart, lists

LEMMA WaitExecStep ==
  ASSUME Sound, WaitExec
  PROVE  /\ Runs("exec", "schedule") /\ SamePost /\ UNCHANGED <<ready, blocked, exit, exec, missing>>
         /\ sem'["execTrainer"] = sem["execTrainer"] - 1 /\ OthersSame({"execTrainer"})
<1>1. runner \in Runners /\ sem \in [Semaphores -> Nat]
  BY RunTypes
<1>2. Wait("execTrainer") /\ RunTo("schedule")
  BY DEF WaitExec
<1>3. /\ sem' \in [Semaphores -> Nat] /\ sem'["execTrainer"] = sem["execTrainer"] - 1
      /\ OthersSame({"execTrainer"})
  BY <1>1, <1>2, Waits DEF OthersSame, SameSem, Semaphores
<1>4. runner' \in Runners /\ runner'.pc = "schedule" /\ SamePost
  BY <1>1, <1>2, RunToIsTyped DEF RunnerPcs
<1> QED BY <1>3, <1>4 DEF WaitExec, Runs, Apart, lists

LEMMA AddToExecStep ==
  ASSUME Sound, AddToExec
  PROVE  /\ UNCHANGED <<sem, ready, blocked, exit, missing>>
         /\ \/ /\ Runs("schedule", "ready") /\ SamePost /\ UNCHANGED exec
               /\ ready = <<>> \/ exec.on
            \/ /\ Runs("schedule", "remove") /\ runner'.post = runner.post
               /\ exec' \in Execs /\ exec'.on /\ ~exec.on
               /\ runner'.pos \in DOMAIN ready /\ runner'.clocks = 0
               /\ SameTrainer(exec'.trainer, ready[runner'.pos])
<1>1. runner \in Runners /\ sem \in [Semaphores -> Nat] /\ ready \in Seq(TrainerRecords)
      /\ exec \in Execs
  BY RunTypes
<1>2. UNCHANGED <<sem, ready, blocked, exit, missing>> /\ UNCHANGED Apart /\ runner.pc = "schedule"
  BY DEF AddToExec, Apart, lists
<1>3. CASE ready # <<>> /\ ~exec.on
  <2> DEFINE k == Chosen
             l == Estimate(ready[Chosen])
             b == Begun(ready[Chosen])
  <2>1. /\ exec' = [on |-> TRUE, trainer |-> b]
        /\ runner' = [runner EXCEPT !.pc = "remove", !.pos = k, !.clocks = 0, !.left = l]
    BY <1>3 DEF AddToExec
  <2>2. k \in DOMAIN ready /\ k \in Nat
    BY <1>1, <1>3, BestIsReady
  <2>3. ready[k] \in TrainerRecords
    BY <1>1, <2>2
  <2>4. l \in Int /\ b \in TrainerRecords /\ SameTrainer(b, ready[k])
    BY <2>3, EstimateNat, BegunRecord DEF SameTrainer
  <2>5. Quantum \in Nat
    BY PlannerAssumption
  <2> HIDE DEF k, l, b
  <2>6. runner' \in Runners /\ runner'.pc = "remove" /\ runner'.pos = k /\ runner'.clocks = 0
        /\ runner'.post = runner.post
    <3>1. 0 \in 0 .. Quantum /\ "remove" \in RunnerPcs
      BY <2>5 DEF RunnerPcs
    <3>2. runner' = [pc |-> "remove", pos |-> k, clocks |-> 0, left |-> l, post |-> runner.post]
      BY <1>1, <2>1 DEF Runners
    <3>3. runner.post \in Semaphores
      BY <1>1 DEF Runners
    <3> QED BY <2>2, <2>4, <3>1, <3>2, <3>3 DEF Runners
  <2>7. exec' \in Execs /\ exec'.on /\ exec'.trainer = b
    BY <2>1, <2>4 DEF Execs
  <2> QED BY <1>1, <1>2, <1>3, <2>2, <2>4, <2>6, <2>7 DEF Runs
<1>4. CASE ~(ready # <<>> /\ ~exec.on)
  <2>1. RunTo("ready") /\ UNCHANGED exec
    BY <1>4 DEF AddToExec
  <2>2. runner' \in Runners /\ runner'.pc = "ready" /\ SamePost
    BY <1>1, <2>1, RunToIsTyped DEF RunnerPcs
  <2> QED BY <1>1, <1>2, <1>4, <2>1, <2>2 DEF Runs
<1> QED BY <1>3, <1>4

LEMMA RemoveFromReadyStep ==
  ASSUME Sound, RemoveFromReady
  PROVE  /\ Runs("remove", "run") /\ SamePost /\ UNCHANGED <<sem, blocked, exit, exec, missing>>
         /\ runner.pos \in DOMAIN ready /\ ready[runner.pos].id = exec.trainer.id
         /\ ready' = RemoveAt(ready, runner.pos)
         /\ Shorter(ready, ready', ready[runner.pos])
<1>1. runner \in Runners /\ sem \in [Semaphores -> Nat] /\ ready \in Seq(TrainerRecords)
  BY RunTypes
<1>2. runner.pc = "remove" /\ RunTo("run") /\ ready' = RemoveAt(ready, runner.pos)
  BY DEF RemoveFromReady
<1>3. runner.pos \in DOMAIN ready /\ ready[runner.pos].id = exec.trainer.id
  BY <1>2 DEF Sound, RunnerInv
<1>4. Shorter(ready, ready', ready[runner.pos])
  BY <1>1, <1>2, <1>3, RemoveShorter
<1>5. runner' \in Runners /\ runner'.pc = "run" /\ SamePost
  BY <1>1, <1>2, RunToIsTyped DEF RunnerPcs
<1> QED BY <1>1, <1>2, <1>3, <1>4, <1>5 DEF RemoveFromReady, Runs, Apart

LEMMA MoveStep ==
  ASSUME Sound, Move
  PROVE  /\ UNCHANGED <<sem, ready, blocked, exit, missing>>
         /\ exec' \in Execs /\ exec'.on = exec.on /\ SameTrainer(exec'.trainer, exec.trainer)
         /\ Runs("run", "run") \/ Runs("run", "preempt")
         /\ runner'.post = runner.post
         /\ runner'.pc = "run" /\ algorithm = "RR" => runner'.clocks < Quantum
<1>1. runner \in Runners /\ sem \in [Semaphores -> Nat] /\ exec \in Execs
      /\ exec.trainer \in TrainerRecords
  BY RunTypes
<1>2. UNCHANGED <<sem, ready, blocked, exit, missing>> /\ UNCHANGED Apart /\ runner.pc = "run"
      /\ Advance(exec.trainer.target.pos)
  BY DEF Move, Hunting, Running, Apart, lists
<1>3. Scale \in Int /\ Quantum \in Nat
  BY PlannerAssumption
<1>4. exec.trainer.target.pos \in Int \X Int
  BY <1>1, RecordParts, PokemonPlaces
<1> DEFINE p == exec.trainer.target.pos
           b == IF Sjf THEN exec.trainer.burst + 1 ELSE exec.trainer.burst
           u == [Moved(exec.trainer, p) EXCEPT !.burst = b]
<1>5. Moved(exec.trainer, p).burst = exec.trainer.burst
  BY <1>1 DEF Moved, TrainerRecords
<1>6. exec' = [exec EXCEPT !.trainer = u]
  <2>1. exec' = [exec EXCEPT !.trainer = Stepped(exec.trainer, p)]
    BY <1>2 DEF Advance
  <2>2. Stepped(exec.trainer, p) = u
    BY <1>5 DEF Stepped
  <2> QED BY <2>1, <2>2
<1>7. b \in Nat \cup {-1}
  BY <1>1, RecordParts
<1>8. u \in TrainerRecords /\ SameTrainer(u, exec.trainer)
  <2>1. u = [Moved(exec.trainer, p) EXCEPT !.burst = b]
    OBVIOUS
  <2> HIDE DEF b, p, u
  <2>2. p \in Int \X Int
    BY <1>4 DEF p
  <2> QED BY <1>1, <1>7, <2>1, <2>2, MovedRecord
<1>9. exec' \in Execs /\ exec'.on = exec.on /\ exec'.trainer = u
  <2> HIDE DEF u
  <2> QED BY <1>1, <1>6, <1>8 DEF Execs
<1>10. /\ runner' \in Runners /\ runner'.pc \in {"run", "preempt"} /\ runner'.post = runner.post
       /\ runner'.pc = "run" /\ algorithm = "RR" => runner'.clocks < Quantum
  <2>1. CASE algorithm = "RR"
    <3> DEFINE c == runner.clocks + 1
    <3>1. runner' = [runner EXCEPT !.clocks = c, !.pc = IF c = Quantum THEN "preempt" ELSE @]
      BY <1>2, <2>1 DEF Advance
    <3>2. c \in 0 .. Quantum
      <4>1. runner.clocks \in 0 .. Quantum /\ runner.clocks < Quantum
        BY <1>1, <1>2, <2>1 DEF Runners, Sound, RunnerInv
      <4> QED BY <1>3, <4>1
    <3> HIDE DEF c
    <3>3. CASE c = Quantum
      BY <1>1, <3>1, <3>2, <3>3 DEF Runners, RunnerPcs
    <3>4. CASE c # Quantum
      <4>1. c < Quantum
        BY <1>3, <3>2, <3>4
      <4>2. runner' = [pc |-> "run", pos |-> runner.pos, clocks |-> c, left |-> runner.left,
                       post |-> runner.post]
        BY <1>1, <1>2, <3>1, <3>4 DEF Runners
      <4>3. runner.pos \in Nat /\ runner.left \in Int /\ runner.post \in Semaphores
        BY <1>1 DEF Runners
      <4> QED BY <3>2, <4>1, <4>2, <4>3 DEF Runners, RunnerPcs
    <3> QED BY <3>3, <3>4
  <2>2. CASE algorithm = "SJF-CD"
    <3> DEFINE l == runner.left - Scale
    <3>1. runner' = [runner EXCEPT !.left = l]
      BY <1>2, <2>2 DEF Advance
    <3>2. l \in Int
      BY <1>1, <1>3 DEF Runners
    <3> HIDE DEF l
    <3> QED BY <1>1, <1>2, <2>2, <3>1, <3>2 DEF Runners, RunnerPcs
  <2>3. CASE algorithm \notin {"RR", "SJF-CD"}
    BY <1>1, <1>2, <2>3 DEF Advance, Runners
  <2> QED BY <2>1, <2>2, <2>3
<1> QED BY <1>1, <1>2, <1>8, <1>9, <1>10 DEF Runs

LEMMA CatchStep ==
  ASSUME Sound, Catch
  PROVE  /\ Runs("run", "place") /\ SamePost /\ UNCHANGED <<sem, ready, blocked, exit>>
         /\ exec' \in Execs /\ exec'.on = exec.on /\ exec'.trainer = Caught(exec.trainer)
         /\ exec'.trainer.id = exec.trainer.id
         /\ missing' \in [Species -> Nat]
         /\ missing' = [missing EXCEPT ![exec.trainer.target.name] = IF @ > 0 THEN @ - 1 ELSE 0]
<1>1. runner \in Runners /\ sem \in [Semaphores -> Nat] /\ exec \in Execs
      /\ exec.trainer \in TrainerRecords /\ missing \in [Species -> Nat]
  BY RunTypes
<1>2. UNCHANGED <<sem, ready, blocked, exit>> /\ UNCHANGED Apart /\ runner.pc = "run"
      /\ RunTo("place")
      /\ exec' = [exec EXCEPT !.trainer = Caught(exec.trainer)]
      /\ missing' = [missing EXCEPT ![exec.trainer.target.name] = IF @ > 0 THEN @ - 1 ELSE 0]
  BY DEF Catch, Hunting, Running, Apart, lists
<1>3. Caught(exec.trainer) \in TrainerRecords /\ Caught(exec.trainer).id = exec.trainer.id
  BY <1>1, CaughtRecord
<1>4. exec' \in Execs /\ exec'.on = exec.on /\ exec'.trainer = Caught(exec.trainer)
  <2> DEFINE u == Caught(exec.trainer)
  <2> HIDE DEF u
  <2> QED BY <1>1, <1>2, <1>3 DEF Execs, u
<1>5. missing' \in [Species -> Nat]
  <2> DEFINE n == exec.trainer.target.name
             k == IF missing[n] > 0 THEN missing[n] - 1 ELSE 0
  <2>1. missing' = [missing EXCEPT ![n] = k]
    BY <1>2
  <2>2. n \in Species => k \in Nat
    BY <1>1
  <2> HIDE DEF n, k
  <2> QED BY <1>1, <2>1, <2>2
<1>6. runner' \in Runners /\ runner'.pc = "place" /\ SamePost
  BY <1>1, <1>2, RunToIsTyped DEF RunnerPcs
<1> QED BY <1>1, <1>2, <1>3, <1>4, <1>5, <1>6 DEF Runs

(* Where a trainer goes after it has caught. *)
Ended ==
  /\ ~HasRoom(exec.trainer) /\ ~HoldsOthers(exec.trainer)
  /\ runner'.post = "deadlockCount"
  /\ exit' = Append(exit, exec.trainer) /\ Longer(exit, exit', exec.trainer)
  /\ sem'["exitCount"] = sem["exitCount"] + 1 /\ OthersSame({"exitCount"})
  /\ UNCHANGED <<blocked, exec>>
Stays ==
  /\ HasRoom(exec.trainer) \/ HoldsOthers(exec.trainer)
  /\ runner'.post = IF HasRoom(exec.trainer) THEN "availableTrainersCount" ELSE "deadlockCount"
  /\ exec' \in Execs /\ exec'.on = exec.on
  /\ exec'.trainer.id = exec.trainer.id /\ exec'.trainer.held = exec.trainer.held
  /\ exec'.trainer.state = IF HasRoom(exec.trainer) THEN "AVAILABLE" ELSE "DEADLOCK"
  /\ blocked' = Append(blocked, exec'.trainer) /\ Longer(blocked, blocked', exec'.trainer)
  /\ UNCHANGED <<exit, sem>>

LEMMA PlaceStep ==
  ASSUME Sound, Place
  PROVE  /\ Runs("place", "release") /\ UNCHANGED <<ready, missing>>
         /\ Ended \/ Stays
<1> DEFINE t == exec.trainer
           s == IF HasRoom(t) THEN "AVAILABLE" ELSE "DEADLOCK"
           w == [t EXCEPT !.state = s]
           post == IF HasRoom(t) THEN "availableTrainersCount" ELSE "deadlockCount"
<1>1. runner \in Runners /\ sem \in [Semaphores -> Nat] /\ exec \in Execs
      /\ t \in TrainerRecords /\ exit \in Seq(TrainerRecords) /\ blocked \in Seq(TrainerRecords)
  BY RunTypes
<1>2. UNCHANGED <<ready, missing>> /\ UNCHANGED Apart /\ runner.pc = "place"
      /\ runner' = [runner EXCEPT !.pc = "release", !.post = post]
  BY DEF Place, Apart
<1>3. \/ /\ ~HasRoom(t) /\ ~HoldsOthers(t)
         /\ exit' = Append(exit, t) /\ Post("exitCount") /\ UNCHANGED <<blocked, exec>>
      \/ /\ HasRoom(t) \/ HoldsOthers(t)
         /\ exec' = [exec EXCEPT !.trainer = w]
         /\ blocked' = Append(blocked, w) /\ UNCHANGED <<exit, sem>>
  BY DEF Place
<1>4. w \in TrainerRecords /\ w.id = t.id /\ w.held = t.held /\ w.state = s
  <2>1. s \in {"AVAILABLE", "DEADLOCK", "WAITING"}
    OBVIOUS
  <2> HIDE DEF s, t
  <2> QED BY <1>1, <2>1, StateRecord DEF t
<1>5. runner' \in Runners /\ runner'.pc = "release" /\ runner'.post = post
  <2>1. post \in Semaphores
    BY DEF Semaphores
  <2> HIDE DEF post
  <2> QED BY <1>1, <1>2, <2>1 DEF Runners, RunnerPcs
<1>6. CASE /\ ~HasRoom(t) /\ ~HoldsOthers(t)
           /\ exit' = Append(exit, t) /\ Post("exitCount") /\ UNCHANGED <<blocked, exec>>
  <2>1. Longer(exit, exit', t)
    BY <1>1, <1>6, AppendLonger
  <2>2. sem' \in [Semaphores -> Nat] /\ sem'["exitCount"] = sem["exitCount"] + 1
        /\ OthersSame({"exitCount"})
    BY <1>1, <1>6, Posts DEF OthersSame, SameSem, Semaphores
  <2>3. post = "deadlockCount"
    BY <1>6
  <2> HIDE DEF post
  <2> QED BY <1>2, <1>5, <1>6, <2>1, <2>2, <2>3 DEF Runs, Ended
<1>7. CASE /\ HasRoom(t) \/ HoldsOthers(t)
           /\ exec' = [exec EXCEPT !.trainer = w]
           /\ blocked' = Append(blocked, w) /\ UNCHANGED <<exit, sem>>
  <2> HIDE DEF w
  <2>1. Longer(blocked, blocked', w)
    BY <1>1, <1>4, <1>7, AppendLonger
  <2>2. exec' \in Execs /\ exec'.on = exec.on /\ exec'.trainer = w
    BY <1>1, <1>4, <1>7 DEF Execs
  <2> QED BY <1>1, <1>2, <1>4, <1>5, <1>7, <2>1, <2>2 DEF Runs, Stays
<1> QED BY <1>3, <1>6, <1>7

LEMMA RemoveFromExecStep ==
  ASSUME Sound, NEW from \in RunnerPcs, NEW to \in RunnerPcs, RemoveFromExec(from, to)
  PROVE  /\ Runs(from, to) /\ SamePost /\ UNCHANGED <<ready, blocked, exit, missing>>
         /\ exec' \in Execs /\ ~exec'.on /\ exec'.trainer = exec.trainer
         /\ sem'["execTrainer"] = sem["execTrainer"] + 1 /\ OthersSame({"execTrainer"})
<1>1. runner \in Runners /\ sem \in [Semaphores -> Nat] /\ exec \in Execs
  BY RunTypes
<1>2. runner.pc = from /\ exec' = [exec EXCEPT !.on = FALSE] /\ Post("execTrainer") /\ RunTo(to)
      /\ UNCHANGED <<ready, blocked, exit, missing>> /\ UNCHANGED Apart
  BY DEF RemoveFromExec, Apart, lists
<1>3. exec' \in Execs /\ ~exec'.on /\ exec'.trainer = exec.trainer
  BY <1>1, <1>2 DEF Execs
<1>4. sem' \in [Semaphores -> Nat] /\ sem'["execTrainer"] = sem["execTrainer"] + 1
        /\ OthersSame({"execTrainer"})
  BY <1>1, <1>2, Posts DEF OthersSame, SameSem, Semaphores
<1>5. runner' \in Runners /\ runner'.pc = to /\ SamePost
  BY <1>1, <1>2, RunToIsTyped
<1> QED BY <1>2, <1>3, <1>4, <1>5 DEF Runs

LEMMA Idle ==
  /\ IdleRunner \in Runners /\ IdleRunner.pc = "ready" /\ IdleRunner.post = "deadlockCount"
BY PlannerAssumption DEF IdleRunner, Runners, RunnerPcs, Semaphores

LEMMA PostPlacedStep ==
  ASSUME Sound, PostPlaced
  PROVE  /\ Runs("post", "ready") /\ UNCHANGED <<ready, blocked, exit, exec, missing>>
         /\ runner'.post = "deadlockCount"
         /\ sem'[runner.post] = sem[runner.post] + 1 /\ OthersSame({runner.post})
         /\ runner.post \in {"availableTrainersCount", "deadlockCount"}
<1>1. runner \in Runners /\ sem \in [Semaphores -> Nat] /\ runner.post \in Semaphores
  BY RunTypes DEF Runners
<1>2. runner.pc = "post" /\ Post(runner.post) /\ runner' = IdleRunner
  BY DEF PostPlaced
<1>3. runner.post \in {"availableTrainersCount", "deadlockCount"}
  BY DEF Sound, RunnerInv
<1>4. /\ sem' \in [Semaphores -> Nat] /\ sem'[runner.post] = sem[runner.post] + 1
      /\ OthersSame({runner.post})
  BY <1>1, <1>2, Posts DEF OthersSame, SameSem
<1> QED BY <1>2, <1>3, <1>4, Idle DEF PostPlaced, Runs, Apart, lists

LEMMA RequeueStep ==
  ASSUME Sound, Requeue
  PROVE  /\ Runs("requeue", "ready") /\ UNCHANGED <<blocked, exit, exec, missing>>
         /\ runner'.post = "deadlockCount"
         /\ Longer(ready, ready', exec.trainer)
         /\ sem'["readyTrainer"] = sem["readyTrainer"] + 1 /\ OthersSame({"readyTrainer"})
<1>1. sem \in [Semaphores -> Nat] /\ ready \in Seq(TrainerRecords) /\ exec.trainer \in TrainerRecords
  BY RunTypes
<1>2. runner.pc = "requeue" /\ Post("readyTrainer") /\ runner' = IdleRunner
      /\ ready' = Append(ready, exec.trainer)
  BY DEF Requeue
<1>3. Longer(ready, ready', exec.trainer)
  BY <1>1, <1>2, AppendLonger
<1>4. /\ sem' \in [Semaphores -> Nat] /\ sem'["readyTrainer"] = sem["readyTrainer"] + 1
      /\ OthersSame({"readyTrainer"})
  BY <1>1, <1>2, Posts DEF OthersSame, SameSem, Semaphores
<1> QED BY <1>2, <1>3, <1>4, Idle DEF Requeue, Runs, Apart, lists

LEMMA GiveWayStep ==
  ASSUME Sound, GiveWay
  PROVE  /\ Runs("run", "giveWay") /\ SamePost /\ UNCHANGED <<blocked, exit, exec, missing>>
         /\ Longer(ready, ready', exec.trainer)
         /\ sem'["readyTrainer"] = sem["readyTrainer"] + 1 /\ OthersSame({"readyTrainer"})
<1>1. sem \in [Semaphores -> Nat] /\ ready \in Seq(TrainerRecords) /\ exec.trainer \in TrainerRecords
      /\ runner \in Runners
  BY RunTypes
<1>2. runner.pc = "run" /\ Post("readyTrainer") /\ RunTo("giveWay")
      /\ ready' = Append(ready, exec.trainer)
  BY DEF GiveWay
<1>3. Longer(ready, ready', exec.trainer)
  BY <1>1, <1>2, AppendLonger
<1>4. /\ sem' \in [Semaphores -> Nat] /\ sem'["readyTrainer"] = sem["readyTrainer"] + 1
      /\ OthersSame({"readyTrainer"})
  BY <1>1, <1>2, Posts DEF OthersSame, SameSem, Semaphores
<1>5. runner' \in Runners /\ runner'.pc = "giveWay" /\ SamePost
  BY <1>1, <1>2, RunToIsTyped DEF RunnerPcs
<1> QED BY <1>2, <1>3, <1>4, <1>5 DEF GiveWay, Runs, Apart, lists

(* The pokemons that appear, and the threads that wait for everybody. *)
LEMMA AppearingStep ==
  ASSUME Base, NEW p \in Arrivals, Appearing(p)
  PROVE  /\ UNCHANGED <<algorithm, lists, exec, missing, closer, runner, ends>>
         /\ available' \in Seq(Arrivals) /\ appeared' \in [Arrivals -> {"none", "add", "done"}]
         /\ sem' \in [Semaphores -> Nat] /\ OthersSame({"availablePokemonsCount"})
         /\ CloserInv'
<1>1. /\ sem \in [Semaphores -> Nat] /\ available \in Seq(Arrivals)
      /\ appeared \in [Arrivals -> {"none", "add", "done"}]
  BY DEF Base, Sound, TypeOK
<1>2. CASE Appear(p)
  <2>1. PICK found \in Found(p.name) :
          appeared' = [appeared EXCEPT ![p] = IF found THEN "add" ELSE "done"]
    BY <1>2 DEF Appear
  <2>2. UNCHANGED <<algorithm, lists, exec, available, missing, sem, closer, runner, ends>>
    BY <1>2 DEF Appear
  <2> DEFINE a == IF found THEN "add" ELSE "done"
  <2>3. a \in {"none", "add", "done"} /\ appeared' = [appeared EXCEPT ![p] = a]
    BY <2>1
  <2> HIDE DEF a
  <2>4. appeared' \in [Arrivals -> {"none", "add", "done"}]
    BY <1>1, <2>3
  <2>5. OthersSame({"availablePokemonsCount"})
    BY <2>2 DEF OthersSame, SameSem
  <2>6. CloserInv'
    BY <2>2 DEF Base, CloserInv, Closing, SomebodyFree, lists
  <2> QED BY <1>1, <2>2, <2>4, <2>5, <2>6
<1>3. CASE AddAvailable(p)
  <2>1. /\ UNCHANGED <<algorithm, lists, exec, missing, closer, runner, ends>>
        /\ available' = Append(available, p) /\ Post("availablePokemonsCount")
        /\ appeared' = [appeared EXCEPT ![p] = "done"]
    BY <1>3 DEF AddAvailable
  <2>2. available' \in Seq(Arrivals) /\ DOMAIN available \subseteq DOMAIN available'
    BY <1>1, <2>1
  <2>3. sem' \in [Semaphores -> Nat] /\ OthersSame({"availablePokemonsCount"})
    BY <1>1, <2>1, Posts DEF OthersSame, SameSem, Semaphores
  <2>4. CloserInv'
    BY <2>1, <2>2 DEF Base, CloserInv, Closing, SomebodyFree, lists
  <2>5. appeared' \in [Arrivals -> {"none", "add", "done"}]
    BY <1>1, <2>1
  <2> QED BY <2>1, <2>2, <2>3, <2>4, <2>5
<1> QED BY <1>2, <1>3 DEF Appearing

Others == <<algorithm, lists, exec, available, missing, appeared, closer, runner>>

LEMMA TakeAllStep ==
  ASSUME Sound, NEW s \in Semaphores, TakeAll(s)
  PROVE  /\ UNCHANGED Others /\ sem' \in [Semaphores -> Nat] /\ sem[s] > trainersCount
         /\ sem'[s] = sem[s] - (trainersCount + 1) /\ OthersSame({s})
<1>1. sem \in [Semaphores -> Nat] /\ trainersCount \in Nat
  BY Teams DEF Sound, TypeOK
<1> DEFINE k == sem[s] - (trainersCount + 1)
<1>2. sem' = [sem EXCEPT ![s] = k] /\ sem[s] > trainersCount /\ UNCHANGED Others
  BY DEF TakeAll, Others
<1>3. k \in Nat
  BY <1>1, <1>2
<1> HIDE DEF k
<1>4. sem' \in [Semaphores -> Nat] /\ sem'[s] = k /\ OthersSame({s})
  BY <1>1, <1>2, <1>3 DEF OthersSame, SameSem
<1> QED BY <1>2, <1>4 DEF k

(* What each step of a thread changes, for the theorems to be proved step  *)
(* by step.                                                                *)
LEMMA TypesAgain ==
  ASSUME TypeOK, algorithm' = algorithm,
         new' \in Seq(TrainerRecords), ready' \in Seq(TrainerRecords),
         blocked' \in Seq(TrainerRecords), exit' \in Seq(TrainerRecords),
         exec' \in Execs, available' \in Seq(Arrivals), missing' \in [Species -> Nat],
         sem' \in [Semaphores -> Nat], appeared' \in [Arrivals -> {"none", "add", "done"}],
         closer' \in Closers, runner' \in Runners,
         flagDeadLock' \in BOOLEAN, running' \in BOOLEAN
  PROVE  TypeOK'
BY DEF TypeOK, Execs, Closers, CloserPcs, Runners, RunnerPcs

LEMMA AllTypes ==
  ASSUME TypeOK
  PROVE  /\ new \in Seq(TrainerRecords) /\ ready \in Seq(TrainerRecords)
         /\ blocked \in Seq(TrainerRecords) /\ exit \in Seq(TrainerRecords)
         /\ exec \in Execs /\ available \in Seq(Arrivals) /\ missing \in [Species -> Nat]
         /\ sem \in [Semaphores -> Nat] /\ appeared \in [Arrivals -> {"none", "add", "done"}]
         /\ closer \in Closers /\ runner \in Runners
         /\ flagDeadLock \in BOOLEAN /\ running \in BOOLEAN
BY DEF TypeOK, Execs, Closers, CloserPcs, Runners, RunnerPcs

(* A list that grows keeps the place that is chosen in it. *)
LEMMA CloserWhileRun ==
  ASSUME Base, UNCHANGED Apart,
         UNCHANGED blocked \/ \E e : Longer(blocked, blocked', e)
  PROVE  CloserInv'
<1>1. blocked \in Seq(TrainerRecords) /\ UNCHANGED <<new, available, closer>>
  BY AllTypes DEF Base, Sound, Apart
<1>2. Free(blocked) \subseteq Free(blocked')
  <2>1. CASE UNCHANGED blocked
    BY <2>1
  <2>2. ASSUME NEW e, Longer(blocked, blocked', e) PROVE Free(blocked) \subseteq Free(blocked')
    BY <2>2 DEF Longer, Free
  <2> QED BY <2>1, <2>2
<1> QED BY <1>1, <1>2 DEF Base, CloserInv, Closing, SomebodyFree

Grown == UNCHANGED Apart /\ (UNCHANGED blocked \/ \E e : Longer(blocked, blocked', e))

LEMMA RunKeepsSound ==
  ASSUME Sound, Runner
  PROVE  Sound' /\ Grown
<1> USE DEF Sound, Grown
<1> DEFINE Lists3 == /\ ready' \in Seq(TrainerRecords) /\ blocked' \in Seq(TrainerRecords)
                     /\ exit' \in Seq(TrainerRecords) /\ exec' \in Execs
                     /\ missing' \in [Species -> Nat]
           More == UNCHANGED blocked \/ \E e : Longer(blocked, blocked', e)
<1>0. /\ new \in Seq(TrainerRecords) /\ ready \in Seq(TrainerRecords)
      /\ blocked \in Seq(TrainerRecords) /\ exit \in Seq(TrainerRecords)
      /\ exec \in Execs /\ available \in Seq(Arrivals) /\ missing \in [Species -> Nat]
      /\ appeared \in [Arrivals -> {"none", "add", "done"}] /\ closer \in Closers
      /\ flagDeadLock \in BOOLEAN /\ running \in BOOLEAN /\ Quantum \in Nat \ {0}
      /\ TypeOK /\ RunnerInv /\ runner \in Runners
  BY AllTypes, PlannerAssumption DEF Sound
<1>1. ASSUME NEW from, NEW to, Runs(from, to), Lists3, More, RunnerInv'
      PROVE  Sound' /\ Grown
  <2>1. /\ UNCHANGED Apart /\ sem' \in [Semaphores -> Nat] /\ runner' \in Runners
    BY <1>1 DEF Runs
  <2>2. TypeOK'
    BY <1>0, <1>1, <2>1, TypesAgain DEF Apart, ends
  <2> QED BY <1>1, <2>1, <2>2
<1> USE DEF Executing, AskingPcs
<1>2. CASE WaitReady
  BY <1>0, <1>1, <1>2, WaitReadyStep DEF RunnerInv, Runs, SamePost, Apart
<1>3. CASE WaitExec
  BY <1>0, <1>1, <1>3, WaitExecStep DEF RunnerInv, Runs, SamePost, Apart
<1>4. CASE AddToExec
  <2>1. CASE Runs("schedule", "ready") /\ SamePost /\ UNCHANGED exec /\ UNCHANGED <<sem, ready, blocked, exit, missing>>
    BY <1>0, <1>1, <2>1 DEF RunnerInv, Runs, SamePost, Apart
  <2>2. CASE /\ Runs("schedule", "remove") /\ runner'.post = runner.post
             /\ exec' \in Execs /\ exec'.on /\ UNCHANGED <<sem, ready, blocked, exit, missing>>
             /\ runner'.pos \in DOMAIN ready /\ runner'.clocks = 0
             /\ SameTrainer(exec'.trainer, ready[runner'.pos])
    <3>1. RunnerInv'
      BY <1>0, <2>2 DEF RunnerInv, Runs, Apart, SameTrainer
    <3> QED BY <1>0, <1>1, <2>2, <3>1
  <2> QED BY <1>4, <2>1, <2>2, AddToExecStep
<1>5. CASE RemoveFromReady
  <2>1. Runs("remove", "run") /\ SamePost /\ UNCHANGED <<sem, blocked, exit, exec, missing>>
        /\ ready' \in Seq(TrainerRecords)
    BY <1>5, RemoveFromReadyStep DEF Shorter
  <2>2. RunnerInv'
    BY <1>0, <2>1 DEF RunnerInv, Runs, SamePost, Apart
  <2> QED BY <1>0, <1>1, <2>1, <2>2
<1>6. CASE Move
  <2>1. /\ UNCHANGED <<sem, ready, blocked, exit, missing>>
        /\ exec' \in Execs /\ exec'.on = exec.on
        /\ Runs("run", "run") \/ Runs("run", "preempt")
        /\ runner'.post = runner.post
        /\ runner'.pc = "run" /\ algorithm = "RR" => runner'.clocks < Quantum
    BY <1>6, MoveStep
  <2>2. RunnerInv'
    BY <1>0, <2>1 DEF RunnerInv, Runs, Apart
  <2> QED BY <1>0, <1>1, <2>1, <2>2
<1>7. CASE Catch
  <2>1. /\ Runs("run", "place") /\ SamePost /\ UNCHANGED <<sem, ready, blocked, exit>>
        /\ exec' \in Execs /\ exec'.on = exec.on /\ missing' \in [Species -> Nat]
    BY <1>7, CatchStep
  <2>2. RunnerInv'
    BY <1>0, <2>1 DEF RunnerInv, Runs, SamePost, Apart
  <2> QED BY <1>0, <1>1, <2>1, <2>2
<1>8. CASE Place
  <2>1. Runs("place", "release") /\ UNCHANGED <<ready, missing>>
    BY <1>8, PlaceStep
  <2>2. /\ blocked' \in Seq(TrainerRecords) /\ exit' \in Seq(TrainerRecords)
        /\ exec' \in Execs /\ exec'.on = exec.on /\ More
        /\ runner'.post \in {"availableTrainersCount", "deadlockCount"}
    <3>1. CASE Ended
      BY <1>0, <3>1 DEF Ended, Longer
    <3>2. CASE Stays
      <4>1. Longer(blocked, blocked', exec'.trainer) /\ UNCHANGED exit
            /\ exec' \in Execs /\ exec'.on = exec.on
            /\ runner'.post \in {"availableTrainersCount", "deadlockCount"}
        BY <3>2 DEF Stays
      <4>2. More
        BY <4>1
      <4>3. blocked' \in Seq(TrainerRecords)
        BY <4>1 DEF Longer
      <4> QED BY <1>0, <4>1, <4>2, <4>3
    <3> QED BY <1>8, <3>1, <3>2, PlaceStep
  <2>3. RunnerInv'
    BY <1>0, <2>1, <2>2 DEF RunnerInv, Runs, Apart
  <2> QED BY <1>0, <1>1, <2>1, <2>2, <2>3
<1>9. ASSUME NEW from \in {"release", "preempt", "giveWay"}, NEW to \in {"post", "requeue", "ready"},
             RemoveFromExec(from, to)
      PROVE  Sound' /\ Grown
  <2>1. /\ Runs(from, to) /\ SamePost /\ UNCHANGED <<ready, blocked, exit, missing>>
        /\ exec' \in Execs /\ ~exec'.on
    BY <1>9, RemoveFromExecStep DEF RunnerPcs
  <2>2. RunnerInv'
    BY <1>0, <2>1 DEF RunnerInv, Runs, SamePost, Apart
  <2> QED BY <1>0, <1>1, <2>1, <2>2
<1>10. CASE PostPlaced
  BY <1>0, <1>1, <1>10, PostPlacedStep DEF RunnerInv, Runs, Apart
<1>11. CASE Requeue
  <2>1. Runs("requeue", "ready") /\ UNCHANGED <<blocked, exit, exec, missing>>
         /\ runner'.post = "deadlockCount" /\ ready' \in Seq(TrainerRecords)
    BY <1>11, RequeueStep DEF Longer
  <2> QED BY <1>0, <1>1, <2>1 DEF RunnerInv, Runs, Apart
<1>12. CASE GiveWay
  <2>1. Runs("run", "giveWay") /\ SamePost /\ UNCHANGED <<blocked, exit, exec, missing>>
        /\ ready' \in Seq(TrainerRecords)
    BY <1>12, GiveWayStep DEF Longer
  <2> QED BY <1>0, <1>1, <2>1 DEF RunnerInv, Runs, SamePost, Apart
<1> QED BY <1>2, <1>3, <1>4, <1>5, <1>6, <1>7, <1>8, <1>9, <1>10, <1>11, <1>12
        DEF Runner, Schedule, Release, Preempt, GaveWay

LEMMA RunKeepsBase ==
  ASSUME Base, Runner
  PROVE  Base'
<1>1. Sound' /\ Grown
  BY RunKeepsSound DEF Base
<1> QED BY <1>1, CloserWhileRun DEF Base, Grown

LEMMA CloserKeepsBase ==
  ASSUME Base, Closer
  PROVE  Base'
<1>0. /\ new \in Seq(TrainerRecords) /\ ready \in Seq(TrainerRecords)
      /\ blocked \in Seq(TrainerRecords) /\ exit \in Seq(TrainerRecords)
      /\ exec \in Execs /\ available \in Seq(Arrivals) /\ missing \in [Species -> Nat]
      /\ appeared \in [Arrivals -> {"none", "add", "done"}] /\ closer \in Closers
      /\ flagDeadLock \in BOOLEAN /\ running \in BOOLEAN
      /\ TypeOK /\ RunnerInv /\ runner \in Runners /\ sem \in [Semaphores -> Nat]
  BY AllTypes DEF Base, Sound
<1>1. CASE Quiet
  <2>1. /\ UNCHANGED NoLists /\ UNCHANGED available /\ closer' \in Closers
        /\ sem' \in [Semaphores -> Nat] /\ CloserInv'
    BY <1>1, QuietSteps DEF Leaves
  <2>2. TypeOK'
    BY <1>0, <2>1, TypesAgain DEF NoLists, lists, ends
  <2>3. RunnerInv'
    BY <1>0, <2>1 DEF RunnerInv, NoLists, lists
  <2> QED BY <2>1, <2>2, <2>3 DEF Base, Sound
<1>2. ASSUME NEW p \in Arrivals, Planning(p) PROVE Base'
  <2>1. /\ closer' \in Closers /\ UNCHANGED <<algorithm, new, blocked, exit, exec, missing, appeared, runner, ends>>
        /\ available' \in Seq(Arrivals) /\ sem' \in [Semaphores -> Nat] /\ CloserInv'
        /\ ready' \in Seq(TrainerRecords)
        /\ \A i \in DOMAIN ready : i \in DOMAIN ready' /\ ready'[i] = ready[i]
    BY <1>2 DEF Planning, Longer
  <2>2. TypeOK'
    BY <1>0, <2>1, TypesAgain DEF ends
  <2>3. RunnerInv'
    BY <1>0, <2>1 DEF RunnerInv
  <2> QED BY <2>1, <2>2, <2>3 DEF Base, Sound
<1>3. CASE Drop
  <2>1. /\ closer' \in Closers /\ CloserInv'
        /\ UNCHANGED <<algorithm, ready, exit, exec, available, missing, sem, appeared, runner, ends>>
        /\ new' \in Seq(TrainerRecords) /\ blocked' \in Seq(TrainerRecords)
    BY <1>0, <1>3, DropStep DEF Dropped, Shorter
  <2>2. TypeOK'
    BY <1>0, <2>1, TypesAgain DEF ends
  <2>3. RunnerInv'
    BY <1>0, <2>1 DEF RunnerInv
  <2> QED BY <2>1, <2>2, <2>3 DEF Base, Sound
<1> QED BY <1>1, <1>2, <1>3, PlanStep DEF Closer, Quiet

Outside == (\E p \in Arrivals : Appearing(p)) \/ StartSearch \/ Finish

LEMMA OutsideKeepsBase ==
  ASSUME Base, Outside
  PROVE  Base'
<1> USE DEF Base
<1>0. /\ new \in Seq(TrainerRecords) /\ ready \in Seq(TrainerRecords)
      /\ blocked \in Seq(TrainerRecords) /\ exit \in Seq(TrainerRecords)
      /\ exec \in Execs /\ available \in Seq(Arrivals) /\ missing \in [Species -> Nat]
      /\ appeared \in [Arrivals -> {"none", "add", "done"}] /\ closer \in Closers
      /\ flagDeadLock \in BOOLEAN /\ running \in BOOLEAN
      /\ TypeOK /\ RunnerInv /\ CloserInv /\ runner \in Runners /\ sem \in [Semaphores -> Nat]
  BY AllTypes DEF Base, Sound
<1>1. ASSUME NEW p \in Arrivals, Appearing(p) PROVE Base'
  <2>1. /\ UNCHANGED <<algorithm, lists, exec, missing, closer, runner, ends>>
         /\ available' \in Seq(Arrivals) /\ appeared' \in [Arrivals -> {"none", "add", "done"}]
         /\ sem' \in [Semaphores -> Nat] /\ CloserInv'
    BY <1>1, AppearingStep
  <2>2. TypeOK'
    BY <1>0, <2>1, TypesAgain DEF lists, ends
  <2>3. RunnerInv'
    BY <1>0, <2>1 DEF RunnerInv, lists
  <2> QED BY <2>1, <2>2, <2>3 DEF Base, Sound
<1>2. ASSUME NEW s \in Semaphores, TakeAll(s), flagDeadLock' \in BOOLEAN, running' \in BOOLEAN
      PROVE  Base'
  <2>1. /\ UNCHANGED Others /\ sem' \in [Semaphores -> Nat]
    BY <1>2, TakeAllStep
  <2>2. TypeOK'
    BY <1>0, <1>2, <2>1, TypesAgain DEF lists, Others
  <2>3. RunnerInv' /\ CloserInv'
    BY <1>0, <2>1 DEF RunnerInv, CloserInv, Closing, SomebodyFree, lists, Others
  <2> QED BY <2>2, <2>3 DEF Base, Sound
<1>3. CASE StartSearch
  BY <1>0, <1>2, <1>3 DEF StartSearch, Semaphores
<1>4. CASE Finish
  BY <1>0, <1>2, <1>4 DEF Finish, Semaphores
<1> QED BY <1>1, <1>3, <1>4 DEF Outside

-----------------------------------------------------------------------------
(* The semaphores count the lists.  Each step changes both sides of each   *)
(* equation alike; that the scheduler always finds somebody ready and      *)
(* nobody executing follows from the first two.                            *)

SemInv ==
  /\ LengthOf(ready) = sem["readyTrainer"] + One(runner.pc \in {"exec", "schedule", "remove"})
  /\ sem["execTrainer"] + One(exec.on) + One(runner.pc = "schedule") = 1
  /\ LengthOf(new) + Count(blocked, "AVAILABLE")
       = sem["availableTrainersCount"] + One(closer.pc \in Holding)
         + One(/\ runner.pc \in {"release", "post"}
               /\ runner.post = "availableTrainersCount")

LEMMA SemForm == TypeOK => (SemaphoresCountLists <=> SemInv)
<1> SUFFICES ASSUME TypeOK PROVE SemaphoresCountLists <=> SemInv
  OBVIOUS
<1>1. Cardinality(Free(blocked)) = Count(blocked, "AVAILABLE")
  BY AllTypes, FreeHits
<1> QED BY <1>1 DEF SemaphoresCountLists, SemInv, Holding, LengthOf

Numbers ==
  /\ LengthOf(new) \in Nat /\ LengthOf(ready) \in Nat /\ LengthOf(exit) \in Nat
  /\ \A s : Count(blocked, s) \in Nat
  /\ sem["readyTrainer"] \in Nat /\ sem["execTrainer"] \in Nat
  /\ sem["availableTrainersCount"] \in Nat /\ sem["deadlockCount"] \in Nat
  /\ sem["exitCount"] \in Nat

LEMMA AreNumbers == TypeOK => Numbers
<1> SUFFICES ASSUME TypeOK PROVE Numbers
  OBVIOUS
<1>1. /\ new \in Seq(TrainerRecords) /\ ready \in Seq(TrainerRecords)
      /\ blocked \in Seq(TrainerRecords) /\ exit \in Seq(TrainerRecords)
      /\ sem \in [Semaphores -> Nat]
  BY AllTypes
<1>2. LengthOf(new) \in Nat /\ LengthOf(ready) \in Nat /\ LengthOf(exit) \in Nat
  BY <1>1 DEF LengthOf
<1>3. \A s : Count(blocked, s) \in Nat
  BY <1>1, CountsNat
<1> QED BY <1>1, <1>2, <1>3 DEF Numbers, Semaphores

(* In place of "schedule" nobody executes and somebody is ready. *)
LEMMA SchedulerFinds ==
  ASSUME Base, SemInv, runner.pc = "schedule"
  PROVE  ready # <<>> /\ ~exec.on
<1>1. Numbers
  BY AreNumbers DEF Base, Sound
<1>2. LengthOf(ready) # 0
  BY <1>1 DEF SemInv, Numbers, One
<1>4. ready # <<>>
  BY <1>2 DEF LengthOf
<1>3. ~exec.on
  BY <1>1 DEF SemInv, Numbers, One
<1> QED BY <1>3, <1>4

LEMMA CloserKeepsSem ==
  ASSUME Base, SemInv, Closer
  PROVE  SemInv'
<1>1. Numbers /\ Numbers'
  <2>1. TypeOK /\ TypeOK'
    BY CloserKeepsBase DEF Base, Sound
  <2>2. TypeOK' => Numbers'
    BY AreNumbers, PTL
  <2> QED BY <2>1, <2>2, AreNumbers
<1>2. CASE Quiet
  <2>1. UNCHANGED NoLists /\ Leaves
    BY <1>2, QuietSteps
  <2>2. UNCHANGED <<new, ready, blocked, exec, runner>>
    BY <2>1 DEF NoLists, lists
  <2> QED BY <1>1, <2>1, <2>2 DEF Numbers, Leaves, SameSem, SemInv
<1>3. ASSUME NEW p \in Arrivals, Planning(p) PROVE SemInv'
  <2>1. /\ closer.pc = "choose" /\ closer'.pc = "drop"
        /\ UNCHANGED <<new, blocked, exec, runner>>
        /\ sem'["readyTrainer"] = sem["readyTrainer"] + 1
        /\ sem'["execTrainer"] = sem["execTrainer"]
        /\ sem'["availableTrainersCount"] = sem["availableTrainersCount"]
    BY <1>3 DEF Planning, SameSem, Semaphores
  <2>2. LengthOf(ready') = LengthOf(ready) + 1
    BY <1>3 DEF Planning, Longer
  <2>3. One(closer.pc \in Holding) = 1 /\ One(closer'.pc \in Holding) = 1
    BY <2>1 DEF One, Holding
  <2> QED BY <1>1, <2>1, <2>2, <2>3 DEF Numbers, SemInv, One
<1>4. CASE Drop
  <2>1. /\ closer.pc = "drop" /\ closer'.pc = "unlock" /\ UNCHANGED <<ready, exec, sem, runner>>
    BY <1>4, DropStep DEF Dropped
  <2>2. LengthOf(new') + Count(blocked', "AVAILABLE") = LengthOf(new) + Count(blocked, "AVAILABLE") - 1
    <3>1. \/ UNCHANGED blocked /\ Shorter(new, new', Choice)
          \/ UNCHANGED new /\ Choice.state = "AVAILABLE" /\ Shorter(blocked, blocked', Choice)
      BY <1>4, DropStep DEF Dropped
    <3> QED BY <1>1, <3>1 DEF Shorter, One, Numbers
  <2>3. One(closer.pc \in Holding) = 1 /\ One(closer'.pc \in Holding) = 0
    BY <2>1 DEF One, Holding
  <2> QED BY <1>1, <2>1, <2>2, <2>3 DEF Numbers, SemInv, One
<1> QED BY <1>2, <1>3, <1>4, PlanStep DEF Closer, Quiet

LEMMA OutsideKeepsSem ==
  ASSUME Base, SemInv, Outside
  PROVE  SemInv'
<1> USE DEF Base
<1>1. ASSUME UNCHANGED <<new, ready, blocked, exec, closer, runner>>,
             \A s \in {"readyTrainer", "execTrainer", "availableTrainersCount"} : SameSem(s)
      PROVE  SemInv'
  BY <1>1 DEF SemInv, SameSem
<1>2. ASSUME NEW p \in Arrivals, Appearing(p) PROVE SemInv'
  BY <1>1, <1>2, AppearingStep DEF lists, OthersSame, Semaphores
<1>3. ASSUME NEW s \in {"deadlockCount", "exitCount"}, TakeAll(s) PROVE SemInv'
  BY <1>1, <1>3, TakeAllStep DEF lists, Others, OthersSame, Semaphores
<1> QED BY <1>2, <1>3 DEF Outside, StartSearch, Finish

LEMMA RunKeepsSem ==
  ASSUME Base, SemInv, Runner
  PROVE  SemInv'
<1> USE DEF Base
<1>0. Numbers /\ Numbers' /\ RunnerInv /\ RunnerInv'
  <2>1. TypeOK /\ TypeOK' /\ RunnerInv /\ RunnerInv'
    BY RunKeepsBase DEF Base, Sound
  <2>2. TypeOK' => Numbers'
    BY AreNumbers, PTL
  <2> QED BY <2>1, <2>2, AreNumbers
<1> USE <1>0 DEF Numbers, One, SameSem, OthersSame, Semaphores
<1>1. CASE WaitReady
  <2>1. /\ runner.pc = "ready" /\ runner'.pc = "exec"
        /\ UNCHANGED <<new, ready, blocked, exec, closer>>
        /\ sem'["readyTrainer"] = sem["readyTrainer"] - 1
        /\ SameSem("execTrainer") /\ SameSem("availableTrainersCount")
    BY <1>1, WaitReadyStep DEF Runs, Apart
  <2> QED BY <2>1 DEF SemInv
<1>2. CASE WaitExec
  <2>1. /\ runner.pc = "exec" /\ runner'.pc = "schedule"
        /\ UNCHANGED <<new, ready, blocked, exec, closer>>
        /\ sem'["execTrainer"] = sem["execTrainer"] - 1
        /\ SameSem("readyTrainer") /\ SameSem("availableTrainersCount")
    BY <1>2, WaitExecStep DEF Runs, Apart
  <2> QED BY <2>1 DEF SemInv
<1>3. CASE AddToExec
  <2>1. runner.pc = "schedule"
    BY <1>3 DEF AddToExec
  <2>2. ready # <<>> /\ ~exec.on
    BY <2>1, SchedulerFinds
  <2>3. runner'.pc = "remove" /\ exec'.on /\ UNCHANGED <<new, ready, blocked, closer, sem>>
    BY <1>3, <2>2, AddToExecStep DEF Runs, Apart
  <2> QED BY <2>1, <2>2, <2>3 DEF SemInv
<1>4. CASE RemoveFromReady
  <2>1. /\ runner.pc = "remove" /\ runner'.pc = "run"
        /\ UNCHANGED <<new, blocked, exec, closer, sem>> /\ LengthOf(ready') = LengthOf(ready) - 1
    BY <1>4, RemoveFromReadyStep DEF Runs, Apart, Shorter
  <2> QED BY <2>1 DEF SemInv
<1>5. CASE Move
  <2>1. /\ runner.pc = "run" /\ runner'.pc \in {"run", "preempt"}
        /\ UNCHANGED <<new, ready, blocked, closer, sem>> /\ exec'.on = exec.on
    BY <1>5, MoveStep DEF Runs, Apart
  <2> QED BY <2>1 DEF SemInv
<1>6. CASE Catch
  <2>1. /\ runner.pc = "run" /\ runner'.pc = "place"
        /\ UNCHANGED <<new, ready, blocked, closer, sem>> /\ exec'.on = exec.on
    BY <1>6, CatchStep DEF Runs, Apart
  <2> QED BY <2>1 DEF SemInv
<1>7. CASE Place
  <2>1. runner.pc = "place" /\ runner'.pc = "release" /\ UNCHANGED <<new, ready, closer>>
    BY <1>7, PlaceStep DEF Runs, Apart
  <2>2. CASE Ended
    <3>1. /\ runner'.post = "deadlockCount" /\ UNCHANGED <<blocked, exec>>
          /\ SameSem("readyTrainer") /\ SameSem("execTrainer") /\ SameSem("availableTrainersCount")
      BY <2>2 DEF Ended
    <3> QED BY <2>1, <3>1 DEF SemInv
  <2>3. CASE Stays
    <3>1. /\ exec'.on = exec.on /\ UNCHANGED sem
          /\ Count(blocked', "AVAILABLE")
               = Count(blocked, "AVAILABLE") + One(runner'.post = "availableTrainersCount")
      BY <2>3 DEF Stays, Longer
    <3> QED BY <2>1, <3>1 DEF SemInv
  <2> QED BY <1>7, <2>2, <2>3, PlaceStep
<1>8. ASSUME NEW from \in {"release", "preempt", "giveWay"}, NEW to \in {"post", "requeue", "ready"},
             RemoveFromExec(from, to), from = "release" <=> to = "post"
      PROVE  SemInv'
  <2>1. /\ runner.pc = from /\ runner'.pc = to /\ UNCHANGED <<new, ready, blocked, closer>>
        /\ ~exec'.on /\ runner'.post = runner.post
        /\ sem'["execTrainer"] = sem["execTrainer"] + 1
        /\ SameSem("readyTrainer") /\ SameSem("availableTrainersCount")
    BY <1>8, RemoveFromExecStep DEF RunnerPcs, Runs, Apart, SamePost
  <2>2. exec.on
    BY <1>8, <2>1 DEF RunnerInv, Executing
  <2> QED BY <1>8, <2>1, <2>2 DEF SemInv
<1>9. CASE PostPlaced
  <2>1. /\ runner.pc = "post" /\ runner'.pc = "ready"
        /\ UNCHANGED <<new, ready, blocked, exec, closer>>
        /\ sem'[runner.post] = sem[runner.post] + 1 /\ OthersSame({runner.post})
        /\ runner.post \in {"availableTrainersCount", "deadlockCount"}
    BY <1>9, PostPlacedStep DEF Runs, Apart
  <2> QED BY <2>1 DEF SemInv
<1>10. CASE Requeue
  <2>1. /\ runner.pc = "requeue" /\ runner'.pc = "ready"
        /\ UNCHANGED <<new, blocked, exec, closer>> /\ LengthOf(ready') = LengthOf(ready) + 1
        /\ sem'["readyTrainer"] = sem["readyTrainer"] + 1
        /\ SameSem("execTrainer") /\ SameSem("availableTrainersCount")
    BY <1>10, RequeueStep DEF Runs, Apart, Longer
  <2> QED BY <2>1 DEF SemInv
<1>11. CASE GiveWay
  <2>1. /\ runner.pc = "run" /\ runner'.pc = "giveWay"
        /\ UNCHANGED <<new, blocked, exec, closer>> /\ LengthOf(ready') = LengthOf(ready) + 1
        /\ sem'["readyTrainer"] = sem["readyTrainer"] + 1
        /\ SameSem("execTrainer") /\ SameSem("availableTrainersCount")
    BY <1>11, GiveWayStep DEF Runs, Apart, Longer
  <2> QED BY <2>1 DEF SemInv
<1> QED BY <1>1, <1>2, <1>3, <1>4, <1>5, <1>6, <1>7, <1>8, <1>9, <1>10, <1>11
        DEF Runner, Schedule, Release, Preempt, GaveWay

-----------------------------------------------------------------------------
(* A trainer is in one list. *)

InLists(t) == Listed(new, t) + Listed(ready, t) + Listed(blocked, t) + Listed(exit, t)
ExecOne(t) == One(exec.on /\ exec.trainer.id = t)
DropOne(t) == One(closer.pc = "drop" /\ BeingDropped = t)
TwiceOne(t) == One(runner.pc \in {"remove", "release", "giveWay"} /\ exec.trainer.id = t)
BetweenOne(t) == One(runner.pc = "requeue" /\ exec.trainer.id = t)

OneListOf(t, n) == ExecOne(t) + InLists(t) = n + DropOne(t) + TwiceOne(t) - BetweenOne(t)
OneList(t) == OneListOf(t, 1)

Ones(t) == ExecOne(t) \in 0 .. 1 /\ DropOne(t) \in 0 .. 1
           /\ TwiceOne(t) \in 0 .. 1 /\ BetweenOne(t) \in 0 .. 1

LEMMA AreOnes == ASSUME NEW t PROVE Ones(t)
BY DEF Ones, ExecOne, DropOne, TwiceOne, BetweenOne, One

ListedNumbers(t) ==
  /\ Listed(new, t) \in Nat /\ Listed(ready, t) \in Nat
  /\ Listed(blocked, t) \in Nat /\ Listed(exit, t) \in Nat

AllListed == \A t : ListedNumbers(t)

LEMMA AreListed == TypeOK => AllListed
<1> SUFFICES ASSUME TypeOK, NEW t PROVE ListedNumbers(t)
  BY DEF AllListed
<1>1. /\ new \in Seq(TrainerRecords) /\ ready \in Seq(TrainerRecords)
      /\ blocked \in Seq(TrainerRecords) /\ exit \in Seq(TrainerRecords)
  BY AllTypes
<1> QED BY <1>1, CountsNat DEF ListedNumbers

LEMMA OneForm == TypeOK => (InOneList <=> \A t \in Trainers : OneList(t))
<1> SUFFICES ASSUME TypeOK PROVE InOneList <=> \A t \in Trainers : OneList(t)
  OBVIOUS
<1>1. ASSUME NEW t \in Trainers PROVE Copies(t) = ExecOne(t) + InLists(t)
  <2>1. ListedNumbers(t)
    BY AreListed DEF AllListed
  <2> QED BY <2>1 DEF Copies, ExecOne, InLists, ListedNumbers, One
<1> QED BY <1>1 DEF InOneList, OneListOf, OneList, DropOne, TwiceOne, BetweenOne

(* Nothing that the scheduler does moves the trainer to be dropped. *)
LEMMA RunKeepsDropped ==
  ASSUME Base, UNCHANGED Apart, closer.pc = "drop",
         UNCHANGED blocked \/ \E e : Longer(blocked, blocked', e)
  PROVE  /\ Choice' = Choice /\ BeingDropped' = BeingDropped
<1>1. UNCHANGED <<new, closer>>
  BY DEF Apart
<1>2. closer.list # "new" => closer.pos \in DOMAIN blocked
  BY DEF Base, CloserInv, Free
<1>3. closer.list # "new" => blocked'[closer.pos] = blocked[closer.pos]
  BY <1>2 DEF Longer
<1> QED BY <1>1, <1>3 DEF Choice, BeingDropped

LEMMA CloserKeepsOne ==
  ASSUME Base, NEW t \in Trainers, NEW n \in Int, OneListOf(t, n), Closer
  PROVE  OneListOf(t, n)'
<1>0. ListedNumbers(t) /\ ListedNumbers(t)'
  <2>1. TypeOK /\ TypeOK'
    BY CloserKeepsBase DEF Base, Sound
  <2>2. TypeOK' => AllListed'
    BY AreListed, PTL
  <2> QED BY <2>1, <2>2, AreListed DEF AllListed
<1>1. CASE Quiet
  <2>1. UNCHANGED <<new, ready, blocked, exit, exec, runner>> /\ closer.pc # "drop" /\ closer'.pc # "drop"
    BY <1>1, QuietSteps DEF NoLists, lists, Leaves
  <2>2. DropOne(t) = 0 /\ DropOne(t)' = 0
    BY <2>1 DEF DropOne, One
  <2>3. /\ ExecOne(t)' = ExecOne(t) /\ TwiceOne(t)' = TwiceOne(t) /\ BetweenOne(t)' = BetweenOne(t)
        /\ InLists(t)' = InLists(t)
    BY <2>1 DEF ExecOne, TwiceOne, BetweenOne, InLists
  <2> QED BY <2>2, <2>3 DEF OneListOf, One
<1>2. ASSUME NEW p \in Arrivals, Planning(p) PROVE OneListOf(t, n)'
  <2>1. /\ UNCHANGED <<new, blocked, exit, exec, runner>> /\ closer.pc = "choose" /\ closer'.pc = "drop"
        /\ Choice' \in TrainerRecords /\ Choice'.id = BeingDropped'
        /\ Longer(ready, ready', [Choice' EXCEPT !.target = p]) /\ p \in Pokemons
    BY <1>2 DEF Planning, Pokemons
  <2>2. DropOne(t) = 0 /\ DropOne(t)' = One(Choice'.id = t)
    BY <2>1 DEF DropOne, One
  <2>3. [Choice' EXCEPT !.target = p].id = Choice'.id
    BY <2>1, TargetRecord
  <2>4. Listed(ready', t) = Listed(ready, t) + One(Choice'.id = t)
    BY <2>1, <2>3 DEF Longer
  <2>5. /\ ExecOne(t)' = ExecOne(t) /\ TwiceOne(t)' = TwiceOne(t) /\ BetweenOne(t)' = BetweenOne(t)
    BY <2>1 DEF ExecOne, TwiceOne, BetweenOne
  <2>6. InLists(t)' = InLists(t) + DropOne(t)'
    BY <1>0, <2>1, <2>2, <2>4 DEF InLists, ListedNumbers, One
  <2>7. InLists(t) \in Int
    BY <1>0 DEF ListedNumbers, InLists
  <2> QED BY <2>2, <2>5, <2>6, <2>7, AreOnes DEF OneListOf, One, Ones
<1>3. CASE Drop
  <2>1. /\ UNCHANGED <<ready, exit, exec, runner>> /\ closer.pc = "drop" /\ closer'.pc = "unlock"
        /\ Choice.id = BeingDropped
        /\ \/ UNCHANGED blocked /\ Shorter(new, new', Choice)
           \/ UNCHANGED new /\ Shorter(blocked, blocked', Choice)
    BY <1>3, DropStep DEF Dropped
  <2>2. DropOne(t)' = 0 /\ DropOne(t) = One(Choice.id = t)
    BY <2>1 DEF DropOne, One
  <2>3. /\ ExecOne(t)' = ExecOne(t) /\ TwiceOne(t)' = TwiceOne(t) /\ BetweenOne(t)' = BetweenOne(t)
    BY <2>1 DEF ExecOne, TwiceOne, BetweenOne
  <2>4. Listed(new', t) + Listed(blocked', t) = Listed(new, t) + Listed(blocked, t) - One(Choice.id = t)
    BY <1>0, <2>1 DEF ListedNumbers, Shorter, One
  <2>5. InLists(t)' = InLists(t) - DropOne(t)
    BY <1>0, <2>1, <2>2, <2>4 DEF InLists, ListedNumbers, One
  <2>6. InLists(t) \in Int
    BY <1>0 DEF ListedNumbers, InLists
  <2> QED BY <2>2, <2>3, <2>5, <2>6, AreOnes DEF OneListOf, One, Ones
<1> QED BY <1>1, <1>2, <1>3, PlanStep DEF Closer, Quiet

LEMMA OutsideKeepsOne ==
  ASSUME Base, NEW t \in Trainers, NEW n \in Int, OneListOf(t, n), Outside
  PROVE  OneListOf(t, n)'
<1> USE DEF Base
<1>1. UNCHANGED <<new, ready, blocked, exit, exec, closer, runner>>
  <2>1. ASSUME NEW p \in Arrivals, Appearing(p)
        PROVE  UNCHANGED <<new, ready, blocked, exit, exec, closer, runner>>
    BY <2>1, AppearingStep DEF lists
  <2>2. ASSUME NEW s \in {"deadlockCount", "exitCount"}, TakeAll(s)
        PROVE  UNCHANGED <<new, ready, blocked, exit, exec, closer, runner>>
    BY <2>2, TakeAllStep DEF lists, Others, Semaphores
  <2> QED BY <2>1, <2>2 DEF Outside, StartSearch, Finish
<1> QED BY <1>1 DEF OneListOf, ExecOne, DropOne, TwiceOne, BetweenOne, InLists, BeingDropped

LEMMA RunKeepsOne ==
  ASSUME Base, NEW t \in Trainers, NEW n \in Int, OneListOf(t, n), Runner
  PROVE  OneListOf(t, n)'
<1> USE DEF Base
<1> DEFINE More == UNCHANGED blocked \/ \E e : Longer(blocked, blocked', e)
           Mine == exec.trainer.id = t
<1>0. ListedNumbers(t) /\ ListedNumbers(t)' /\ RunnerInv /\ RunnerInv'
  <2>1. TypeOK /\ TypeOK' /\ RunnerInv /\ RunnerInv'
    BY RunKeepsBase DEF Base, Sound
  <2>2. TypeOK' => AllListed'
    BY AreListed, PTL
  <2> QED BY <2>1, <2>2, AreListed DEF AllListed
<1>1. ASSUME NEW from, NEW to, Runs(from, to), More
      PROVE  /\ DropOne(t)' = DropOne(t) /\ UNCHANGED new
             /\ TwiceOne(t) = One(from \in {"remove", "release", "giveWay"} /\ Mine)
             /\ TwiceOne(t)' = One(to \in {"remove", "release", "giveWay"} /\ exec'.trainer.id = t)
             /\ BetweenOne(t) = One(from = "requeue" /\ Mine)
             /\ BetweenOne(t)' = One(to = "requeue" /\ exec'.trainer.id = t)
             /\ ExecOne(t) = One(from \in Executing /\ Mine)
             /\ ExecOne(t)' = One(to \in Executing /\ exec'.trainer.id = t)
  <2>1. UNCHANGED Apart /\ runner.pc = from /\ runner'.pc = to
    BY <1>1 DEF Runs
  <2>2. closer.pc = "drop" => BeingDropped' = BeingDropped
    BY <1>1, <2>1, RunKeepsDropped
  <2>3. closer' = closer /\ UNCHANGED new
    BY <2>1 DEF Apart
  <2>4. DropOne(t)' = DropOne(t)
    BY <2>2, <2>3 DEF DropOne, One
  <2>5. exec.on \in BOOLEAN /\ exec'.on \in BOOLEAN
    BY AllTypes, RunKeepsBase DEF Base, Sound, TypeOK
  <2> QED BY <1>0, <2>1, <2>3, <2>4, <2>5 DEF TwiceOne, BetweenOne, ExecOne, RunnerInv, One
<1>14. DropOne(t) \in 0 .. 1
  BY AreOnes DEF Ones
<1> HIDE DEF Mine
<1> USE <1>0, <1>14 DEF ListedNumbers, One, InLists, OneListOf, Executing, AskingPcs
<1>2. ASSUME NEW from, NEW to, Runs(from, to), UNCHANGED <<ready, blocked, exit>>,
             exec'.trainer.id = exec.trainer.id,
             One(to \in Executing) - One(to \in {"remove", "release", "giveWay"}) + One(to = "requeue")
               = One(from \in Executing) - One(from \in {"remove", "release", "giveWay"}) + One(from = "requeue")
      PROVE  OneListOf(t, n)'
  BY <1>1, <1>2 DEF Mine
<1>3. CASE WaitReady
  BY <1>2, <1>3, WaitReadyStep
<1>4. CASE WaitExec
  BY <1>2, <1>4, WaitExecStep
<1>5. CASE AddToExec
  <2>1. CASE Runs("schedule", "ready") /\ UNCHANGED <<exec, ready, blocked, exit>>
    BY <1>2, <2>1
  <2>2. CASE Runs("schedule", "remove") /\ UNCHANGED <<ready, blocked, exit>>
    BY <1>1, <2>2
  <2> QED BY <1>5, <2>1, <2>2, AddToExecStep
<1>6. CASE RemoveFromReady
  <2>1. Runs("remove", "run") /\ UNCHANGED <<blocked, exit, exec>>
        /\ Listed(ready', t) = Listed(ready, t) - One(Mine)
    BY <1>6, RemoveFromReadyStep DEF Shorter, Mine
  <2>2. /\ TwiceOne(t) = One(Mine) /\ TwiceOne(t)' = 0
        /\ ExecOne(t) = One(Mine) /\ ExecOne(t)' = One(Mine)
        /\ BetweenOne(t) = 0 /\ BetweenOne(t)' = 0
        /\ DropOne(t)' = DropOne(t) /\ UNCHANGED new
    BY <1>1, <2>1 DEF Mine
  <2> QED BY <2>1, <2>2
<1>7. CASE Move
  <2>1. UNCHANGED <<ready, blocked, exit>> /\ exec'.trainer.id = exec.trainer.id
        /\ (Runs("run", "run") \/ Runs("run", "preempt"))
    BY <1>7, MoveStep DEF SameTrainer
  <2> QED BY <1>2, <2>1
<1>8. CASE Catch
  <2>1. UNCHANGED <<ready, blocked, exit>> /\ exec'.trainer.id = exec.trainer.id
        /\ Runs("run", "place")
    BY <1>8, CatchStep
  <2> QED BY <1>2, <2>1
<1>9. CASE Place
  <2>1. Runs("place", "release") /\ UNCHANGED ready
    BY <1>9, PlaceStep
  <2>2. CASE Ended
    <3>1. UNCHANGED <<blocked, exec>> /\ Listed(exit', t) = Listed(exit, t) + One(Mine)
      BY <2>2 DEF Ended, Longer, Mine
    <3> QED BY <1>1, <2>1, <3>1 DEF Mine
  <2>3. CASE Stays
    <3>1. UNCHANGED exit /\ exec'.trainer.id = exec.trainer.id /\ More
          /\ Listed(blocked', t) = Listed(blocked, t) + One(exec'.trainer.id = t)
      <4>1. UNCHANGED exit /\ exec'.trainer.id = exec.trainer.id
            /\ Longer(blocked, blocked', exec'.trainer)
        BY <2>3 DEF Stays
      <4> QED BY <4>1 DEF Longer
    <3> QED BY <1>1, <2>1, <3>1 DEF Mine
  <2> QED BY <1>9, <2>2, <2>3, PlaceStep
<1>10. CASE Release \/ Preempt \/ GaveWay
  <2>1. UNCHANGED <<ready, blocked, exit>> /\ exec'.trainer.id = exec.trainer.id
        /\ (Runs("release", "post") \/ Runs("preempt", "requeue") \/ Runs("giveWay", "ready"))
    BY <1>10, RemoveFromExecStep DEF Release, Preempt, GaveWay, RunnerPcs
  <2> QED BY <1>2, <2>1
<1>11. CASE PostPlaced
  BY <1>2, <1>11, PostPlacedStep
<1>12. CASE Requeue
  <2>1. Runs("requeue", "ready") /\ UNCHANGED <<blocked, exit, exec>>
        /\ Listed(ready', t) = Listed(ready, t) + One(Mine)
    BY <1>12, RequeueStep DEF Longer, Mine
  <2> QED BY <1>1, <2>1 DEF Mine
<1>13. CASE GiveWay
  <2>1. Runs("run", "giveWay") /\ UNCHANGED <<blocked, exit, exec>>
        /\ Listed(ready', t) = Listed(ready, t) + One(Mine)
    BY <1>13, GiveWayStep DEF Longer, Mine
  <2> QED BY <1>1, <2>1 DEF Mine
<1> QED BY <1>3, <1>4, <1>5, <1>6, <1>7, <1>8, <1>9, <1>10, <1>11, <1>12, <1>13
        DEF Runner, Schedule

-----------------------------------------------------------------------------
(* The initial states. *)

LEMMA MissingNat ==
  ASSUME NEW s \in Species
  PROVE  Missing(s) \in Nat
<1> DEFINE f == [t \in Trainers |-> Objectives[t][s]]
           g == [t \in Trainers |-> StartHeld[t][s]]
<1>1. f \in [Trainers -> Nat] /\ g \in [Trainers -> Nat] /\ IsFiniteSet(Trainers)
  BY PlannerAssumption
<1>2. TeamTotal(Objectives, s) = Total(f) /\ TeamTotal(StartHeld, s) = Total(g)
  BY DEF TeamTotal
<1>3. TeamTotal(StartHeld, s) <= TeamTotal(Objectives, s)
  BY PlannerAssumption
<1> HIDE DEF f, g
<1>4. Total(f) \in Nat /\ Total(g) \in Nat
  BY <1>1, TotalNat
<1> QED BY <1>2, <1>3, <1>4 DEF Missing

LEMMA InitLists ==
  ASSUME Init
  PROVE  /\ new \in Seq(TrainerRecords) /\ Len(new) = trainersCount
         /\ \A i \in DOMAIN new : new[i] = NewTrainer(i - 1) /\ i - 1 \in Trainers
         /\ \A t \in Trainers : Listed(new, t) = 1
<1>1. new = [i \in 1 .. trainersCount |-> NewTrainer(i - 1)] /\ trainersCount \in Nat
  BY Teams DEF Init
<1>2. \A i \in 1 .. trainersCount : i - 1 \in Trainers /\ NewTrainer(i - 1) \in TrainerRecords
                                    /\ NewTrainer(i - 1).id = i - 1
  BY <1>1, Teams, NewRecord
<1>3. new \in Seq(TrainerRecords) /\ Len(new) = trainersCount /\ DOMAIN new = 1 .. trainersCount
  BY <1>1, <1>2
<1>4. ASSUME NEW t \in Trainers PROVE Listed(new, t) = 1
  <2>1. t \in Nat /\ t + 1 \in 1 .. trainersCount
    BY <1>1, Teams
  <2>2. \A i \in 1 .. trainersCount : new[i].id = i - 1
    BY <1>1, <1>2
  <2>3. {i \in DOMAIN new : new[i].id = t} = {t + 1}
    BY <1>3, <2>1, <2>2
  <2> QED BY <2>3, FS_Singleton DEF Listed
<1> QED BY <1>1, <1>2, <1>3, <1>4

LEMMA InitBase ==
  ASSUME Init
  PROVE  Base
<1>1. new \in Seq(TrainerRecords)
  BY InitLists
<1>2. ready = <<>> /\ blocked = <<>> /\ exit = <<>> /\ available = <<>>
  BY DEF Init
<1>3. exec \in Execs /\ ~exec.on
  <2>1. 0 \in Trainers
    BY Teams
  <2> QED BY <2>1, NewRecord DEF Init, Execs
<1>4. missing \in [Species -> Nat]
  BY MissingNat DEF Init
<1>5. sem \in [Semaphores -> Nat]
  BY Teams DEF Init, Semaphores
<1>6. closer \in Closers /\ closer.pc = "trainer"
  BY DEF Init, IdleCloser, Closers, CloserPcs
<1>7. runner \in Runners /\ runner.pc = "ready" /\ runner.post = "deadlockCount"
  BY Idle DEF Init
<1>8. TypeOK
  <2>1. /\ algorithm \in Algorithms /\ flagDeadLock = FALSE /\ running = TRUE
        /\ appeared \in [Arrivals -> {"none", "add", "done"}]
    BY DEF Init
  <2>2. {new, ready, blocked, exit} \subseteq Seq(TrainerRecords) /\ available \in Seq(Arrivals)
    BY <1>1, <1>2
  <2>3. /\ closer \in [pc : {"trainer", "pokemon", "lock", "look", "choose", "drop",
                       "giveBack", "unlock"},
                 pkm : Nat, left : Int, list : {"new", "blocked"}, pos : Nat]
        /\ runner \in [pc : {"ready", "exec", "schedule", "remove", "run", "place",
                       "release", "post", "preempt", "requeue", "giveWay"},
                 pos : Nat, clocks : 0 .. Quantum, left : Int, post : Semaphores]
        /\ exec \in [on : BOOLEAN, trainer : TrainerRecords]
    BY <1>3, <1>6, <1>7 DEF Execs, Closers, CloserPcs, Runners, RunnerPcs
  <2> QED BY <1>4, <1>5, <2>1, <2>2, <2>3 DEF TypeOK
<1> QED BY <1>3, <1>6, <1>7, <1>8 DEF Base, Sound, CloserInv, Closing, RunnerInv, Executing, AskingPcs

LEMMA InitCounts ==
  ASSUME Init
  PROVE  SemInv /\ \A t \in Trainers : OneList(t)
<1>1. /\ new \in Seq(TrainerRecords) /\ Len(new) = trainersCount
      /\ \A t \in Trainers : Listed(new, t) = 1
  BY InitLists
<1>2. ready = <<>> /\ blocked = <<>> /\ exit = <<>>
  BY DEF Init
<1>3. /\ sem["readyTrainer"] = 0 /\ sem["execTrainer"] = 1
      /\ sem["availableTrainersCount"] = trainersCount
      /\ ~exec.on /\ runner.pc = "ready" /\ closer.pc = "trainer"
  BY DEF Init, IdleRunner, IdleCloser, Semaphores
<1>4. SemInv
  <2>1. LengthOf(ready) = 0 /\ LengthOf(new) = trainersCount /\ Count(blocked, "AVAILABLE") = 0
    BY <1>1, <1>2, CountsEmpty DEF LengthOf
  <2>2. trainersCount \in Nat
    BY Teams
  <2> QED BY <1>3, <2>1, <2>2 DEF SemInv, One, Holding
<1>5. ASSUME NEW t \in Trainers PROVE OneList(t)
  <2>1. Listed(new, t) = 1 /\ Listed(ready, t) = 0 /\ Listed(blocked, t) = 0 /\ Listed(exit, t) = 0
    BY <1>1, <1>2, CountsEmpty
  <2>2. ExecOne(t) = 0 /\ DropOne(t) = 0 /\ TwiceOne(t) = 0 /\ BetweenOne(t) = 0
    BY <1>3 DEF ExecOne, DropOne, TwiceOne, BetweenOne, One
  <2> QED BY <2>1, <2>2 DEF OneListOf, OneList, InLists
<1> QED BY <1>4, <1>5

Core == Base /\ SemInv /\ \A t \in Trainers : OneList(t)

LEMMA CoreStep ==
  ASSUME Core, [Next]_vars
  PROVE  Core'
<1>1. CASE Closer
  BY <1>1, CloserKeepsBase, CloserKeepsSem, CloserKeepsOne DEF Core, OneList
<1>2. CASE Runner
  BY <1>2, RunKeepsBase, RunKeepsSem, RunKeepsOne DEF Core, OneList
<1>3. CASE Outside
  BY <1>3, OutsideKeepsBase, OutsideKeepsSem, OutsideKeepsOne DEF Core, OneList
<1>4. CASE UNCHANGED vars
  <2>1. UNCHANGED <<algorithm, new, ready, blocked, exit, exec, available, missing, sem,
                    appeared, closer, runner, flagDeadLock, running>>
    BY <1>4 DEF vars, lists, ends
  <2>2. Base'
    BY <2>1 DEF Core, Base, Sound, TypeOK, CloserInv, Closing, SomebodyFree, RunnerInv
  <2>3. SemInv'
    BY <2>1 DEF Core, SemInv
  <2>4. ASSUME NEW t \in Trainers PROVE OneList(t)'
    BY <2>1 DEF Core, OneListOf, OneList, InLists, ExecOne, DropOne, TwiceOne, BetweenOne, BeingDropped
  <2> QED BY <2>2, <2>3, <2>4 DEF Core
<1> QED BY <1>1, <1>2, <1>3, <1>4 DEF Next, Outside

THEOREM CoreInvariance == Spec => []Core
<1>1. Init => Core
  BY InitBase, InitCounts DEF Core
<1>2. Core /\ [Next]_vars => Core'
  BY CoreStep
<1> QED BY <1>1, <1>2, PTL DEF Spec

(* The types of Team's variables hold always. *)
THEOREM TypesHold == Spec => []TypeOK
<1>1. Core => TypeOK
  BY DEF Core, Base, Sound
<1> QED BY <1>1, CoreInvariance, PTL

(* The counts that the threads wait for are those of the lists, so the     *)
(* scheduler never finds its lists otherwise than its tokens promised, and *)
(* no free trainer is left without a token or is planned twice for one.    *)
THEOREM TokensMatchLists == Spec => []SemaphoresCountLists
<1>1. Core => SemaphoresCountLists
  BY SemForm DEF Core, Base, Sound
<1> QED BY <1>1, CoreInvariance, PTL

(* Nobody is lost or doubled while trainers move from list to list without *)
(* a lock: a trainer is in one list, but for the moves that copy it before *)
(* they remove it and the turn that ends under RR.                         *)
THEOREM NobodyIsDoubled == Spec => []InOneList
<1>1. Core => InOneList
  BY OneForm DEF Core, Base, Sound
<1> QED BY <1>1, CoreInvariance, PTL

-----------------------------------------------------------------------------
(* The search for deadlocks.  The semaphores that its thread and           *)
(* finishTeam wait for count the trainers that are full and those that     *)
(* have ended, as sums over the team, and                                  *)
(*   - LeaveInv: a trainer that is about to leave the execution is already *)
(*     where it goes to, besides the copy that is to be dropped;           *)
(*   - EndInv: nobody is counted twice, and who has ended has what it      *)
(*     wants.                                                              *)

FreeOf(t) == CountOf(blocked, "AVAILABLE", t)
FullOf(t) == Listed(exit, t) + CountOf(blocked, "DEADLOCK", t)
Seats(t) == Listed(new, t) + Listed(ready, t) + FreeOf(t)

Fulls == [t \in Trainers |-> FullOf(t)]
Exits == [t \in Trainers |-> Listed(exit, t)]

PostsFull == One(runner.pc \in {"release", "post"} /\ runner.post = "deadlockCount")
AllTaken(condition) == IF condition THEN trainersCount + 1 ELSE 0

LeaveInv ==
  /\ runner.pc = "giveWay" => Listed(ready, exec.trainer.id) >= 1
  /\ runner.pc = "release" /\ runner.post = "availableTrainersCount" =>
       Seats(exec.trainer.id) >= 1 + DropOne(exec.trainer.id)

EndInv ==
  /\ sem["deadlockCount"] + AllTaken(flagDeadLock) + PostsFull = 1 + Total(Fulls)
  /\ sem["exitCount"] + AllTaken(~running) = 1 + Total(Exits)
  /\ \A i \in DOMAIN exit : ~HoldsOthers(exit[i])
  /\ \A t \in Trainers : FullOf(t) <= 1

Places(t) ==
  /\ FreeOf(t) \in Nat /\ CountOf(blocked, "DEADLOCK", t) \in Nat
  /\ FullOf(t) \in Nat /\ Seats(t) \in Nat
  /\ Listed(blocked, t) >= FreeOf(t) + CountOf(blocked, "DEADLOCK", t)
AllPlaces == \A t : Places(t)

LEMMA ArePlaces == TypeOK => AllPlaces
<1> SUFFICES ASSUME TypeOK, NEW t PROVE Places(t)
  BY DEF AllPlaces
<1>1. blocked \in Seq(TrainerRecords) /\ ListedNumbers(t)
  BY AllTypes, AreListed DEF AllListed
<1>2. FreeOf(t) \in Nat /\ CountOf(blocked, "DEADLOCK", t) \in Nat
  BY <1>1, CountsNat DEF FreeOf
<1> DEFINE A == OfBoth("AVAILABLE", t)
           D == OfBoth("DEADLOCK", t)
           W == WithId(t) \ (A \cup D)
<1>3. A \cap D = {} /\ (A \cup D) \cap W = {} /\ WithId(t) = (A \cup D) \cup W
  BY DEF OfBoth, WithId
<1>4. Listed(blocked, t) = Hits(blocked, WithId(t)) /\ FreeOf(t) = Hits(blocked, A)
      /\ CountOf(blocked, "DEADLOCK", t) = Hits(blocked, D)
  BY <1>1, ListedHits DEF FreeOf, CountOf
<1> HIDE DEF A, D, W
<1>5. Hits(blocked, A \cup D) = Hits(blocked, A) + Hits(blocked, D)
  BY <1>1, <1>3, HitsApart
<1>6. Hits(blocked, (A \cup D) \cup W) = Hits(blocked, A \cup D) + Hits(blocked, W)
  BY <1>1, <1>3, HitsApart
<1>7. Hits(blocked, W) \in Nat
  BY <1>1, HitsNat
<1>8. Listed(blocked, t) >= FreeOf(t) + CountOf(blocked, "DEADLOCK", t)
  BY <1>2, <1>3, <1>4, <1>5, <1>6, <1>7
<1> QED BY <1>1, <1>2, <1>8 DEF Places, FullOf, Seats, ListedNumbers

(* The copy to be dropped is new or free. *)
LEMMA DroppedSits ==
  ASSUME Base, NEW t
  PROVE  Listed(new, t) + FreeOf(t) >= DropOne(t)
<1>1. new \in Seq(TrainerRecords) /\ blocked \in Seq(TrainerRecords)
      /\ Places(t) /\ ListedNumbers(t)
  BY AllTypes, AreListed, ArePlaces DEF Base, Sound, AllListed, AllPlaces
<1>2. CASE closer.pc = "drop" /\ BeingDropped = t /\ closer.list = "new"
  <2>1. closer.pos \in DOMAIN new /\ new[closer.pos].id = t
    BY <1>2 DEF Base, CloserInv, BeingDropped
  <2>2. new[closer.pos] \in WithId(t)
    BY <1>1, <2>1 DEF WithId
  <2>3. Listed(new, t) >= 1
    BY <1>1, <2>1, <2>2, HitsOne, ListedHits
  <2> QED BY <1>1, <2>3 DEF DropOne, One, ListedNumbers, Places
<1>3. CASE closer.pc = "drop" /\ BeingDropped = t /\ closer.list # "new"
  <2>1. closer.pos \in DOMAIN blocked /\ blocked[closer.pos].id = t
        /\ blocked[closer.pos].state = "AVAILABLE"
    BY <1>3 DEF Base, CloserInv, BeingDropped, Free
  <2>2. blocked[closer.pos] \in OfBoth("AVAILABLE", t)
    BY <1>1, <2>1 DEF OfBoth
  <2>3. FreeOf(t) >= 1
    BY <1>1, <2>1, <2>2, HitsOne DEF FreeOf, CountOf
  <2> QED BY <1>1, <2>3 DEF DropOne, One, ListedNumbers, Places
<1>4. CASE ~(closer.pc = "drop" /\ BeingDropped = t)
  BY <1>1, <1>4 DEF DropOne, One, ListedNumbers, Places
<1> QED BY <1>2, <1>3, <1>4

(* A trainer that has caught and is not placed yet is not full anywhere. *)
LEMMA PlacedIsNew ==
  ASSUME Base, NEW t \in Trainers, OneList(t), runner.pc = "place", exec.trainer.id = t
  PROVE  FullOf(t) = 0 /\ Seats(t) >= DropOne(t)
<1>1. ExecOne(t) = 1 /\ TwiceOne(t) = 0 /\ BetweenOne(t) = 0
  BY DEF Base, Sound, RunnerInv, Executing, ExecOne, TwiceOne, BetweenOne, One
<1>2. Places(t) /\ ListedNumbers(t) /\ DropOne(t) \in 0 .. 1
  BY AreListed, ArePlaces, AreOnes DEF Base, Sound, AllListed, AllPlaces, Ones
<1>3. Listed(new, t) + FreeOf(t) >= DropOne(t)
  BY DroppedSits
<1> DEFINE n == Listed(new, t)
           r == Listed(ready, t)
           b == Listed(blocked, t)
           e == Listed(exit, t)
           f == FreeOf(t)
           c == CountOf(blocked, "DEADLOCK", t)
           d == DropOne(t)
<1>4. /\ n \in Nat /\ r \in Nat /\ b \in Nat /\ e \in Nat /\ f \in Nat /\ c \in Nat /\ d \in Nat
      /\ b >= f + c /\ n + f >= d
  BY <1>2, <1>3 DEF Places, ListedNumbers
<1>5. 1 + (n + r + b + e) = 1 + d + 0 - 0
  BY <1>1 DEF OneListOf, OneList, InLists
<1>6. FullOf(t) = e + c /\ Seats(t) = n + r + f
  BY DEF FullOf, Seats
<1> HIDE DEF n, r, b, e, f, c, d
<1>7. e + c = 0 /\ n + r + f >= d
  BY <1>4, <1>5
<1> QED BY <1>6, <1>7 DEF d

(* The steps that count nobody as full or ended, and those that do. *)
SamePlaces ==
  /\ UNCHANGED <<exit, ends>> /\ SameSem("deadlockCount") /\ SameSem("exitCount")
  /\ PostsFull' = PostsFull
  /\ \A t : FullOf(t)' = FullOf(t)

FullTypes ==
  /\ Fulls \in [Trainers -> Int] /\ Exits \in [Trainers -> Int]
  /\ IsFiniteSet(Trainers) /\ trainersCount \in Nat
  /\ Total(Fulls) \in Int /\ Total(Exits) \in Int

LEMMA FullsTyped == TypeOK => FullTypes
<1> SUFFICES ASSUME TypeOK PROVE FullTypes
  OBVIOUS
<1>1. \A t \in Trainers : FullOf(t) \in Nat /\ Listed(exit, t) \in Nat
  BY ArePlaces, AreListed DEF AllPlaces, Places, AllListed, ListedNumbers
<1>2. Fulls \in [Trainers -> Int] /\ Exits \in [Trainers -> Int]
  BY <1>1 DEF Fulls, Exits
<1>3. IsFiniteSet(Trainers) /\ trainersCount \in Nat
  BY PlannerAssumption, Teams
<1> HIDE DEF Fulls, Exits
<1> QED BY <1>2, <1>3, TotalInt DEF FullTypes

LEMMA SameKeepsEnd ==
  ASSUME Base, EndInv, SamePlaces
  PROVE  EndInv'
<1>1. Fulls' = Fulls /\ Exits' = Exits
  BY DEF SamePlaces, Fulls, Exits
<1> QED BY <1>1 DEF EndInv, SamePlaces, SameSem, ends, AllTaken, HoldsOthers

LEMMA CloserKeepsEnd ==
  ASSUME Base, EndInv, Closer
  PROVE  EndInv'
<1>1. CASE Quiet
  <2>1. UNCHANGED NoLists /\ SameSem("deadlockCount") /\ SameSem("exitCount")
    BY <1>1, QuietSteps DEF Leaves
  <2>2. SamePlaces
    BY <2>1 DEF NoLists, lists, SamePlaces, FullOf, PostsFull
  <2> QED BY <2>2, SameKeepsEnd
<1>2. ASSUME NEW p \in Arrivals, Planning(p) PROVE EndInv'
  <2>1. UNCHANGED <<blocked, exit, runner, ends>> /\ SameSem("deadlockCount") /\ SameSem("exitCount")
    BY <1>2 DEF Planning, Semaphores
  <2>2. SamePlaces
    BY <2>1 DEF SamePlaces, FullOf, PostsFull
  <2> QED BY <2>2, SameKeepsEnd
<1>3. CASE Drop
  <2>1. /\ UNCHANGED <<exit, sem, runner, ends>>
        /\ \/ UNCHANGED blocked
           \/ Choice.state = "AVAILABLE" /\ Shorter(blocked, blocked', Choice)
    BY <1>3, DropStep DEF Dropped
  <2>2. \A t : CountOf(blocked', "DEADLOCK", t) = CountOf(blocked, "DEADLOCK", t)
    <3>1. CASE Choice.state = "AVAILABLE" /\ Shorter(blocked, blocked', Choice)
      <4>1. ASSUME NEW t
            PROVE  CountOf(blocked', "DEADLOCK", t) = CountOf(blocked, "DEADLOCK", t)
        <5>1. CountOf(blocked', "DEADLOCK", t)
                = CountOf(blocked, "DEADLOCK", t) - One(Choice.state = "DEADLOCK" /\ Choice.id = t)
          BY <3>1 DEF Shorter
        <5>2. CountOf(blocked, "DEADLOCK", t) \in Nat
          BY AllTypes, CountsNat DEF Base, Sound
        <5> QED BY <3>1, <5>1, <5>2 DEF One
      <4> QED BY <4>1
    <3> QED BY <2>1, <3>1
  <2>3. SamePlaces
    BY <2>1, <2>2 DEF SamePlaces, SameSem, FullOf, PostsFull
  <2> QED BY <2>3, SameKeepsEnd
<1> QED BY <1>1, <1>2, <1>3, PlanStep DEF Closer, Quiet

LEMMA OutsideKeepsEnd ==
  ASSUME Base, EndInv, Outside, running
  PROVE  EndInv'
<1> USE DEF Base
<1>0. sem \in [Semaphores -> Nat] /\ trainersCount \in Nat /\ Total(Fulls) \in Int
      /\ Total(Exits) \in Int /\ PostsFull \in 0 .. 1
      /\ flagDeadLock \in BOOLEAN /\ running \in BOOLEAN
  BY AllTypes, FullsTyped DEF Base, Sound, FullTypes, PostsFull, One
<1>1. ASSUME NEW p \in Arrivals, Appearing(p) PROVE EndInv'
  <2>1. UNCHANGED <<blocked, exit, runner, ends>> /\ SameSem("deadlockCount") /\ SameSem("exitCount")
    BY <1>1, AppearingStep DEF lists, OthersSame, Semaphores
  <2>2. SamePlaces
    BY <2>1 DEF SamePlaces, FullOf, PostsFull
  <2> QED BY <2>2, SameKeepsEnd
<1>2. ASSUME NEW s \in {"deadlockCount", "exitCount"}, TakeAll(s)
      PROVE  /\ Fulls' = Fulls /\ Exits' = Exits /\ PostsFull' = PostsFull /\ UNCHANGED exit
             /\ \A t : FullOf(t)' = FullOf(t)
             /\ sem'[s] = sem[s] - (trainersCount + 1)
             /\ \A r \in {"deadlockCount", "exitCount"} \ {s} : sem'[r] = sem[r]
  <2>1. UNCHANGED <<blocked, exit, runner>> /\ sem'[s] = sem[s] - (trainersCount + 1)
        /\ \A r \in {"deadlockCount", "exitCount"} \ {s} : sem'[r] = sem[r]
    BY <1>2, TakeAllStep DEF Others, lists, Semaphores, OthersSame, SameSem
  <2> QED BY <2>1 DEF Fulls, Exits, FullOf, PostsFull
<1>3. ASSUME NEW s \in {"deadlockCount", "exitCount"}, TakeAll(s)
      PROVE  /\ \A i \in DOMAIN exit' : ~HoldsOthers(exit[i])'
             /\ \A t \in Trainers : FullOf(t)' <= 1
  BY <1>2, <1>3 DEF EndInv, HoldsOthers
<1>4. CASE StartSearch
  <2>1. TakeAll("deadlockCount") /\ ~flagDeadLock /\ flagDeadLock' /\ running' = running
    BY <1>4 DEF StartSearch
  <2>2. AllTaken(flagDeadLock') = AllTaken(flagDeadLock) + (trainersCount + 1)
        /\ AllTaken(~running') = AllTaken(~running) /\ AllTaken(flagDeadLock) \in Int
    BY <1>0, <2>1 DEF AllTaken
  <2>3. sem["deadlockCount"] \in Nat
    BY <1>0 DEF Semaphores
  <2>4. sem'["deadlockCount"] = sem["deadlockCount"] - (trainersCount + 1)
        /\ sem'["exitCount"] = sem["exitCount"]
    BY <1>2, <2>1
  <2>5. sem'["deadlockCount"] + AllTaken(flagDeadLock') + PostsFull' = 1 + Total(Fulls')
    <3>1. Fulls' = Fulls /\ PostsFull' = PostsFull
      BY <1>2, <2>1
    <3>2. sem["deadlockCount"] + AllTaken(flagDeadLock) + PostsFull = 1 + Total(Fulls)
      BY DEF EndInv
    <3>3. sem'["deadlockCount"] + AllTaken(flagDeadLock')
            = sem["deadlockCount"] + AllTaken(flagDeadLock)
      BY <1>0, <2>2, <2>3, <2>4
    <3> QED BY <3>1, <3>2, <3>3
  <2>6. sem'["exitCount"] + AllTaken(~running') = 1 + Total(Exits')
    BY <1>2, <2>1, <2>2, <2>4 DEF EndInv
  <2> QED BY <1>3, <2>1, <2>5, <2>6 DEF EndInv
<1>5. CASE Finish
  <2>1. TakeAll("exitCount") /\ running' = FALSE /\ flagDeadLock' = flagDeadLock
    BY <1>5 DEF Finish
  <2>2. AllTaken(~running') = AllTaken(~running) + (trainersCount + 1)
        /\ AllTaken(flagDeadLock') = AllTaken(flagDeadLock) /\ AllTaken(~running) \in Int
    BY <1>0, <2>1 DEF AllTaken
  <2>3. sem["exitCount"] \in Nat
    BY <1>0 DEF Semaphores
  <2>4. sem'["exitCount"] = sem["exitCount"] - (trainersCount + 1)
        /\ sem'["deadlockCount"] = sem["deadlockCount"]
    BY <1>2, <2>1
  <2>5. sem'["exitCount"] + AllTaken(~running') = 1 + Total(Exits')
    BY <1>0, <1>2, <2>1, <2>2, <2>3, <2>4 DEF EndInv
  <2>6. sem'["deadlockCount"] + AllTaken(flagDeadLock') + PostsFull' = 1 + Total(Fulls')
    BY <1>2, <2>1, <2>2, <2>4 DEF EndInv
  <2> QED BY <1>3, <2>1, <2>5, <2>6 DEF EndInv
<1> QED BY <1>1, <1>4, <1>5 DEF Outside

(* What a sum over the team does when one trainer is counted once more. *)
LEMMA OneMore ==
  ASSUME NEW f \in [Trainers -> Int], NEW g \in [Trainers -> Int], NEW u \in Trainers,
         NEW k \in Int, \A t \in Trainers : g[t] = f[t] + IF t = u THEN k ELSE 0
  PROVE  Total(g) = Total(f) + k
<1>1. IsFiniteSet(Trainers)
  BY PlannerAssumption
<1>2. \A t \in Trainers \ {u} : g[t] = f[t]
  OBVIOUS
<1>3. Total(g) = Total(f) - f[u] + g[u]
  BY <1>1, <1>2, TotalChange
<1>4. g[u] = f[u] + k /\ f[u] \in Int /\ Total(f) \in Int
  BY <1>1, TotalInt
<1> QED BY <1>3, <1>4

LEMMA RunKeepsEnd ==
  ASSUME Base, \A t \in Trainers : OneList(t), EndInv, Runner
  PROVE  EndInv'
<1> USE DEF Base
<1> DEFINE u == exec.trainer.id
<1>0. /\ sem \in [Semaphores -> Nat] /\ FullTypes /\ FullTypes'
      /\ AllPlaces /\ AllPlaces' /\ AllListed /\ AllListed' /\ u \in Trainers
      /\ RunnerInv /\ exit \in Seq(TrainerRecords)
  <2>1. TypeOK /\ TypeOK'
    BY RunKeepsBase DEF Base, Sound
  <2>2. TypeOK' => FullTypes' /\ AllPlaces' /\ AllListed'
    BY FullsTyped, ArePlaces, AreListed, PTL
  <2>3. sem \in [Semaphores -> Nat] /\ u \in Trainers /\ exit \in Seq(TrainerRecords)
    BY <2>1, AllTypes DEF Execs, TrainerRecords
  <2> QED BY <2>1, <2>2, <2>3, FullsTyped, ArePlaces, AreListed DEF Base, Sound
<1> HIDE DEF u
<1>1. ASSUME NEW from, NEW to, Runs(from, to), UNCHANGED <<blocked, exit>>,
             SameSem("deadlockCount"), SameSem("exitCount"),
             \/ from \notin {"release", "post"} /\ to \notin {"release", "post"}
             \/ from = "release" /\ to = "post" /\ runner'.post = runner.post
      PROVE  EndInv'
  <2>1. UNCHANGED ends /\ runner.pc = from /\ runner'.pc = to
    BY <1>1 DEF Runs, Apart
  <2>2. SamePlaces
    BY <1>1, <2>1 DEF SamePlaces, PostsFull, FullOf
  <2> QED BY <2>2, SameKeepsEnd
<1>2. ASSUME Place PROVE EndInv'
  <2> DEFINE k == One(runner'.post = "deadlockCount")
  <2>1. Runs("place", "release") /\ runner.pc = "place"
    BY <1>2, PlaceStep DEF Runs
  <2>2. UNCHANGED ends /\ PostsFull = 0 /\ PostsFull' = k /\ k \in 0 .. 1
    BY <2>1 DEF Runs, Apart, PostsFull, One
  <2>3. FullOf(u) = 0
    BY <1>0, <2>1, PlacedIsNew DEF u
  <2>4. (\A t \in Trainers : FullOf(t)' = FullOf(t) + (IF t = u THEN k ELSE 0))
        /\ sem'["deadlockCount"] = sem["deadlockCount"]
        /\ sem'["exitCount"] + Total(Exits) = sem["exitCount"] + Total(Exits)'
        /\ \A i \in DOMAIN exit' : ~HoldsOthers(exit[i])'
    <3>1. CASE Ended
      <4>1. /\ k = 1 /\ Longer(exit, exit', exec.trainer) /\ UNCHANGED blocked
            /\ sem'["exitCount"] = sem["exitCount"] + 1
            /\ sem'["deadlockCount"] = sem["deadlockCount"] /\ ~HoldsOthers(exec.trainer)
        BY <3>1 DEF Ended, One, OthersSame, SameSem, Semaphores
      <4>2. ASSUME NEW t \in Trainers
            PROVE  Listed(exit', t) = Listed(exit, t) + (IF t = u THEN 1 ELSE 0)
        BY <4>1 DEF Longer, One, u
      <4>3. \A t \in Trainers : FullOf(t)' = FullOf(t) + (IF t = u THEN k ELSE 0)
        <5>1. ASSUME NEW t \in Trainers
              PROVE  FullOf(t)' = FullOf(t) + (IF t = u THEN 1 ELSE 0)
          <6>1. Listed(exit, t) \in Nat /\ CountOf(blocked, "DEADLOCK", t) \in Nat
            BY <1>0 DEF AllListed, ListedNumbers, AllPlaces, Places
          <6> QED BY <4>1, <4>2, <6>1 DEF FullOf
        <5> QED BY <4>1, <5>1
      <4>4. \A t \in Trainers : Exits'[t] = Exits[t] + (IF t = u THEN 1 ELSE 0)
        BY <4>2 DEF Exits
      <4>5. Total(Exits') = Total(Exits) + 1
        <5>1. Exits \in [Trainers -> Int] /\ Exits' \in [Trainers -> Int]
          BY <1>0 DEF FullTypes
        <5> DEFINE m == 1
        <5>2. m \in Int /\ \A t \in Trainers : Exits'[t] = Exits[t] + (IF t = u THEN m ELSE 0)
          BY <4>4
        <5> HIDE DEF m
        <5>3. Total(Exits') = Total(Exits) + m
          BY <1>0, <5>1, <5>2, OneMore
        <5> QED BY <5>3 DEF m
      <4>6. Total(Exits)' = Total(Exits')
        OBVIOUS
      <4>7. sem["exitCount"] \in Nat
        BY <1>0 DEF Semaphores
      <4>8. \A i \in DOMAIN exit' : ~HoldsOthers(exit'[i])
        <5>1. DOMAIN exit' = 1 .. Len(exit) + 1 /\ DOMAIN exit = 1 .. Len(exit) /\ Len(exit) \in Nat
          BY <1>0, <4>1 DEF Longer, LengthOf
        <5>2. \A i \in DOMAIN exit : exit'[i] = exit[i] /\ ~HoldsOthers(exit[i])
          BY <4>1 DEF Longer, EndInv
        <5>3. exit'[Len(exit) + 1] = exec.trainer
          BY <4>1 DEF Longer
        <5>4. ASSUME NEW i \in DOMAIN exit' PROVE i \in DOMAIN exit \/ i = Len(exit) + 1
          BY <5>1
        <5> QED BY <4>1, <5>2, <5>3, <5>4
      <4>9. \A i \in DOMAIN exit' : ~HoldsOthers(exit[i])'
        BY <4>8 DEF HoldsOthers
      <4>10. sem'["exitCount"] + Total(Exits) = sem["exitCount"] + Total(Exits)'
        <5>1. Total(Exits) \in Int
          BY <1>0 DEF FullTypes
        <5> QED BY <4>1, <4>5, <4>6, <4>7, <5>1
      <4> QED BY <4>1, <4>3, <4>9, <4>10
    <3>2. CASE Stays
      <4>1. /\ Longer(blocked, blocked', exec'.trainer) /\ UNCHANGED <<exit, sem>>
            /\ exec'.trainer.id = u
            /\ k = One(exec'.trainer.state = "DEADLOCK")
        BY <3>2 DEF Stays, One, u
      <4>2. ASSUME NEW t \in Trainers
            PROVE  FullOf(t)' = FullOf(t) + (IF t = u THEN k ELSE 0)
        <5>1. CountOf(blocked', "DEADLOCK", t)
                = CountOf(blocked, "DEADLOCK", t)
                    + One(exec'.trainer.state = "DEADLOCK" /\ exec'.trainer.id = t)
          BY <4>1 DEF Longer
        <5>2. Listed(exit, t) \in Nat /\ CountOf(blocked, "DEADLOCK", t) \in Nat
          BY <1>0 DEF AllListed, ListedNumbers, AllPlaces, Places
        <5> QED BY <4>1, <5>1, <5>2 DEF FullOf, One
      <4>3. Total(Exits)' = Total(Exits)
        BY <4>1 DEF Exits
      <4> QED BY <4>1, <4>2, <4>3 DEF EndInv, HoldsOthers
    <3> QED BY <1>2, <3>1, <3>2, PlaceStep
  <2> HIDE DEF k
  <2>5. Total(Fulls') = Total(Fulls) + k
    <3>1. \A t \in Trainers : Fulls'[t] = Fulls[t] + (IF t = u THEN k ELSE 0)
      BY <2>4 DEF Fulls
    <3>2. Fulls \in [Trainers -> Int] /\ Fulls' \in [Trainers -> Int] /\ k \in Int
      BY <1>0, <2>2 DEF FullTypes
    <3> QED BY <1>0, <3>1, <3>2, OneMore
  <2>6. Total(Fulls)' = Total(Fulls')
    OBVIOUS
  <2>7. \A t \in Trainers : FullOf(t)' <= 1
    <3>1. \A t \in Trainers : FullOf(t) <= 1 /\ FullOf(t) \in Nat
      BY <1>0 DEF EndInv, AllPlaces, Places
    <3> QED BY <2>2, <2>3, <2>4, <3>1
  <2>8. sem["deadlockCount"] \in Nat /\ sem["exitCount"] \in Nat
        /\ AllTaken(flagDeadLock) \in Int /\ AllTaken(~running) \in Int
    BY <1>0 DEF Semaphores, FullTypes, AllTaken
  <2>9. AllTaken(flagDeadLock)' = AllTaken(flagDeadLock) /\ AllTaken(~running)' = AllTaken(~running)
    BY <2>2 DEF ends, AllTaken
  <2>10. sem'["deadlockCount"] + AllTaken(flagDeadLock)' + PostsFull' = 1 + Total(Fulls)'
    <3>1. sem["deadlockCount"] + AllTaken(flagDeadLock) + PostsFull = 1 + Total(Fulls)
      BY DEF EndInv
    <3>2. Total(Fulls) \in Int
      BY <1>0 DEF FullTypes
    <3> QED BY <2>2, <2>4, <2>5, <2>6, <2>8, <2>9, <3>1, <3>2
  <2>11. sem'["exitCount"] + AllTaken(~running)' = 1 + Total(Exits)'
    <3>1. sem["exitCount"] + AllTaken(~running) = 1 + Total(Exits)
      BY DEF EndInv
    <3>2. sem'["exitCount"] \in Int /\ Total(Exits)' \in Int /\ Total(Exits) \in Int
      BY <1>0, <2>1 DEF Runs, Semaphores, FullTypes
    <3> QED BY <2>4, <2>8, <2>9, <3>1, <3>2
  <2> QED BY <2>4, <2>7, <2>10, <2>11 DEF EndInv
<1>3. ASSUME PostPlaced PROVE EndInv'
  <2>1. /\ Runs("post", "ready") /\ UNCHANGED <<blocked, exit>> /\ UNCHANGED ends
        /\ runner.pc = "post" /\ runner'.pc = "ready"
        /\ sem'[runner.post] = sem[runner.post] + 1 /\ OthersSame({runner.post})
        /\ runner.post \in {"availableTrainersCount", "deadlockCount"}
    BY <1>3, PostPlacedStep DEF Runs, Apart
  <2>2. PostsFull' = 0 /\ PostsFull = One(runner.post = "deadlockCount")
    BY <2>1 DEF PostsFull, One
  <2>3. sem'["deadlockCount"] = sem["deadlockCount"] + One(runner.post = "deadlockCount")
        /\ sem'["exitCount"] = sem["exitCount"] /\ sem["deadlockCount"] \in Nat
    BY <1>0, <2>1 DEF OthersSame, SameSem, Semaphores, One
  <2>4. Fulls' = Fulls /\ Exits' = Exits /\ \A t : FullOf(t)' = FullOf(t)
    BY <2>1 DEF Fulls, Exits, FullOf
  <2>5. AllTaken(flagDeadLock)' = AllTaken(flagDeadLock) /\ AllTaken(~running)' = AllTaken(~running)
        /\ AllTaken(flagDeadLock) \in Int
    BY <1>0, <2>1 DEF ends, AllTaken, FullTypes
  <2>6. sem'["deadlockCount"] + AllTaken(flagDeadLock)' + PostsFull' = 1 + Total(Fulls)'
    BY <1>0, <2>2, <2>3, <2>4, <2>5 DEF EndInv, One
  <2> QED BY <2>1, <2>3, <2>4, <2>5, <2>6 DEF EndInv, HoldsOthers
<1> USE DEF OthersSame, Semaphores
<1>4. CASE WaitReady
  BY <1>1, <1>4, WaitReadyStep
<1>5. CASE WaitExec
  BY <1>1, <1>5, WaitExecStep
<1>6. CASE AddToExec
  BY <1>1, <1>6, AddToExecStep DEF SameSem
<1>7. CASE RemoveFromReady
  BY <1>1, <1>7, RemoveFromReadyStep DEF SameSem
<1>8. CASE Move
  BY <1>1, <1>8, MoveStep DEF SameSem
<1>9. CASE Catch
  BY <1>1, <1>9, CatchStep DEF SameSem
<1>10. CASE Release \/ Preempt \/ GaveWay
  BY <1>1, <1>10, RemoveFromExecStep DEF Release, Preempt, GaveWay, RunnerPcs, SamePost
<1>11. CASE Requeue
  BY <1>1, <1>11, RequeueStep
<1>12. CASE GiveWay
  BY <1>1, <1>12, GiveWayStep
<1> QED BY <1>2, <1>3, <1>4, <1>5, <1>6, <1>7, <1>8, <1>9, <1>10, <1>11, <1>12
        DEF Runner, Schedule

(* Who leaves the execution has its place already. *)
Sits(t) == Seats(t) - DropOne(t)
SeatsKept == \A t : Listed(ready', t) >= Listed(ready, t) /\ Sits(t)' >= Sits(t)

LeaveSits ==
  /\ runner.pc = "giveWay" => Listed(ready, exec.trainer.id) >= 1
  /\ runner.pc = "release" /\ runner.post = "availableTrainersCount" =>
       Sits(exec.trainer.id) >= 1

LEMMA LeaveForm == TypeOK => (LeaveInv <=> LeaveSits)
<1> SUFFICES ASSUME TypeOK PROVE LeaveInv <=> LeaveSits
  OBVIOUS
<1>1. Seats(exec.trainer.id) \in Nat /\ DropOne(exec.trainer.id) \in 0 .. 1
  BY ArePlaces, AreOnes DEF AllPlaces, Places, Ones
<1> QED BY <1>1 DEF LeaveInv, LeaveSits, Sits

LEMMA CloserSeats ==
  ASSUME Base, Closer
  PROVE  SeatsKept /\ UNCHANGED <<exec, runner>>
<1>0. AllListed /\ AllListed' /\ AllPlaces /\ AllPlaces'
  <2>1. TypeOK /\ TypeOK'
    BY CloserKeepsBase DEF Base, Sound
  <2>2. TypeOK' => AllListed' /\ AllPlaces'
    BY ArePlaces, AreListed, PTL
  <2> QED BY <2>1, <2>2, AreListed, ArePlaces
<1>1. ASSUME NEW t
      PROVE  /\ Listed(new, t) \in Nat /\ Listed(ready, t) \in Nat /\ FreeOf(t) \in Nat
             /\ Listed(new', t) \in Nat /\ Listed(ready', t) \in Nat /\ FreeOf(t)' \in Nat
             /\ DropOne(t) \in 0 .. 1
  BY <1>0, AreOnes DEF AllListed, ListedNumbers, AllPlaces, Places, Ones
<1>2. CASE Quiet
  <2>1. UNCHANGED <<new, ready, blocked, exec, runner>> /\ closer.pc # "drop" /\ closer'.pc # "drop"
    BY <1>2, QuietSteps DEF NoLists, lists, Leaves
  <2>2. ASSUME NEW t PROVE DropOne(t) = 0 /\ DropOne(t)' = 0 /\ Seats(t)' = Seats(t)
    BY <2>1 DEF DropOne, One, Seats, FreeOf
  <2>3. ASSUME NEW t PROVE Listed(ready', t) >= Listed(ready, t) /\ Sits(t)' >= Sits(t)
    BY <1>1, <2>1, <2>2 DEF Sits, Seats
  <2> QED BY <2>1, <2>3 DEF SeatsKept
<1>3. ASSUME NEW p \in Arrivals, Planning(p) PROVE SeatsKept /\ UNCHANGED <<exec, runner>>
  <2>1. /\ UNCHANGED <<new, blocked, exec, runner>> /\ closer.pc = "choose" /\ closer'.pc = "drop"
        /\ Choice' \in TrainerRecords /\ Choice'.id = BeingDropped'
        /\ Longer(ready, ready', [Choice' EXCEPT !.target = p]) /\ p \in Pokemons
    BY <1>3 DEF Planning, Pokemons
  <2>2. [Choice' EXCEPT !.target = p].id = Choice'.id
    BY <2>1, TargetRecord
  <2>3. ASSUME NEW t
        PROVE  /\ DropOne(t) = 0 /\ DropOne(t)' = One(Choice'.id = t)
               /\ Listed(ready', t) = Listed(ready, t) + One(Choice'.id = t)
               /\ FreeOf(t)' = FreeOf(t)
    BY <2>1, <2>2 DEF DropOne, One, Longer, FreeOf
  <2>4. ASSUME NEW t PROVE Listed(ready', t) >= Listed(ready, t) /\ Sits(t)' >= Sits(t)
    BY <1>1, <2>1, <2>3 DEF Sits, Seats, One
  <2> QED BY <2>1, <2>4 DEF SeatsKept
<1>4. CASE Drop
  <2>1. /\ UNCHANGED <<ready, exec, runner>> /\ closer.pc = "drop" /\ closer'.pc = "unlock"
        /\ Choice.id = BeingDropped
        /\ \/ UNCHANGED blocked /\ Shorter(new, new', Choice)
           \/ /\ UNCHANGED new /\ Choice.state = "AVAILABLE"
              /\ Shorter(blocked, blocked', Choice)
    BY <1>4, DropStep DEF Dropped
  <2>2. ASSUME NEW t
        PROVE  /\ DropOne(t)' = 0 /\ DropOne(t) = One(Choice.id = t)
               /\ Listed(new', t) + FreeOf(t)' = Listed(new, t) + FreeOf(t) - One(Choice.id = t)
    <3>1. DropOne(t)' = 0 /\ DropOne(t) = One(Choice.id = t)
      BY <2>1 DEF DropOne, One
    <3>2. CASE UNCHANGED blocked /\ Shorter(new, new', Choice)
      BY <1>1, <3>1, <3>2 DEF Shorter, FreeOf, One
    <3>3. CASE /\ UNCHANGED new /\ Choice.state = "AVAILABLE"
               /\ Shorter(blocked, blocked', Choice)
      BY <1>1, <3>1, <3>3 DEF Shorter, FreeOf, One
    <3> QED BY <2>1, <3>1, <3>2, <3>3
  <2>3. ASSUME NEW t PROVE Listed(ready', t) >= Listed(ready, t) /\ Sits(t)' >= Sits(t)
    BY <1>1, <2>1, <2>2 DEF Sits, Seats, One
  <2> QED BY <2>1, <2>3 DEF SeatsKept
<1> QED BY <1>2, <1>3, <1>4, PlanStep DEF Closer, Quiet

LEMMA SeatsKeepLeave ==
  ASSUME TypeOK, TypeOK', LeaveInv, SeatsKept, exec'.trainer.id = exec.trainer.id,
         runner'.pc \in {"release", "giveWay"} =>
           runner'.pc = runner.pc /\ runner'.post = runner.post
  PROVE  LeaveInv'
<1> DEFINE u == exec.trainer.id
<1>1. LeaveSits
  BY LeaveForm
<1>2. TypeOK' => (LeaveInv' <=> LeaveSits')
  BY LeaveForm, PTL
<1>3. AllListed /\ AllListed' /\ AllPlaces /\ AllPlaces'
  <2>1. TypeOK' => AllListed' /\ AllPlaces'
    BY ArePlaces, AreListed, PTL
  <2> QED BY <2>1, AreListed, ArePlaces
<1> DEFINE l == Listed(ready, u)
           ll == Listed(ready', u)
           d == DropOne(u)
           dd == One(closer'.pc = "drop" /\ BeingDropped' = u)
           s == Seats(u)
           ss == Listed(new', u) + Listed(ready', u) + CountOf(blocked', "AVAILABLE", u)
<1>4. ll >= l /\ ss - dd >= s - d
  BY DEF SeatsKept, Sits, Seats, FreeOf, DropOne
<1>5. l \in Nat /\ ll \in Nat /\ s \in Nat /\ ss \in Nat /\ d \in 0 .. 1 /\ dd \in 0 .. 1
  <2>1. l \in Nat /\ s \in Nat
    BY <1>3 DEF AllListed, ListedNumbers, AllPlaces, Places
  <2>2. ll \in Nat /\ ss \in Nat
    BY <1>3 DEF AllListed, ListedNumbers, AllPlaces, Places, Seats, FreeOf
  <2> QED BY <2>1, <2>2 DEF DropOne, One
<1>6. LeaveSits' <=> /\ runner'.pc = "giveWay" => ll >= 1
                     /\ runner'.pc = "release" /\ runner'.post = "availableTrainersCount" =>
                          ss - dd >= 1
  BY DEF LeaveSits, Sits, Seats, FreeOf, DropOne
<1>7. LeaveSits <=> /\ runner.pc = "giveWay" => l >= 1
                    /\ runner.pc = "release" /\ runner.post = "availableTrainersCount" =>
                         s - d >= 1
  BY DEF LeaveSits, Sits
<1> HIDE DEF u, l, ll, d, dd, s, ss
<1> QED BY <1>1, <1>2, <1>4, <1>5, <1>6, <1>7

LEMMA CloserKeepsLeave ==
  ASSUME Base, LeaveInv, Closer
  PROVE  LeaveInv'
<1>1. TypeOK /\ TypeOK'
  BY CloserKeepsBase DEF Base, Sound
<1>2. SeatsKept /\ UNCHANGED <<exec, runner>>
  BY CloserSeats
<1> QED BY <1>1, <1>2, SeatsKeepLeave

LEMMA OutsideKeepsLeave ==
  ASSUME Base, LeaveInv, Outside
  PROVE  LeaveInv'
<1> USE DEF Base
<1>1. UNCHANGED <<new, ready, blocked, exec, closer, runner>>
  <2>1. ASSUME NEW p \in Arrivals, Appearing(p)
        PROVE  UNCHANGED <<new, ready, blocked, exec, closer, runner>>
    BY <2>1, AppearingStep DEF lists
  <2>2. ASSUME NEW s \in {"deadlockCount", "exitCount"}, TakeAll(s)
        PROVE  UNCHANGED <<new, ready, blocked, exec, closer, runner>>
    BY <2>2, TakeAllStep DEF lists, Others, Semaphores
  <2> QED BY <2>1, <2>2 DEF Outside, StartSearch, Finish
<1> QED BY <1>1 DEF LeaveInv, Seats, FreeOf, DropOne, BeingDropped

LEMMA RunKeepsLeave ==
  ASSUME Base, \A t \in Trainers : OneList(t), LeaveInv, Runner
  PROVE  LeaveInv'
<1> USE DEF Base
<1>0. TypeOK /\ TypeOK'
  BY RunKeepsBase DEF Base, Sound
<1>1. ASSUME runner'.pc \notin {"release", "giveWay"} PROVE LeaveInv'
  BY <1>1 DEF LeaveInv
<1>2. ASSUME Place PROVE LeaveInv'
  <2> DEFINE u == exec.trainer.id
  <2>1. Runs("place", "release") /\ runner.pc = "place" /\ runner'.pc = "release"
        /\ UNCHANGED <<ready, new, closer>>
    BY <1>2, PlaceStep DEF Runs, Apart
  <2>2. CASE runner'.post # "availableTrainersCount"
    BY <2>1, <2>2 DEF LeaveInv
  <2>3. CASE runner'.post = "availableTrainersCount"
    <3>1. Stays /\ HasRoom(exec.trainer)
      BY <1>2, <2>3, PlaceStep DEF Ended, Stays
    <3>2. Longer(blocked, blocked', exec'.trainer) /\ exec'.trainer.state = "AVAILABLE"
          /\ exec'.trainer.id = u
      BY <3>1 DEF Stays
    <3>3. u \in Trainers /\ Seats(u) >= DropOne(u)
      <4>1. u \in Trainers
        BY <1>0, AllTypes DEF Execs, TrainerRecords
      <4> QED BY <2>1, <4>1, PlacedIsNew
    <3>4. CountOf(blocked', "AVAILABLE", u) = CountOf(blocked, "AVAILABLE", u) + 1
      BY <3>2 DEF Longer, One
    <3>5. closer'.pc = "drop" => BeingDropped' = BeingDropped
      <4>1. UNCHANGED Apart
        BY <2>1 DEF Runs
      <4>2. \E e : Longer(blocked, blocked', e)
        BY <3>2
      <4> QED BY <2>1, <4>1, <4>2, RunKeepsDropped
    <3> DEFINE s == Listed(new, u) + Listed(ready, u)
               f == CountOf(blocked, "AVAILABLE", u)
               d == DropOne(u)
    <3>6. s \in Nat /\ f \in Nat /\ d \in 0 .. 1 /\ s + f >= d
      <4>1. Listed(new, u) \in Nat /\ Listed(ready, u) \in Nat /\ f \in Nat
        BY <1>0, AreListed, ArePlaces DEF AllListed, ListedNumbers, AllPlaces, Places, FreeOf
      <4>2. d \in 0 .. 1
        BY AreOnes DEF Ones
      <4> QED BY <3>3, <4>1, <4>2 DEF Seats, FreeOf
    <3>7. DropOne(exec.trainer.id)' = d
      BY <2>1, <3>2, <3>5 DEF DropOne, One
    <3>8. Seats(exec.trainer.id)' = s + (f + 1)
      BY <2>1, <3>2, <3>4 DEF Seats, FreeOf
    <3> HIDE DEF s, f, d
    <3>9. Seats(exec.trainer.id)' >= 1 + DropOne(exec.trainer.id)'
      BY <3>6, <3>7, <3>8
    <3> QED BY <2>1, <3>9 DEF LeaveInv
  <2> QED BY <2>2, <2>3
<1>3. ASSUME GiveWay PROVE LeaveInv'
  <2>1. runner'.pc = "giveWay" /\ UNCHANGED exec /\ Longer(ready, ready', exec.trainer)
    BY <1>3, GiveWayStep DEF Runs
  <2>2. Listed(ready, exec.trainer.id) \in Nat
    BY <1>0, AreListed DEF AllListed, ListedNumbers
  <2>3. Listed(ready', exec.trainer.id) = Listed(ready, exec.trainer.id) + 1
    BY <2>1 DEF Longer, One
  <2> QED BY <2>1, <2>2, <2>3 DEF LeaveInv
<1>4. ASSUME NEW from, NEW to, Runs(from, to), to \notin {"release", "giveWay"}
      PROVE  LeaveInv'
  BY <1>1, <1>4 DEF Runs
<1>5. CASE WaitReady
  BY <1>4, <1>5, WaitReadyStep
<1>6. CASE WaitExec
  BY <1>4, <1>6, WaitExecStep
<1>7. CASE AddToExec
  BY <1>4, <1>7, AddToExecStep
<1>8. CASE RemoveFromReady
  BY <1>4, <1>8, RemoveFromReadyStep
<1>9. CASE Move
  BY <1>4, <1>9, MoveStep
<1>10. CASE Catch
  BY <1>4, <1>10, CatchStep
<1>11. CASE Release \/ Preempt \/ GaveWay
  BY <1>4, <1>11, RemoveFromExecStep DEF Release, Preempt, GaveWay, RunnerPcs
<1>12. CASE PostPlaced
  BY <1>4, <1>12, PostPlacedStep
<1>13. CASE Requeue
  BY <1>4, <1>13, RequeueStep
<1> QED BY <1>2, <1>3, <1>5, <1>6, <1>7, <1>8, <1>9, <1>10, <1>11, <1>12, <1>13
        DEF Runner, Schedule

(* Sums of ones and of zeros, and what follows when each trainer counts at *)
(* most once.                                                              *)
LEMMA TotalConstant ==
  ASSUME NEW S, IsFiniteSet(S), NEW k \in {0, 1}, NEW f \in [S -> {k}]
  PROVE  Total(f) = IF k = 1 THEN Cardinality(S) ELSE 0
<1> DEFINE Good == {T \in SUBSET S : Over(f, T) = IF k = 1 THEN Cardinality(T) ELSE 0}
<1>1. ASSUME NEW T \in SUBSET S, \A U \in SUBSET T : U # T => U \in Good
      PROVE  T \in Good
  <2>1. CASE T = {}
    BY <2>1, OverEmpty, FS_EmptySet
  <2>2. CASE T # {}
    <3> DEFINE a == First(T)
               U == T \ {a}
    <3>1. a \in T /\ U # T /\ IsFiniteSet(T) /\ U \in SUBSET T
      BY <2>2, FirstIsIn, FS_Subset
    <3>2. Over(f, T) = f[a] + Over(f, U) /\ f[a] = k
      BY <2>2, <3>1, OverFirst
    <3>3. Over(f, U) = IF k = 1 THEN Cardinality(U) ELSE 0
      BY <1>1, <3>1
    <3>4. Cardinality(U) = Cardinality(T) - 1 /\ Cardinality(T) \in Nat
      BY <3>1, FS_RemoveElement, FS_CardinalityType
    <3> HIDE DEF a, U
    <3> QED BY <3>2, <3>3, <3>4
  <2> QED BY <2>1, <2>2
<1>2. \A T \in SUBSET S : T \in Good
  <2> HIDE DEF Good
  <2> QED BY <1>1, SubsetInduction
<1>3. DOMAIN f = S /\ S \in SUBSET S
  OBVIOUS
<1> QED BY <1>2, <1>3, TotalIsOver

LEMMA EachCountsOnce ==
  ASSUME NEW f \in [Trainers -> Int], \A t \in Trainers : f[t] \in 0 .. 1
  PROVE  /\ Total(f) <= trainersCount
         /\ Total(f) = trainersCount => \A t \in Trainers : f[t] = 1
<1> DEFINE ones == [t \in Trainers |-> 1]
<1>1. IsFiniteSet(Trainers) /\ trainersCount \in Nat /\ Total(f) \in Int
  BY PlannerAssumption, Teams, TotalInt
<1>2. ones \in [Trainers -> Int] /\ ones \in [Trainers -> {1}] /\ \A t \in Trainers : ones[t] = 1
  OBVIOUS
<1> HIDE DEF ones
<1>3. Total(ones) = trainersCount
  BY <1>1, <1>2, TotalConstant DEF trainersCount
<1>4. Total(f) <= trainersCount
  BY <1>1, <1>2, <1>3, TotalBelow
<1>5. ASSUME NEW t \in Trainers, f[t] = 0 PROVE Total(f) + 1 <= trainersCount
  <2> DEFINE g == [f EXCEPT ![t] = 1]
  <2>1. /\ g \in [Trainers -> Int] /\ g[t] = 1 /\ (\A s \in Trainers \ {t} : g[s] = f[s])
        /\ \A s \in Trainers : g[s] <= ones[s]
    BY <1>2
  <2> HIDE DEF g
  <2>2. Total(g) = Total(f) - f[t] + g[t]
    BY <1>1, <2>1, TotalChange
  <2>3. Total(g) <= Total(ones)
    BY <1>1, <1>2, <2>1, TotalBelow
  <2> QED BY <1>1, <1>3, <1>5, <2>1, <2>2, <2>3
<1> QED BY <1>1, <1>4, <1>5

LEMMA AllAreFull ==
  ASSUME Base, EndInv, flagDeadLock
  PROVE  PostsFull = 0 /\ \A t \in Trainers : FullOf(t) = 1
<1>1. FullTypes /\ AllPlaces /\ sem["deadlockCount"] \in Nat /\ PostsFull \in 0 .. 1
  BY AllTypes, FullsTyped, ArePlaces DEF Base, Sound, Semaphores, PostsFull, One
<1>2. sem["deadlockCount"] + (trainersCount + 1) + PostsFull = 1 + Total(Fulls)
  BY DEF EndInv, AllTaken
<1>3. \A t \in Trainers : Fulls[t] = FullOf(t) /\ Fulls[t] \in 0 .. 1
  BY <1>1 DEF Fulls, EndInv, AllPlaces, Places
<1>4. /\ Total(Fulls) <= trainersCount
      /\ Total(Fulls) = trainersCount => \A t \in Trainers : Fulls[t] = 1
  BY <1>1, <1>3, EachCountsOnce DEF FullTypes
<1>5. trainersCount \in Nat /\ Total(Fulls) \in Int
  BY <1>1 DEF FullTypes
<1>6. Total(Fulls) = trainersCount /\ PostsFull = 0
  BY <1>1, <1>2, <1>4, <1>5
<1> QED BY <1>3, <1>4, <1>6

(* Besides the full copy a trainer has the one that is to be dropped. *)
Beside(t) ==
  /\ ExecOne(t) + Listed(new, t) + Listed(ready, t) + FreeOf(t)
       <= DropOne(t) + TwiceOne(t) - BetweenOne(t)
  /\ Listed(blocked, t) - CountOf(blocked, "DEADLOCK", t) + ExecOne(t) + Listed(new, t) + Listed(ready, t)
       = DropOne(t) + TwiceOne(t) - BetweenOne(t)

LEMMA OnlyDropped ==
  ASSUME Base, NEW t \in Trainers, OneList(t), FullOf(t) = 1
  PROVE  Beside(t)
<1>1. Places(t) /\ ListedNumbers(t) /\ Ones(t)
  BY AreListed, ArePlaces, AreOnes DEF Base, Sound, AllListed, AllPlaces
<1> DEFINE n == Listed(new, t)
           r == Listed(ready, t)
           b == Listed(blocked, t)
           e == Listed(exit, t)
           f == FreeOf(t)
           c == CountOf(blocked, "DEADLOCK", t)
           x == ExecOne(t)
           m == DropOne(t) + TwiceOne(t) - BetweenOne(t)
<1>2. /\ n \in Nat /\ r \in Nat /\ b \in Nat /\ e \in Nat /\ f \in Nat /\ c \in Nat /\ x \in Nat
      /\ m \in Int /\ b >= f + c
  BY <1>1 DEF Places, ListedNumbers, Ones
<1>3. x + (n + r + b + e) = 1 + m
  BY <1>1 DEF OneListOf, OneList, InLists, Ones
<1>4. e + c = 1
  BY DEF FullOf
<1>5. Beside(t) <=> x + n + r + f <= m /\ b - c + x + n + r = m
  BY DEF Beside
<1> HIDE DEF n, r, b, e, f, c, x, m
<1> QED BY <1>2, <1>3, <1>4, <1>5

LEMMA NobodyExecutes ==
  ASSUME Base, \A t \in Trainers : OneList(t), LeaveInv, EndInv, flagDeadLock
  PROVE  ~exec.on
<1> SUFFICES ASSUME exec.on PROVE FALSE
  OBVIOUS
<1> DEFINE u == exec.trainer.id
<1>1. u \in Trainers
  BY AllTypes DEF Base, Sound, Execs, TrainerRecords
<1>2. Beside(u) /\ PostsFull = 0
  BY <1>1, AllAreFull, OnlyDropped
<1>3. runner.pc \in Executing /\ ExecOne(u) = 1 /\ BetweenOne(u) = 0
      /\ TwiceOne(u) = One(runner.pc \in {"remove", "release", "giveWay"})
  BY DEF Base, Sound, RunnerInv, ExecOne, TwiceOne, BetweenOne, One, Executing, AskingPcs
<1>4. Listed(new, u) + FreeOf(u) >= DropOne(u)
  BY DroppedSits
<1>5. ListedNumbers(u) /\ Places(u) /\ Ones(u)
  BY AreListed, ArePlaces, AreOnes DEF Base, Sound, AllListed, AllPlaces
<1>6. CASE runner.pc \in {"remove", "giveWay"}
  <2>1. Listed(ready, u) >= 1
    <3>1. CASE runner.pc = "giveWay"
      BY <3>1 DEF LeaveInv
    <3>2. CASE runner.pc = "remove"
      <4>1. runner.pos \in DOMAIN ready /\ ready[runner.pos].id = u /\ ready \in Seq(TrainerRecords)
        BY <3>2, AllTypes DEF Base, Sound, RunnerInv
      <4>2. ready[runner.pos] \in WithId(u)
        BY <4>1 DEF WithId
      <4> QED BY <4>1, <4>2, HitsOne, ListedHits
    <3> QED BY <1>6, <3>1, <3>2
  <2>2. TwiceOne(u) = 1
    BY <1>3, <1>6 DEF One
  <2> QED BY <1>2, <1>3, <1>4, <1>5, <2>1, <2>2 DEF Beside, ListedNumbers, Places, Ones
<1>7. CASE runner.pc = "release"
  <2>1. runner.post = "availableTrainersCount"
    BY <1>2, <1>7 DEF Base, Sound, RunnerInv, PostsFull, One
  <2>2. Seats(u) >= 1 + DropOne(u)
    BY <1>7, <2>1 DEF LeaveInv
  <2>3. TwiceOne(u) = 1
    BY <1>3, <1>7 DEF One
  <2> QED BY <1>2, <1>3, <1>5, <2>2, <2>3 DEF Beside, ListedNumbers, Places, Ones, Seats
<1>8. CASE runner.pc \notin {"remove", "release", "giveWay"}
  <2>1. TwiceOne(u) = 0
    BY <1>3, <1>8 DEF One
  <2> QED BY <1>2, <1>3, <1>4, <1>5, <2>1 DEF Beside, ListedNumbers, Places, Ones
<1> QED BY <1>6, <1>7, <1>8

LEMMA OthersWait ==
  ASSUME Base, \A t \in Trainers : OneList(t), LeaveInv, EndInv, flagDeadLock,
         NEW t \in Trainers
  PROVE  /\ Listed(ready, t) = 0
         /\ Listed(new, t) + (Listed(blocked, t) - CountOf(blocked, "DEADLOCK", t)) = DropOne(t)
<1>1. Beside(t) /\ ~exec.on
  BY AllAreFull, OnlyDropped, NobodyExecutes
<1>2. ExecOne(t) = 0 /\ TwiceOne(t) = 0
  BY <1>1 DEF Base, Sound, RunnerInv, ExecOne, TwiceOne, One, Executing
<1>3. Listed(new, t) + FreeOf(t) >= DropOne(t)
  BY DroppedSits
<1>4. ListedNumbers(t) /\ Places(t) /\ Ones(t)
  BY AreListed, ArePlaces, AreOnes DEF Base, Sound, AllListed, AllPlaces
<1> DEFINE n == Listed(new, t)
           r == Listed(ready, t)
           b == Listed(blocked, t)
           f == FreeOf(t)
           c == CountOf(blocked, "DEADLOCK", t)
           d == DropOne(t)
           w == BetweenOne(t)
<1>5. /\ n \in Nat /\ r \in Nat /\ b \in Nat /\ f \in Nat /\ c \in Nat /\ d \in Nat /\ w \in Nat
      /\ n + f >= d
  BY <1>3, <1>4 DEF ListedNumbers, Places, Ones
<1>6. 0 + n + r + f <= d + 0 - w /\ b - c + 0 + n + r = d + 0 - w
  BY <1>1, <1>2 DEF Beside
<1> HIDE DEF n, r, b, f, c, d, w
<1>7. r = 0 /\ n + (b - c) = d
  BY <1>5, <1>6
<1> QED BY <1>7 DEF n, r, b, c, d

Rest(t) == WithId(t) \ OfBoth("DEADLOCK", t)

LEMMA RestOfBlocked ==
  ASSUME TypeOK, NEW t
  PROVE  /\ Hits(blocked, Rest(t)) = Listed(blocked, t) - CountOf(blocked, "DEADLOCK", t)
         /\ Hits(blocked, Rest(t)) \in Nat
<1> DEFINE D == OfBoth("DEADLOCK", t)
           R == Rest(t)
<1>1. blocked \in Seq(TrainerRecords)
  BY AllTypes
<1>2. D \cap R = {} /\ WithId(t) = D \cup R
  BY DEF OfBoth, WithId, Rest
<1>3. Listed(blocked, t) = Hits(blocked, WithId(t)) /\ CountOf(blocked, "DEADLOCK", t) = Hits(blocked, D)
  BY <1>1, ListedHits DEF CountOf
<1> HIDE DEF D, R
<1>4. Hits(blocked, D \cup R) = Hits(blocked, D) + Hits(blocked, R)
  BY <1>1, <1>2, HitsApart
<1>5. Hits(blocked, D) \in Nat /\ Hits(blocked, R) \in Nat
  BY <1>1, HitsNat
<1>6. Hits(blocked, R) = Listed(blocked, t) - CountOf(blocked, "DEADLOCK", t)
  BY <1>2, <1>3, <1>4, <1>5
<1> QED BY <1>5, <1>6 DEF R

Searching ==
  /\ ready = <<>> /\ ~exec.on
  /\ \A i \in DOMAIN new : Dropping("new", i)
  /\ \A i \in DOMAIN blocked :
       blocked[i].state = "DEADLOCK" \/ Dropping("blocked", i)

LEMMA SearchFindsAllFull ==
  ASSUME Base, \A t \in Trainers : OneList(t), LeaveInv, EndInv, flagDeadLock
  PROVE  Searching
<1>1. /\ new \in Seq(TrainerRecords) /\ ready \in Seq(TrainerRecords)
      /\ blocked \in Seq(TrainerRecords) /\ closer.list \in {"new", "blocked"} /\ TypeOK
  BY AllTypes DEF Base, Sound, Closers
<1>2. ASSUME NEW t \in Trainers
      PROVE  /\ Listed(ready, t) = 0 /\ Listed(new, t) \in Nat /\ Hits(blocked, Rest(t)) \in Nat
             /\ Listed(new, t) + Hits(blocked, Rest(t)) = DropOne(t) /\ DropOne(t) \in 0 .. 1
             /\ Listed(ready, t) = Hits(ready, WithId(t))
             /\ Listed(new, t) = Hits(new, WithId(t))
  BY <1>1, OthersWait, RestOfBlocked, AreListed, AreOnes, ListedHits
     DEF AllListed, ListedNumbers, Ones
<1>3. ready = <<>>
  <2>1. ASSUME NEW i \in DOMAIN ready PROVE FALSE
    <3>1. ready[i] \in TrainerRecords
      BY <1>1
    <3>2. ready[i] \in WithId(ready[i].id) /\ ready[i].id \in Trainers
      BY <3>1 DEF WithId, TrainerRecords
    <3>3. Hits(ready, WithId(ready[i].id)) >= 1
      BY <1>1, <3>2, HitsOne
    <3> QED BY <1>2, <3>2, <3>3
  <2>2. ready # <<>> => 1 \in DOMAIN ready
    BY <1>1
  <2> QED BY <2>1, <2>2
<1>4. ASSUME NEW t \in Trainers, DropOne(t) >= 1
      PROVE  /\ closer.pc = "drop" /\ DropOne(t) = 1
             /\ \/ /\ closer.list = "new" /\ closer.pos \in DOMAIN new
                   /\ new[closer.pos] \in WithId(t)
                \/ /\ closer.list = "blocked" /\ closer.pos \in DOMAIN blocked
                   /\ blocked[closer.pos] \in Rest(t)
  <2>1. closer.pc = "drop" /\ BeingDropped = t /\ DropOne(t) = 1
    BY <1>4 DEF DropOne, One
  <2>2. CASE closer.list = "new"
    <3>1. closer.pos \in DOMAIN new /\ new[closer.pos].id = t
      BY <2>1, <2>2 DEF Base, CloserInv, BeingDropped
    <3> QED BY <1>1, <2>1, <2>2, <3>1 DEF WithId
  <2>3. CASE closer.list = "blocked"
    <3>1. closer.pos \in DOMAIN blocked /\ blocked[closer.pos].id = t
          /\ blocked[closer.pos].state = "AVAILABLE"
      BY <2>1, <2>3 DEF Base, CloserInv, BeingDropped, Free
    <3> QED BY <1>1, <2>1, <2>3, <3>1 DEF WithId, Rest, OfBoth
  <2> QED BY <1>1, <2>1, <2>2, <2>3
<1>5. ASSUME NEW i \in DOMAIN new PROVE Dropping("new", i)
  <2> DEFINE t == new[i].id
  <2>1. new[i] \in WithId(t) /\ t \in Trainers
    <3>1. new[i] \in TrainerRecords
      BY <1>1
    <3> QED BY <3>1 DEF WithId, TrainerRecords
  <2> HIDE DEF t
  <2>2. Hits(new, WithId(t)) >= 1
    BY <1>1, <2>1, HitsOne
  <2>3. DropOne(t) >= 1 /\ Listed(new, t) = 1 /\ Hits(blocked, Rest(t)) = 0
    BY <1>2, <2>1, <2>2
  <2>4. CASE closer.list = "new"
    <3>1. closer.pc = "drop" /\ closer.pos \in DOMAIN new /\ new[closer.pos] \in WithId(t)
      BY <1>4, <2>1, <2>3, <2>4
    <3>2. CASE closer.pos # i
      <4>1. Hits(new, WithId(t)) >= 2
        BY <1>1, <2>1, <3>1, <3>2, HitsTwo
      <4> QED BY <1>2, <2>1, <2>3, <4>1
    <3> QED BY <2>4, <3>1, <3>2 DEF Dropping
  <2>5. CASE closer.list # "new"
    <3>1. closer.pos \in DOMAIN blocked /\ blocked[closer.pos] \in Rest(t)
      BY <1>4, <2>1, <2>3, <2>5
    <3>2. Hits(blocked, Rest(t)) >= 1
      BY <1>1, <3>1, HitsOne
    <3> QED BY <2>3, <3>2
  <2> QED BY <2>4, <2>5
<1>6. ASSUME NEW i \in DOMAIN blocked, blocked[i].state # "DEADLOCK"
      PROVE  Dropping("blocked", i)
  <2> DEFINE t == blocked[i].id
  <2>1. blocked[i] \in Rest(t) /\ t \in Trainers
    <3>1. blocked[i] \in TrainerRecords
      BY <1>1
    <3> QED BY <1>6, <3>1 DEF WithId, Rest, OfBoth, TrainerRecords
  <2> HIDE DEF t
  <2>2. Hits(blocked, Rest(t)) >= 1
    BY <1>1, <2>1, HitsOne
  <2>3. DropOne(t) >= 1 /\ Listed(new, t) = 0 /\ Hits(blocked, Rest(t)) = 1
    BY <1>2, <2>1, <2>2
  <2>4. CASE closer.list = "blocked"
    <3>1. closer.pc = "drop" /\ closer.pos \in DOMAIN blocked /\ blocked[closer.pos] \in Rest(t)
      BY <1>4, <2>1, <2>3, <2>4
    <3>2. CASE closer.pos # i
      <4>1. Hits(blocked, Rest(t)) >= 2
        BY <1>1, <2>1, <3>1, <3>2, HitsTwo
      <4> QED BY <2>3, <4>1
    <3> QED BY <2>4, <3>1, <3>2 DEF Dropping
  <2>5. CASE closer.list # "blocked"
    <3>1. closer.pos \in DOMAIN new /\ new[closer.pos] \in WithId(t)
      BY <1>4, <2>1, <2>3, <2>5
    <3>2. Hits(new, WithId(t)) >= 1
      BY <1>1, <3>1, HitsOne
    <3> QED BY <1>2, <2>1, <2>3, <3>2
  <2> QED BY <2>4, <2>5
<1>7. ~exec.on
  BY NobodyExecutes
<1> QED BY <1>3, <1>5, <1>6, <1>7 DEF Searching

LEMMA AllHaveEnded ==
  ASSUME Base, EndInv, ~running
  PROVE  Trainers = {exit[i].id : i \in {i \in DOMAIN exit : ~HoldsOthers(exit[i])}}
<1>1. FullTypes /\ AllPlaces /\ AllListed /\ sem["exitCount"] \in Nat
      /\ exit \in Seq(TrainerRecords)
  BY AllTypes, FullsTyped, ArePlaces, AreListed DEF Base, Sound, Semaphores
<1>2. sem["exitCount"] + (trainersCount + 1) = 1 + Total(Exits)
  BY DEF EndInv, AllTaken
<1>3. ASSUME NEW t \in Trainers PROVE Exits[t] = Listed(exit, t) /\ Exits[t] \in 0 .. 1
  BY <1>1 DEF Exits, EndInv, FullOf, AllPlaces, Places, AllListed, ListedNumbers
<1>4. /\ Total(Exits) <= trainersCount
      /\ Total(Exits) = trainersCount => \A t \in Trainers : Exits[t] = 1
  BY <1>1, <1>3, EachCountsOnce DEF FullTypes
<1>5. trainersCount \in Nat /\ Total(Exits) \in Int
  BY <1>1 DEF FullTypes
<1>6. Total(Exits) = trainersCount
  BY <1>1, <1>2, <1>4, <1>5
<1>7. ASSUME NEW t \in Trainers PROVE \E i \in DOMAIN exit : exit[i].id = t
  <2>1. Hits(exit, WithId(t)) = 1
    BY <1>1, <1>3, <1>4, <1>6, ListedHits
  <2>2. PICK i \in DOMAIN exit : exit[i] \in WithId(t)
    <3>1. Hits(exit, WithId(t)) >= 1
      BY <2>1
    <3> QED BY <1>1, <3>1, HitsNone
  <2> QED BY <2>2 DEF WithId
<1>8. \A i \in DOMAIN exit : exit[i].id \in Trainers /\ ~HoldsOthers(exit[i])
  <2>1. \A i \in DOMAIN exit : exit[i] \in TrainerRecords
    BY <1>1
  <2> QED BY <2>1 DEF EndInv, TrainerRecords
<1> QED BY <1>7, <1>8

LEMMA InitEnds ==
  ASSUME Init
  PROVE  LeaveInv /\ EndInv
<1>1. ready = <<>> /\ blocked = <<>> /\ exit = <<>>
      /\ runner.pc = "ready" /\ ~flagDeadLock /\ running
      /\ sem["deadlockCount"] = 1 /\ sem["exitCount"] = 1
  BY DEF Init, IdleRunner, Semaphores
<1>2. IsFiniteSet(Trainers)
  BY PlannerAssumption
<1>3. \A t \in Trainers : FullOf(t) = 0 /\ Listed(exit, t) = 0
  BY <1>1, CountsEmpty DEF FullOf
<1>4. Fulls \in [Trainers -> {0}] /\ Exits \in [Trainers -> {0}]
  BY <1>3 DEF Fulls, Exits
<1> HIDE DEF Fulls, Exits
<1>5. Total(Fulls) = 0 /\ Total(Exits) = 0
  <2> DEFINE z == 0
  <2>1. z \in {0, 1} /\ z # 1 /\ Fulls \in [Trainers -> {z}] /\ Exits \in [Trainers -> {z}]
    BY <1>4
  <2> HIDE DEF z
  <2> QED BY <1>2, <2>1, TotalConstant
<1>6. PostsFull = 0
  BY <1>1 DEF PostsFull, One
<1> QED BY <1>1, <1>3, <1>5, <1>6 DEF LeaveInv, EndInv, AllTaken

EndCore == Core /\ LeaveInv /\ EndInv

LEMMA EndCoreStep ==
  ASSUME EndCore, [Next]_vars
  PROVE  EndCore'
<1>1. Core' /\ Base /\ \A t \in Trainers : OneList(t)
  BY CoreStep DEF EndCore, Core
<1>2. CASE Closer
  BY <1>1, <1>2, CloserKeepsLeave, CloserKeepsEnd DEF EndCore
<1>3. CASE Runner
  BY <1>1, <1>3, RunKeepsLeave, RunKeepsEnd DEF EndCore
<1>4. CASE Outside /\ running
  BY <1>1, <1>4, OutsideKeepsLeave, OutsideKeepsEnd DEF EndCore
<1>5. CASE UNCHANGED vars
  <2>1. UNCHANGED <<new, ready, blocked, exit, exec, sem, closer, runner, flagDeadLock, running>>
    BY <1>5 DEF vars, lists, ends
  <2>2. LeaveInv'
    BY <2>1 DEF EndCore, LeaveInv, Seats, FreeOf, DropOne, BeingDropped
  <2>3. EndInv'
    BY <2>1 DEF EndCore, EndInv, Fulls, Exits, FullOf, PostsFull, HoldsOthers
  <2> QED BY <1>1, <2>2, <2>3 DEF EndCore
<1> QED BY <1>2, <1>3, <1>4, <1>5 DEF Next, Outside

(* The search for deadlocks begins when every trainer is full and waits or *)
(* has ended, and the process ends when all have what they want: the       *)
(* threads that only count posts of semaphores never start early.          *)
THEOREM SearchStartsInTime == Spec => []DetectsWhenAllFull
<1>1. Init => EndCore
  BY InitBase, InitCounts, InitEnds DEF EndCore, Core
<1>2. EndCore /\ [Next]_vars => EndCore'
  BY EndCoreStep
<1>3. EndCore => DetectsWhenAllFull
  BY SearchFindsAllFull, AllHaveEnded DEF EndCore, Core, DetectsWhenAllFull, Searching
<1> QED BY <1>1, <1>2, <1>3, PTL DEF Spec

-----------------------------------------------------------------------------
(* While the team has room it misses something.  The invariant gives every *)
(* trainer what it holds, h, whichever of its copies one looks at: all are *)
(* alike but the one that is to be dropped, which has caught no more.  The *)
(* room that h leaves is what the team has to catch, and it falls by one   *)
(* with a catch, as what is missing does at most.                          *)

Rooms(h) == [t \in Trainers |-> Total(Objectives[t]) - Total(h[t])]

(* Sums of sums. *)
LEMMA TotalMinus ==
  ASSUME NEW S, IsFiniteSet(S), NEW f \in [S -> Int], NEW g \in [S -> Int],
         NEW d \in [S -> Int], \A x \in S : d[x] = f[x] - g[x]
  PROVE  Total(d) = Total(f) - Total(g)
<1> DEFINE Good == {T \in SUBSET S : Over(d, T) = Over(f, T) - Over(g, T)}
<1>1. ASSUME NEW T \in SUBSET S, \A U \in SUBSET T : U # T => U \in Good
      PROVE  T \in Good
  <2>1. CASE T = {}
    BY <2>1, OverEmpty
  <2>2. CASE T # {}
    <3> DEFINE a == First(T)
               U == T \ {a}
    <3>1. a \in T /\ U # T /\ IsFiniteSet(T) /\ U \in SUBSET S /\ U \in SUBSET T
      BY <2>2, FirstIsIn, FS_Subset
    <3>2. /\ Over(d, T) = d[a] + Over(d, U) /\ Over(f, T) = f[a] + Over(f, U)
          /\ Over(g, T) = g[a] + Over(g, U)
      BY <2>2, <3>1, OverFirst
    <3>3. Over(d, U) = Over(f, U) - Over(g, U)
      BY <1>1, <3>1
    <3>4. Over(f, U) \in Int /\ Over(g, U) \in Int
      BY <3>1, OverInt
    <3>5. d[a] = f[a] - g[a] /\ f[a] \in Int /\ g[a] \in Int
      BY <3>1
    <3> HIDE DEF a, U
    <3> QED BY <3>2, <3>3, <3>4, <3>5
  <2> QED BY <2>1, <2>2
<1>2. \A T \in SUBSET S : T \in Good
  <2> HIDE DEF Good
  <2> QED BY <1>1, SubsetInduction
<1>3. DOMAIN f = S /\ DOMAIN g = S /\ DOMAIN d = S /\ S \in SUBSET S
  OBVIOUS
<1> QED BY <1>2, <1>3, TotalIsOver

(* Over the trainers of T: what they hold of each name, and of all.        *)
Column(f, s) == [t \in Trainers |-> f[t][s]]
Rows(f) == [t \in Trainers |-> Total(f[t])]
Columns(f, T) == [s \in Species |-> Over(Column(f, s), T)]

LEMMA ColumnStep ==
  ASSUME NEW f \in [Trainers -> [Species -> Int]], NEW T \in SUBSET Trainers, T # {}
  PROVE  Total(Columns(f, T)) = Total(f[First(T)]) + Total(Columns(f, T \ {First(T)}))
<1> DEFINE a == First(T)
           U == T \ {a}
<1>1. IsFiniteSet(Species) /\ IsFiniteSet(Trainers) /\ a \in T /\ IsFiniteSet(T)
      /\ U \in SUBSET Trainers
  BY PlannerAssumption, FirstIsIn, FS_Subset
<1>2. ASSUME NEW s \in Species, NEW V \in SUBSET Trainers
      PROVE  Over(Column(f, s), V) \in Int
  <2>1. \A t \in Trainers : Column(f, s)[t] \in Int
    BY DEF Column
  <2> QED BY <1>1, <2>1, OverInt
<1>3. ASSUME NEW s \in Species
      PROVE  Over(Column(f, s), T) = f[a][s] + Over(Column(f, s), U)
  <2>1. Column(f, s)[a] = f[a][s]
    BY <1>1 DEF Column
  <2> QED BY <1>1, <2>1, OverFirst
<1> HIDE DEF a, U
<1> DEFINE p == Columns(f, T)
           q == Columns(f, U)
           r == f[a]
<1>4. p \in [Species -> Int] /\ q \in [Species -> Int] /\ r \in [Species -> Int]
  BY <1>1, <1>2 DEF Columns
<1>5. \A s \in Species : r[s] = p[s] - q[s]
  BY <1>1, <1>2, <1>3, <1>4 DEF Columns
<1> HIDE DEF p, q, r
<1>6. Total(r) = Total(p) - Total(q)
  BY <1>1, <1>4, <1>5, TotalMinus
<1>7. Total(p) \in Int /\ Total(q) \in Int
  BY <1>1, <1>4, TotalInt
<1>8. Total(p) = Total(r) + Total(q)
  BY <1>6, <1>7
<1> QED BY <1>8 DEF a, U, p, q, r

LEMMA ColumnsAddUp ==
  ASSUME NEW f \in [Trainers -> [Species -> Int]]
  PROVE  Total(Rows(f)) = Total([s \in Species |-> TeamTotal(f, s)])
<1> DEFINE Good == {T \in SUBSET Trainers : Over(Rows(f), T) = Total(Columns(f, T))}
<1>1. IsFiniteSet(Species) /\ IsFiniteSet(Trainers)
  BY PlannerAssumption
<1>2. ASSUME NEW T \in SUBSET Trainers, \A U \in SUBSET T : U # T => U \in Good
      PROVE  T \in Good
  <2>1. CASE T = {}
    <3>1. Columns(f, T) \in [Species -> {0}]
      BY <2>1, OverEmpty DEF Columns
    <3>2. Total(Columns(f, T)) = 0
      <4> DEFINE z == 0
                 c == Columns(f, T)
      <4>1. z \in {0, 1} /\ z # 1 /\ c \in [Species -> {z}]
        BY <3>1
      <4> HIDE DEF z, c
      <4>2. Total(c) = 0
        BY <1>1, <4>1, TotalConstant
      <4> QED BY <4>2 DEF c
    <3> QED BY <2>1, <3>2, OverEmpty
  <2>2. CASE T # {}
    <3> DEFINE a == First(T)
               U == T \ {a}
    <3>1. a \in T /\ U # T /\ IsFiniteSet(T) /\ U \in SUBSET T
      BY <1>1, <2>2, FirstIsIn, FS_Subset
    <3>2. Over(Rows(f), T) = Rows(f)[a] + Over(Rows(f), U)
      BY <2>2, <3>1, OverFirst
    <3>3. Rows(f)[a] = Total(f[a])
      BY <3>1 DEF Rows
    <3>4. Over(Rows(f), U) = Total(Columns(f, U))
      BY <1>2, <3>1
    <3>5. Total(Columns(f, T)) = Total(f[a]) + Total(Columns(f, U))
      BY <2>2, ColumnStep
    <3> QED BY <3>2, <3>3, <3>4, <3>5
  <2> QED BY <2>1, <2>2
<1>3. \A T \in SUBSET Trainers : T \in Good
  <2> HIDE DEF Good
  <2> QED BY <1>1, <1>2, SubsetInduction
<1>4. Over(Rows(f), Trainers) = Total(Columns(f, Trainers))
  BY <1>3
<1>5. Total(Rows(f)) = Over(Rows(f), Trainers)
  BY TotalIsOver DEF Rows
<1>6. Columns(f, Trainers) = [s \in Species |-> TeamTotal(f, s)]
  <2>1. ASSUME NEW s \in Species PROVE Over(Column(f, s), Trainers) = TeamTotal(f, s)
    BY TotalIsOver DEF Column, TeamTotal
  <2> QED BY <2>1 DEF Columns
<1> QED BY <1>4, <1>5, <1>6

(* At the start the team misses as much as it has room for. *)
LEMMA StartRoom ==
  Total(Rooms(StartHeld)) = Total([s \in Species |-> Missing(s)])
<1> DEFINE o == Rows(Objectives)
           g == Rows(StartHeld)
           os == [s \in Species |-> TeamTotal(Objectives, s)]
           gs == [s \in Species |-> TeamTotal(StartHeld, s)]
           ms == [s \in Species |-> Missing(s)]
           r == Rooms(StartHeld)
<1>1. /\ Objectives \in [Trainers -> [Species -> Int]] /\ StartHeld \in [Trainers -> [Species -> Int]]
      /\ IsFiniteSet(Species) /\ IsFiniteSet(Trainers)
  BY PlannerAssumption
<1>2. \A t \in Trainers : Total(Objectives[t]) \in Int /\ Total(StartHeld[t]) \in Int
  BY <1>1, TotalInt
<1>3. ASSUME NEW f \in [Trainers -> [Species -> Int]], NEW s \in Species
      PROVE  TeamTotal(f, s) \in Int
  <2> DEFINE c == [t \in Trainers |-> f[t][s]]
  <2>1. c \in [Trainers -> Int]
    OBVIOUS
  <2>2. TeamTotal(f, s) = Total(c)
    BY DEF TeamTotal
  <2> HIDE DEF c
  <2> QED BY <1>1, <2>1, <2>2, TotalInt
<1>4. /\ o \in [Trainers -> Int] /\ g \in [Trainers -> Int] /\ r \in [Trainers -> Int]
      /\ \A t \in Trainers : r[t] = o[t] - g[t]
  BY <1>2 DEF Rows, Rooms
<1>5. /\ os \in [Species -> Int] /\ gs \in [Species -> Int] /\ ms \in [Species -> Int]
      /\ \A s \in Species : ms[s] = os[s] - gs[s]
  BY <1>1, <1>3 DEF Missing
<1>6. Total(o) = Total(os) /\ Total(g) = Total(gs)
  BY <1>1, ColumnsAddUp
<1> HIDE DEF o, g, os, gs, ms, r
<1>7. Total(r) = Total(o) - Total(g) /\ Total(ms) = Total(os) - Total(gs)
  <2>1. ASSUME NEW S, IsFiniteSet(S), NEW f \in [S -> Int], NEW k \in [S -> Int],
               NEW d \in [S -> Int], \A x \in S : d[x] = f[x] - k[x]
        PROVE  Total(d) = Total(f) - Total(k)
    BY <2>1, TotalMinus
  <2>2. Total(r) = Total(o) - Total(g)
    <3>1. r \in [Trainers -> Int] /\ o \in [Trainers -> Int] /\ g \in [Trainers -> Int]
      BY <1>4
    <3>2. \A t \in Trainers : r[t] = o[t] - g[t]
      BY <1>4
    <3>3. IsFiniteSet(Trainers)
      BY <1>1
    <3> QED BY <2>1, <3>1, <3>2, <3>3
  <2>3. Total(ms) = Total(os) - Total(gs)
    <3>1. ms \in [Species -> Int] /\ os \in [Species -> Int] /\ gs \in [Species -> Int]
      BY <1>5
    <3>2. \A t \in Species : ms[t] = os[t] - gs[t]
      BY <1>5
    <3>3. IsFiniteSet(Species)
      BY <1>1
    <3> QED BY <2>1, <3>1, <3>2, <3>3
  <2> QED BY <2>2, <2>3
<1>8. Total(r) = Total(ms)
  BY <1>6, <1>7
<1> QED BY <1>8 DEF r, ms

(* What the copies hold. *)
ListHeld(list, h) == \A i \in DOMAIN list : list[i].held = h[list[i].id]

HeldAs(h) ==
  /\ ListHeld(ready, h) /\ ListHeld(exit, h)
  /\ \A i \in DOMAIN new : Dropping("new", i) \/ new[i].held = h[new[i].id]
  /\ \A i \in DOMAIN blocked : Dropping("blocked", i) \/ blocked[i].held = h[blocked[i].id]
  /\ exec.on \/ runner.pc = "requeue" => exec.trainer.held = h[exec.trainer.id]
  /\ closer.pc = "drop" => Total(Choice.held) <= Total(h[Choice.id])

Holdings == [Trainers -> [Species -> Nat]]

HeldInv == \E h \in Holdings : HeldAs(h) /\ Total(Rooms(h)) <= Total(missing)

LEMMA LongerHeld ==
  ASSUME NEW list \in Seq(TrainerRecords), NEW now, NEW e, Longer(list, now, e),
         NEW h, ListHeld(list, h), e.held = h[e.id]
  PROVE  ListHeld(now, h)
<1>1. DOMAIN list = 1 .. Len(list) /\ DOMAIN now = 1 .. Len(list) + 1 /\ Len(list) \in Nat
  BY DEF Longer, LengthOf
<1>2. \A i \in DOMAIN now : i \in DOMAIN list \/ i = Len(list) + 1
  BY <1>1
<1>3. \A i \in DOMAIN list : now[i] = list[i]
  BY DEF Longer
<1>4. now[Len(list) + 1] = e
  BY DEF Longer
<1> QED BY <1>2, <1>3, <1>4 DEF ListHeld

LEMMA RemovedHeld ==
  ASSUME NEW list \in Seq(TrainerRecords), NEW k \in DOMAIN list, NEW h,
         \A i \in DOMAIN list : i = k \/ list[i].held = h[list[i].id]
  PROVE  ListHeld(RemoveAt(list, k), h)
<1> DEFINE short == RemoveAt(list, k)
<1>1. /\ short \in Seq(TrainerRecords) /\ Len(short) = Len(list) - 1
      /\ \A i \in DOMAIN short : short[i] = IF i < k THEN list[i] ELSE list[i + 1]
  BY RemovedPlaces
<1>2. Len(list) \in Nat /\ DOMAIN list = 1 .. Len(list) /\ k \in 1 .. Len(list)
  OBVIOUS
<1> HIDE DEF short
<1>3. DOMAIN short = 1 .. Len(list) - 1
  BY <1>1, <1>2
<1>4. ASSUME NEW i \in DOMAIN short PROVE short[i].held = h[short[i].id]
  <2>1. CASE i < k
    <3>1. i \in DOMAIN list /\ i # k /\ short[i] = list[i]
      BY <1>1, <1>2, <1>3, <2>1
    <3> QED BY <3>1
  <2>2. CASE ~(i < k)
    <3>1. i + 1 \in DOMAIN list /\ i + 1 # k /\ short[i] = list[i + 1]
      BY <1>1, <1>2, <1>3, <2>2
    <3> QED BY <3>1
  <2> QED BY <2>1, <2>2
<1> QED BY <1>4 DEF ListHeld, short

(* Of a trainer that has one copy only in the lists, which is dropped. *)
LEMMA OnlyCopyDropped ==
  ASSUME Base, NEW t \in Trainers, InLists(t) = DropOne(t)
  PROVE  /\ \A i \in DOMAIN ready : ready[i].id # t
         /\ \A i \in DOMAIN exit : exit[i].id # t
         /\ \A i \in DOMAIN new : new[i].id = t => Dropping("new", i)
         /\ \A i \in DOMAIN blocked : blocked[i].id = t => Dropping("blocked", i)
<1>1. /\ new \in Seq(TrainerRecords) /\ ready \in Seq(TrainerRecords)
      /\ blocked \in Seq(TrainerRecords) /\ exit \in Seq(TrainerRecords)
      /\ closer.list \in {"new", "blocked"}
  BY AllTypes DEF Base, Sound, Closers
<1> DEFINE n == Hits(new, WithId(t))
           r == Hits(ready, WithId(t))
           b == Hits(blocked, WithId(t))
           e == Hits(exit, WithId(t))
<1>2. n \in Nat /\ r \in Nat /\ b \in Nat /\ e \in Nat
  BY <1>1, HitsNat
<1>3. n + r + b + e = DropOne(t)
  BY <1>1, ListedHits DEF InLists
<1> HIDE DEF n, r, b, e
<1>4. CASE closer.pc = "drop" /\ BeingDropped = t /\ closer.list = "new"
  <2>1. closer.pos \in DOMAIN new /\ new[closer.pos] \in WithId(t)
    BY <1>1, <1>4 DEF Base, CloserInv, BeingDropped, WithId
  <2>2. n >= 1 /\ DropOne(t) = 1
    BY <1>1, <1>4, <2>1, HitsOne DEF n, DropOne, One
  <2>3. n = 1 /\ r = 0 /\ b = 0 /\ e = 0
    BY <1>2, <1>3, <2>2
  <2>4. ASSUME NEW i \in DOMAIN new, new[i].id = t, i # closer.pos PROVE FALSE
    <3>1. new[i] \in WithId(t)
      BY <1>1, <2>4 DEF WithId
    <3>2. n >= 2
      BY <1>1, <2>1, <2>4, <3>1, HitsTwo DEF n
    <3> QED BY <2>3, <3>2
  <2>5. /\ \A i \in DOMAIN ready : ready[i] \notin WithId(t)
        /\ \A i \in DOMAIN blocked : blocked[i] \notin WithId(t)
        /\ \A i \in DOMAIN exit : exit[i] \notin WithId(t)
    <3>1. ~(0 >= 1)
      OBVIOUS
    <3> QED BY <1>1, <2>3, <3>1, HitsOne DEF r, b, e
  <2> QED BY <1>1, <1>4, <2>4, <2>5 DEF WithId, Dropping
<1>5. CASE closer.pc = "drop" /\ BeingDropped = t /\ closer.list = "blocked"
  <2>1. closer.pos \in DOMAIN blocked /\ blocked[closer.pos] \in WithId(t)
    BY <1>1, <1>5 DEF Base, CloserInv, BeingDropped, WithId, Free
  <2>2. b >= 1 /\ DropOne(t) = 1
    BY <1>1, <1>5, <2>1, HitsOne DEF b, DropOne, One
  <2>3. b = 1 /\ r = 0 /\ n = 0 /\ e = 0
    BY <1>2, <1>3, <2>2
  <2>4. ASSUME NEW i \in DOMAIN blocked, blocked[i].id = t, i # closer.pos PROVE FALSE
    <3>1. blocked[i] \in WithId(t)
      BY <1>1, <2>4 DEF WithId
    <3>2. b >= 2
      BY <1>1, <2>1, <2>4, <3>1, HitsTwo DEF b
    <3> QED BY <2>3, <3>2
  <2>5. /\ \A i \in DOMAIN ready : ready[i] \notin WithId(t)
        /\ \A i \in DOMAIN new : new[i] \notin WithId(t)
        /\ \A i \in DOMAIN exit : exit[i] \notin WithId(t)
    <3>1. ~(0 >= 1)
      OBVIOUS
    <3> QED BY <1>1, <2>3, <3>1, HitsOne DEF r, n, e
  <2> QED BY <1>1, <1>5, <2>4, <2>5 DEF WithId, Dropping
<1>6. CASE ~(closer.pc = "drop" /\ BeingDropped = t)
  <2>1. DropOne(t) = 0
    BY <1>6 DEF DropOne, One
  <2>2. n = 0 /\ r = 0 /\ b = 0 /\ e = 0
    BY <1>2, <1>3, <2>1
  <2>3. /\ \A i \in DOMAIN ready : ready[i] \notin WithId(t)
        /\ \A i \in DOMAIN new : new[i] \notin WithId(t)
        /\ \A i \in DOMAIN blocked : blocked[i] \notin WithId(t)
        /\ \A i \in DOMAIN exit : exit[i] \notin WithId(t)
    <3>1. ~(0 >= 1)
      OBVIOUS
    <3> QED BY <1>1, <2>2, <3>1, HitsOne DEF r, n, b, e
  <2> QED BY <1>1, <2>3 DEF WithId
<1> QED BY <1>1, <1>4, <1>5, <1>6

LEMMA CloserKeepsHeld ==
  ASSUME Base, NEW h \in Holdings, HeldAs(h), Closer
  PROVE  HeldAs(h)' /\ missing' = missing
<1>0. /\ new \in Seq(TrainerRecords) /\ blocked \in Seq(TrainerRecords)
      /\ ready \in Seq(TrainerRecords) /\ closer.list \in {"new", "blocked"}
  BY AllTypes DEF Base, Sound, Closers
<1>1. CASE Quiet
  <2>1. UNCHANGED <<new, ready, blocked, exit, exec, runner, missing>>
        /\ closer.pc # "drop" /\ closer'.pc # "drop"
    BY <1>1, QuietSteps DEF NoLists, lists, Leaves
  <2> QED BY <2>1 DEF HeldAs, ListHeld, Dropping
<1>2. ASSUME NEW p \in Arrivals, Planning(p) PROVE HeldAs(h)' /\ missing' = missing
  <2>1. /\ UNCHANGED <<new, blocked, exit, exec, missing, runner>>
        /\ closer.pc = "choose" /\ closer'.pc = "drop" /\ closer'.list \in {"new", "blocked"}
        /\ Choice' \in TrainerRecords /\ p \in Pokemons /\ CloserInv'
        /\ Longer(ready, ready', [Choice' EXCEPT !.target = p])
    BY <1>2 DEF Planning, Pokemons, Closers
  <2>2. Choice'.held = h[Choice'.id]
    <3>1. CASE closer'.list = "new"
      <4>1. closer'.pos \in DOMAIN new /\ Choice' = new[closer'.pos]
        BY <2>1, <3>1 DEF CloserInv, Choice
      <4> QED BY <2>1, <4>1 DEF HeldAs, Dropping
    <3>2. CASE closer'.list = "blocked"
      <4>1. closer'.pos \in DOMAIN blocked /\ Choice' = blocked[closer'.pos]
        BY <2>1, <3>2 DEF CloserInv, Choice, Free
      <4> QED BY <2>1, <4>1 DEF HeldAs, Dropping
    <3> QED BY <2>1, <3>1, <3>2
  <2>3. [Choice' EXCEPT !.target = p].id = Choice'.id
        /\ [Choice' EXCEPT !.target = p].held = Choice'.held
    BY <2>1, TargetRecord
  <2>4. ListHeld(ready', h)
    <3>1. ListHeld(ready, h)
      BY DEF HeldAs
    <3> QED BY <1>0, <2>1, <2>2, <2>3, <3>1, LongerHeld
  <2>5. Total(Choice'.held) <= Total(h[Choice'.id])
    <3>1. Choice'.held \in [Species -> Nat] /\ IsFiniteSet(Species)
      BY <2>1, RecordParts, PlannerAssumption
    <3>2. Total(Choice'.held) \in Nat
      BY <3>1, TotalNat
    <3> QED BY <2>2, <3>2
  <2>6. /\ \A i \in DOMAIN new : new[i].held = h[new[i].id]
        /\ \A i \in DOMAIN blocked : blocked[i].held = h[blocked[i].id]
    BY <2>1 DEF HeldAs, Dropping
  <2> QED BY <2>1, <2>4, <2>5, <2>6 DEF HeldAs, ListHeld
<1>3. CASE Drop
  <2>1. /\ UNCHANGED <<ready, exit, exec, runner, missing>>
        /\ closer.pc = "drop" /\ closer'.pc = "unlock"
        /\ closer.pos \in DOMAIN (IF closer.list = "new" THEN new ELSE blocked)
        /\ \/ closer.list = "new" /\ UNCHANGED blocked /\ new' = RemoveAt(new, closer.pos)
           \/ closer.list = "blocked" /\ UNCHANGED new /\ blocked' = RemoveAt(blocked, closer.pos)
    BY <1>3, DropStep DEF Dropped
  <2>2. ListHeld(new', h) /\ ListHeld(blocked', h)
    <3>1. CASE closer.list = "new" /\ UNCHANGED blocked /\ new' = RemoveAt(new, closer.pos)
      <4>1. \A i \in DOMAIN new : i = closer.pos \/ new[i].held = h[new[i].id]
        BY DEF HeldAs, Dropping
      <4>2. \A i \in DOMAIN blocked : blocked[i].held = h[blocked[i].id]
        BY <3>1 DEF HeldAs, Dropping
      <4>3. ListHeld(RemoveAt(new, closer.pos), h)
        BY <1>0, <2>1, <3>1, <4>1, RemovedHeld
      <4> QED BY <3>1, <4>2, <4>3 DEF ListHeld
    <3>2. CASE closer.list = "blocked" /\ UNCHANGED new /\ blocked' = RemoveAt(blocked, closer.pos)
      <4>1. \A i \in DOMAIN blocked : i = closer.pos \/ blocked[i].held = h[blocked[i].id]
        BY DEF HeldAs, Dropping
      <4>2. \A i \in DOMAIN new : new[i].held = h[new[i].id]
        BY <3>2 DEF HeldAs, Dropping
      <4>3. ListHeld(RemoveAt(blocked, closer.pos), h)
        BY <1>0, <2>1, <3>2, <4>1, RemovedHeld
      <4> QED BY <3>2, <4>2, <4>3 DEF ListHeld
    <3> QED BY <2>1, <3>1, <3>2
  <2> QED BY <2>1, <2>2 DEF HeldAs, ListHeld
<1> QED BY <1>1, <1>2, <1>3, PlanStep DEF Closer, Quiet

LEMMA OutsideKeepsHeld ==
  ASSUME Base, NEW h \in Holdings, HeldAs(h), Outside
  PROVE  HeldAs(h)' /\ missing' = missing
<1> USE DEF Base
<1>1. UNCHANGED <<new, ready, blocked, exit, exec, closer, runner, missing>>
  <2>1. ASSUME NEW p \in Arrivals, Appearing(p)
        PROVE  UNCHANGED <<new, ready, blocked, exit, exec, closer, runner, missing>>
    BY <2>1, AppearingStep DEF lists
  <2>2. ASSUME NEW s \in {"deadlockCount", "exitCount"}, TakeAll(s)
        PROVE  UNCHANGED <<new, ready, blocked, exit, exec, closer, runner, missing>>
    BY <2>2, TakeAllStep DEF lists, Others, Semaphores
  <2> QED BY <2>1, <2>2 DEF Outside, StartSearch, Finish
<1> QED BY <1>1 DEF HeldAs, ListHeld, Dropping, Choice

(* The steps of the scheduler but the catch. *)
SameHeld(list, now, h) ==
  now = list \/ \E e : Longer(list, now, e) /\ e.held = h[e.id]

LEMMA RunSameHeld ==
  ASSUME Base, NEW h \in Holdings, HeldAs(h), NEW from, NEW to, Runs(from, to),
         ListHeld(ready', h), SameHeld(blocked, blocked', h), ListHeld(exit', h),
         exec'.on \/ to = "requeue" => exec'.trainer.held = h[exec'.trainer.id]
  PROVE  HeldAs(h)'
<1>1. UNCHANGED <<new, closer>> /\ runner'.pc = to /\ UNCHANGED Apart
  BY DEF Runs, Apart
<1>2. \A i \in DOMAIN new' : Dropping("new", i)' \/ new'[i].held = h[new'[i].id]
  BY <1>1 DEF HeldAs, Dropping
<1>3. \A i \in DOMAIN blocked' : Dropping("blocked", i)' \/ blocked'[i].held = h[blocked'[i].id]
  <2>1. CASE blocked' = blocked
    BY <1>1, <2>1 DEF HeldAs, Dropping
  <2>2. ASSUME NEW e, Longer(blocked, blocked', e), e.held = h[e.id],
               NEW i \in DOMAIN blocked'
        PROVE  Dropping("blocked", i)' \/ blocked'[i].held = h[blocked'[i].id]
    <3>1. blocked \in Seq(TrainerRecords)
      BY AllTypes DEF Base, Sound
    <3>2. DOMAIN blocked = 1 .. Len(blocked) /\ DOMAIN blocked' = 1 .. Len(blocked) + 1
          /\ Len(blocked) \in Nat
      BY <2>2, <3>1 DEF Longer, LengthOf
    <3>3. i \in DOMAIN blocked \/ i = Len(blocked) + 1
      BY <3>2
    <3>4. CASE i \in DOMAIN blocked
      <4>1. blocked'[i] = blocked[i]
        BY <2>2, <3>4 DEF Longer
      <4> QED BY <1>1, <3>4, <4>1 DEF HeldAs, Dropping
    <3>5. CASE i = Len(blocked) + 1
      <4>1. blocked'[i] = e
        BY <2>2, <3>5 DEF Longer
      <4> QED BY <2>2, <4>1
    <3> QED BY <3>3, <3>4, <3>5
  <2> QED BY <2>1, <2>2 DEF SameHeld
<1>4. closer'.pc = "drop" => Total(Choice'.held) <= Total(h[Choice'.id])
  <2> SUFFICES ASSUME closer.pc = "drop" PROVE Total(Choice'.held) <= Total(h[Choice'.id])
    BY <1>1
  <2>1. UNCHANGED blocked \/ \E e : Longer(blocked, blocked', e)
    BY DEF SameHeld
  <2>2. Choice' = Choice
    BY <1>1, <2>1, RunKeepsDropped
  <2> QED BY <2>2 DEF HeldAs
<1> QED BY <1>1, <1>2, <1>3, <1>4 DEF HeldAs

LEMMA RunKeepsHeld ==
  ASSUME Base, SemInv, NEW h \in Holdings, HeldAs(h), Schedule
  PROVE  HeldAs(h)' /\ missing' = missing
<1> USE DEF Base
<1>0. /\ ready \in Seq(TrainerRecords) /\ blocked \in Seq(TrainerRecords)
      /\ exit \in Seq(TrainerRecords) /\ ListHeld(ready, h) /\ ListHeld(exit, h)
      /\ RunnerInv
  BY AllTypes DEF Base, Sound, HeldAs
<1>1. ASSUME NEW from, NEW to, Runs(from, to), UNCHANGED <<blocked, exit, missing>>,
             ListHeld(ready', h),
             exec'.on \/ to = "requeue" => exec'.trainer.held = h[exec'.trainer.id]
      PROVE  HeldAs(h)' /\ missing' = missing
  BY <1>0, <1>1, RunSameHeld DEF SameHeld
<1>2. ASSUME NEW from, NEW to, Runs(from, to) PROVE runner.pc = from /\ runner'.pc = to
  BY <1>2 DEF Runs
<1>3. CASE WaitReady
  <2>1. Runs("ready", "exec") /\ UNCHANGED <<ready, blocked, exit, exec, missing>>
    BY <1>3, WaitReadyStep
  <2> QED BY <1>0, <1>1, <2>1 DEF HeldAs
<1>4. CASE WaitExec
  <2>1. Runs("exec", "schedule") /\ UNCHANGED <<ready, blocked, exit, exec, missing>>
    BY <1>4, WaitExecStep
  <2> QED BY <1>0, <1>1, <2>1 DEF HeldAs
<1>5. CASE AddToExec
  <2>1. runner.pc = "schedule"
    BY <1>5 DEF AddToExec
  <2>2. ready # <<>> /\ ~exec.on
    BY <2>1, SchedulerFinds
  <2>3. /\ Runs("schedule", "remove") /\ UNCHANGED <<ready, blocked, exit, missing>>
        /\ runner'.pos \in DOMAIN ready
        /\ SameTrainer(exec'.trainer, ready[runner'.pos])
    BY <1>5, <2>2, AddToExecStep
  <2>4. exec'.trainer.held = h[exec'.trainer.id]
    BY <1>0, <2>3 DEF SameTrainer, ListHeld
  <2> QED BY <1>0, <1>1, <2>3, <2>4
<1>6. CASE RemoveFromReady
  <2>1. /\ Runs("remove", "run") /\ UNCHANGED <<blocked, exit, exec, missing>>
        /\ runner.pos \in DOMAIN ready /\ ready' = RemoveAt(ready, runner.pos)
    BY <1>6, RemoveFromReadyStep
  <2>2. \A i \in DOMAIN ready : i = runner.pos \/ ready[i].held = h[ready[i].id]
    BY <1>0 DEF ListHeld
  <2>3. ListHeld(ready', h)
    BY <1>0, <2>1, <2>2, RemovedHeld
  <2> QED BY <1>1, <2>1, <2>3 DEF HeldAs
<1>7. CASE Move
  <2>1. /\ UNCHANGED <<ready, blocked, exit, missing>> /\ exec'.on = exec.on
        /\ SameTrainer(exec'.trainer, exec.trainer)
        /\ Runs("run", "run") \/ Runs("run", "preempt")
    BY <1>7, MoveStep
  <2>2. exec'.on \/ FALSE => exec'.trainer.held = h[exec'.trainer.id]
    BY <2>1 DEF HeldAs, SameTrainer
  <2>3. CASE Runs("run", "run")
    BY <1>0, <1>1, <2>1, <2>2, <2>3
  <2>4. CASE Runs("run", "preempt")
    BY <1>0, <1>1, <2>1, <2>2, <2>4
  <2> QED BY <2>1, <2>3, <2>4
<1>8. CASE Place
  <2>1. Runs("place", "release") /\ UNCHANGED <<ready, missing>>
    BY <1>8, PlaceStep
  <2>2. exec.trainer.held = h[exec.trainer.id]
    BY <1>0, <1>2, <2>1 DEF HeldAs, RunnerInv, Executing
  <2>3. CASE Ended
    <3>1. UNCHANGED <<blocked, exec>> /\ Longer(exit, exit', exec.trainer)
      BY <2>3 DEF Ended
    <3>2. ListHeld(exit', h)
      BY <1>0, <2>2, <3>1, LongerHeld
    <3>3. SameHeld(blocked, blocked', h) /\ ListHeld(ready', h)
      BY <1>0, <2>1, <3>1 DEF SameHeld
    <3>4. exec'.on \/ "release" = "requeue" => exec'.trainer.held = h[exec'.trainer.id]
      BY <2>2, <3>1
    <3> QED BY <2>1, <3>2, <3>3, <3>4, RunSameHeld
  <2>4. CASE Stays
    <3>1. /\ UNCHANGED exit /\ Longer(blocked, blocked', exec'.trainer)
          /\ exec'.trainer.id = exec.trainer.id /\ exec'.trainer.held = exec.trainer.held
      BY <2>4 DEF Stays
    <3>2. SameHeld(blocked, blocked', h)
      BY <2>2, <3>1 DEF SameHeld
    <3>3. ListHeld(exit', h) /\ ListHeld(ready', h)
      BY <1>0, <2>1, <3>1
    <3>4. exec'.on \/ "release" = "requeue" => exec'.trainer.held = h[exec'.trainer.id]
      BY <2>2, <3>1
    <3> QED BY <2>1, <3>2, <3>3, <3>4, RunSameHeld
  <2> QED BY <1>8, <2>3, <2>4, PlaceStep
<1>9. CASE Release \/ Preempt \/ GaveWay
  <2>1. /\ UNCHANGED <<ready, blocked, exit, missing>> /\ ~exec'.on
        /\ exec'.trainer = exec.trainer
        /\ Runs("release", "post") \/ Runs("preempt", "requeue") \/ Runs("giveWay", "ready")
    BY <1>9, RemoveFromExecStep DEF Release, Preempt, GaveWay, RunnerPcs
  <2>2. exec.trainer.held = h[exec.trainer.id]
    BY <1>0, <1>2, <2>1 DEF HeldAs, RunnerInv, Executing
  <2>3. CASE Runs("release", "post")
    BY <1>0, <1>1, <2>1, <2>2, <2>3
  <2>4. CASE Runs("preempt", "requeue")
    BY <1>0, <1>1, <2>1, <2>2, <2>4
  <2>5. CASE Runs("giveWay", "ready")
    BY <1>0, <1>1, <2>1, <2>2, <2>5
  <2> QED BY <2>1, <2>3, <2>4, <2>5
<1>10. CASE PostPlaced
  <2>1. Runs("post", "ready") /\ UNCHANGED <<ready, blocked, exit, exec, missing>>
    BY <1>10, PostPlacedStep
  <2> QED BY <1>0, <1>1, <2>1 DEF HeldAs
<1>11. CASE Requeue
  <2>1. /\ Runs("requeue", "ready") /\ UNCHANGED <<blocked, exit, exec, missing>>
        /\ Longer(ready, ready', exec.trainer)
    BY <1>11, RequeueStep
  <2>2. exec.trainer.held = h[exec.trainer.id]
    BY <1>2, <2>1 DEF HeldAs
  <2>3. ListHeld(ready', h)
    BY <1>0, <2>1, <2>2, LongerHeld
  <2> QED BY <1>1, <2>1, <2>2, <2>3
<1>12. CASE GiveWay
  <2>1. /\ Runs("run", "giveWay") /\ UNCHANGED <<blocked, exit, exec, missing>>
        /\ Longer(ready, ready', exec.trainer)
    BY <1>12, GiveWayStep
  <2>2. exec.trainer.held = h[exec.trainer.id]
    BY <1>0, <1>2, <2>1 DEF HeldAs, RunnerInv, Executing
  <2>3. ListHeld(ready', h)
    BY <1>0, <2>1, <2>2, LongerHeld
  <2> QED BY <1>1, <2>1, <2>2, <2>3
<1> QED BY <1>3, <1>4, <1>5, <1>6, <1>7, <1>8, <1>9, <1>10, <1>11, <1>12 DEF Schedule

(* A catch.  Nobody else has a copy of the trainer that executes, but the *)
(* one that is to be dropped.                                              *)
LEMMA CatchAddsOne ==
  ASSUME Base, NEW h \in Holdings, HeldAs(h), Catch
  PROVE  LET u == exec.trainer.id
             g == [h EXCEPT ![u] = exec'.trainer.held]
         IN /\ exec.on /\ exec.trainer.held = h[u]
            /\ g \in Holdings /\ Total(h[u]) <= Total(g[u])
            /\ Total(Rooms(h)) <= Total(missing) => Total(Rooms(g)) <= Total(missing')
<1> USE DEF Base
<1> DEFINE u == exec.trainer.id
           n == exec.trainer.target.name
           k == exec'.trainer.held
           g == [h EXCEPT ![u] = k]
<1>1. /\ runner.pc = "run" /\ missing \in [Species -> Nat] /\ missing' \in [Species -> Nat]
      /\ missing' = [missing EXCEPT ![n] = IF @ > 0 THEN @ - 1 ELSE 0]
      /\ exec.trainer \in TrainerRecords /\ exec'.trainer = Caught(exec.trainer)
      /\ IsFiniteSet(Species) /\ IsFiniteSet(Trainers)
      /\ Objectives \in [Trainers -> [Species -> Int]]
  BY CatchStep, RunTypes, PlannerAssumption DEF Runs
<1>2. u \in Trainers /\ exec.on /\ exec.trainer.held = h[u]
  BY <1>1, RecordParts DEF Base, Sound, RunnerInv, Executing, HeldAs
<1>3. k = [h[u] EXCEPT ![n] = @ + 1] /\ k \in [Species -> Nat] /\ h[u] \in [Species -> Nat]
  BY <1>1, <1>2, CaughtRecord, RecordParts
<1>4. g \in Holdings /\ g[u] = k /\ \A t \in Trainers \ {u} : g[t] = h[t]
  BY <1>2, <1>3 DEF Holdings
<1> HIDE DEF u, n, k, g
<1>5. Total(h[u]) \in Int /\ Total(k) \in Int
  BY <1>1, <1>3, TotalInt
<1>6. \A t \in Trainers : Total(Objectives[t]) \in Int /\ Total(h[t]) \in Int /\ Total(g[t]) \in Int
  <2> SUFFICES ASSUME NEW t \in Trainers
               PROVE  Total(Objectives[t]) \in Int /\ Total(h[t]) \in Int /\ Total(g[t]) \in Int
    OBVIOUS
  <2>1. h[t] \in [Species -> Int] /\ g[t] \in [Species -> Int] /\ Objectives[t] \in [Species -> Int]
    BY <1>1, <1>4 DEF Holdings
  <2> QED BY <1>1, <2>1, TotalInt
<1>7. CASE n \in Species
  <2>1. Total(k) = Total(h[u]) + 1
    <3> DEFINE a == h[u]
    <3>1. a \in [Species -> Int] /\ k \in [Species -> Int] /\ a[n] \in Int
          /\ (\A y \in Species \ {n} : k[y] = a[y]) /\ k[n] = a[n] + 1
      BY <1>3, <1>7
    <3> HIDE DEF a
    <3>2. Total(k) = Total(a) - a[n] + k[n]
      <4>1. a \in [Species -> Int] /\ k \in [Species -> Int]
        BY <3>1
      <4>2. \A y \in Species \ {n} : k[y] = a[y]
        BY <3>1
      <4>3. IsFiniteSet(Species)
        BY <1>1
      <4> QED BY <1>7, <4>1, <4>2, <4>3, TotalChange
    <3>3. Total(a) \in Int
      BY <1>1, <3>1, TotalInt
    <3>4. Total(k) = Total(a) + 1
      BY <3>1, <3>2, <3>3
    <3> QED BY <3>4 DEF a
  <2>2. Total(missing') >= Total(missing) - 1 /\ Total(missing) \in Int /\ Total(missing') \in Int
    <3> DEFINE a == missing
               b == missing'
    <3>1. a \in [Species -> Int] /\ b \in [Species -> Int] /\ a[n] \in Nat /\ b[n] \in Nat
          /\ (\A y \in Species \ {n} : b[y] = a[y]) /\ b[n] >= a[n] - 1
      BY <1>1, <1>7
    <3> HIDE DEF a, b
    <3>2. Total(b) = Total(a) - a[n] + b[n]
      <4>1. a \in [Species -> Int] /\ b \in [Species -> Int]
        BY <3>1
      <4>2. \A y \in Species \ {n} : b[y] = a[y]
        BY <3>1
      <4>3. IsFiniteSet(Species)
        BY <1>1
      <4> QED BY <1>7, <4>1, <4>2, <4>3, TotalChange
    <3>3. Total(a) \in Int /\ Total(b) \in Int
      BY <1>1, <3>1, TotalInt
    <3>4. Total(b) >= Total(a) - 1
      BY <3>1, <3>2, <3>3
    <3> QED BY <3>3, <3>4 DEF a, b
  <2>3. Total(Rooms(g)) = Total(Rooms(h)) - 1 /\ Total(Rooms(h)) \in Int
    <3> DEFINE a == Rooms(h)
               b == Rooms(g)
    <3>1. a \in [Trainers -> Int] /\ b \in [Trainers -> Int]
      BY <1>6 DEF Rooms
    <3>2. \A t \in Trainers \ {u} : b[t] = a[t]
      BY <1>4 DEF Rooms
    <3>3. b[u] = a[u] - 1
      BY <1>2, <1>4, <1>5, <1>6, <2>1 DEF Rooms
    <3> HIDE DEF a, b
    <3>4. Total(b) = Total(a) - a[u] + b[u] /\ Total(a) \in Int /\ a[u] \in Int
      BY <1>1, <1>2, <3>1, <3>2, TotalChange, TotalInt
    <3>5. Total(b) = Total(a) - 1
      BY <3>3, <3>4
    <3> QED BY <3>4, <3>5 DEF a, b
  <2>4. Total(h[u]) <= Total(g[u])
    BY <1>4, <1>5, <2>1
  <2>5. Total(Rooms(h)) <= Total(missing) => Total(Rooms(g)) <= Total(missing')
    BY <2>2, <2>3
  <2> QED BY <1>2, <1>4, <2>4, <2>5 DEF u, k, g
<1>8. CASE n \notin Species
  <2>1. k = h[u] /\ missing' = missing
    BY <1>1, <1>3, <1>8
  <2>2. Rooms(g) = Rooms(h)
    BY <1>4, <2>1 DEF Rooms
  <2>3. Total(h[u]) <= Total(g[u])
    BY <1>4, <1>5, <2>1
  <2>4. Total(Rooms(h)) <= Total(missing) => Total(Rooms(g)) <= Total(missing')
    BY <2>1, <2>2
  <2> QED BY <1>2, <1>4, <2>3, <2>4 DEF u, k, g
<1> QED BY <1>7, <1>8

LEMMA CatchKeepsHeld ==
  ASSUME Base, \A t \in Trainers : OneList(t), NEW h \in Holdings, HeldAs(h),
         Total(Rooms(h)) <= Total(missing), Catch
  PROVE  HeldInv'
<1> USE DEF Base
<1> DEFINE u == exec.trainer.id
<1>1. PICK g \in Holdings :
        /\ exec.on /\ exec.trainer.held = h[u] /\ g = [h EXCEPT ![u] = exec'.trainer.held]
        /\ Total(h[u]) <= Total(g[u]) /\ Total(Rooms(g)) <= Total(missing')
  BY CatchAddsOne
<1>2. /\ UNCHANGED <<ready, blocked, exit, new, closer>> /\ runner.pc = "run"
      /\ runner'.pc = "place" /\ exec'.trainer.id = u /\ u \in Trainers
      /\ new \in Seq(TrainerRecords) /\ ready \in Seq(TrainerRecords)
      /\ blocked \in Seq(TrainerRecords) /\ exit \in Seq(TrainerRecords)
      /\ closer.list \in {"new", "blocked"}
  BY CatchStep, RunTypes, RecordParts, AllTypes DEF Runs, Apart, Closers, Base, Sound
<1>3. InLists(u) = DropOne(u)
  <2>1. ExecOne(u) = 1 /\ TwiceOne(u) = 0 /\ BetweenOne(u) = 0
    BY <1>1, <1>2 DEF ExecOne, TwiceOne, BetweenOne, One
  <2>2. ListedNumbers(u) /\ Ones(u) /\ OneList(u)
    BY <1>2, AreListed, AreOnes DEF Base, Sound, AllListed
  <2> HIDE DEF u
  <2> QED BY <2>1, <2>2 DEF OneListOf, OneList, InLists, ListedNumbers, Ones
<1>4. /\ \A i \in DOMAIN ready : ready[i].id # u
      /\ \A i \in DOMAIN exit : exit[i].id # u
      /\ \A i \in DOMAIN new : new[i].id = u => Dropping("new", i)
      /\ \A i \in DOMAIN blocked : blocked[i].id = u => Dropping("blocked", i)
  BY <1>2, <1>3, OnlyCopyDropped
<1>5. g[u] = exec'.trainer.held /\ \A t : t # u => g[t] = h[t]
  BY <1>1, <1>2 DEF Holdings
<1> HIDE DEF u
<1>6. ListHeld(ready', g) /\ ListHeld(exit', g)
  BY <1>2, <1>4, <1>5 DEF HeldAs, ListHeld
<1>7. /\ \A i \in DOMAIN new' : Dropping("new", i)' \/ new'[i].held = g[new'[i].id]
      /\ \A i \in DOMAIN blocked' : Dropping("blocked", i)' \/ blocked'[i].held = g[blocked'[i].id]
  BY <1>2, <1>4, <1>5 DEF HeldAs, Dropping
<1>8. exec'.trainer.held = g[exec'.trainer.id]
  BY <1>2, <1>5
<1>9. closer'.pc = "drop" => Total(Choice'.held) <= Total(g[Choice'.id])
  <2> SUFFICES ASSUME closer.pc = "drop" PROVE Total(Choice'.held) <= Total(g[Choice'.id])
    BY <1>2
  <2>1. Choice' = Choice /\ Choice \in TrainerRecords
    BY <1>2 DEF Choice, Base, CloserInv, Free
  <2>2. Total(Choice.held) <= Total(h[Choice.id])
    BY DEF HeldAs
  <2>3. CASE Choice.id # u
    BY <1>5, <2>1, <2>2, <2>3
  <2>4. CASE Choice.id = u
    <3>1. /\ Choice.held \in [Species -> Nat] /\ h[u] \in [Species -> Nat]
          /\ g[u] \in [Species -> Nat] /\ IsFiniteSet(Species)
      BY <1>1, <1>2, <2>1, RecordParts, PlannerAssumption DEF Holdings
    <3>2. Total(Choice.held) \in Nat /\ Total(h[u]) \in Nat /\ Total(g[u]) \in Nat
      BY <3>1, TotalNat
    <3>3. Total(Choice.held) <= Total(g[u])
      BY <1>1, <2>2, <2>4, <3>2
    <3> QED BY <2>1, <2>4, <3>3
  <2> QED BY <2>3, <2>4
<1>10. HeldAs(g)'
  BY <1>6, <1>7, <1>8, <1>9 DEF HeldAs
<1> QED BY <1>1, <1>10 DEF HeldInv, Rooms

LEMMA InitHeld ==
  ASSUME Init
  PROVE  HeldInv
<1>1. StartHeld \in Holdings
  BY PlannerAssumption DEF Holdings
<1>2. \A i \in DOMAIN new : new[i].held = StartHeld[new[i].id]
  BY InitLists, NewRecord
<1>3. ready = <<>> /\ blocked = <<>> /\ exit = <<>> /\ closer.pc = "trainer"
      /\ runner.pc = "ready" /\ ~exec.on
  BY DEF Init, IdleCloser, IdleRunner
<1>4. HeldAs(StartHeld)
  BY <1>2, <1>3 DEF HeldAs, ListHeld
<1>5. Total(Rooms(StartHeld)) = Total(missing)
  BY StartRoom DEF Init
<1>6. Total(missing) \in Nat
  BY InitBase, RunTypes, TotalNat, PlannerAssumption DEF Base
<1>7. Total(Rooms(StartHeld)) <= Total(missing)
  BY <1>5, <1>6
<1> QED BY <1>1, <1>4, <1>7 DEF HeldInv

(* What RoomLeft finds among the copies of a trainer is h. *)
Seen == AllTrainers \cup (IF exec.on \/ runner.pc = "requeue" THEN {exec.trainer} ELSE {})

LEMMA HitsAnother ==
  ASSUME NEW R, NEW list \in Seq(R), NEW S, NEW k, Hits(list, S) >= 2
  PROVE  \E i \in DOMAIN list : i # k /\ list[i] \in S
<1> SUFFICES ASSUME \A i \in DOMAIN list : list[i] \in S => i = k PROVE FALSE
  OBVIOUS
<1> DEFINE I == {i \in DOMAIN list : list[i] \in S}
<1>1. I \subseteq {k} /\ IsFiniteSet({k}) /\ Cardinality({k}) = 1
  BY FS_Singleton
<1>2. Cardinality(I) \in Nat
  BY IndicesFinite
<1> HIDE DEF I
<1>3. Cardinality(I) <= Cardinality({k})
  BY <1>1, FS_Subset
<1>4. Cardinality(I) >= 2
  BY DEF I, Hits
<1> QED BY <1>1, <1>2, <1>3, <1>4

LEMMA CopiesHold ==
  ASSUME Base, NEW h \in Holdings, HeldAs(h), NEW u \in Seen
  PROVE  Total(u.held) \in Nat /\ Total(h[u.id]) \in Nat /\ Total(u.held) <= Total(h[u.id])
<1> USE DEF Base
<1>1. u \in TrainerRecords
  BY RunTypes DEF Seen, AllTrainers
<1>2. u.held \in [Species -> Nat] /\ h[u.id] \in [Species -> Nat] /\ IsFiniteSet(Species)
  BY <1>1, RecordParts, PlannerAssumption DEF Holdings
<1>3. Total(u.held) \in Nat /\ Total(h[u.id]) \in Nat
  BY <1>2, TotalNat
<1>4. u.held = h[u.id] \/ (closer.pc = "drop" /\ u = Choice)
  <2>1. CASE u = exec.trainer /\ (exec.on \/ runner.pc = "requeue")
    BY <2>1 DEF HeldAs
  <2>2. ASSUME NEW i \in DOMAIN ready, u = ready[i] PROVE u.held = h[u.id]
    BY <2>2 DEF HeldAs, ListHeld
  <2>3. ASSUME NEW i \in DOMAIN exit, u = exit[i] PROVE u.held = h[u.id]
    BY <2>3 DEF HeldAs, ListHeld
  <2>4. ASSUME NEW i \in DOMAIN new, u = new[i]
        PROVE  u.held = h[u.id] \/ (closer.pc = "drop" /\ u = Choice)
    BY <2>4 DEF HeldAs, Dropping, Choice
  <2>5. ASSUME NEW i \in DOMAIN blocked, u = blocked[i]
        PROVE  u.held = h[u.id] \/ (closer.pc = "drop" /\ u = Choice)
    BY <2>5 DEF HeldAs, Dropping, Choice
  <2> QED BY <2>1, <2>2, <2>3, <2>4, <2>5 DEF Seen, AllTrainers
<1>5. closer.pc = "drop" /\ u = Choice => Total(u.held) <= Total(h[u.id])
  BY DEF HeldAs
<1>6. u.held = h[u.id] => Total(u.held) <= Total(h[u.id])
  BY <1>3
<1> QED BY <1>3, <1>4, <1>5, <1>6

LEMMA OneIsCurrent ==
  ASSUME Base, NEW t \in Trainers, OneList(t), NEW h \in Holdings, HeldAs(h)
  PROVE  \E u \in Seen : u.id = t /\ u.held = h[t]
<1>0. /\ new \in Seq(TrainerRecords) /\ ready \in Seq(TrainerRecords)
      /\ blocked \in Seq(TrainerRecords) /\ exit \in Seq(TrainerRecords)
      /\ closer.list \in {"new", "blocked"}
  BY AllTypes DEF Base, Sound, Closers
<1>1. CASE exec.trainer.id = t /\ (exec.on \/ runner.pc = "requeue")
  BY <1>1 DEF HeldAs, Seen
<1>2. CASE ~(exec.trainer.id = t /\ (exec.on \/ runner.pc = "requeue"))
  <2> DEFINE n == Hits(new, WithId(t))
             r == Hits(ready, WithId(t))
             b == Hits(blocked, WithId(t))
             e == Hits(exit, WithId(t))
  <2>1. n \in Nat /\ r \in Nat /\ b \in Nat /\ e \in Nat
    BY <1>0, HitsNat
  <2>2. n + r + b + e = 1 + DropOne(t)
    <3>1. ExecOne(t) = 0 /\ TwiceOne(t) = 0 /\ BetweenOne(t) = 0
      BY <1>2 DEF ExecOne, TwiceOne, BetweenOne, One, Base, Sound, RunnerInv, Executing
    <3>2. InLists(t) = n + r + b + e
      BY <1>0, ListedHits DEF InLists
    <3>3. DropOne(t) \in 0 .. 1
      BY AreOnes DEF Ones
    <3> HIDE DEF n, r, b, e
    <3>4. n + r + b + e \in Nat
      BY <2>1
    <3> QED BY <3>1, <3>2, <3>3, <3>4 DEF OneListOf, OneList
  <2> HIDE DEF n, r, b, e
  <2>3. CASE r >= 1 \/ e >= 1
    <3>1. (\E i \in DOMAIN ready : ready[i] \in WithId(t))
          \/ (\E i \in DOMAIN exit : exit[i] \in WithId(t))
      BY <1>0, <2>3, HitsNone DEF r, e
    <3> QED BY <3>1 DEF WithId, HeldAs, ListHeld, Seen, AllTrainers
  <2>4. ASSUME NEW i \in DOMAIN new, new[i] \in WithId(t), ~Dropping("new", i)
        PROVE  \E u \in Seen : u.id = t /\ u.held = h[t]
    BY <2>4 DEF WithId, HeldAs, Seen, AllTrainers
  <2>5. ASSUME NEW i \in DOMAIN blocked, blocked[i] \in WithId(t), ~Dropping("blocked", i)
        PROVE  \E u \in Seen : u.id = t /\ u.held = h[t]
    BY <2>5 DEF WithId, HeldAs, Seen, AllTrainers
  <2>6. CASE r = 0 /\ e = 0 /\ ~(closer.pc = "drop" /\ BeingDropped = t)
    <3>1. n >= 1 \/ b >= 1
      BY <2>1, <2>2, <2>6 DEF DropOne, One
    <3>2. (\E i \in DOMAIN new : new[i] \in WithId(t))
          \/ (\E i \in DOMAIN blocked : blocked[i] \in WithId(t))
      BY <1>0, <3>1, HitsNone DEF n, b
    <3>3. /\ \A i \in DOMAIN new : new[i] \in WithId(t) => ~Dropping("new", i)
          /\ \A i \in DOMAIN blocked : blocked[i] \in WithId(t) => ~Dropping("blocked", i)
      BY <2>6 DEF WithId, Dropping, BeingDropped
    <3> QED BY <2>4, <2>5, <3>2, <3>3
  <2>7. CASE r = 0 /\ e = 0 /\ closer.pc = "drop" /\ BeingDropped = t
    <3>1. n + b = 2
      BY <2>1, <2>2, <2>7 DEF DropOne, One
    <3>2. CASE n >= 2
      <4>1. PICK i \in DOMAIN new : i # closer.pos /\ new[i] \in WithId(t)
        BY <1>0, <3>2, HitsAnother DEF n
      <4> QED BY <2>4, <4>1 DEF Dropping
    <3>3. CASE b >= 2
      <4>1. PICK i \in DOMAIN blocked : i # closer.pos /\ blocked[i] \in WithId(t)
        BY <1>0, <3>3, HitsAnother DEF b
      <4> QED BY <2>5, <4>1 DEF Dropping
    <3>4. CASE n >= 1 /\ b >= 1
      <4>1. PICK i \in DOMAIN new : new[i] \in WithId(t)
        BY <1>0, <3>4, HitsNone DEF n
      <4>2. PICK j \in DOMAIN blocked : blocked[j] \in WithId(t)
        BY <1>0, <3>4, HitsNone DEF b
      <4>3. ~Dropping("new", i) \/ ~Dropping("blocked", j)
        BY DEF Dropping
      <4> QED BY <2>4, <2>5, <4>1, <4>2, <4>3
    <3> QED BY <2>1, <3>1, <3>2, <3>3, <3>4
  <2> QED BY <2>1, <2>3, <2>6, <2>7
<1> QED BY <1>1, <1>2

LEMMA RoomFollows ==
  ASSUME Core, HeldInv
  PROVE  RoomIsMissing
<1>1. PICK h \in Holdings : HeldAs(h) /\ Total(Rooms(h)) <= Total(missing)
  BY DEF HeldInv
<1>2. ASSUME NEW t \in Trainers PROVE RoomLeft(t) = Total(Objectives[t]) - Total(h[t])
  <2> DEFINE S == {Total(u.held) : u \in {v \in Seen : v.id = t}}
             m == Total(h[t])
  <2>1. RoomLeft(t) = Total(Objectives[t]) - Max(S)
    BY DEF RoomLeft, Seen
  <2>2. \A y \in S : y \in Nat /\ m \in Nat /\ m >= y
    BY <1>1, CopiesHold DEF Core
  <2>3. m \in S
    BY <1>1, OneIsCurrent DEF Core
  <2> HIDE DEF S, m
  <2>4. Max(S) = m
    <3>1. \A y \in S : m >= y
      BY <2>2
    <3>2. \A x \in S : (\A y \in S : x >= y) => x = m
      BY <2>2, <2>3
    <3> QED BY <2>3, <3>1, <3>2 DEF Max
  <2> QED BY <2>1, <2>4 DEF m
<1>3. [t \in Trainers |-> RoomLeft(t)] = Rooms(h)
  BY <1>2 DEF Rooms
<1> QED BY <1>1, <1>3 DEF RoomIsMissing

RoomCore == Core /\ HeldInv

LEMMA RoomCoreStep ==
  ASSUME RoomCore, [Next]_vars
  PROVE  RoomCore'
<1>1. Core' /\ Base /\ SemInv /\ \A t \in Trainers : OneList(t)
  BY CoreStep DEF RoomCore, Core
<1>2. PICK h \in Holdings : HeldAs(h) /\ Total(Rooms(h)) <= Total(missing)
  BY DEF RoomCore, HeldInv
<1>3. HeldAs(h)' /\ missing' = missing => HeldInv'
  BY <1>2 DEF HeldInv, Rooms
<1>4. CASE Closer
  BY <1>1, <1>2, <1>3, <1>4, CloserKeepsHeld DEF RoomCore
<1>5. CASE Schedule
  BY <1>1, <1>2, <1>3, <1>5, RunKeepsHeld DEF RoomCore
<1>6. CASE Catch
  BY <1>1, <1>2, <1>6, CatchKeepsHeld DEF RoomCore
<1>7. CASE Outside
  BY <1>1, <1>2, <1>3, <1>7, OutsideKeepsHeld DEF RoomCore
<1>8. CASE UNCHANGED vars
  <2>1. UNCHANGED <<new, ready, blocked, exit, exec, missing, closer, runner>>
    BY <1>8 DEF vars, lists
  <2>2. HeldAs(h)' /\ missing' = missing
    BY <1>2, <2>1 DEF HeldAs, ListHeld, Dropping, Choice
  <2> QED BY <1>1, <1>3, <2>2 DEF RoomCore
<1> QED BY <1>4, <1>5, <1>6, <1>7, <1>8 DEF Next, Outside, Runner

(* While the team has room it misses something: what it still has to catch *)
(* never runs out before its trainers are full, though two of them may be  *)
(* sent to one pokemon and the name is struck off with the first catch.    *)
THEOREM RoomMeansMissing == Spec => []RoomIsMissing
<1>1. Init => RoomCore
  BY InitBase, InitCounts, InitHeld DEF RoomCore, Core
<1>2. RoomCore /\ [Next]_vars => RoomCore'
  BY RoomCoreStep
<1>3. RoomCore => RoomIsMissing
  BY RoomFollows DEF RoomCore
<1> QED BY <1>1, <1>2, <1>3, PTL DEF Spec
=============================================================================
