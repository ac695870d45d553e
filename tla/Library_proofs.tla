--------------------------- MODULE Library_proofs ---------------------------
(***************************************************************************)
(* What refers to a revision of the library holds, for every number of     *)
(* assets, revisions, projects, instances, clients and writes, every draft *)
(* and token document, and every order of the operations.                  *)
(*                                                                         *)
(* What lies below a revision is a recursive function of the edges. It has *)
(* the values its definition gives it because there is a rank that falls   *)
(* along every edge, and every operation keeps one. A token document is    *)
(* followed along the number of tokens that its trail leaves out.          *)
(***************************************************************************)
EXTENDS Library, SequenceTheorems, FiniteSetTheorems, NaturalsInduction, WellFoundedInduction, TLAPS

-----------------------------------------------------------------------------
(* Orders and sequences. *)

LEMMA SetInduction ==
  ASSUME NEW S, 0 \in S, \A n \in Nat : n \in S => n + 1 \in S
  PROVE  Nat \subseteq S
<1> DEFINE T == Nat \ S
           R == OpToRel(<, Nat)
<1>1. IsWellFoundedOn(R, Nat)
  BY NatLessThanWellFounded
<1>2. \A x, y \in Nat : y < x => <<y, x>> \in R
  BY DEF OpToRel
<1> HIDE DEF R
<1> SUFFICES ASSUME T # {} PROVE FALSE
  OBVIOUS
<1>3. PICK x \in T : \A y \in T : ~ (<<y, x>> \in R)
  <2>1. T \subseteq Nat
    OBVIOUS
  <2> HIDE DEF T
  <2> QED BY <1>1, <2>1, WFMin
<1>4. x # 0 /\ x - 1 \in Nat /\ x - 1 \in T
  BY <1>3
<1>5. x \in Nat /\ x - 1 < x
  BY <1>3
<1>6. <<x - 1, x>> \in R
  <2> HIDE DEF T
  <2> QED BY <1>2, <1>4, <1>5
<1> QED BY <1>3, <1>4, <1>6

LEMMA LeastNumber ==
  ASSUME NEW S \in SUBSET Nat, S # {}
  PROVE  \E x \in S : \A y \in S : x <= y
<1> DEFINE R == OpToRel(<, Nat)
<1>1. IsWellFoundedOn(R, Nat)
  BY NatLessThanWellFounded
<1>2. \A x, y \in Nat : y < x => <<y, x>> \in R
  BY DEF OpToRel
<1> HIDE DEF R
<1>3. PICK x \in S : \A y \in S : ~ (<<y, x>> \in R)
  BY <1>1, WFMin
<1>4. \A y \in S : ~ (y < x)
  BY <1>2, <1>3
<1> QED BY <1>4

LEMMA GreatestNumber ==
  ASSUME NEW n \in Nat, NEW S \in SUBSET (1..n), S # {}
  PROVE  Max(S) \in S
<1> DEFINE T == {n - x : x \in S}
<1>1. T \in SUBSET Nat /\ T # {}
  <2>1. \A x \in S : x \in 1..n /\ n - x \in Nat
    OBVIOUS
  <2> QED BY <2>1
<1>2. PICK t \in T : \A y \in T : t <= y
  <2> HIDE DEF T
  <2> QED BY <1>1, LeastNumber
<1>3. PICK x \in S : t = n - x
  BY <1>2
<1>4. \A y \in S : x >= y
  <2> TAKE y \in S
  <2>1. n - y \in T
    OBVIOUS
  <2>2. t <= n - y
    BY <1>2, <2>1
  <2> QED BY <1>3, <2>2
<1> QED BY <1>4 DEF Max

\* The place of a number in a set: how many come before it.
Before(S, x) == {y \in S : y < x}

LEMMA PlacesExist ==
  ASSUME NEW S \in SUBSET Nat, IsFiniteSet(S)
  PROVE  \A i \in 1..Cardinality(S) : \E x \in S : Cardinality(Before(S, x)) = i - 1
<1> DEFINE Placed(T) == \A i \in 1..Cardinality(T) : \E x \in T : Cardinality(Before(T, x)) = i - 1
           N == {n \in Nat : \A T \in SUBSET Nat : IsFiniteSet(T) /\ Cardinality(T) = n => Placed(T)}
<1>1. 0 \in N
  <2>1. \A T : Cardinality(T) = 0 => Placed(T)
    OBVIOUS
  <2> HIDE DEF Placed
  <2> QED BY <2>1
<1>2. ASSUME NEW n \in Nat, n \in N PROVE n + 1 \in N
  <2> SUFFICES ASSUME NEW T \in SUBSET Nat, IsFiniteSet(T), Cardinality(T) = n + 1,
                      NEW i \in 1..(n + 1)
               PROVE  \E x \in T : Cardinality(Before(T, x)) = i - 1
    OBVIOUS
  <2>1. T # {}
    BY FS_EmptySet
  <2>2. PICK m \in T : \A y \in T : m <= y
    BY <2>1, LeastNumber
  <2> DEFINE U == T \ {m}
  <2>3. U \in SUBSET Nat /\ IsFiniteSet(U) /\ Cardinality(U) = n
    <3>1. IsFiniteSet(U) /\ Cardinality(U) = Cardinality(T) - 1
      BY <2>2, FS_RemoveElement
    <3> QED BY <3>1
  <2>4. CASE i = 1
    <3>0. \A y \in T : ~ (y < m)
      BY <2>2
    <3>1. Before(T, m) = {}
      BY <3>0 DEF Before
    <3>2. Cardinality(Before(T, m)) = 0
      BY <3>1, FS_EmptySet
    <3> QED BY <2>4, <3>2
  <2>5. CASE i # 1
    <3>1. i - 1 \in 1..n
      BY <2>5
    <3>2. Placed(U)
      <4> HIDE DEF Placed, U
      <4> QED BY <1>2, <2>3
    <3>3. PICK x \in U : Cardinality(Before(U, x)) = i - 1 - 1
      <4> HIDE DEF U
      <4> QED BY <2>3, <3>1, <3>2
    <3>4. Before(T, x) = Before(U, x) \cup {m}
      BY <2>2, <3>3 DEF Before
    <3>5. Before(U, x) \in SUBSET U /\ m \notin Before(U, x)
      BY DEF Before
    <3>6. IsFiniteSet(Before(U, x))
      <4> HIDE DEF U
      <4> QED BY <2>3, <3>5, FS_Subset
    <3>7. Cardinality(Before(T, x)) = Cardinality(Before(U, x)) + 1
      <4> HIDE DEF U
      <4> QED BY <3>4, <3>5, <3>6, FS_AddElement
    <3> QED BY <3>3, <3>7
  <2> QED BY <2>4, <2>5
<1>3. Cardinality(S) \in Nat
  BY FS_CardinalityType
<1>4. Cardinality(S) \in N
  <2> HIDE DEF N
  <2> QED BY <1>1, <1>2, <1>3, SetInduction
<1>5. Placed(S)
  <2> HIDE DEF Placed
  <2> QED BY <1>4
<1> QED BY <1>5

LEMMA AscendingIs ==
  ASSUME NEW S \in SUBSET Nat, IsFiniteSet(S)
  PROVE  /\ Ascending(S) \in Seq(S) /\ Len(Ascending(S)) = Cardinality(S)
         /\ \A i, j \in 1..Len(Ascending(S)) : Ascending(S)[i] = Ascending(S)[j] => i = j
<1> DEFINE n == Cardinality(S)
           at(i) == CHOOSE x \in S : Cardinality(Before(S, x)) = i - 1
<1>1. n \in Nat
  BY FS_CardinalityType
<1>2. \A i \in 1..n : \E x \in S : Cardinality(Before(S, x)) = i - 1
  BY PlacesExist
<1>3. \A i \in 1..n : at(i) \in S /\ Cardinality(Before(S, at(i))) = i - 1
  BY <1>2
<1>4. Ascending(S) = [i \in 1..n |-> at(i)]
  BY DEF Ascending, Before
<1> HIDE DEF n, at
<1>5. Ascending(S) \in Seq(S) /\ Len(Ascending(S)) = n
  BY <1>1, <1>3, <1>4
<1>6. \A i, j \in 1..n : Ascending(S)[i] = Ascending(S)[j] => i = j
  <2> SUFFICES ASSUME NEW i \in 1..n, NEW j \in 1..n, at(i) = at(j) PROVE i = j
    BY <1>4
  <2>1. i - 1 = j - 1
    BY <1>3
  <2> QED BY <2>1
<1> QED BY <1>5, <1>6 DEF n

\* The first n of some sequences, one behind the other.
Flattens(f, s, n) == f = [i \in 1..n |-> IF i = 1 THEN s[i] ELSE f[i - 1] \o s[i]]

LEMMA FlattenExists ==
  ASSUME NEW s, NEW n \in Nat
  PROVE  \E f : Flattens(f, s, n)
<1> DEFINE S == {m \in Nat : \E f : Flattens(f, s, m)}
<1>1. 0 \in S
  <2> DEFINE f == [i \in 1..0 |-> s]
  <2>1. f = [i \in 1..0 |-> IF i = 1 THEN s[i] ELSE f[i - 1] \o s[i]]
    OBVIOUS
  <2>2. Flattens(f, s, 0)
    BY <2>1 DEF Flattens
  <2> QED BY <2>2
<1>2. ASSUME NEW m \in Nat, m \in S PROVE m + 1 \in S
  <2>1. PICK f : Flattens(f, s, m)
    BY <1>2
  <2> DEFINE g == [i \in 1..(m + 1) |-> IF i <= m THEN f[i] ELSE IF i = 1 THEN s[i] ELSE f[m] \o s[i]]
  <2>2. \A i \in 1..m : f[i] = IF i = 1 THEN s[i] ELSE f[i - 1] \o s[i]
    BY <2>1 DEF Flattens
  <2>3. \A i \in 1..(m + 1) : g[i] = IF i = 1 THEN s[i] ELSE g[i - 1] \o s[i]
    <3> TAKE i \in 1..(m + 1)
    <3>1. CASE i <= m
      <4>1. g[i] = f[i] /\ i \in 1..m /\ (i # 1 => g[i - 1] = f[i - 1])
        BY <3>1
      <4> HIDE DEF g
      <4> QED BY <2>2, <4>1
    <3>2. CASE i = m + 1 /\ i = 1
      <4>1. g[i] = s[i]
        BY <3>2
      <4> HIDE DEF g
      <4> QED BY <3>2, <4>1
    <3>3. CASE i = m + 1 /\ i # 1
      <4>0. i \in 1..(m + 1) /\ ~ (i <= m) /\ i - 1 = m /\ m \in 1..(m + 1) /\ m <= m
        BY <3>3
      <4>1. g[i] = f[m] \o s[i] /\ g[m] = f[m]
        BY <3>3, <4>0
      <4> HIDE DEF g
      <4> QED BY <3>3, <4>0, <4>1
    <3> QED BY <3>1, <3>2, <3>3
  <2>4. g = [i \in 1..(m + 1) |-> IF i = 1 THEN s[i] ELSE g[i - 1] \o s[i]]
    <3>1. g = [i \in 1..(m + 1) |-> g[i]]
      OBVIOUS
    <3> HIDE DEF g
    <3> QED BY <2>3, <3>1
  <2>5. Flattens(g, s, m + 1)
    <3> HIDE DEF g
    <3> QED BY <2>4 DEF Flattens
  <2> QED BY <2>5
<1> HIDE DEF S
<1>3. n \in S
  BY <1>1, <1>2, SetInduction
<1> QED BY <1>3 DEF S

LEMMA ConcatSet ==
  ASSUME NEW T, NEW s \in Seq(T), NEW t \in Seq(T)
  PROVE  s \o t \in Seq(T) /\ ToSet(s \o t) = ToSet(s) \cup ToSet(t)
<1> DEFINE u == s \o t
<1>1. /\ u \in Seq(T) /\ Len(u) = Len(s) + Len(t)
      /\ \A i \in 1..Len(s) + Len(t) : u[i] = IF i <= Len(s) THEN s[i] ELSE t[i - Len(s)]
  BY ConcatProperties
<1>2. Len(s) \in Nat /\ Len(t) \in Nat
  OBVIOUS
<1>3. DOMAIN s = 1..Len(s) /\ DOMAIN t = 1..Len(t) /\ DOMAIN u = 1..Len(u)
  BY <1>1
<1> HIDE DEF u
<1>4. \A i \in 1..Len(u) : u[i] \in ToSet(s) \cup ToSet(t)
  <2> TAKE i \in 1..Len(u)
  <2>1. CASE i <= Len(s)
    <3>1. u[i] = s[i] /\ i \in 1..Len(s)
      BY <1>1, <1>2, <2>1
    <3> QED BY <1>3, <3>1 DEF ToSet
  <2>2. CASE ~ (i <= Len(s))
    <3>1. u[i] = t[i - Len(s)] /\ i - Len(s) \in 1..Len(t)
      BY <1>1, <1>2, <2>2
    <3> QED BY <1>3, <3>1 DEF ToSet
  <2> QED BY <2>1, <2>2
<1>5. \A i \in 1..Len(s) : s[i] \in ToSet(u)
  <2> TAKE i \in 1..Len(s)
  <2>1. u[i] = s[i] /\ i \in 1..Len(u)
    BY <1>1, <1>2
  <2> QED BY <1>3, <2>1 DEF ToSet
<1>6. \A i \in 1..Len(t) : t[i] \in ToSet(u)
  <2> TAKE i \in 1..Len(t)
  <2>1. u[i + Len(s)] = t[i] /\ i + Len(s) \in 1..Len(u)
    BY <1>1, <1>2
  <2> QED BY <1>3, <2>1 DEF ToSet
<1>7. ToSet(u) = ToSet(s) \cup ToSet(t)
  BY <1>3, <1>4, <1>5, <1>6 DEF ToSet
<1> QED BY <1>1, <1>7 DEF u

\* What sequences hold one behind the other is what each of them holds.
LEMMA FlattenIs ==
  ASSUME NEW T, NEW s \in Seq(Seq(T))
  PROVE  /\ FlattenSeq(s) \in Seq(T)
         /\ ToSet(FlattenSeq(s)) = UNION {ToSet(s[i]) : i \in 1..Len(s)}
<1> DEFINE n == Len(s)
<1>1. n \in Nat /\ \A i \in 1..n : s[i] \in Seq(T)
  OBVIOUS
<1>2. CASE n = 0
  <2>1. s = <<>> /\ FlattenSeq(s) = <<>>
    BY <1>2 DEF FlattenSeq
  <2>2. ToSet(<<>>) = {} /\ <<>> \in Seq(T)
    <3>1. <<>> \in Seq(T) /\ DOMAIN <<>> = {}
      OBVIOUS
    <3> QED BY <3>1 DEF ToSet
  <2>3. UNION {ToSet(s[i]) : i \in 1..n} = {}
    BY <1>2
  <2> QED BY <2>1, <2>2, <2>3
<1>3. CASE n # 0
  <2> DEFINE f == CHOOSE f : f = [i \in 1..Len(s) |-> IF i = 1 THEN s[i] ELSE f[i - 1] \o s[i]]
             Held(m) == UNION {ToSet(s[i]) : i \in 1..m}
             S == {m \in Nat : m \in 1..n => f[m] \in Seq(T) /\ ToSet(f[m]) = Held(m)}
  <2>1. FlattenSeq(s) = f[n]
    BY <1>3 DEF FlattenSeq
  <2>2. Flattens(f, s, n)
    <3>1. \E g : Flattens(g, s, n)
      BY <1>1, FlattenExists
    <3> QED BY <3>1 DEF Flattens
  <2> HIDE DEF f
  <2>3. \A i \in 1..n : f[i] = IF i = 1 THEN s[i] ELSE f[i - 1] \o s[i]
    BY <2>2 DEF Flattens
  <2> HIDE DEF n
  <2>4. 0 \in S
    OBVIOUS
  <2>5. ASSUME NEW m \in Nat, m \in S PROVE m + 1 \in S
    <3> SUFFICES ASSUME m + 1 \in 1..n PROVE f[m + 1] \in Seq(T) /\ ToSet(f[m + 1]) = Held(m + 1)
      OBVIOUS
    <3>1. CASE m = 0
      <4>1. f[m + 1] = s[m + 1] /\ 1..(m + 1) = {m + 1}
        BY <2>3, <3>1
      <4>2. Held(m + 1) = ToSet(s[m + 1])
        BY <4>1
      <4> HIDE DEF Held
      <4> QED BY <1>1, <4>1, <4>2
    <3>2. CASE m # 0
      <4>1. m \in 1..n /\ m + 1 # 1 /\ (m + 1) - 1 = m
        BY <1>1, <3>2
      <4>2. f[m + 1] = f[m] \o s[m + 1]
        BY <2>3, <4>1
      <4>3. f[m] \in Seq(T) /\ ToSet(f[m]) = Held(m)
        BY <2>5, <4>1
      <4>4. s[m + 1] \in Seq(T)
        BY <1>1
      <4>5. 1..(m + 1) = 1..m \cup {m + 1}
        BY <1>1
      <4>6. Held(m + 1) = Held(m) \cup ToSet(s[m + 1])
        BY <4>5
      <4> HIDE DEF Held
      <4>7. f[m] \o s[m + 1] \in Seq(T) /\ ToSet(f[m] \o s[m + 1]) = ToSet(f[m]) \cup ToSet(s[m + 1])
        BY <4>3, <4>4, ConcatSet
      <4> QED BY <4>2, <4>3, <4>6, <4>7
    <3> QED BY <3>1, <3>2
  <2> HIDE DEF S
  <2>6. n \in S
    BY <1>1, <2>4, <2>5, SetInduction
  <2>7. f[n] \in Seq(T) /\ ToSet(f[n]) = Held(n)
    BY <1>1, <1>3, <2>6 DEF S
  <2> QED BY <2>1, <2>7 DEF n
<1> QED BY <1>2, <1>3

-----------------------------------------------------------------------------
(* What lies below a revision. *)

Typed(E) == \A e \in E : e.from \in Revs /\ e.asset \in Assets /\ e.to \in Revs

\* A rank of revisions that falls along every edge.
Ranked(rank, n, E) ==
  /\ rank \in [Revs -> 0..n]
  /\ \A e \in E : rank[e.to] < rank[e.from]

LEMMA FiniteNumbers == \A S \in SUBSET Assets : S \in SUBSET Nat /\ IsFiniteSet(S)
BY LibraryAssumption, FS_Subset

LEMMA DependenciesAre ==
  ASSUME NEW E, Typed(E), NEW r
  PROVE  DependenciesIn(E, r) \in Seq(EdgesIn(E, r))
<1> DEFINE here == EdgesIn(E, r)
           S == {e.asset : e \in here}
           named == Ascending(S)
<1>1. S \in SUBSET Assets
  BY DEF Typed, EdgesIn
<1>2. named \in Seq(S)
  <2> HIDE DEF S
  <2> QED BY <1>1, FiniteNumbers, AscendingIs
<1>3. \A i \in DOMAIN named : named[i] \in S
  <2> HIDE DEF named, S
  <2> QED BY <1>2
<1>4. \A i \in DOMAIN named : \E e \in here : e.asset = named[i]
  <2> HIDE DEF named
  <2> QED BY <1>3
<1>5. DOMAIN named = 1..Len(named) /\ Len(named) \in Nat
  <2> HIDE DEF named, S
  <2> QED BY <1>2
<1>6. DependenciesIn(E, r) = [i \in DOMAIN named |-> CHOOSE e \in here : e.asset = named[i]]
  BY DEF DependenciesIn
<1> HIDE DEF named, here
<1>7. \A i \in DOMAIN named : (CHOOSE e \in here : e.asset = named[i]) \in here
  BY <1>4
<1>8. DependenciesIn(E, r) \in [1..Len(named) -> here]
  BY <1>5, <1>6, <1>7
<1>9. DependenciesIn(E, r) \in Seq(here)
  BY <1>5, <1>8
<1> QED BY <1>9 DEF here

LEMMA BelowSame ==
  ASSUME NEW E, NEW deps \in Seq(E), NEW f, NEW g,
         \A i \in 1..Len(deps) : f[deps[i].to] = g[deps[i].to]
  PROVE  Below(f, deps) = Below(g, deps)
<1>1. DOMAIN deps = 1..Len(deps)
  OBVIOUS
<1>2. [i \in DOMAIN deps |-> Append(f[deps[i].to], deps[i].to)]
        = [i \in DOMAIN deps |-> Append(g[deps[i].to], deps[i].to)]
  BY <1>1
<1> QED BY <1>2 DEF Below

LEMMA BelowIs ==
  ASSUME NEW E, NEW deps \in Seq(E), NEW walk,
         \A i \in 1..Len(deps) : deps[i].to \in Revs /\ walk[deps[i].to] \in Seq(Revs)
  PROVE  /\ Below(walk, deps) \in Seq(Revs)
         /\ ToSet(Below(walk, deps))
              = UNION {ToSet(walk[deps[i].to]) \cup {deps[i].to} : i \in 1..Len(deps)}
<1> DEFINE s == [i \in DOMAIN deps |-> Append(walk[deps[i].to], deps[i].to)]
<1>1. DOMAIN deps = 1..Len(deps) /\ Len(deps) \in Nat
  OBVIOUS
<1>2. \A i \in 1..Len(deps) : /\ Append(walk[deps[i].to], deps[i].to) \in Seq(Revs)
                              /\ ToSet(Append(walk[deps[i].to], deps[i].to))
                                   = ToSet(walk[deps[i].to]) \cup {deps[i].to}
  <2> TAKE i \in 1..Len(deps)
  <2> DEFINE w == walk[deps[i].to]
             x == deps[i].to
  <2>1. w \in Seq(Revs) /\ x \in Revs
    OBVIOUS
  <2> HIDE DEF w, x
  <2>2. /\ Append(w, x) \in Seq(Revs) /\ Len(Append(w, x)) = Len(w) + 1
        /\ \A j \in 1..Len(w) : Append(w, x)[j] = w[j]
        /\ Append(w, x)[Len(w) + 1] = x
    BY <2>1, AppendProperties
  <2>3. DOMAIN w = 1..Len(w) /\ DOMAIN Append(w, x) = 1..(Len(w) + 1) /\ Len(w) \in Nat
    BY <2>1, <2>2
  <2>4. 1..(Len(w) + 1) = 1..Len(w) \cup {Len(w) + 1}
    BY <2>3
  <2>5. ToSet(Append(w, x)) = ToSet(w) \cup {x}
    BY <2>2, <2>3, <2>4 DEF ToSet
  <2>6. Append(w, x) \in Seq(Revs) /\ ToSet(Append(w, x)) = ToSet(w) \cup {x}
    BY <2>2, <2>5
  <2> QED BY <2>6 DEF w, x
<1>3. s \in Seq(Seq(Revs)) /\ Len(s) = Len(deps) /\ \A i \in 1..Len(deps) : s[i] = Append(walk[deps[i].to], deps[i].to)
  BY <1>1, <1>2
<1>4. Below(walk, deps) = FlattenSeq(s)
  BY DEF Below
<1> HIDE DEF s
<1>5. FlattenSeq(s) \in Seq(Revs) /\ ToSet(FlattenSeq(s)) = UNION {ToSet(s[i]) : i \in 1..Len(s)}
  BY <1>3, FlattenIs
<1>6. \A i \in 1..Len(s) : ToSet(s[i]) = ToSet(walk[deps[i].to]) \cup {deps[i].to}
  BY <1>2, <1>3
<1>7. UNION {ToSet(s[i]) : i \in 1..Len(s)} = UNION {ToSet(walk[deps[i].to]) \cup {deps[i].to} : i \in 1..Len(deps)}
  <2> DEFINE A(i) == ToSet(s[i])
             B(i) == ToSet(walk[deps[i].to]) \cup {deps[i].to}
  <2>1. \A i \in 1..Len(deps) : A(i) = B(i)
    BY <1>3, <1>6
  <2> HIDE DEF A, B
  <2>2. UNION {A(i) : i \in 1..Len(deps)} = UNION {B(i) : i \in 1..Len(deps)}
    BY <2>1
  <2> QED BY <1>3, <2>2 DEF A, B
<1> QED BY <1>4, <1>5, <1>7

LEMMA DependencyFalls ==
  ASSUME NEW E, Typed(E), NEW n \in Nat, NEW rank, Ranked(rank, n, E), NEW r \in Revs
  PROVE  LET deps == DependenciesIn(E, r)
         IN /\ deps \in Seq(E) /\ deps \in Seq(EdgesIn(E, r))
            /\ \A i \in 1..Len(deps) : /\ deps[i] \in E /\ deps[i].from = r /\ deps[i].to \in Revs
                                       /\ rank[deps[i].to] \in Nat /\ rank[r] \in Nat
                                       /\ rank[deps[i].to] < rank[r]
<1> DEFINE deps == DependenciesIn(E, r)
<1>1. deps \in Seq(EdgesIn(E, r))
  BY DependenciesAre
<1>2. EdgesIn(E, r) \subseteq E /\ \A e \in EdgesIn(E, r) : e.from = r
  BY DEF EdgesIn
<1> HIDE DEF deps
<1>3. \A i \in 1..Len(deps) : deps[i] \in EdgesIn(E, r)
  BY <1>1
<1>4. deps \in Seq(E)
  BY <1>1, <1>2
<1>5. \A i \in 1..Len(deps) : deps[i].to \in Revs
  BY <1>2, <1>3 DEF Typed
<1>6. \A i \in 1..Len(deps) : rank[deps[i].to] < rank[r]
  BY <1>2, <1>3 DEF Ranked
<1>7. \A x \in Revs : rank[x] \in Nat
  BY DEF Ranked
<1> QED BY <1>1, <1>2, <1>3, <1>4, <1>5, <1>6, <1>7 DEF deps

LEMMA WalkIs ==
  ASSUME NEW E, Typed(E), NEW n \in Nat, NEW rank, Ranked(rank, n, E)
  PROVE  WalkOf(E) = [r \in Revs |-> Below(WalkOf(E), DependenciesIn(E, r))]
<1> DEFINE DepsOf(r) == DependenciesIn(E, r)
           Walks(f, m) == \A r \in Revs : rank[r] < m => f[r] = Below(f, DepsOf(r))
           S == {m \in Nat : \E f : DOMAIN f = Revs /\ f = [r \in Revs |-> f[r]] /\ Walks(f, m)}
<1>1. \A r \in Revs : rank[r] \in 0..n
  BY DEF Ranked
<1>2. 0 \in S
  <2> DEFINE f == [r \in Revs |-> 0]
  <2>1. Walks(f, 0)
    BY <1>1
  <2>2. DOMAIN f = Revs /\ f = [r \in Revs |-> f[r]]
    OBVIOUS
  <2> HIDE DEF f, Walks
  <2> QED BY <2>1, <2>2
<1>3. ASSUME NEW m \in Nat, m \in S PROVE m + 1 \in S
  <2>1. PICK f : DOMAIN f = Revs /\ f = [r \in Revs |-> f[r]] /\ Walks(f, m)
    BY <1>3
  <2> DEFINE g == [r \in Revs |-> Below(f, DepsOf(r))]
  <2>2. \A r \in Revs : g[r] = Below(f, DepsOf(r))
    OBVIOUS
  <2>3. \A r \in Revs : rank[r] < m => f[r] = g[r]
    BY <2>1, <2>2
  <2>4. DOMAIN g = Revs /\ g = [r \in Revs |-> g[r]]
    OBVIOUS
  <2> HIDE DEF g
  <2>5. ASSUME NEW r \in Revs, rank[r] < m + 1 PROVE g[r] = Below(g, DepsOf(r))
    <3>1. /\ DepsOf(r) \in Seq(E)
          /\ \A i \in 1..Len(DepsOf(r)) : /\ DepsOf(r)[i].to \in Revs
                                        /\ rank[DepsOf(r)[i].to] \in Nat /\ rank[r] \in Nat
                                        /\ rank[DepsOf(r)[i].to] < rank[r]
      BY DependencyFalls
    <3> HIDE DEF DepsOf
    <3>2. \A i \in 1..Len(DepsOf(r)) : rank[DepsOf(r)[i].to] < m
      BY <2>5, <3>1
    <3>3. \A i \in 1..Len(DepsOf(r)) : f[DepsOf(r)[i].to] = g[DepsOf(r)[i].to]
      BY <2>3, <3>1, <3>2
    <3>4. Below(f, DepsOf(r)) = Below(g, DepsOf(r))
      BY <3>1, <3>3, BelowSame
    <3> QED BY <2>2, <3>4
  <2>6. Walks(g, m + 1)
    BY <2>5
  <2> HIDE DEF Walks
  <2> QED BY <2>4, <2>6
<1>4. n + 1 \in S
  <2> HIDE DEF S
  <2> QED BY <1>2, <1>3, SetInduction
<1>5. PICK f : DOMAIN f = Revs /\ f = [r \in Revs |-> f[r]] /\ Walks(f, n + 1)
  BY <1>4
<1>6. \A r \in Revs : f[r] = Below(f, DepsOf(r))
  BY <1>1, <1>5
<1>7. f = [r \in Revs |-> Below(f, DependenciesIn(E, r))]
  BY <1>5, <1>6
<1>8. WalkOf(E) = CHOOSE walk : walk = [r \in Revs |-> Below(walk, DependenciesIn(E, r))]
  BY DEF WalkOf
<1> QED BY <1>7, <1>8

\* The walk of a revision stays in any family of sets that holds what each
\* dependency leads to and what that leads to, and is one itself.
LEMMA WalkWithin ==
  ASSUME NEW E, Typed(E), NEW n \in Nat, NEW rank, Ranked(rank, n, E), NEW G,
         \A r \in Revs : \A i \in 1..Len(DependenciesIn(E, r)) :
           LET to == DependenciesIn(E, r)[i].to IN to \in G[r] /\ G[to] \subseteq G[r]
  PROVE  \A r \in Revs : WalkOf(E)[r] \in Seq(Revs) /\ ToSet(WalkOf(E)[r]) \subseteq G[r]
<1> DEFINE W == WalkOf(E)
           DepsOf(r) == DependenciesIn(E, r)
           S == {m \in Nat : \A r \in Revs : rank[r] < m => W[r] \in Seq(Revs) /\ ToSet(W[r]) \subseteq G[r]}
<1>1. \A r \in Revs : W[r] = Below(W, DepsOf(r))
  BY WalkIs
<1> HIDE DEF W
<1>2. \A r \in Revs : rank[r] \in 0..n
  BY DEF Ranked
<1>3. 0 \in S
  BY <1>2
<1>4. ASSUME NEW m \in Nat, m \in S PROVE m + 1 \in S
  <2> SUFFICES ASSUME NEW r \in Revs, rank[r] < m + 1
               PROVE  W[r] \in Seq(Revs) /\ ToSet(W[r]) \subseteq G[r]
    OBVIOUS
  <2>0. \A i \in 1..Len(DepsOf(r)) : DepsOf(r)[i].to \in G[r] /\ G[DepsOf(r)[i].to] \subseteq G[r]
    OBVIOUS
  <2>1. /\ DepsOf(r) \in Seq(E)
        /\ \A i \in 1..Len(DepsOf(r)) : /\ DepsOf(r)[i].to \in Revs
                                      /\ rank[DepsOf(r)[i].to] \in Nat /\ rank[r] \in Nat
                                      /\ rank[DepsOf(r)[i].to] < rank[r]
    BY DependencyFalls
  <2> HIDE DEF DepsOf
  <2>2. \A i \in 1..Len(DepsOf(r)) : rank[DepsOf(r)[i].to] < m
    BY <2>1
  <2>3. \A i \in 1..Len(DepsOf(r)) :
          W[DepsOf(r)[i].to] \in Seq(Revs) /\ ToSet(W[DepsOf(r)[i].to]) \subseteq G[DepsOf(r)[i].to]
    BY <1>4, <2>1, <2>2
  <2>4. /\ Below(W, DepsOf(r)) \in Seq(Revs)
        /\ ToSet(Below(W, DepsOf(r)))
             = UNION {ToSet(W[DepsOf(r)[i].to]) \cup {DepsOf(r)[i].to} : i \in 1..Len(DepsOf(r))}
    BY <2>1, <2>3, BelowIs
  <2>5. \A i \in 1..Len(DepsOf(r)) : ToSet(W[DepsOf(r)[i].to]) \cup {DepsOf(r)[i].to} \subseteq G[r]
    BY <2>0, <2>3
  <2> QED BY <1>1, <2>4, <2>5
<1> HIDE DEF S
<1>5. n + 1 \in S
  BY <1>3, <1>4, SetInduction
<1>6. \A r \in Revs : W[r] \in Seq(Revs) /\ ToSet(W[r]) \subseteq G[r]
  BY <1>2, <1>5 DEF S
<1> QED BY <1>6 DEF W

\* The walks are such a family.
LEMMA WalkHolds ==
  ASSUME NEW E, Typed(E), NEW n \in Nat, NEW rank, Ranked(rank, n, E), NEW r \in Revs
  PROVE  /\ WalkOf(E)[r] \in Seq(Revs) /\ ToSet(WalkOf(E)[r]) \in SUBSET Revs
         /\ \A i \in 1..Len(DependenciesIn(E, r)) :
              LET to == DependenciesIn(E, r)[i].to
              IN to \in ToSet(WalkOf(E)[r]) /\ ToSet(WalkOf(E)[to]) \subseteq ToSet(WalkOf(E)[r])
<1> DEFINE W == WalkOf(E)
           deps == DependenciesIn(E, r)
           G == [x \in Revs |-> Revs]
<1>1. \A x \in Revs : \A i \in 1..Len(DependenciesIn(E, x)) : DependenciesIn(E, x)[i].to \in Revs
  BY DependencyFalls
<1>2. \A x \in Revs : \A i \in 1..Len(DependenciesIn(E, x)) :
        LET to == DependenciesIn(E, x)[i].to IN to \in G[x] /\ G[to] \subseteq G[x]
  BY <1>1
<1>3. \A x \in Revs : W[x] \in Seq(Revs) /\ ToSet(W[x]) \subseteq G[x]
  <2> HIDE DEF G
  <2> QED BY <1>2, WalkWithin
<1>4. \A x \in Revs : W[x] \in Seq(Revs) /\ ToSet(W[x]) \in SUBSET Revs
  BY <1>3
<1>5. W[r] = Below(W, deps)
  BY WalkIs
<1>6. deps \in Seq(E) /\ \A i \in 1..Len(deps) : deps[i].to \in Revs
  BY DependencyFalls
<1> HIDE DEF W, deps
<1>7. ToSet(Below(W, deps)) = UNION {ToSet(W[deps[i].to]) \cup {deps[i].to} : i \in 1..Len(deps)}
  BY <1>4, <1>6, BelowIs
<1>8. \A i \in 1..Len(deps) : deps[i].to \in ToSet(W[r]) /\ ToSet(W[deps[i].to]) \subseteq ToSet(W[r])
  BY <1>5, <1>7
<1> QED BY <1>4, <1>8 DEF W, deps

-----------------------------------------------------------------------------
(* Token documents. *)

\* What a value comes to once the tokens of a trail have been met.
Follows(f, x, k, trail) ==
  [v \in Values |->
     IF v \in Tokens
     THEN v \notin trail /\ v \in DOMAIN Says[x] /\ Category[v] = k /\ f[trail \cup {v}][Says[x][v]]
     ELSE v = "fits"]

Left(trail) == Cardinality(Tokens \ trail)

LEMMA LeftFalls ==
  /\ \A trail \in SUBSET Tokens : Left(trail) \in 0..Cardinality(Tokens)
  /\ \A trail \in SUBSET Tokens : \A v \in Tokens \ trail :
       trail \cup {v} \in SUBSET Tokens /\ Left(trail \cup {v}) < Left(trail)
<1>1. IsFiniteSet(Tokens) /\ Cardinality(Tokens) \in Nat
  BY LibraryAssumption, FS_CardinalityType
<1>2. ASSUME NEW trail \in SUBSET Tokens
      PROVE  IsFiniteSet(Tokens \ trail) /\ Left(trail) \in Nat /\ Left(trail) <= Cardinality(Tokens)
  <2>1. Tokens \ trail \in SUBSET Tokens
    OBVIOUS
  <2>2. IsFiniteSet(Tokens \ trail) /\ Cardinality(Tokens \ trail) <= Cardinality(Tokens)
    BY <1>1, <2>1, FS_Subset
  <2>3. Cardinality(Tokens \ trail) \in Nat
    BY <2>2, FS_CardinalityType
  <2> QED BY <2>2, <2>3 DEF Left
<1>3. ASSUME NEW trail \in SUBSET Tokens, NEW v \in Tokens \ trail
      PROVE  Left(trail \cup {v}) < Left(trail)
  <2>1. Tokens \ (trail \cup {v}) = (Tokens \ trail) \ {v}
    OBVIOUS
  <2>2. Cardinality((Tokens \ trail) \ {v}) = Cardinality(Tokens \ trail) - 1
    BY <1>2, FS_RemoveElement
  <2> QED BY <1>2, <2>1, <2>2 DEF Left
<1>4. \A trail \in SUBSET Tokens : Left(trail) \in 0..Cardinality(Tokens)
  <2> TAKE trail \in SUBSET Tokens
  <2>1. Left(trail) \in Nat /\ Left(trail) <= Cardinality(Tokens)
    BY <1>2
  <2> HIDE DEF Left
  <2> QED BY <1>1, <2>1
<1>5. \A trail \in SUBSET Tokens : \A v \in Tokens \ trail : trail \cup {v} \in SUBSET Tokens
  OBVIOUS
<1> QED BY <1>3, <1>4, <1>5

LEMMA FollowsSame ==
  ASSUME NEW x, NEW k, NEW f, NEW g, NEW trail \in SUBSET Tokens,
         \A v \in Tokens \ trail : f[trail \cup {v}] = g[trail \cup {v}]
  PROVE  Follows(f, x, k, trail) = Follows(g, x, k, trail)
<1> DEFINE A(v) == IF v \in Tokens
                   THEN v \notin trail /\ v \in DOMAIN Says[x] /\ Category[v] = k /\ f[trail \cup {v}][Says[x][v]]
                   ELSE v = "fits"
           B(v) == IF v \in Tokens
                   THEN v \notin trail /\ v \in DOMAIN Says[x] /\ Category[v] = k /\ g[trail \cup {v}][Says[x][v]]
                   ELSE v = "fits"
<1>1. \A v \in Values : A(v) = B(v)
  <2> TAKE v \in Values
  <2>1. CASE v \in Tokens \ trail
    BY <2>1
  <2>2. CASE v \in trail
    BY <2>2
  <2>3. CASE v \notin Tokens
    BY <2>3
  <2> QED BY <2>1, <2>2, <2>3
<1>2. Follows(f, x, k, trail) = [v \in Values |-> A(v)] /\ Follows(g, x, k, trail) = [v \in Values |-> B(v)]
  BY DEF Follows
<1> HIDE DEF A, B
<1> QED BY <1>1, <1>2

LEMMA FollowsExists ==
  ASSUME NEW x, NEW k
  PROVE  \E f : f = [trail \in SUBSET Tokens |-> Follows(f, x, k, trail)]
<1> DEFINE n == Cardinality(Tokens)
           Trails == SUBSET Tokens
           Settling(f, m) == \A trail \in Trails : Left(trail) < m => f[trail] = Follows(f, x, k, trail)
           S == {m \in Nat : \E f : f = [trail \in Trails |-> f[trail]] /\ Settling(f, m)}
<1>1. n \in Nat /\ \A trail \in Trails : Left(trail) \in 0..n
  BY LeftFalls, LibraryAssumption, FS_CardinalityType
<1>2. \A trail \in Trails : \A v \in Tokens \ trail : trail \cup {v} \in Trails /\ Left(trail \cup {v}) < Left(trail)
  BY LeftFalls
<1> HIDE DEF n
<1>3. 0 \in S
  <2> DEFINE f == [trail \in Trails |-> 0]
  <2>1. Settling(f, 0)
    BY <1>1
  <2>2. f = [trail \in Trails |-> f[trail]]
    OBVIOUS
  <2> HIDE DEF f, Settling
  <2> QED BY <2>1, <2>2
<1>4. ASSUME NEW m \in Nat, m \in S PROVE m + 1 \in S
  <2>1. PICK f : f = [trail \in Trails |-> f[trail]] /\ Settling(f, m)
    BY <1>4
  <2> DEFINE g == [trail \in Trails |-> Follows(f, x, k, trail)]
  <2>2. \A trail \in Trails : g[trail] = Follows(f, x, k, trail)
    OBVIOUS
  <2>3. \A trail \in Trails : Left(trail) < m => f[trail] = g[trail]
    BY <2>1, <2>2
  <2>4. g = [trail \in Trails |-> g[trail]]
    OBVIOUS
  <2> HIDE DEF g
  <2>5. ASSUME NEW trail \in Trails, Left(trail) < m + 1 PROVE g[trail] = Follows(g, x, k, trail)
    <3>1. \A v \in Tokens \ trail : trail \cup {v} \in Trails /\ Left(trail \cup {v}) < Left(trail)
      BY <1>2
    <3>2. \A v \in Tokens \ trail : Left(trail \cup {v}) \in Nat /\ Left(trail) \in Nat
      BY <1>1, <3>1
    <3>3. \A v \in Tokens \ trail : Left(trail \cup {v}) < m
      BY <2>5, <3>1, <3>2
    <3>4. \A v \in Tokens \ trail : f[trail \cup {v}] = g[trail \cup {v}]
      BY <2>3, <3>1, <3>3
    <3>5. Follows(f, x, k, trail) = Follows(g, x, k, trail)
      BY <3>4, FollowsSame
    <3> QED BY <2>2, <3>5
  <2>6. Settling(g, m + 1)
    BY <2>5
  <2> HIDE DEF Settling
  <2> QED BY <2>4, <2>6
<1>5. n + 1 \in S
  <2> HIDE DEF S
  <2> QED BY <1>1, <1>3, <1>4, SetInduction
<1>6. PICK f : f = [trail \in Trails |-> f[trail]] /\ Settling(f, n + 1)
  BY <1>5
<1>7. \A trail \in Trails : f[trail] = Follows(f, x, k, trail)
  <2>1. \A trail \in Trails : Left(trail) < n + 1
    BY <1>1
  <2> QED BY <1>6, <2>1
<1>8. f = [trail \in Trails |-> Follows(f, x, k, trail)]
  BY <1>6, <1>7
<1> QED BY <1>8

\* A value that settles is one that fits or a token of the category in every set
\* that is closed under what a token names.
LEMMA SettlesReached ==
  ASSUME NEW x \in Texts, NEW k, NEW S \in SUBSET DOMAIN Says[x],
         \A t \in DOMAIN Says[x] :
           Says[x][t] = "fits" \/ (Says[x][t] \in S /\ Category[Says[x][t]] = Category[t]) => t \in S,
         NEW v \in Values, Settles(x, k)[v]
  PROVE  v = "fits" \/ (v \in S /\ Category[v] = k)
<1> DEFINE f == CHOOSE f : f = [trail \in SUBSET Tokens |-> Follows(f, x, k, trail)]
           n == Cardinality(Tokens)
           Good(u) == u = "fits" \/ (u \in S /\ Category[u] = k)
           N == {m \in Nat : \A trail \in SUBSET Tokens : Left(trail) < m =>
                   \A u \in Values : f[trail][u] => Good(u)}
<1>1. f = [trail \in SUBSET Tokens |-> Follows(f, x, k, trail)]
  BY FollowsExists
<1>2. Settles(x, k) = f[{}]
  BY DEF Settles, Follows
<1> HIDE DEF f
<1>3. \A trail \in SUBSET Tokens : f[trail] = Follows(f, x, k, trail)
  BY <1>1
<1>4. n \in Nat /\ \A trail \in SUBSET Tokens : Left(trail) \in 0..n
  BY LeftFalls, LibraryAssumption, FS_CardinalityType
<1>5. \A t \in DOMAIN Says[x] : Says[x][t] \in Values
  BY LibraryAssumption DEF Values
<1> HIDE DEF n
<1>6. 0 \in N
  BY <1>4
<1>7. ASSUME NEW m \in Nat, m \in N PROVE m + 1 \in N
  <2> SUFFICES ASSUME NEW trail \in SUBSET Tokens, Left(trail) < m + 1, NEW u \in Values, f[trail][u]
               PROVE  Good(u)
    OBVIOUS
  <2>1. f[trail][u] = IF u \in Tokens
                      THEN u \notin trail /\ u \in DOMAIN Says[x] /\ Category[u] = k /\ f[trail \cup {u}][Says[x][u]]
                      ELSE u = "fits"
    BY <1>3 DEF Follows
  <2>2. CASE u \notin Tokens
    BY <2>1, <2>2
  <2>3. CASE u \in Tokens
    <3>1. u \notin trail /\ u \in DOMAIN Says[x] /\ Category[u] = k /\ f[trail \cup {u}][Says[x][u]]
      BY <2>1, <2>3
    <3>2. trail \cup {u} \in SUBSET Tokens /\ Left(trail \cup {u}) < Left(trail)
      BY <2>3, <3>1, LeftFalls
    <3>3. Left(trail \cup {u}) \in Nat /\ Left(trail) \in Nat
      BY <1>4, <3>2
    <3>4. Left(trail \cup {u}) < m
      BY <3>2, <3>3
    <3>5. Good(Says[x][u])
      <4> HIDE DEF Good
      <4> QED BY <1>5, <1>7, <3>1, <3>2, <3>4
    <3>6. u \in S
      BY <3>1, <3>5
    <3> QED BY <3>1, <3>6
  <2> QED BY <2>2, <2>3
<1>8. n + 1 \in N
  <2> HIDE DEF N
  <2> QED BY <1>4, <1>6, <1>7, SetInduction
<1>9. Left({}) < n + 1
  BY <1>4
<1>10. Good(v)
  <2> HIDE DEF Good
  <2> QED BY <1>2, <1>8, <1>9
<1> QED BY <1>10

\* What passes the rule for a publish settles.
LEMMA SoundSettles ==
  ASSUME NEW x \in Texts, Sound(x)
  PROVE  Settled(x)
<1> DEFINE says == Says[x]
           Reached(S) == {t \in DOMAIN says : says[t] = "fits" \/ (says[t] \in S /\ Category[says[t]] = Category[t])}
<1> SUFFICES ASSUME NEW S \in SUBSET DOMAIN says, Reached(S) \subseteq S
             PROVE  DOMAIN says \subseteq S
  BY DEF Settled
<1>1. \A t \in DOMAIN Says[x] :
        Says[x][t] = "fits" \/ (Says[x][t] \in S /\ Category[Says[x][t]] = Category[t]) => t \in S
  OBVIOUS
<1>2. \A t \in DOMAIN Says[x] : Says[x][t] \in Values
  BY LibraryAssumption DEF Values
<1>3. ASSUME NEW t \in DOMAIN Says[x] PROVE t \in S
  <2>1. Settles(x, Category[t])[Says[x][t]]
    BY DEF Sound
  <2>2. Says[x][t] = "fits" \/ (Says[x][t] \in S /\ Category[Says[x][t]] = Category[t])
    BY <1>1, <1>2, <2>1, SettlesReached
  <2> QED BY <1>1, <2>2
<1> QED BY <1>3

-----------------------------------------------------------------------------
(* The invariant of the library. *)

\* A row holds a draft of its kind, and only what was numbered is published.
Sane(row, w) ==
  /\ row \in AssetRow
  /\ row.draft \in DraftsOf(row.kind)
  /\ row.kind = "tokens" => Fit(row.draft)
  /\ row.counter <= w
  /\ row.counter = 0 => row.number = 0
  /\ row.lifecycle = "draft" => row.number = 0
  /\ row.lifecycle = "published" => row.number > 0

AssetInv ==
  /\ writes \in 0..MaxWrites
  /\ asset \in [Assets -> AssetRow \cup {None}]
  /\ \A a \in Assets : asset[a] # None => Sane(asset[a], writes)

\* A revision that is stored, or was before its asset was deleted.
WasStored(r) == r \in Revs /\ asset[r[1]] # None /\ r[2] <= asset[r[1]].number

\* The rows of revisions are those their assets have counted, and what they
\* froze is of the asset's kind.
RowInv ==
  /\ \A row \in revision :
       /\ row.id \in Revs /\ row.deps \subseteq Deps
       /\ Exists(row.id[1]) /\ row.id[2] <= asset[row.id[1]].number
       /\ row.parts \in DraftsOf(asset[row.id[1]].kind)
       /\ asset[row.id[1]].kind = "tokens" => Fit(row.parts)
  /\ \A a \in Assets : Exists(a) => \A n \in 1..asset[a].number : Stored(<<a, n>>)

\* Edges lead from and to revisions there are or were, inside one project.
EdgeInv ==
  \A e \in edges :
    /\ WasStored(e.from) /\ WasStored(e.to) /\ e.asset \in Assets
    /\ asset[e.from[1]].project = asset[e.to[1]].project
    /\ e.asset = e.to[1] => Stored(e.to)

\* Each declared dependency of an asset has an edge, its own or, for a copy, one
\* of an asset it descends from through parents that all have their lineage.
Anchored(a, d) ==
  \E S \in SUBSET Assets :
    /\ a \in S /\ \A s \in S : s = a \/ \E c \in S : <<c, s>> \in lineage
    /\ \E e \in edges : e.from[1] \in S /\ e.asset = d.asset /\ e.to = d.to

AnchorInv ==
  /\ lineage \subseteq Assets \X Assets
  /\ \A row \in revision : \A d \in row.deps : Anchored(row.id[1], d)

InstanceInv ==
  \A i \in Instances : instance[i] # None =>
    /\ instance[i] \in [project : Projects, asset : Assets, rev : Revs]
    /\ instance[i].rev[1] = instance[i].asset /\ Stored(instance[i].rev)

\* What a client has read: the target of an unarchive is right as long as the
\* counter has not moved, a row to be created is a draft of its kind, and a
\* closure is a list of revisions.
Aims(u) ==
  /\ u.asset \in Assets /\ asset[u.asset] # None
  /\ u.counter \in Nat /\ u.counter <= asset[u.asset].counter
  /\ asset[u.asset].counter = u.counter =>
       \/ u.target = "published" /\ Published(u.asset)
       \/ u.target = "draft" /\ ~Published(u.asset)

IsDraft(row) == \E p \in Projects, k \in {"page", "component"} : \E x \in DraftsOf(k) : row = Draft(p, k, x)

Awaits(u) ==
  \/ u.do = "unarchive" /\ Aims(u)
  \/ u.do = "create" /\ IsDraft(u.row)
  \/ u.do = "import" /\ u.project \in Projects /\ u.all \in Seq(Revs)

AskedInv == \A c \in Clients : asked[c] # None => Awaits(asked[c])

\* No revision lies below one of its own asset; along the edges a rank falls.
LoopInv == \A r \in Revs : \A x \in ToSet(Walk[r]) : x[1] # r[1]

RankInv == \E n \in Nat : \E rank : Ranked(rank, n, edges)

LibraryInv ==
  AssetInv /\ RowInv /\ EdgeInv /\ AnchorInv /\ InstanceInv /\ AskedInv /\ RankInv /\ LoopInv

LEMMA StoredIs ==
  ASSUME RowInv, NEW r, Stored(r)
  PROVE  r \in Revs /\ Exists(r[1]) /\ r[2] <= asset[r[1]].number /\ WasStored(r)
BY DEF Stored, RowInv, WasStored, Exists

LEMMA EdgesTyped == EdgeInv => Typed(edges)
BY DEF EdgeInv, Typed, WasStored

LEMMA NumbersStored ==
  ASSUME AssetInv, RowInv, NEW a \in Assets, Exists(a)
  PROVE  {row.id : row \in {q \in revision : q.id[1] = a}} = {<<a, n>> : n \in 1..asset[a].number}
<1>1. ASSUME NEW row \in revision, row.id[1] = a PROVE row.id \in {<<a, n>> : n \in 1..asset[a].number}
  <2>1. row.id \in Assets \X (1..MaxRevisions) /\ row.id[2] <= asset[a].number
    BY <1>1 DEF RowInv, Revs
  <2>2. row.id = <<a, row.id[2]>> /\ row.id[2] \in 1..MaxRevisions
    BY <1>1, <2>1
  <2>3. asset[a].number \in Int
    BY LibraryAssumption DEF AssetInv, AssetRow, Sane, Exists
  <2>4. row.id[2] \in 1..asset[a].number
    BY <2>1, <2>2, <2>3, LibraryAssumption
  <2> QED BY <2>2, <2>4
<1>2. ASSUME NEW n \in 1..asset[a].number PROVE \E row \in revision : row.id[1] = a /\ row.id = <<a, n>>
  BY DEF RowInv, Stored
<1> QED BY <1>1, <1>2

LEMMA NoRows ==
  ASSUME RowInv, NEW a \in Assets, ~ Exists(a)
  PROVE  {row.id : row \in {q \in revision : q.id[1] = a}} = {}
<1>1. {q \in revision : q.id[1] = a} = {}
  BY DEF RowInv
<1> QED BY <1>1

LEMMA LibraryInvImplies == LibraryInv => ReferencesHold
<1> SUFFICES ASSUME LibraryInv PROVE ReferencesHold
  OBVIOUS
<1> USE DEF LibraryInv
<1>1. TypeOK
  <2>1. ASSUME NEW a \in Assets, asset[a] # None
        PROVE  /\ asset[a].project \in Projects /\ asset[a].kind \in Kinds
               /\ asset[a].lifecycle \in Lifecycles
               /\ asset[a].counter \in 0..MaxWrites + 1 /\ asset[a].number \in 0..MaxRevisions
               /\ asset[a].draft \in DraftsOf(asset[a].kind)
    <3>1. Sane(asset[a], writes) /\ writes \in 0..MaxWrites
      BY <2>1 DEF AssetInv
    <3>2. asset[a] \in AssetRow /\ asset[a].draft \in DraftsOf(asset[a].kind) /\ asset[a].counter <= writes
      BY <3>1 DEF Sane
    <3>3. asset[a].counter \in Nat
      BY <3>2 DEF AssetRow
    <3>4. asset[a].counter \in 0..MaxWrites + 1
      BY <3>1, <3>2, <3>3, LibraryAssumption
    <3> QED BY <3>2, <3>4 DEF AssetRow
  <2>2. ASSUME NEW a \in Assets, asset[a] # None
        PROVE  {row.id : row \in {q \in revision : q.id[1] = a}}
                 = IF Exists(a) THEN {<<a, n>> : n \in 1..asset[a].number} ELSE {}
    BY NumbersStored, NoRows
  <2>3. /\ \A row \in revision : row.id \in Revs /\ row.deps \subseteq Deps
        /\ \A e \in edges : e.from \in Revs /\ e.asset \in Assets /\ e.to \in Revs
        /\ lineage \subseteq Assets \X Assets
    BY DEF RowInv, EdgeInv, AnchorInv, WasStored
  <2> QED BY <2>1, <2>2, <2>3 DEF TypeOK
<1>2. LifecycleTellsPublished
  <2> SUFFICES ASSUME NEW a \in Assets, Exists(a)
               PROVE  /\ asset[a].lifecycle = "draft" => ~Published(a)
                      /\ asset[a].lifecycle = "published" => Published(a)
    BY DEF LifecycleTellsPublished
  <2>1. Sane(asset[a], writes)
    BY DEF AssetInv, Exists
  <2> QED BY <2>1 DEF Sane, Published
<1>3. NoDanglingReference
  <2>1. \A e \in edges : e.asset = e.to[1] => Stored(e.to)
    BY DEF EdgeInv
  <2>2. ASSUME NEW row \in revision, NEW d \in row.deps, d.asset = d.to[1] PROVE Stored(d.to)
    <3>1. Anchored(row.id[1], d)
      BY DEF AnchorInv
    <3>2. PICK e \in edges : e.asset = d.asset /\ e.to = d.to
      BY <3>1 DEF Anchored
    <3> QED BY <2>1, <2>2, <3>2
  <2>3. \A i \in Instances : instance[i] # None => instance[i].rev[1] = instance[i].asset /\ Stored(instance[i].rev)
    BY DEF InstanceInv
  <2> QED BY <2>1, <2>2, <2>3 DEF NoDanglingReference
<1>4. DependenciesAreLocal
  BY DEF EdgeInv, DependenciesAreLocal
<1>5. NoRevisionReachesItsAsset
  BY DEF RowInv, LoopInv, NoRevisionReachesItsAsset
<1>6. TokensSettle
  BY DEF RowInv, TokensSettle
<1> QED BY <1>1, <1>2, <1>3, <1>4, <1>5, <1>6 DEF ReferencesHold, Wellformed

-----------------------------------------------------------------------------
(* The beginning. *)

LEMMA DraftSane ==
  ASSUME NEW p \in Projects, NEW kind \in Kinds, NEW x \in DraftsOf(kind),
         kind = "tokens" => Fit(x), NEW w \in Nat
  PROVE  /\ Draft(p, kind, x) \in AssetRow /\ Sane(Draft(p, kind, x), w)
         /\ Draft(p, kind, x).number = 0 /\ Draft(p, kind, x).lifecycle # "deleted"
<1>1. x \in Definitions \cup Texts
  <2>1. kind \in {"page", "component", "tokens", "file"}
    BY DEF Kinds
  <2> QED BY <2>1 DEF DraftsOf, Layouts, Definitions
<1> DEFINE row == Draft(p, kind, x)
<1>2. /\ row.project = p /\ row.kind = kind /\ row.lifecycle = "draft" /\ row.counter = 0
      /\ row.number = 0 /\ row.draft = x
  BY DEF Draft
<1>3. row \in AssetRow
  BY <1>1, LibraryAssumption DEF Draft, AssetRow, Lifecycles
<1> HIDE DEF row
<1>4. Sane(row, w)
  BY <1>2, <1>3 DEF Sane
<1> QED BY <1>2, <1>3, <1>4 DEF row

LEMMA LibraryStarts == Init => LibraryInv
<1> SUFFICES ASSUME Init PROVE LibraryInv
  OBVIOUS
<1>1. AssetInv
  <2>1. ASSUME NEW a \in Assets PROVE asset[a] = None \/ (asset[a] \in AssetRow /\ Sane(asset[a], 0))
    <3>1. CASE a \in DOMAIN Shelf
      <4>1. PICK p \in Projects, kind \in Kinds : \E x \in DraftsOf(kind) :
              Shelf[a] = Draft(p, kind, x) /\ (kind = "tokens" => Fit(x))
        BY <3>1, ShelfAssumption
      <4>2. PICK x \in DraftsOf(kind) : Shelf[a] = Draft(p, kind, x) /\ (kind = "tokens" => Fit(x))
        BY <4>1
      <4>3. asset[a] = Draft(p, kind, x)
        BY <3>1, <4>2 DEF Init
      <4> QED BY <4>2, <4>3, DraftSane
    <3>2. CASE a \notin DOMAIN Shelf
      BY <3>2 DEF Init
    <3> QED BY <3>1, <3>2
  <2>2. writes = 0 /\ asset = [a \in Assets |-> asset[a]] /\ 0 \in 0..MaxWrites
    BY LibraryAssumption DEF Init
  <2>3. asset \in [Assets -> AssetRow \cup {None}]
    <3>1. \A a \in Assets : asset[a] \in AssetRow \cup {None}
      BY <2>1
    <3> QED BY <2>2, <3>1
  <2> QED BY <2>1, <2>2, <2>3 DEF AssetInv
<1>2. RowInv
  <2>1. ASSUME NEW a \in Assets, Exists(a) PROVE asset[a].number = 0
    <3>1. a \in DOMAIN Shelf /\ asset[a] = Shelf[a]
      BY <2>1 DEF Init, Exists
    <3>2. PICK p \in Projects, kind \in Kinds : \E x \in DraftsOf(kind) : Shelf[a] = Draft(p, kind, x)
      BY <3>1, ShelfAssumption
    <3> QED BY <3>1, <3>2 DEF Draft
  <2>2. revision = {}
    BY DEF Init
  <2>3. \A a \in Assets : Exists(a) => 1..asset[a].number = {}
    BY <2>1
  <2> QED BY <2>2, <2>3 DEF RowInv
<1>3. EdgeInv /\ AnchorInv /\ InstanceInv /\ AskedInv
  BY DEF Init, EdgeInv, AnchorInv, InstanceInv, AskedInv
<1>4. RankInv
  <2> DEFINE rank == [r \in Revs |-> 0]
  <2>1. edges = {} /\ rank \in [Revs -> 0..0]
    BY DEF Init
  <2> HIDE DEF rank
  <2>2. Ranked(rank, 0, edges)
    BY <2>1 DEF Ranked
  <2> QED BY <2>2 DEF RankInv
<1>5. LoopInv
  <2>1. edges = {}
    BY DEF Init
  <2>2. PICK n \in Nat : \E rank : Ranked(rank, n, edges)
    BY <1>4 DEF RankInv
  <2>3. PICK rank : Ranked(rank, n, edges)
    BY <2>2
  <2>4. Typed(edges)
    BY <2>1 DEF Typed
  <2> DEFINE G == [r \in Revs |-> {}]
  <2>5. ASSUME NEW r \in Revs, NEW i \in 1..Len(DependenciesIn(edges, r)) PROVE FALSE
    BY <2>1, <2>3, <2>4, DependencyFalls
  <2>6. \A r \in Revs : \A i \in 1..Len(DependenciesIn(edges, r)) :
          LET to == DependenciesIn(edges, r)[i].to IN to \in G[r] /\ G[to] \subseteq G[r]
    BY <2>5
  <2>7. \A r \in Revs : G[r] = {}
    OBVIOUS
  <2> HIDE DEF G
  <2>8. \A r \in Revs : ToSet(WalkOf(edges)[r]) \subseteq G[r]
    BY <2>3, <2>4, <2>6, WalkWithin
  <2> QED BY <2>7, <2>8 DEF LoopInv, Walk
<1> QED BY <1>1, <1>2, <1>3, <1>4, <1>5 DEF LibraryInv

-----------------------------------------------------------------------------
(* Steps that change rows of assets only. *)

LEMMA UnusedIs ==
  /\ Unused \in Seq({a \in Assets : asset[a] = None})
  /\ \A i \in 1..Len(Unused) : Unused[i] \in Assets /\ asset[Unused[i]] = None
  /\ \A i, j \in 1..Len(Unused) : Unused[i] = Unused[j] => i = j
<1> DEFINE S == {a \in Assets : asset[a] = None}
<1>1. S \in SUBSET Nat /\ IsFiniteSet(S)
  <2>1. S \in SUBSET Assets
    OBVIOUS
  <2> HIDE DEF S
  <2> QED BY <2>1, FiniteNumbers
<1>2. Unused = Ascending(S)
  BY DEF Unused
<1> HIDE DEF S
<1>3. Unused \in Seq(S) /\ \A i, j \in 1..Len(Unused) : Unused[i] = Unused[j] => i = j
  BY <1>1, <1>2, AscendingIs
<1>4. \A i \in 1..Len(Unused) : Unused[i] \in S
  BY <1>3
<1> QED BY <1>3, <1>4 DEF S

LEMMA SaneLater ==
  ASSUME NEW row, NEW w \in Nat, Sane(row, w)
  PROVE  Sane(row, w + 1)
<1>1. row.counter \in Nat /\ row.counter <= w
  BY DEF Sane, AssetRow
<1>2. row.counter <= w + 1
  BY <1>1
<1> QED BY <1>2 DEF Sane

LEMMA RowIsSomething == \A row \in AssetRow : row # None
BY ShelfAssumption

\* Revisions, edges, instances and lineage stay.
References == <<revision, edges, instance, lineage>>

\* An asset keeps what references rely on.
KeepsAsset(a) ==
  /\ asset[a] # None =>
       /\ asset'[a] # None /\ asset'[a].project = asset[a].project /\ asset'[a].kind = asset[a].kind
       /\ asset'[a].number = asset[a].number
       /\ (asset'[a].lifecycle = "deleted" <=> asset[a].lifecycle = "deleted")
  /\ asset[a] = None /\ asset'[a] # None => asset'[a].number = 0

LEMMA ReferencesStay ==
  ASSUME LibraryInv, UNCHANGED References, \A a \in Assets : KeepsAsset(a)
  PROVE  RowInv' /\ EdgeInv' /\ AnchorInv' /\ InstanceInv' /\ RankInv' /\ LoopInv'
<1> USE DEF References
<1>1. \A r : Stored(r)' <=> Stored(r)
  BY DEF Stored
<1>2. \A a \in Assets : asset[a] # None =>
        /\ asset'[a] # None /\ asset'[a].project = asset[a].project /\ asset'[a].kind = asset[a].kind
        /\ asset'[a].number = asset[a].number
        /\ (asset'[a].lifecycle = "deleted" <=> asset[a].lifecycle = "deleted")
  BY DEF KeepsAsset
<1>3. RowInv'
  <2>1. ASSUME NEW row \in revision
        PROVE  /\ row.id \in Revs /\ row.deps \subseteq Deps
               /\ Exists(row.id[1])' /\ row.id[2] <= asset'[row.id[1]].number
               /\ row.parts \in DraftsOf(asset'[row.id[1]].kind)
               /\ asset'[row.id[1]].kind = "tokens" => Fit(row.parts)
    <3>1. /\ row.id \in Revs /\ row.deps \subseteq Deps
          /\ Exists(row.id[1]) /\ row.id[2] <= asset[row.id[1]].number
          /\ row.parts \in DraftsOf(asset[row.id[1]].kind)
          /\ asset[row.id[1]].kind = "tokens" => Fit(row.parts)
      BY DEF LibraryInv, RowInv
    <3>2. row.id[1] \in Assets /\ asset[row.id[1]] # None /\ asset[row.id[1]].lifecycle # "deleted"
      BY <3>1 DEF Revs, Exists
    <3>3. /\ asset'[row.id[1]] # None /\ asset'[row.id[1]].lifecycle # "deleted"
          /\ asset'[row.id[1]].number = asset[row.id[1]].number
          /\ asset'[row.id[1]].kind = asset[row.id[1]].kind
      BY <1>2, <3>2
    <3> QED BY <3>1, <3>3 DEF Exists
  <2>2. ASSUME NEW a \in Assets, Exists(a)', NEW n \in 1..asset'[a].number PROVE Stored(<<a, n>>)'
    <3>1. asset'[a] # None /\ asset'[a].lifecycle # "deleted"
      BY <2>2 DEF Exists
    <3>2. CASE asset[a] # None
      <4>1. Exists(a) /\ n \in 1..asset[a].number
        BY <1>2, <2>2, <3>1, <3>2 DEF Exists
      <4> QED BY <1>1, <4>1 DEF LibraryInv, RowInv
    <3>3. CASE asset[a] = None
      <4>1. asset'[a].number = 0
        BY <3>1, <3>3 DEF KeepsAsset
      <4> QED BY <2>2, <4>1
    <3> QED BY <3>2, <3>3
  <2> QED BY <2>1, <2>2 DEF RowInv
<1>4. EdgeInv'
  <2> SUFFICES ASSUME NEW e \in edges
               PROVE  /\ WasStored(e.from)' /\ WasStored(e.to)' /\ e.asset \in Assets
                      /\ asset'[e.from[1]].project = asset'[e.to[1]].project
                      /\ e.asset = e.to[1] => Stored(e.to)'
    BY DEF EdgeInv
  <2>1. /\ WasStored(e.from) /\ WasStored(e.to) /\ e.asset \in Assets
        /\ asset[e.from[1]].project = asset[e.to[1]].project
        /\ e.asset = e.to[1] => Stored(e.to)
    BY DEF LibraryInv, EdgeInv
  <2>2. e.from[1] \in Assets /\ e.to[1] \in Assets
    BY <2>1 DEF WasStored, Revs
  <2> QED BY <1>1, <1>2, <2>1, <2>2 DEF WasStored
<1>5. AnchorInv'
  BY DEF LibraryInv, AnchorInv, Anchored
<1>6. InstanceInv'
  BY <1>1 DEF LibraryInv, InstanceInv
<1>7. RankInv'
  BY DEF LibraryInv, RankInv
<1>8. LoopInv'
  BY DEF LibraryInv, LoopInv, Walk
<1> QED BY <1>3, <1>4, <1>5, <1>6, <1>7, <1>8

LEMMA RequestsStay ==
  ASSUME AssetInv, AssetInv', AskedInv, \A c \in Clients : asked'[c] \in {None, asked[c]},
         \A a \in Assets : asset[a] # None =>
           /\ asset'[a] # None /\ asset[a].counter <= asset'[a].counter
           /\ asset'[a].counter = asset[a].counter => asset'[a].number = asset[a].number
  PROVE  AskedInv'
<1> SUFFICES ASSUME NEW c \in Clients, NEW u, u = asked'[c], u # None PROVE Awaits(u)'
  BY DEF AskedInv
<1>1. u = asked[c] /\ Awaits(u)
  BY DEF AskedInv
<1>2. ASSUME Aims(u) PROVE Aims(u)'
  <2>1. /\ asset'[u.asset] # None /\ asset[u.asset].counter <= asset'[u.asset].counter
        /\ asset'[u.asset].counter = asset[u.asset].counter => asset'[u.asset].number = asset[u.asset].number
    BY <1>2 DEF Aims
  <2>2. asset[u.asset].counter \in Nat /\ asset'[u.asset].counter \in Nat /\ u.counter \in Nat
    BY <1>2, <2>1 DEF AssetInv, Sane, AssetRow, Aims
  <2>3. u.counter <= asset[u.asset].counter
    BY <1>2 DEF Aims
  <2>4. u.counter <= asset'[u.asset].counter
    BY <2>1, <2>2, <2>3
  <2>5. asset'[u.asset].counter = u.counter => asset[u.asset].counter = u.counter
    BY <2>1, <2>2, <2>3
  <2>6. asset'[u.asset].counter = u.counter => asset'[u.asset].number = asset[u.asset].number
    BY <2>1, <2>5
  <2> QED BY <1>2, <2>1, <2>4, <2>5, <2>6 DEF Published, Aims
<1> QED BY <1>1, <1>2 DEF Awaits

LEMMA AssetsStay ==
  ASSUME AssetInv, Writes, UNCHANGED asset
  PROVE  AssetInv'
<1>1. writes \in Nat /\ writes' = writes + 1 /\ writes' \in 0..MaxWrites
  BY LibraryAssumption DEF AssetInv, Writes
<1>2. \A a \in Assets : asset'[a] # None => Sane(asset'[a], writes')
  BY <1>1, SaneLater DEF AssetInv
<1> QED BY <1>1, <1>2 DEF AssetInv

LEMMA AssetChanges ==
  ASSUME AssetInv, Writes, NEW a \in Assets, NEW row, Sane(row, writes + 1),
         asset' = [asset EXCEPT ![a] = row]
  PROVE  AssetInv' /\ row # None /\ asset'[a] = row /\ \A b \in Assets \ {a} : asset'[b] = asset[b]
<1>1. writes \in Nat /\ writes' = writes + 1 /\ writes' \in 0..MaxWrites
  BY LibraryAssumption DEF AssetInv, Writes
<1>2. row \in AssetRow /\ row # None
  BY RowIsSomething DEF Sane
<1>3. asset'[a] = row /\ \A b \in Assets \ {a} : asset'[b] = asset[b]
  BY DEF AssetInv
<1>4. asset' \in [Assets -> AssetRow \cup {None}]
  BY <1>2 DEF AssetInv
<1>5. \A b \in Assets : asset'[b] # None => Sane(asset'[b], writes')
  <2> TAKE b \in Assets
  <2>1. CASE b = a
    BY <1>1, <1>3, <2>1
  <2>2. CASE b # a
    <3>1. asset[b] # None => Sane(asset[b], writes)
      BY DEF AssetInv
    <3> QED BY <1>1, <1>3, <2>2, <3>1, SaneLater
  <2> QED BY <2>1, <2>2
<1> QED BY <1>1, <1>2, <1>3, <1>4, <1>5 DEF AssetInv

LEMMA RowMoves ==
  ASSUME LibraryInv, Writes, UNCHANGED References, \A c \in Clients : asked'[c] \in {None, asked[c]},
         NEW a \in Assets, Exists(a), NEW row, Sane(row, writes + 1), asset' = [asset EXCEPT ![a] = row],
         row.project = asset[a].project, row.kind = asset[a].kind, row.number = asset[a].number,
         row.lifecycle # "deleted", row.counter = asset[a].counter + 1
  PROVE  LibraryInv'
<1>1. AssetInv' /\ row # None /\ asset'[a] = row /\ \A b \in Assets \ {a} : asset'[b] = asset[b]
  BY AssetChanges DEF LibraryInv
<1>2. \A b \in Assets : KeepsAsset(b)
  <2> TAKE b \in Assets
  <2>1. CASE b = a
    BY <1>1, <2>1 DEF KeepsAsset, Exists
  <2>2. CASE b # a
    BY <1>1, <2>2 DEF KeepsAsset
  <2> QED BY <2>1, <2>2
<1>3. asset[a].counter \in Nat
  BY DEF LibraryInv, AssetInv, Sane, AssetRow, Exists
<1>4. \A b \in Assets : asset[b] # None =>
        /\ asset'[b] # None /\ asset[b].counter <= asset'[b].counter
        /\ asset'[b].counter = asset[b].counter => asset'[b].number = asset[b].number
  <2> SUFFICES ASSUME NEW b \in Assets, asset[b] # None
               PROVE  /\ asset'[b] # None /\ asset[b].counter <= asset'[b].counter
                      /\ asset'[b].counter = asset[b].counter => asset'[b].number = asset[b].number
    OBVIOUS
  <2>1. CASE b = a
    BY <1>1, <1>3, <2>1
  <2>2. CASE b # a
    <3>1. asset[b].counter \in Nat /\ asset'[b] = asset[b]
      BY <1>1, <2>2 DEF LibraryInv, AssetInv, Sane, AssetRow
    <3> QED BY <3>1
  <2> QED BY <2>1, <2>2
<1>5. AskedInv'
  BY <1>1, <1>4, RequestsStay DEF LibraryInv
<1>6. RowInv' /\ EdgeInv' /\ AnchorInv' /\ InstanceInv' /\ RankInv' /\ LoopInv'
  BY <1>2, ReferencesStay
<1> QED BY <1>1, <1>5, <1>6 DEF LibraryInv

LEMMA InsertedStep ==
  ASSUME LibraryInv, NEW row, Sane(row, writes), row.number = 0, row.lifecycle # "deleted", Inserted(row),
         \A c \in Clients : asked'[c] \in {None, asked[c]}
  PROVE  LibraryInv'
<1> DEFINE a == Head(Unused)
<1>1. Unused # <<>> /\ asset' = [asset EXCEPT ![a] = row] /\ Writes /\ UNCHANGED References
  BY DEF Inserted, References
<1>2. a = Unused[1] /\ 1 \in 1..Len(Unused)
  BY <1>1, UnusedIs
<1>3. a \in Assets /\ asset[a] = None
  BY <1>2, UnusedIs
<1> HIDE DEF a
<1>4. writes \in Nat
  BY LibraryAssumption DEF LibraryInv, AssetInv
<1>5. Sane(row, writes + 1)
  BY <1>4, SaneLater
<1>6. AssetInv' /\ row # None /\ asset'[a] = row /\ \A b \in Assets \ {a} : asset'[b] = asset[b]
  BY <1>1, <1>3, <1>5, AssetChanges DEF LibraryInv
<1>7. \A b \in Assets : KeepsAsset(b)
  <2> TAKE b \in Assets
  <2>1. CASE b = a
    BY <1>3, <1>6, <2>1 DEF KeepsAsset
  <2>2. CASE b # a
    BY <1>6, <2>2 DEF KeepsAsset
  <2> QED BY <2>1, <2>2
<1>8. \A b \in Assets : asset[b] # None =>
        /\ asset'[b] # None /\ asset[b].counter <= asset'[b].counter
        /\ asset'[b].counter = asset[b].counter => asset'[b].number = asset[b].number
  <2> SUFFICES ASSUME NEW b \in Assets, asset[b] # None
               PROVE  asset'[b] # None /\ asset[b].counter <= asset'[b].counter /\ asset'[b].number = asset[b].number
    OBVIOUS
  <2>1. asset'[b] = asset[b] /\ asset[b].counter \in Nat
    BY <1>3, <1>6 DEF LibraryInv, AssetInv, Sane, AssetRow
  <2> QED BY <2>1
<1>9. AskedInv'
  BY <1>1, <1>6, <1>8, RequestsStay DEF LibraryInv
<1>10. RowInv' /\ EdgeInv' /\ AnchorInv' /\ InstanceInv' /\ RankInv' /\ LoopInv'
  BY <1>1, <1>7, ReferencesStay
<1> QED BY <1>6, <1>9, <1>10 DEF LibraryInv

LEMMA DraftChanges ==
  ASSUME NEW old \in AssetRow, NEW x \in Definitions \cup Texts
  PROVE  LET row == [old EXCEPT !.draft = x, !.counter = @ + 1]
         IN /\ row \in AssetRow /\ row.draft = x /\ row.counter = old.counter + 1
            /\ row.project = old.project /\ row.kind = old.kind /\ row.number = old.number
            /\ row.lifecycle = old.lifecycle
<1> DEFINE D == Definitions \cup Texts
           first == [old EXCEPT !.draft = x]
           row == [old EXCEPT !.draft = x, !.counter = @ + 1]
<1>1. AssetRow = [project : Projects, kind : Kinds,
                  lifecycle : Lifecycles,
                  counter : Nat, number : 0..MaxRevisions, draft : D] /\ x \in D
  BY DEF AssetRow, D
<1> HIDE DEF D
<1>2. first \in AssetRow /\ old.counter + 1 \in Nat
  BY <1>1
<1>3. row = [first EXCEPT !.counter = old.counter + 1]
  BY DEF AssetRow
<1>4. /\ row.draft = x /\ row.counter = old.counter + 1
      /\ row.project = old.project /\ row.kind = old.kind /\ row.number = old.number
      /\ row.lifecycle = old.lifecycle
  BY DEF AssetRow
<1> HIDE DEF first
<1>5. [first EXCEPT !.counter = old.counter + 1] \in AssetRow
  BY <1>1, <1>2
<1> QED BY <1>3, <1>4, <1>5

LEMMA LifecycleChanges ==
  ASSUME NEW old \in AssetRow, NEW state \in Lifecycles
  PROVE  LET row == [old EXCEPT !.lifecycle = state, !.counter = @ + 1]
         IN /\ row \in AssetRow /\ row.lifecycle = state /\ row.counter = old.counter + 1
            /\ row.project = old.project /\ row.kind = old.kind /\ row.number = old.number
            /\ row.draft = old.draft
<1> DEFINE D == Definitions \cup Texts
           first == [old EXCEPT !.lifecycle = state]
           row == [old EXCEPT !.lifecycle = state, !.counter = @ + 1]
<1>1. AssetRow = [project : Projects, kind : Kinds,
                  lifecycle : Lifecycles,
                  counter : Nat, number : 0..MaxRevisions, draft : D] /\ state \in Lifecycles
  BY DEF AssetRow, D
<1> HIDE DEF D
<1>2. first \in AssetRow /\ old.counter + 1 \in Nat
  BY <1>1
<1>3. row = [first EXCEPT !.counter = old.counter + 1]
  BY DEF AssetRow
<1>4. /\ row.lifecycle = state /\ row.counter = old.counter + 1
      /\ row.project = old.project /\ row.kind = old.kind /\ row.number = old.number
      /\ row.draft = old.draft
  BY DEF AssetRow
<1> HIDE DEF first
<1>5. [first EXCEPT !.counter = old.counter + 1] \in AssetRow
  BY <1>1, <1>2
<1> QED BY <1>3, <1>4, <1>5

LEMMA EditedStep ==
  ASSUME LibraryInv, NEW a \in Assets, Exists(a), NEW x \in DraftsOf(asset[a].kind),
         asset[a].kind = "tokens" => Fit(x), Edited(a, x)
  PROVE  LibraryInv'
<1> DEFINE row == [asset[a] EXCEPT !.draft = x, !.counter = @ + 1]
<1>1. Writes /\ UNCHANGED References /\ UNCHANGED asked /\ asset' = [asset EXCEPT ![a] = row]
  BY DEF Edited, References, LibraryInv, AssetInv
<1>2. Sane(asset[a], writes) /\ asset[a] \in AssetRow /\ writes \in Nat
  BY LibraryAssumption DEF LibraryInv, AssetInv, Exists, Sane
<1>3. x \in Definitions \cup Texts
  <2>1. asset[a].kind \in {"page", "component", "tokens", "file"}
    BY <1>2 DEF AssetRow, Kinds
  <2> QED BY <2>1 DEF DraftsOf, Layouts, Definitions
<1>4. /\ row \in AssetRow /\ row.draft = x /\ row.counter = asset[a].counter + 1
      /\ row.project = asset[a].project /\ row.kind = asset[a].kind /\ row.number = asset[a].number
      /\ row.lifecycle = asset[a].lifecycle
  BY <1>2, <1>3, DraftChanges
<1>5. asset[a].counter \in Nat
  BY <1>2 DEF AssetRow
<1> HIDE DEF row
<1>6. Sane(row, writes + 1)
  <2>1. row.counter <= writes + 1 /\ row.counter # 0
    BY <1>2, <1>4, <1>5 DEF Sane
  <2> QED BY <1>2, <1>4, <2>1 DEF Sane
<1>7. row.lifecycle # "deleted"
  BY <1>4 DEF Exists
<1> QED BY <1>1, <1>4, <1>6, <1>7, RowMoves

LEMMA LifecycleMoves ==
  ASSUME LibraryInv, Writes, UNCHANGED References, \A c \in Clients : asked'[c] \in {None, asked[c]},
         NEW a \in Assets, Exists(a), NEW state \in {"draft", "published", "archived", "trashed"},
         asset' = Moved(a, state),
         state = "draft" => asset[a].number = 0, state = "published" => asset[a].number > 0
  PROVE  LibraryInv'
<1> DEFINE row == [asset[a] EXCEPT !.lifecycle = state, !.counter = @ + 1]
<1>1. asset' = [asset EXCEPT ![a] = row]
  BY DEF Moved, LibraryInv, AssetInv
<1>2. Sane(asset[a], writes) /\ asset[a] \in AssetRow /\ writes \in Nat
  BY LibraryAssumption DEF LibraryInv, AssetInv, Exists, Sane
<1>3. /\ row \in AssetRow /\ row.draft = asset[a].draft /\ row.counter = asset[a].counter + 1
      /\ row.project = asset[a].project /\ row.kind = asset[a].kind /\ row.number = asset[a].number
      /\ row.lifecycle = state
  <2>1. state \in Lifecycles
    BY DEF Lifecycles
  <2> QED BY <1>2, <2>1, LifecycleChanges
<1>4. asset[a].counter \in Nat
  BY <1>2 DEF AssetRow
<1> HIDE DEF row
<1>5. Sane(row, writes + 1)
  <2>1. row.counter <= writes + 1 /\ row.counter # 0
    BY <1>2, <1>3, <1>4 DEF Sane
  <2> QED BY <1>2, <1>3, <2>1 DEF Sane
<1> QED BY <1>1, <1>3, <1>5, RowMoves

LEMMA LeaveStep ==
  ASSUME LibraryInv, NEW a \in Assets, NEW state \in {"draft", "published", "archived", "trashed"}, NEW from,
         state = "draft" => asset[a].number = 0, state = "published" => asset[a].number > 0,
         Leave(a, state, from)
  PROVE  LibraryInv'
<1>1. /\ Writes /\ Exists(a) /\ asset' = Moved(a, state) /\ UNCHANGED References
      /\ \A c \in Clients : asked'[c] \in {None, asked[c]}
  BY DEF Leave, References
<1> QED BY <1>1, LifecycleMoves

LEMMA AssetHas ==
  ASSUME LibraryInv, NEW a \in Assets, Exists(a)
  PROVE  /\ Sane(asset[a], writes) /\ asset[a].project \in Projects /\ asset[a].kind \in Kinds
         /\ asset[a].draft \in DraftsOf(asset[a].kind) /\ (asset[a].kind = "tokens" => Fit(asset[a].draft))
         /\ asset[a].number \in 0..MaxRevisions /\ asset[a].counter \in Nat
         /\ asset[a].lifecycle \in Lifecycles /\ asset[a].lifecycle # "deleted" /\ asset[a] # None
         /\ writes \in Nat
<1>1. asset[a] # None /\ asset[a].lifecycle # "deleted" /\ Sane(asset[a], writes)
  BY DEF Exists, LibraryInv, AssetInv
<1>2. asset[a] \in AssetRow
  BY <1>1 DEF Sane
<1>3. writes \in Nat
  BY LibraryAssumption DEF LibraryInv, AssetInv
<1> QED BY <1>1, <1>2, <1>3 DEF Sane, AssetRow

LEMMA DraftInserted ==
  ASSUME LibraryInv, NEW p \in Projects, NEW kind \in Kinds, NEW x \in DraftsOf(kind),
         kind = "tokens" => Fit(x), Inserted(Draft(p, kind, x)),
         \A c \in Clients : asked'[c] \in {None, asked[c]}
  PROVE  LibraryInv'
<1>1. writes \in Nat
  BY LibraryAssumption DEF LibraryInv, AssetInv
<1>2. /\ Sane(Draft(p, kind, x), writes) /\ Draft(p, kind, x).number = 0
      /\ Draft(p, kind, x).lifecycle # "deleted"
  BY <1>1, DraftSane
<1> QED BY <1>2, InsertedStep

LEMMA ContentsAreDrafts ==
  /\ \A parts \in Contents : parts \in DraftsOf("page") /\ parts \in DraftsOf("component")
  /\ {} \in DraftsOf("file") /\ None \in DraftsOf("component")
  /\ \A x \in Texts : x \in DraftsOf("tokens")
  /\ \A x \in Filed : x \in Texts /\ Fit(x)
<1>1. DraftsOf("page") = SUBSET Assets
  BY DEF DraftsOf, Layouts
<1>2. DraftsOf("component") = (SUBSET Assets) \cup {None}
  BY DEF DraftsOf, Definitions
<1>3. DraftsOf("file") = {{}}
  BY DEF DraftsOf
<1>4. DraftsOf("tokens") = Texts
  BY DEF DraftsOf
<1>5. \A parts \in Contents : parts \in SUBSET Assets
  BY LibraryAssumption
<1>6. \A x \in Filed : x \in Texts /\ Fit(x)
  BY LibraryAssumption DEF Fit
<1>7. {} \in {{}} /\ None \in (SUBSET Assets) \cup {None} /\ SUBSET Assets \subseteq (SUBSET Assets) \cup {None}
  OBVIOUS
<1> QED BY <1>1, <1>2, <1>3, <1>4, <1>5, <1>6, <1>7, Zenon

LEMMA InsertSteps ==
  ASSUME LibraryInv, NEW p \in Projects
  PROVE  /\ ImportFile(p) => LibraryInv'
         /\ \A x \in Texts : ImportTokens(p, x) => LibraryInv'
         /\ \A parts \in Contents : CreateComponent(p, parts) => LibraryInv'
<1>1. ASSUME ImportFile(p) PROVE LibraryInv'
  <2>1. "file" \in Kinds /\ "file" # "tokens" /\ {} \in DraftsOf("file") /\ Inserted(Draft(p, "file", {}))
    BY <1>1, ContentsAreDrafts DEF ImportFile, Kinds
  <2>2. UNCHANGED asked
    BY <1>1 DEF ImportFile
  <2> QED BY <2>1, <2>2, DraftInserted
<1>2. ASSUME NEW x \in Texts, ImportTokens(p, x) PROVE LibraryInv'
  <2>1. "tokens" \in Kinds /\ x \in DraftsOf("tokens") /\ Fit(x) /\ Inserted(Draft(p, "tokens", x))
    BY <1>2, ContentsAreDrafts DEF ImportTokens, Readable, Kinds
  <2>2. UNCHANGED asked
    BY <1>2 DEF ImportTokens
  <2> QED BY <2>1, <2>2, DraftInserted
<1>3. ASSUME NEW parts \in Contents, CreateComponent(p, parts) PROVE LibraryInv'
  <2>1. /\ "component" \in Kinds /\ "component" # "tokens" /\ parts \in DraftsOf("component")
        /\ Inserted(Draft(p, "component", parts))
    BY <1>3, ContentsAreDrafts DEF CreateComponent, Kinds
  <2>2. UNCHANGED asked
    BY <1>3 DEF CreateComponent
  <2> QED BY <2>1, <2>2, DraftInserted
<1> QED BY <1>1, <1>2, <1>3

LEMMA FinishCreateStep ==
  ASSUME LibraryInv, NEW c \in Clients, FinishCreate(c)
  PROVE  LibraryInv'
<1>1. /\ asked[c] # None /\ asked[c].do = "create" /\ Inserted(asked[c].row)
      /\ asked' = [asked EXCEPT ![c] = None]
  BY DEF FinishCreate, Asked, Done
<1>2. Awaits(asked[c])
  BY <1>1 DEF LibraryInv, AskedInv
<1>3. IsDraft(asked[c].row)
  BY <1>1, <1>2 DEF Awaits
<1>4. PICK p \in Projects, k \in {"page", "component"} : \E x \in DraftsOf(k) : asked[c].row = Draft(p, k, x)
  BY <1>3 DEF IsDraft
<1>5. PICK x \in DraftsOf(k) : asked[c].row = Draft(p, k, x)
  BY <1>4
<1>6. Inserted(Draft(p, k, x)) /\ k \in Kinds /\ k # "tokens"
  BY <1>1, <1>5 DEF Kinds
<1>7. \A d \in Clients : asked'[d] \in {None, asked[d]}
  BY <1>1
<1> QED BY <1>6, <1>7, DraftInserted

LEMMA EditSteps ==
  ASSUME LibraryInv, NEW a \in Assets
  PROVE  /\ \A parts \in Contents : UpdateDefinition(a, parts) \/ UpdateLayout(a, parts) => LibraryInv'
         /\ \A x \in Texts : UpdateTokens(a, x) \/ RefreshTokens(a, x) => LibraryInv'
         /\ EnablePreview(a) \/ RefreshFile(a) => LibraryInv'
<1>1. ASSUME NEW parts \in Contents, UpdateDefinition(a, parts) PROVE LibraryInv'
  <2>1. Exists(a) /\ parts \in DraftsOf(asset[a].kind) /\ asset[a].kind # "tokens" /\ Edited(a, parts)
    BY <1>1, ContentsAreDrafts DEF UpdateDefinition
  <2> QED BY <2>1, EditedStep
<1>2. ASSUME NEW parts \in Contents, UpdateLayout(a, parts) PROVE LibraryInv'
  <2>1. Exists(a) /\ parts \in DraftsOf(asset[a].kind) /\ asset[a].kind # "tokens" /\ Edited(a, parts)
    BY <1>2, ContentsAreDrafts DEF UpdateLayout
  <2> QED BY <2>1, EditedStep
<1>3. ASSUME NEW x \in Texts, UpdateTokens(a, x) PROVE LibraryInv'
  <2>1. Exists(a) /\ x \in DraftsOf(asset[a].kind) /\ Sound(x) /\ Edited(a, x)
    BY <1>3, ContentsAreDrafts DEF UpdateTokens
  <2>2. Fit(x)
    BY <2>1, SoundSettles DEF Fit
  <2> QED BY <2>1, <2>2, EditedStep
<1>4. ASSUME NEW x \in Texts, RefreshTokens(a, x) PROVE LibraryInv'
  <2>1. Exists(a) /\ x \in DraftsOf(asset[a].kind) /\ Fit(x) /\ Edited(a, x)
    BY <1>4, ContentsAreDrafts DEF RefreshTokens, Sourced, Readable
  <2> QED BY <2>1, EditedStep
<1>5. ASSUME EnablePreview(a) PROVE LibraryInv'
  <2>1. Exists(a) /\ asset[a].kind = "file" /\ Edited(a, asset[a].draft)
    BY <1>5 DEF EnablePreview
  <2>2. asset[a].draft \in DraftsOf(asset[a].kind)
    BY <2>1, AssetHas
  <2>3. PICK x \in DraftsOf(asset[a].kind) : x = asset[a].draft
    BY <2>2
  <2>4. Edited(a, x) /\ asset[a].kind # "tokens"
    BY <2>1, <2>3
  <2> QED BY <2>1, <2>4, EditedStep
<1>6. ASSUME RefreshFile(a) PROVE LibraryInv'
  <2>1. Exists(a) /\ {} \in DraftsOf(asset[a].kind) /\ asset[a].kind # "tokens" /\ Edited(a, {})
    BY <1>6, ContentsAreDrafts DEF RefreshFile, Sourced
  <2> QED BY <2>1, EditedStep
<1> QED BY <1>1, <1>2, <1>3, <1>4, <1>5, <1>6

-----------------------------------------------------------------------------
(* The lifecycle. *)

LEMMA LifecycleSteps ==
  ASSUME LibraryInv, NEW a \in Assets
  PROVE  Archive(a) \/ Trash(a) \/ Restore(a) => LibraryInv'
<1>1. ASSUME Archive(a) PROVE LibraryInv'
  BY <1>1, LeaveStep DEF Archive
<1>2. ASSUME Trash(a) PROVE LibraryInv'
  BY <1>2, LeaveStep DEF Trash
<1>3. ASSUME Restore(a) PROVE LibraryInv'
  <2>1. Exists(a)
    BY <1>3 DEF Restore, Leave
  <2>2. asset[a].number \in Nat
    BY <2>1, AssetHas, LibraryAssumption
  <2>3. CASE Published(a)
    <3>1. Leave(a, "published", {"trashed"}) /\ asset[a].number > 0
      BY <1>3, <2>3 DEF Restore, Published
    <3> QED BY <3>1, LeaveStep
  <2>4. CASE ~ Published(a)
    <3>1. Leave(a, "draft", {"trashed"}) /\ asset[a].number = 0
      BY <1>3, <2>2, <2>4 DEF Restore, Published
    <3> QED BY <3>1, LeaveStep
  <2> QED BY <2>3, <2>4
<1> QED BY <1>1, <1>2, <1>3

LEMMA NothingMoves ==
  ASSUME LibraryInv, UNCHANGED <<rows, writes>>
  PROVE  AssetInv' /\ RowInv' /\ EdgeInv' /\ AnchorInv' /\ InstanceInv' /\ RankInv' /\ LoopInv'
<1>1. AssetInv'
  BY DEF LibraryInv, AssetInv, rows
<1>2. UNCHANGED References /\ \A a \in Assets : KeepsAsset(a)
  BY DEF References, rows, KeepsAsset
<1> QED BY <1>1, <1>2, ReferencesStay

\* A client's reading changes no row.
LEMMA AskStep ==
  ASSUME LibraryInv, NEW c \in Clients, NEW u, Awaits(u), Asks(c, u)
  PROVE  LibraryInv'
<1>1. asked' = [asked EXCEPT ![c] = u] /\ UNCHANGED <<rows, writes>>
  BY DEF Asks
<1>2. UNCHANGED asset
  BY <1>1 DEF rows
<1>3. AskedInv'
  <2> SUFFICES ASSUME NEW d \in Clients, NEW w, w = asked'[d], w # None PROVE Awaits(w)'
    BY DEF AskedInv
  <2>1. w = u \/ w = asked[d]
    BY <1>1
  <2>2. Awaits(w)
    BY <2>1 DEF LibraryInv, AskedInv
  <2>3. Aims(w)' <=> Aims(w)
    BY <1>2 DEF Aims, Published
  <2> QED BY <2>2, <2>3 DEF Awaits
<1> QED BY <1>1, <1>3, NothingMoves DEF LibraryInv

LEMMA RequestUnarchiveStep ==
  ASSUME LibraryInv, NEW c \in Clients, NEW a \in Assets, RequestUnarchive(c, a)
  PROVE  LibraryInv'
<1> DEFINE u == [do      |-> "unarchive",
                 asset   |-> a,
                 target  |-> IF asset[a].counter # 0 /\ Published(a) THEN "published" ELSE "draft",
                 counter |-> asset[a].counter]
<1>1. Exists(a) /\ Asks(c, u)
  BY DEF RequestUnarchive
<1>2. Sane(asset[a], writes) /\ asset[a].number \in Nat /\ asset[a].counter \in Nat /\ asset[a] # None
  BY <1>1, AssetHas, LibraryAssumption
<1>3. asset[a].counter # 0 /\ Published(a) <=> Published(a)
  BY <1>2 DEF Sane, Published
<1>4. Aims(u) /\ u.do = "unarchive"
  BY <1>2, <1>3 DEF Aims
<1> HIDE DEF u
<1> QED BY <1>1, <1>4, AskStep DEF Awaits

LEMMA DraftAsked ==
  ASSUME LibraryInv, NEW c \in Clients, NEW p \in Projects, NEW k \in {"page", "component"}, NEW x \in DraftsOf(k),
         Asks(c, [do |-> "create", row |-> Draft(p, k, x)])
  PROVE  LibraryInv'
<1> DEFINE u == [do |-> "create", row |-> Draft(p, k, x)]
<1>1. u.do = "create" /\ u.row = Draft(p, k, x) /\ Asks(c, u)
  OBVIOUS
<1> HIDE DEF u
<1>2. IsDraft(u.row)
  BY <1>1 DEF IsDraft
<1> QED BY <1>1, <1>2, AskStep DEF Awaits

LEMMA CreatePageStep ==
  ASSUME LibraryInv, NEW c \in Clients, NEW p \in Projects, NEW parts \in Contents, CreatePage(c, p, parts)
  PROVE  LibraryInv'
BY DraftAsked, ContentsAreDrafts DEF CreatePage

LEMMA DistillStep ==
  ASSUME LibraryInv, NEW c \in Clients, NEW a \in Assets, DistillCandidate(c, a)
  PROVE  LibraryInv'
<1>1. Exists(a) /\ Asks(c, [do |-> "create", row |-> Draft(asset[a].project, "component", None)])
  BY DEF DistillCandidate
<1>2. PICK p \in Projects : p = asset[a].project
  BY <1>1, AssetHas
<1>3. Asks(c, [do |-> "create", row |-> Draft(p, "component", None)])
  BY <1>1, <1>2
<1> QED BY <1>3, DraftAsked, ContentsAreDrafts

LEMMA AbandonStep ==
  ASSUME LibraryInv, NEW c \in Clients, Abandon(c)
  PROVE  LibraryInv'
<1>1. UNCHANGED <<rows, writes>> /\ UNCHANGED asset /\ \A d \in Clients : asked'[d] \in {None, asked[d]}
  BY DEF Abandon, Done, rows
<1>2. AskedInv'
  <2> SUFFICES ASSUME NEW d \in Clients, NEW w, w = asked'[d], w # None PROVE Awaits(w)'
    BY DEF AskedInv
  <2>1. Awaits(w)
    BY <1>1 DEF LibraryInv, AskedInv
  <2>2. Aims(w)' <=> Aims(w)
    BY <1>1 DEF Aims, Published
  <2> QED BY <2>1, <2>2 DEF Awaits
<1> QED BY <1>1, <1>2, NothingMoves DEF LibraryInv

LEMMA FinishUnarchiveStep ==
  ASSUME LibraryInv, NEW c \in Clients, FinishUnarchive(c)
  PROVE  LibraryInv'
<1>1. PICK u : u = asked[c]
  OBVIOUS
<1>2. /\ Writes /\ u # None /\ u.do = "unarchive" /\ UNCHANGED References
      /\ asset' = Moved(u.asset, u.target)
      /\ Exists(u.asset) /\ asset[u.asset].counter = u.counter
  BY <1>1 DEF FinishUnarchive, Asked, MayUnarchive, References
<1>3. \A d \in Clients : asked'[d] \in {None, asked[d]}
  BY DEF FinishUnarchive, Done
<1>4. Aims(u)
  BY <1>1, <1>2 DEF LibraryInv, AskedInv, Awaits
<1>5. u.asset \in Assets /\ asset[u.asset].number \in Nat
  <2>1. u.asset \in Assets
    BY <1>4 DEF Aims
  <2>2. asset[u.asset].number \in 0..MaxRevisions
    BY <1>2, <2>1, AssetHas
  <2> QED BY <2>1, <2>2, LibraryAssumption
<1>6. \/ u.target = "published" /\ asset[u.asset].number > 0
      \/ u.target = "draft" /\ asset[u.asset].number = 0
  BY <1>2, <1>4, <1>5 DEF Aims, Published
<1>7. u.target \in {"draft", "published", "archived", "trashed"}
  BY <1>6
<1> QED BY <1>2, <1>3, <1>5, <1>6, <1>7, LifecycleMoves

-----------------------------------------------------------------------------
(* Instances. *)

LEMMA InstancesMove ==
  ASSUME LibraryInv, Writes, UNCHANGED <<asset, revision, edges, lineage, asked>>, InstanceInv'
  PROVE  LibraryInv'
<1>1. AssetInv'
  BY AssetsStay DEF LibraryInv
<1>2. \A r : (Stored(r)' <=> Stored(r)) /\ (WasStored(r)' <=> WasStored(r))
  BY DEF Stored, WasStored
<1>3. RowInv'
  BY <1>2 DEF LibraryInv, RowInv, Exists
<1>4. EdgeInv'
  BY <1>2 DEF LibraryInv, EdgeInv
<1>5. AnchorInv' /\ RankInv'
  BY DEF LibraryInv, AnchorInv, Anchored, RankInv
<1>6. LoopInv'
  BY DEF LibraryInv, LoopInv, Walk
<1>7. AskedInv'
  BY DEF LibraryInv, AskedInv, Awaits, Aims, Published
<1> QED BY <1>1, <1>3, <1>4, <1>5, <1>6, <1>7 DEF LibraryInv

LEMMA CurrentStored ==
  ASSUME LibraryInv, NEW a \in Assets, Exists(a), Published(a)
  PROVE  Stored(Current(a)) /\ asset[a].number \in 1..MaxRevisions /\ Current(a) = <<a, asset[a].number>>
<1>1. asset[a].number \in 0..MaxRevisions /\ asset[a].number > 0
  BY AssetHas DEF Published
<1>2. asset[a].number \in 1..asset[a].number
  BY <1>1, LibraryAssumption
<1>3. Stored(<<a, asset[a].number>>)
  BY <1>2 DEF LibraryInv, RowInv
<1> QED BY <1>1, <1>3 DEF Current

LEMMA InstanceSteps ==
  ASSUME LibraryInv
  PROVE  /\ \A p \in Projects, i \in Instances, a \in Assets, r \in Revs : CreateInstance(p, i, a, r) => LibraryInv'
         /\ \A S \in SUBSET Instances, r \in Revs :
              /\ Upgrade(S, r) => LibraryInv'
              /\ \A p \in Projects : Rollback(p, S, r) => LibraryInv'
<1>1. ASSUME NEW p \in Projects, NEW i \in Instances, NEW a \in Assets, NEW r \in Revs, CreateInstance(p, i, a, r)
      PROVE  LibraryInv'
  <2>1. /\ Writes /\ UNCHANGED <<asset, revision, edges, lineage, asked>>
        /\ instance' = [instance EXCEPT ![i] = [project |-> p, asset |-> a, rev |-> r]]
        /\ Exists(a) /\ Published(a) /\ (r = Current(a) \/ (Stored(r) /\ r[1] = a))
    BY <1>1 DEF CreateInstance
  <2>2. Stored(r) /\ r[1] = a
    BY <2>1, CurrentStored
  <2>3. \A x : Stored(x)' <=> Stored(x)
    BY <2>1 DEF Stored
  <2>4. \A j \in Instances : instance'[j] # None =>
          \/ instance'[j] = [project |-> p, asset |-> a, rev |-> r]
          \/ instance'[j] = instance[j]
    BY <2>1
  <2>5. InstanceInv'
    BY <2>2, <2>3, <2>4 DEF LibraryInv, InstanceInv
  <2> QED BY <2>1, <2>5, InstancesMove
<1>2. ASSUME NEW S \in SUBSET Instances, NEW r \in Revs, Stored(r),
             \A i \in S : instance[i] # None /\ instance[i].asset = r[1],
             instance' = [i \in Instances |-> IF i \in S THEN [instance[i] EXCEPT !.rev = r] ELSE instance[i]],
             Writes, UNCHANGED <<asset, revision, edges, lineage, asked>>
      PROVE  LibraryInv'
  <2>1. \A x : Stored(x)' <=> Stored(x)
    BY <1>2 DEF Stored
  <2>2. ASSUME NEW i \in Instances, instance'[i] # None
        PROVE  /\ instance'[i] \in [project : Projects, asset : Assets, rev : Revs]
               /\ instance'[i].rev[1] = instance'[i].asset /\ Stored(instance'[i].rev)
    <3>1. CASE i \in S
      <4>1. instance'[i] = [instance[i] EXCEPT !.rev = r] /\ instance[i].asset = r[1] /\ instance[i] # None
        BY <1>2, <3>1
      <4>2. instance[i] \in [project : Projects, asset : Assets, rev : Revs]
        BY <4>1 DEF LibraryInv, InstanceInv
      <4>3. /\ instance'[i] \in [project : Projects, asset : Assets, rev : Revs]
            /\ instance'[i].rev = r /\ instance'[i].asset = instance[i].asset
        BY <4>1, <4>2
      <4> QED BY <1>2, <4>1, <4>3
    <3>2. CASE i \notin S
      BY <1>2, <2>2, <3>2 DEF LibraryInv, InstanceInv
    <3> QED BY <3>1, <3>2
  <2>3. InstanceInv'
    BY <2>1, <2>2 DEF InstanceInv
  <2> QED BY <1>2, <2>3, InstancesMove
<1>3. ASSUME NEW S \in SUBSET Instances, NEW r \in Revs, Upgrade(S, r)
      PROVE  LibraryInv'
  <2>1. /\ Writes /\ UNCHANGED <<asset, revision, edges, lineage, asked>>
        /\ instance' = [i \in Instances |-> IF i \in S THEN [instance[i] EXCEPT !.rev = r] ELSE instance[i]]
        /\ S # {} /\ S \subseteq Upgradable(r)
    BY <1>3 DEF Upgrade
  <2>2. Stored(r) /\ \A i \in S : instance[i] # None /\ instance[i].asset = r[1]
    BY <2>1 DEF Upgradable
  <2> QED BY <1>2, <2>1, <2>2
<1>4. ASSUME NEW S \in SUBSET Instances, NEW r \in Revs, NEW p \in Projects, Rollback(p, S, r)
      PROVE  LibraryInv'
  <2>1. /\ Writes /\ UNCHANGED <<asset, revision, edges, lineage, asked>>
        /\ instance' = [i \in Instances |-> IF i \in S THEN [instance[i] EXCEPT !.rev = r] ELSE instance[i]]
        /\ Stored(r) /\ \A i \in S : instance[i] # None /\ instance[i].asset = r[1]
    BY <1>4 DEF Rollback
  <2> QED BY <1>2, <2>1
<1> QED BY <1>1, <1>3, <1>4

-----------------------------------------------------------------------------
(* Steps that add revisions. *)

LEMMA SameDependencies ==
  ASSUME NEW E, NEW F, NEW r, EdgesIn(E, r) = EdgesIn(F, r)
  PROVE  DependenciesIn(E, r) = DependenciesIn(F, r)
BY DEF DependenciesIn

\* No revision lies below one of its own asset, along these edges.
Loopless(E) == \A r \in Revs : \A x \in ToSet(WalkOf(E)[r]) : x[1] # r[1]

\* Edges F from new revisions N, of which each leads to an old one or to a new
\* one of a lower order; H holds what lies below the new ones.
LEMMA EdgesGrow ==
  ASSUME NEW E, Typed(E), NEW n \in Nat, NEW rank, Ranked(rank, n, E), Loopless(E),
         NEW N \in SUBSET Revs, NEW F, Typed(F), NEW m \in Nat, NEW order \in [N -> 1..m], NEW H,
         \A e \in E : e.from \notin N /\ e.to \notin N,
         \A e \in F : /\ e.from \in N /\ e.to \in H[e.from]
                      /\ e.to \in N => order[e.to] < order[e.from] /\ H[e.to] \subseteq H[e.from]
                      /\ e.to \notin N => ToSet(WalkOf(E)[e.to]) \subseteq H[e.from],
         \A r \in N : \A x \in H[r] : x[1] # r[1]
  PROVE  /\ \E k \in Nat : \E more : Ranked(more, k, E \cup F)
         /\ Loopless(E \cup F)
<1> DEFINE U == E \cup F
           more == [x \in Revs |-> IF x \in N THEN n + order[x] ELSE rank[x]]
           G == [x \in Revs |-> IF x \in N THEN H[x] ELSE ToSet(WalkOf(E)[x])]
<1>1. Typed(U)
  BY DEF Typed
<1>2. Ranked(more, n + m, U)
  <2>1. rank \in [Revs -> 0..n]
    BY DEF Ranked
  <2>2. ASSUME NEW x \in Revs PROVE more[x] \in 0..n + m
    BY <2>1
  <2>3. ASSUME NEW e \in U PROVE more[e.to] < more[e.from]
    <3>1. e.from \in Revs /\ e.to \in Revs
      BY <1>1, <2>3 DEF Typed
    <3>2. CASE e \in E
      BY <3>1, <3>2 DEF Ranked
    <3>3. CASE e \in F
      <4>1. e.from \in N /\ order[e.from] \in 1..m
        BY <3>3
      <4>2. CASE e.to \in N
        <5>1. order[e.to] \in 1..m /\ order[e.to] < order[e.from]
          BY <3>3, <4>2
        <5> QED BY <3>1, <4>1, <4>2, <5>1
      <4>3. CASE e.to \notin N
        <5>1. rank[e.to] \in 0..n /\ more[e.to] = rank[e.to] /\ more[e.from] = n + order[e.from]
          BY <2>1, <3>1, <4>1, <4>3
        <5> HIDE DEF more
        <5> QED BY <4>1, <5>1
      <4> QED BY <4>2, <4>3
    <3> QED BY <2>3, <3>2, <3>3
  <2>4. more \in [Revs -> 0..n + m]
    BY <2>2
  <2> HIDE DEF more
  <2> QED BY <2>3, <2>4 DEF Ranked
<1> HIDE DEF more, U
<1>3. ASSUME NEW x \in Revs, NEW i \in 1..Len(DependenciesIn(U, x))
      PROVE  LET to == DependenciesIn(U, x)[i].to IN to \in G[x] /\ G[to] \subseteq G[x]
  <2> DEFINE e == DependenciesIn(U, x)[i]
  <2>1. e \in U /\ e.from = x /\ e.to \in Revs
    BY <1>1, <1>2, DependencyFalls
  <2> HIDE DEF e
  <2>2. CASE x \in N
    <3>1. e \in F
      BY <2>1, <2>2 DEF U
    <3>2. G[x] = H[x] /\ e.to \in H[x] /\ (e.to \in N => G[e.to] = H[e.to])
          /\ (e.to \notin N => G[e.to] = ToSet(WalkOf(E)[e.to]))
      BY <2>1, <2>2, <3>1
    <3>3. G[e.to] \subseteq H[x]
      BY <2>1, <3>1, <3>2
    <3> QED BY <3>2, <3>3 DEF e
  <2>3. CASE x \notin N
    <3>1. EdgesIn(U, x) = EdgesIn(E, x)
      BY <2>3 DEF EdgesIn, U
    <3>2. DependenciesIn(U, x) = DependenciesIn(E, x)
      BY <3>1, SameDependencies
    <3>3. e.to \in ToSet(WalkOf(E)[x]) /\ ToSet(WalkOf(E)[e.to]) \subseteq ToSet(WalkOf(E)[x])
      BY <3>2, WalkHolds DEF e
    <3>4. e \in E
      BY <2>1, <2>3 DEF U
    <3>5. G[x] = ToSet(WalkOf(E)[x]) /\ G[e.to] = ToSet(WalkOf(E)[e.to])
      BY <2>1, <2>3, <3>4
    <3> QED BY <3>3, <3>5 DEF e
  <2> QED BY <2>2, <2>3
<1>4. ASSUME NEW x \in Revs, NEW y \in G[x] PROVE y[1] # x[1]
  BY <1>4 DEF Loopless
<1> HIDE DEF G
<1>5. n + m \in Nat
  OBVIOUS
<1>6. \A x \in Revs : ToSet(WalkOf(U)[x]) \subseteq G[x]
  BY <1>1, <1>2, <1>3, <1>5, WalkWithin
<1>7. Loopless(U)
  BY <1>4, <1>6 DEF Loopless
<1> QED BY <1>2, <1>5, <1>7 DEF U

LEMMA NumberedIs ==
  ASSUME NEW row, NEW w \in Nat, Sane(row, w), row.number < MaxRevisions, row.lifecycle # "deleted"
  PROVE  /\ Sane(Numbered(row), w + 1) /\ Numbered(row) # None
         /\ Numbered(row).project = row.project /\ Numbered(row).kind = row.kind
         /\ Numbered(row).draft = row.draft /\ Numbered(row).number = row.number + 1
         /\ Numbered(row).counter = row.counter + 1 /\ Numbered(row).lifecycle # "deleted"
<1> DEFINE D == Definitions \cup Texts
           state == IF row.lifecycle = "draft" THEN "published" ELSE row.lifecycle
           one == [row EXCEPT !.number = row.number + 1]
           two == [one EXCEPT !.counter = row.counter + 1]
           new == [two EXCEPT !.lifecycle = state]
<1>1. row \in AssetRow
  BY DEF Sane
<1>2. AssetRow = [project : Projects, kind : Kinds, lifecycle : Lifecycles,
                  counter : Nat, number : 0..MaxRevisions, draft : D]
  BY DEF AssetRow, D
<1> HIDE DEF D
<1>3. row.number \in 0..MaxRevisions /\ row.number + 1 \in 0..MaxRevisions /\ row.counter + 1 \in Nat
  BY <1>1, <1>2, LibraryAssumption
<1>4. state \in Lifecycles /\ state # "deleted" /\ state # "draft"
  BY <1>1, <1>2 DEF Lifecycles
<1>5. new = Numbered(row)
  BY <1>1, <1>2 DEF Numbered
<1>6. /\ new.project = row.project /\ new.kind = row.kind /\ new.draft = row.draft
      /\ new.number = row.number + 1 /\ new.counter = row.counter + 1 /\ new.lifecycle = state
  BY <1>1, <1>2
<1>7. one \in AssetRow
  BY <1>1, <1>2, <1>3
<1> HIDE DEF one
<1>8. two \in AssetRow
  BY <1>2, <1>3, <1>7
<1> HIDE DEF two, state
<1>9. new \in AssetRow
  BY <1>2, <1>4, <1>8
<1> HIDE DEF new
<1>10. row.counter \in Nat /\ row.number \in Nat
  BY <1>1, <1>2, LibraryAssumption
<1>11. Sane(new, w + 1)
  <2>1. new.counter <= w + 1 /\ new.counter # 0 /\ new.number > 0
    BY <1>6, <1>10 DEF Sane
  <2> QED BY <1>4, <1>6, <1>9, <2>1 DEF Sane
<1> QED BY <1>4, <1>5, <1>6, <1>9, <1>11, RowIsSomething

\* What there is stays, and an asset may have more revisions.
Grows ==
  /\ revision \subseteq revision' /\ edges \subseteq edges' /\ lineage \subseteq lineage' /\ UNCHANGED instance
  /\ \A a \in Assets : asset[a] # None =>
       /\ asset'[a] # None /\ asset'[a].project = asset[a].project /\ asset'[a].kind = asset[a].kind
       /\ asset[a].number <= asset'[a].number
       /\ (asset'[a].lifecycle = "deleted" <=> asset[a].lifecycle = "deleted")

\* What RowInv, AnchorInv and EdgeInv say of one row.
GoodRow(row) ==
  /\ row.id \in Revs /\ row.deps \subseteq Deps
  /\ Exists(row.id[1]) /\ row.id[2] <= asset[row.id[1]].number
  /\ row.parts \in DraftsOf(asset[row.id[1]].kind)
  /\ asset[row.id[1]].kind = "tokens" => Fit(row.parts)
  /\ \A d \in row.deps : Anchored(row.id[1], d)

GoodEdge(e) ==
  /\ WasStored(e.from) /\ WasStored(e.to) /\ e.asset \in Assets
  /\ asset[e.from[1]].project = asset[e.to[1]].project
  /\ e.asset = e.to[1] => Stored(e.to)

LEMMA GrowthKeeps ==
  ASSUME LibraryInv, AssetInv', Grows, lineage' \subseteq Assets \X Assets
  PROVE  /\ \A r : Stored(r) => Stored(r)'
         /\ \A r : WasStored(r) => WasStored(r)'
         /\ \A row \in revision : GoodRow(row)'
         /\ \A e \in edges : GoodEdge(e)'
         /\ InstanceInv'
<1>1. \A r : Stored(r) => Stored(r)'
  BY DEF Stored, Grows
<1>2. \A a \in Assets : asset[a] # None =>
       /\ asset'[a] # None /\ asset'[a].project = asset[a].project /\ asset'[a].kind = asset[a].kind
       /\ asset[a].number <= asset'[a].number
       /\ (asset'[a].lifecycle = "deleted" <=> asset[a].lifecycle = "deleted")
  BY DEF Grows
<1>3. ASSUME NEW a \in Assets, asset[a] # None PROVE asset[a].number \in Int /\ asset'[a].number \in Int
  <2>1. asset[a] \in AssetRow /\ asset'[a] \in AssetRow
    BY <1>2, <1>3 DEF LibraryInv, AssetInv, Sane
  <2> QED BY <2>1, LibraryAssumption DEF AssetRow
<1>4. ASSUME NEW a \in Assets, asset[a] # None, NEW k \in Int, k <= asset[a].number PROVE k <= asset'[a].number
  BY <1>2, <1>3, <1>4
<1>5. \A r \in Revs : r[1] \in Assets /\ r[2] \in Int
  BY LibraryAssumption DEF Revs
<1>6. \A r : WasStored(r) => WasStored(r)'
  BY <1>2, <1>4, <1>5 DEF WasStored
<1>7. \A a, d : Anchored(a, d) => Anchored(a, d)'
  <2> SUFFICES ASSUME NEW a, NEW d, Anchored(a, d) PROVE Anchored(a, d)'
    OBVIOUS
  <2>1. PICK S \in SUBSET Assets :
          /\ a \in S /\ \A s \in S : s = a \/ \E c \in S : <<c, s>> \in lineage
          /\ \E e \in edges : e.from[1] \in S /\ e.asset = d.asset /\ e.to = d.to
    BY DEF Anchored
  <2>2. /\ a \in S /\ \A s \in S : s = a \/ \E c \in S : <<c, s>> \in lineage'
        /\ \E e \in edges' : e.from[1] \in S /\ e.asset = d.asset /\ e.to = d.to
    BY <2>1 DEF Grows
  <2> QED BY <2>2 DEF Anchored
<1>8. ASSUME NEW row \in revision PROVE GoodRow(row)'
  <2>1. GoodRow(row)
    BY DEF LibraryInv, RowInv, AnchorInv, GoodRow
  <2>2. row.id \in Revs /\ row.id[1] \in Assets /\ row.id[2] \in Int /\ asset[row.id[1]] # None
    BY <1>5, <2>1 DEF GoodRow, Exists
  <2>3. row.id[2] <= asset'[row.id[1]].number
    BY <1>4, <2>1, <2>2 DEF GoodRow
  <2>4. Exists(row.id[1])' /\ asset'[row.id[1]].kind = asset[row.id[1]].kind
    BY <1>2, <2>1, <2>2 DEF GoodRow, Exists
  <2>5. \A d \in row.deps : Anchored(row.id[1], d)'
    BY <1>7, <2>1 DEF GoodRow
  <2> QED BY <2>1, <2>2, <2>3, <2>4, <2>5 DEF GoodRow
<1>9. ASSUME NEW e \in edges PROVE GoodEdge(e)'
  <2>1. GoodEdge(e)
    BY DEF LibraryInv, EdgeInv, GoodEdge
  <2>2. /\ e.from[1] \in Assets /\ asset[e.from[1]] # None
        /\ e.to[1] \in Assets /\ asset[e.to[1]] # None
    BY <1>5, <2>1 DEF GoodEdge, WasStored
  <2>3. asset'[e.from[1]].project = asset'[e.to[1]].project
    BY <1>2, <2>1, <2>2 DEF GoodEdge
  <2> QED BY <1>1, <1>6, <2>1, <2>3 DEF GoodEdge
<1>10. InstanceInv'
  BY <1>1 DEF LibraryInv, InstanceInv, Grows
<1> QED BY <1>1, <1>6, <1>8, <1>9, <1>10

LEMMA GrowthIsGood ==
  ASSUME LibraryInv, AssetInv', Grows, lineage' \subseteq Assets \X Assets,
         \A row \in revision' \ revision : GoodRow(row)',
         \A e \in edges' \ edges : GoodEdge(e)',
         \A a \in Assets : Exists(a)' => \A k \in 1..asset'[a].number :
           (asset[a] # None /\ k <= asset[a].number) \/ Stored(<<a, k>>)'
  PROVE  RowInv' /\ EdgeInv' /\ AnchorInv' /\ InstanceInv'
<1>1. \A row \in revision' : GoodRow(row)'
  BY GrowthKeeps
<1>2. \A e \in edges' : GoodEdge(e)'
  BY GrowthKeeps
<1>3. ASSUME NEW a \in Assets, Exists(a)', NEW k \in 1..asset'[a].number PROVE Stored(<<a, k>>)'
  <2>1. CASE asset[a] # None /\ k <= asset[a].number
    <3>1. Exists(a)
      BY <1>3, <2>1 DEF Exists, Grows
    <3>2. k \in 1..asset[a].number
      <4>1. asset[a] \in AssetRow
        BY <2>1 DEF LibraryInv, AssetInv, Sane
      <4>2. asset'[a] \in AssetRow
        BY <1>3 DEF AssetInv, Sane, Exists
      <4>3. asset[a].number \in Int /\ asset'[a].number \in Int
        BY <4>1, <4>2, LibraryAssumption DEF AssetRow
      <4> QED BY <2>1, <4>3
    <3>3. Stored(<<a, k>>)
      BY <3>1, <3>2 DEF LibraryInv, RowInv
    <3> QED BY <3>3, GrowthKeeps
  <2> QED BY <1>3, <2>1
<1>4. RowInv'
  BY <1>1, <1>3 DEF RowInv, GoodRow
<1>5. EdgeInv'
  BY <1>2 DEF EdgeInv, GoodEdge
<1>6. AnchorInv'
  BY <1>1 DEF AnchorInv, GoodRow
<1> QED BY <1>4, <1>5, <1>6, GrowthKeeps

-----------------------------------------------------------------------------
(* Publishing. *)

LEMMA RanksAndWalks ==
  ASSUME LibraryInv
  PROVE  /\ Typed(edges) /\ Loopless(edges) /\ Walk = WalkOf(edges)
         /\ \E n \in Nat : \E rank : Ranked(rank, n, edges)
BY EdgesTyped DEF LibraryInv, LoopInv, Loopless, Walk, RankInv

LEMMA PublishAsset ==
  ASSUME LibraryInv, NEW a \in Assets, Exists(a), NEW via, NEW deps, Publish(a, via, deps)
  PROVE  /\ AssetInv' /\ AskedInv'
         /\ asset'[a] # None /\ asset'[a].number = asset[a].number + 1 /\ asset'[a].kind = asset[a].kind
         /\ asset'[a].project = asset[a].project /\ asset'[a].lifecycle # "deleted"
         /\ \A b \in Assets \ {a} : asset'[b] = asset[b]
         /\ asset[a].number + 1 \in 1..MaxRevisions
<1> DEFINE row == Numbered(asset[a])
<1>1. Writes /\ asset[a].number < MaxRevisions /\ asset' = [asset EXCEPT ![a] = row] /\ UNCHANGED asked
  BY DEF Publish
<1>2. Sane(asset[a], writes) /\ asset[a].lifecycle # "deleted" /\ writes \in Nat
      /\ asset[a].number \in 0..MaxRevisions /\ asset[a].counter \in Nat
  BY AssetHas
<1>3. /\ Sane(row, writes + 1) /\ row.project = asset[a].project /\ row.kind = asset[a].kind
      /\ row.number = asset[a].number + 1 /\ row.counter = asset[a].counter + 1 /\ row.lifecycle # "deleted"
  BY <1>1, <1>2, NumberedIs
<1> HIDE DEF row
<1>4. AssetInv' /\ row # None /\ asset'[a] = row /\ \A b \in Assets \ {a} : asset'[b] = asset[b]
  BY <1>1, <1>3, AssetChanges DEF LibraryInv
<1>5. ASSUME NEW b \in Assets, asset[b] # None
      PROVE  /\ asset'[b] # None /\ asset[b].counter <= asset'[b].counter
             /\ asset'[b].counter = asset[b].counter => asset'[b].number = asset[b].number
  <2>1. CASE b = a
    BY <1>2, <1>3, <1>4, <2>1
  <2>2. CASE b # a
    <3>1. asset'[b] = asset[b] /\ asset[b].counter \in Nat
      BY <1>4, <1>5, <2>2 DEF LibraryInv, AssetInv, Sane, AssetRow
    <3> QED BY <1>5, <3>1
  <2> QED BY <2>1, <2>2
<1>6. AskedInv'
  BY <1>1, <1>4, <1>5, RequestsStay DEF LibraryInv
<1>7. asset[a].number + 1 \in 1..MaxRevisions
  BY <1>1, <1>2, LibraryAssumption
<1> QED BY <1>3, <1>4, <1>6, <1>7

LEMMA PublishStep ==
  ASSUME LibraryInv, NEW a \in Assets, Exists(a), NEW via, NEW R, Publish(a, via, {Dependency(x) : x \in R})
  PROVE  LibraryInv'
<1>0. PICK k : k = asset[a].number + 1
  OBVIOUS
<1> DEFINE deps == {Dependency(x) : x \in R}
           r == <<a, k>>
           F == EdgesFrom(r, deps)
           row == Frozen(r, via, asset[a].draft, deps)
           H == [x \in {r} |-> UNION {{d.to} \cup ToSet(Walk[d.to]) : d \in deps}]
<1>1. /\ \A d \in deps : Owned(asset[a].project, d.asset) /\ Resolves(asset[a].project, d.to)
      /\ ~WouldCycle(a, deps)
      /\ revision' = revision \cup {row} /\ edges' = edges \cup F /\ UNCHANGED <<instance, lineage>>
  BY <1>0 DEF Publish
<1>2. \A d \in deps : d = Dependency(d.to) /\ d.asset = d.to[1]
  BY DEF Dependency
<1>3. ASSUME NEW d \in deps
      PROVE  /\ Stored(d.to) /\ d.to \in Revs /\ d.asset \in Assets /\ d \in Deps /\ WasStored(d.to)
             /\ asset[d.asset].project = asset[a].project
  <2>1. Stored(d.to) /\ Owned(asset[a].project, d.asset)
    BY <1>1 DEF Resolves
  <2>2. d.to \in Revs /\ WasStored(d.to)
    BY <2>1, StoredIs DEF LibraryInv
  <2>3. d.asset \in Assets
    BY <1>2, <2>2 DEF Revs
  <2>4. d \in Deps
    BY <1>2, <2>2, <2>3 DEF Deps, Dependency
  <2> QED BY <2>1, <2>2, <2>3, <2>4 DEF Owned
<1>4. /\ AssetInv' /\ AskedInv'
      /\ asset'[a] # None /\ asset'[a].number = k /\ asset'[a].kind = asset[a].kind
      /\ asset'[a].project = asset[a].project /\ asset'[a].lifecycle # "deleted"
      /\ \A b \in Assets \ {a} : asset'[b] = asset[b]
      /\ k \in 1..MaxRevisions
  BY <1>0, PublishAsset
<1>5. /\ asset[a].number \in Nat /\ asset[a] # None /\ asset[a].draft \in DraftsOf(asset[a].kind)
      /\ (asset[a].kind = "tokens" => Fit(asset[a].draft)) /\ asset[a].lifecycle # "deleted"
  BY AssetHas, LibraryAssumption
<1>6. r \in Revs /\ k \in Nat /\ k = asset[a].number + 1 /\ r[1] = a /\ r[2] = k
  BY <1>0, <1>4, LibraryAssumption DEF Revs
<1>7. ~ WasStored(r)
  BY <1>5, <1>6 DEF WasStored
<1>8. \A e \in F : e.from = r /\ \E d \in deps : e.asset = d.asset /\ e.to = d.to
  BY DEF EdgesFrom
<1>9. row.id = r /\ row.deps = deps /\ row.parts = asset[a].draft
  BY DEF Frozen
<1>10. \A d \in deps : \E e \in F : e.from = r /\ e.asset = d.asset /\ e.to = d.to
  <2> TAKE d \in deps
  <2> DEFINE e == [from |-> r, asset |-> d.asset, to |-> d.to]
  <2>1. e \in F /\ e.from = r /\ e.asset = d.asset /\ e.to = d.to
    BY DEF EdgesFrom
  <2> HIDE DEF e
  <2> QED BY <2>1
<1>11. \A d \in deps : d.to \in H[r] /\ ToSet(Walk[d.to]) \subseteq H[r]
  OBVIOUS
<1>12. \A x \in H[r] : x[1] # a
  BY <1>1 DEF WouldCycle
<1> HIDE DEF F, row, H, r, deps
<1>13. (\E n \in Nat : \E more : Ranked(more, n, edges')) /\ Loopless(edges')
  <2>1. PICK n \in Nat : \E rank : Ranked(rank, n, edges)
    BY RanksAndWalks
  <2>2. PICK rank : Ranked(rank, n, edges)
    BY <2>1
  <2>3. \A e \in edges : e.from \notin {r} /\ e.to \notin {r}
    BY <1>7 DEF LibraryInv, EdgeInv
  <2>4. Typed(F)
    BY <1>3, <1>6, <1>8 DEF Typed
  <2>5. ASSUME NEW e \in F
        PROVE  /\ e.from \in {r} /\ e.to \in H[e.from] /\ e.to \notin {r}
               /\ ToSet(WalkOf(edges)[e.to]) \subseteq H[e.from]
    <3>1. PICK d \in deps : e.to = d.to
      BY <1>8
    <3>2. e.to # r
      BY <1>3, <1>7, <3>1
    <3> QED BY <1>8, <1>11, <3>1, <3>2, RanksAndWalks
  <2> DEFINE order == [x \in {r} |-> 1]
  <2>6. order \in [{r} -> 1..1] /\ {r} \in SUBSET Revs
    BY <1>6
  <2>7. \A x \in {r} : \A y \in H[x] : y[1] # x[1]
    BY <1>6, <1>12
  <2> HIDE DEF order
  <2>8. Typed(edges) /\ Loopless(edges)
    BY RanksAndWalks
  <2> QED BY <1>1, <2>2, <2>3, <2>4, <2>5, <2>6, <2>7, <2>8, EdgesGrow
<1>14. Grows
  <2>1. ASSUME NEW b \in Assets, asset[b] # None
        PROVE  /\ asset'[b] # None /\ asset'[b].project = asset[b].project /\ asset'[b].kind = asset[b].kind
               /\ asset[b].number <= asset'[b].number
               /\ (asset'[b].lifecycle = "deleted" <=> asset[b].lifecycle = "deleted")
    <3>1. CASE b = a
      BY <1>4, <1>5, <1>6, <3>1
    <3>2. CASE b # a
      <4>1. asset'[b] = asset[b] /\ asset[b] \in AssetRow
        BY <1>4, <2>1, <3>2 DEF LibraryInv, AssetInv, Sane
      <4>2. asset[b].number \in Int
        BY <4>1, LibraryAssumption DEF AssetRow
      <4> QED BY <2>1, <4>1, <4>2
    <3> QED BY <3>1, <3>2
  <2> QED BY <1>1, <2>1 DEF Grows
<1>15. lineage' \subseteq Assets \X Assets
  BY <1>1 DEF LibraryInv, AnchorInv
<1>16. \A x : (Stored(x) => Stored(x)') /\ (WasStored(x) => WasStored(x)')
  BY <1>4, <1>14, <1>15, GrowthKeeps
<1>17. Exists(a)'
  BY <1>4 DEF Exists
<1>18. WasStored(r)'
  BY <1>4, <1>6 DEF WasStored
<1>19. ASSUME NEW d \in deps PROVE Anchored(a, d)'
  <2>1. PICK e \in F : e.from = r /\ e.asset = d.asset /\ e.to = d.to
    BY <1>10
  <2>2. e \in edges' /\ e.from[1] = a
    BY <1>1, <1>6, <2>1
  <2>3. /\ {a} \in SUBSET Assets /\ a \in {a} /\ \A s \in {a} : s = a \/ \E c \in {a} : <<c, s>> \in lineage'
        /\ \E f \in edges' : f.from[1] \in {a} /\ f.asset = d.asset /\ f.to = d.to
    BY <2>1, <2>2
  <2> QED BY <2>3 DEF Anchored
<1>20. ASSUME NEW new \in revision' \ revision PROVE GoodRow(new)'
  <2>1. new = row
    BY <1>1
  <2>2. new.id = r /\ new.id \in Revs /\ new.id[1] = a /\ new.id[2] = k /\ new.deps = deps
        /\ new.parts = asset[a].draft
    BY <1>6, <1>9, <2>1
  <2>3. new.deps \subseteq Deps /\ new.id[2] <= asset'[new.id[1]].number
    BY <1>3, <1>4, <1>6, <2>2
  <2> QED BY <1>4, <1>5, <1>17, <1>19, <2>2, <2>3 DEF GoodRow
<1>21. ASSUME NEW e \in edges' \ edges PROVE GoodEdge(e)'
  <2>1. PICK d \in deps : e.from = r /\ e.asset = d.asset /\ e.to = d.to
    BY <1>1, <1>8
  <2>2. e.asset \in Assets /\ Stored(e.to)' /\ WasStored(e.to)' /\ e.to[1] = d.asset
    BY <1>2, <1>3, <1>16, <2>1
  <2>3. asset'[d.asset].project = asset'[a].project
    BY <1>3, <1>4
  <2> QED BY <1>6, <1>18, <2>1, <2>2, <2>3 DEF GoodEdge
<1>22. ASSUME NEW b \in Assets, Exists(b)', NEW i \in 1..asset'[b].number
       PROVE  (asset[b] # None /\ i <= asset[b].number) \/ Stored(<<b, i>>)'
  <2>1. CASE b = a
    <3>1. i \in 1..k
      BY <1>4, <1>22, <2>1
    <3>2. CASE i = k
      <4>1. row \in revision' /\ row.id = <<b, i>>
        BY <1>1, <1>9, <2>1, <3>2 DEF r
      <4> QED BY <4>1 DEF Stored
    <3>3. CASE i # k
      <4>1. i <= asset[a].number
        BY <1>5, <1>6, <3>1, <3>3
      <4> QED BY <1>5, <2>1, <4>1
    <3> QED BY <3>2, <3>3
  <2>2. CASE b # a
    <3>1. asset'[b] = asset[b] /\ asset[b] # None
      BY <1>4, <1>22, <2>2 DEF Exists
    <3>2. asset[b].number \in Int /\ i \in 1..asset[b].number
      <4>1. asset[b] \in AssetRow
        BY <3>1 DEF LibraryInv, AssetInv, Sane
      <4> QED BY <1>22, <3>1, <4>1, LibraryAssumption DEF AssetRow
    <3> QED BY <3>1, <3>2
  <2> QED BY <2>1, <2>2
<1>23. RowInv' /\ EdgeInv' /\ AnchorInv' /\ InstanceInv'
  BY <1>4, <1>14, <1>15, <1>20, <1>21, <1>22, GrowthIsGood
<1>24. RankInv' /\ LoopInv'
  BY <1>13 DEF RankInv, LoopInv, Loopless, Walk
<1> QED BY <1>4, <1>23, <1>24 DEF LibraryInv

LEMMA PublishSteps ==
  ASSUME LibraryInv, NEW a \in Assets
  PROVE  /\ PublishComponent(a) \/ PublishPage(a) \/ PublishTokens(a) => LibraryInv'
         /\ \A revs : PublishDeclared(a, revs) => LibraryInv'
<1>1. \A parts : Newest(parts) = {Dependency(x) : x \in {Current(k) : k \in parts}}
  BY DEF Newest
<1>2. ASSUME PublishComponent(a) \/ PublishPage(a) PROVE LibraryInv'
  <2>1. Exists(a) /\ \E via : Publish(a, via, Newest(Prepared(a)))
    BY <1>2 DEF PublishComponent, PublishPage
  <2>2. PICK via : Publish(a, via, {Dependency(x) : x \in {Current(k) : k \in Prepared(a)}})
    BY <1>1, <2>1
  <2>3. PICK R : R = {Current(k) : k \in Prepared(a)}
    OBVIOUS
  <2>4. Publish(a, via, {Dependency(x) : x \in R})
    BY <2>2, <2>3
  <2> QED BY <2>1, <2>4, PublishStep
<1>3. ASSUME PublishTokens(a) PROVE LibraryInv'
  <2>1. Exists(a) /\ Publish(a, "tokens", {Dependency(x) : x \in {}})
    BY <1>3 DEF PublishTokens
  <2> QED BY <2>1, PublishStep
<1>4. ASSUME NEW revs, PublishDeclared(a, revs) PROVE LibraryInv'
  <2>1. Exists(a) /\ Publish(a, "declared", {Dependency(x) : x \in revs})
    BY <1>4 DEF PublishDeclared
  <2> QED BY <2>1, PublishStep
<1> QED BY <1>2, <1>3, <1>4

-----------------------------------------------------------------------------
(* Copies. *)

LEMMA CopyStep ==
  ASSUME LibraryInv, NEW a \in Assets, Copy(a)
  PROVE  LibraryInv'
<1>1. PICK new : new = Head(Unused)
  OBVIOUS
<1>2. PICK parent : parent = RowOf(Current(a))
  OBVIOUS
<1>3. PICK old : old = asset[a]
  OBVIOUS
<1>4. PICK row : row = Numbered(Draft(old.project, old.kind, old.draft))
  OBVIOUS
<1>5. PICK copy : copy = Frozen(<<new, 1>>, "copy", parent.parts, parent.deps)
  OBVIOUS
<1>6. /\ Writes /\ Exists(a) /\ Published(a) /\ Unused # <<>>
      /\ asset' = [asset EXCEPT ![new] = row]
      /\ revision' = revision \cup {copy} /\ lineage' = lineage \cup {<<new, a>>}
      /\ UNCHANGED <<edges, instance, asked>>
  BY <1>1, <1>2, <1>3, <1>4, <1>5 DEF Copy
<1>7. new \in Assets /\ asset[new] = None
  <2>1. new = Unused[1] /\ 1 \in 1..Len(Unused)
    BY <1>1, <1>6, UnusedIs
  <2> QED BY <2>1, UnusedIs
<1>8. /\ old # None /\ old.project \in Projects /\ old.kind \in Kinds /\ old.draft \in DraftsOf(old.kind)
      /\ (old.kind = "tokens" => Fit(old.draft)) /\ old.lifecycle # "deleted" /\ writes \in Nat
  BY <1>3, <1>6, AssetHas
<1>9. /\ Sane(row, writes + 1) /\ row.project = old.project /\ row.kind = old.kind /\ row.number = 1
      /\ row.lifecycle # "deleted"
  <2>1. PICK first : first = Draft(old.project, old.kind, old.draft)
    OBVIOUS
  <2>2. Sane(first, writes) /\ first.number = 0 /\ first.lifecycle # "deleted"
    BY <1>8, <2>1, DraftSane
  <2>3. first.project = old.project /\ first.kind = old.kind
    BY <2>1 DEF Draft
  <2>4. first.number < MaxRevisions
    BY <2>2, LibraryAssumption
  <2> QED BY <1>4, <1>8, <2>1, <2>2, <2>3, <2>4, NumberedIs
<1>10. AssetInv' /\ asset'[new] = row /\ row # None /\ \A b \in Assets \ {new} : asset'[b] = asset[b]
  BY <1>6, <1>7, <1>9, AssetChanges DEF LibraryInv
<1>11. \A b \in Assets : asset[b] # None =>
         asset'[b] = asset[b] /\ asset[b].counter \in Nat /\ asset[b].number \in Nat
  <2> SUFFICES ASSUME NEW b \in Assets, asset[b] # None
               PROVE  asset'[b] = asset[b] /\ asset[b].counter \in Nat /\ asset[b].number \in Nat
    OBVIOUS
  <2>1. asset[b] \in AssetRow
    BY DEF LibraryInv, AssetInv, Sane
  <2> QED BY <1>7, <1>10, <2>1, LibraryAssumption DEF AssetRow
<1>12. AskedInv'
  <2>1. \A b \in Assets : asset[b] # None =>
          /\ asset'[b] # None /\ asset[b].counter <= asset'[b].counter
          /\ asset'[b].counter = asset[b].counter => asset'[b].number = asset[b].number
    BY <1>11
  <2> QED BY <1>6, <1>10, <2>1, RequestsStay DEF LibraryInv
<1>13. Grows
  <2>1. \A b \in Assets : asset[b] # None =>
          /\ asset'[b] # None /\ asset'[b].project = asset[b].project /\ asset'[b].kind = asset[b].kind
          /\ asset[b].number <= asset'[b].number
          /\ (asset'[b].lifecycle = "deleted" <=> asset[b].lifecycle = "deleted")
    BY <1>11
  <2> QED BY <1>6, <2>1 DEF Grows
<1>14. lineage' \subseteq Assets \X Assets
  BY <1>6, <1>7 DEF LibraryInv, AnchorInv
<1>15. parent \in revision /\ parent.id = Current(a)
  BY <1>2, <1>6, CurrentStored DEF Stored, RowOf
<1>16. GoodRow(parent) /\ parent.id[1] = a
  BY <1>15 DEF LibraryInv, RowInv, AnchorInv, GoodRow, Current
<1>17. /\ copy.id = <<new, 1>> /\ copy.parts = parent.parts /\ copy.deps = parent.deps
  BY <1>5 DEF Frozen
<1>18. ASSUME NEW d \in parent.deps PROVE Anchored(new, d)'
  <2>1. Anchored(a, d)
    BY <1>16 DEF GoodRow
  <2>2. PICK S \in SUBSET Assets :
          /\ a \in S /\ \A s \in S : s = a \/ \E c \in S : <<c, s>> \in lineage
          /\ \E e \in edges : e.from[1] \in S /\ e.asset = d.asset /\ e.to = d.to
    BY <2>1 DEF Anchored
  <2> DEFINE T == S \cup {new}
  <2>3. T \in SUBSET Assets /\ new \in T /\ a \in T
    BY <1>7, <2>2
  <2>4. ASSUME NEW s \in T PROVE s = new \/ \E c \in T : <<c, s>> \in lineage'
    <3>1. CASE s = new
      BY <3>1
    <3>2. CASE s = a
      BY <1>6, <3>2
    <3>3. CASE s # new /\ s # a
      BY <1>6, <2>2, <3>3
    <3> QED BY <3>1, <3>2, <3>3
  <2>5. \E e \in edges' : e.from[1] \in T /\ e.asset = d.asset /\ e.to = d.to
    BY <1>6, <2>2
  <2> HIDE DEF T
  <2> QED BY <2>3, <2>4, <2>5 DEF Anchored
<1>19. ASSUME NEW x \in revision' \ revision PROVE GoodRow(x)'
  <2>1. x = copy
    BY <1>6
  <2>2. copy.id \in Revs /\ copy.id[1] = new /\ copy.id[2] = 1
    BY <1>7, <1>17, LibraryAssumption DEF Revs
  <2>3. Exists(new)' /\ 1 <= asset'[new].number /\ asset'[new].kind = asset[a].kind
    BY <1>3, <1>9, <1>10 DEF Exists
  <2>4. /\ parent.deps \subseteq Deps /\ parent.parts \in DraftsOf(asset[a].kind)
        /\ asset[a].kind = "tokens" => Fit(parent.parts)
    BY <1>16 DEF GoodRow
  <2> QED BY <1>17, <1>18, <2>1, <2>2, <2>3, <2>4 DEF GoodRow
<1>20. ASSUME NEW b \in Assets, Exists(b)', NEW i \in 1..asset'[b].number
       PROVE  (asset[b] # None /\ i <= asset[b].number) \/ Stored(<<b, i>>)'
  <2>1. CASE b = new
    <3>1. i = 1
      BY <1>9, <1>10, <1>20, <2>1
    <3> QED BY <1>6, <1>17, <2>1, <3>1 DEF Stored
  <2>2. CASE b # new
    <3>1. asset[b] # None /\ asset'[b] = asset[b]
      BY <1>10, <1>20, <2>2 DEF Exists
    <3> QED BY <1>11, <1>20, <3>1
  <2> QED BY <2>1, <2>2
<1>21. edges' \ edges = {}
  BY <1>6
<1>22. RowInv' /\ EdgeInv' /\ AnchorInv' /\ InstanceInv'
  BY <1>10, <1>13, <1>14, <1>19, <1>20, <1>21, GrowthIsGood
<1>23. RankInv' /\ LoopInv'
  BY <1>6 DEF LibraryInv, RankInv, LoopInv, Walk
<1> QED BY <1>10, <1>12, <1>22, <1>23 DEF LibraryInv

-----------------------------------------------------------------------------
(* Deletion. *)

LEMMA EdgesShrink ==
  ASSUME NEW E, Typed(E), NEW n \in Nat, NEW rank, Ranked(rank, n, E), Loopless(E),
         NEW F \in SUBSET E, \A r \in Revs : EdgesIn(F, r) = EdgesIn(E, r) \/ EdgesIn(F, r) = {}
  PROVE  Ranked(rank, n, F) /\ Loopless(F)
<1>1. Typed(F) /\ Ranked(rank, n, F)
  BY DEF Typed, Ranked
<1> DEFINE G == [x \in Revs |-> ToSet(WalkOf(E)[x])]
<1>2. ASSUME NEW x \in Revs, NEW i \in 1..Len(DependenciesIn(F, x))
      PROVE  LET to == DependenciesIn(F, x)[i].to IN to \in G[x] /\ G[to] \subseteq G[x]
  <2>1. DependenciesIn(F, x)[i] \in F /\ DependenciesIn(F, x)[i].from = x /\ DependenciesIn(F, x)[i].to \in Revs
    BY <1>1, DependencyFalls
  <2>2. EdgesIn(F, x) = EdgesIn(E, x)
    BY <2>1 DEF EdgesIn
  <2>3. DependenciesIn(F, x) = DependenciesIn(E, x)
    BY <2>2, SameDependencies
  <2>4. i \in 1..Len(DependenciesIn(E, x)) /\ DependenciesIn(E, x)[i].to \in Revs
    BY <2>1, <2>3
  <2>5. LET to == DependenciesIn(E, x)[i].to
        IN to \in ToSet(WalkOf(E)[x]) /\ ToSet(WalkOf(E)[to]) \subseteq ToSet(WalkOf(E)[x])
    BY <2>4, WalkHolds
  <2> QED BY <2>3, <2>4, <2>5
<1>3. \A x \in Revs : G[x] = ToSet(WalkOf(E)[x])
  OBVIOUS
<1> HIDE DEF G
<1>4. \A x \in Revs : ToSet(WalkOf(F)[x]) \subseteq G[x]
  BY <1>1, <1>2, WalkWithin
<1> QED BY <1>1, <1>3, <1>4 DEF Loopless

LEMMA HardDeleteStep ==
  ASSUME LibraryInv, NEW a \in Assets, HardDelete(a)
  PROVE  LibraryInv'
<1>1. /\ Writes /\ Exists(a) /\ asset' = [asset EXCEPT ![a].lifecycle = "deleted"]
      /\ revision' = {row \in revision : row.id[1] # a}
      /\ edges' = {e \in edges : e.asset # a /\ e.from[1] # a}
      /\ instance' = [i \in Instances |->
                        IF instance[i] # None /\ instance[i].asset = a THEN None ELSE instance[i]]
      /\ lineage' = {l \in lineage : a \notin {l[1], l[2]}}
      /\ UNCHANGED asked
  BY DEF HardDelete
<1>2. /\ \A i \in Instances : instance[i] # None => instance[i].asset # a
      /\ \A e \in edges : e.asset # a
      /\ \A l \in lineage : l[2] # a
  BY DEF HardDelete, Referenced
<1>3. PICK row : row = [asset[a] EXCEPT !.lifecycle = "deleted"]
  OBVIOUS
<1>4. Sane(asset[a], writes) /\ asset[a] \in AssetRow /\ writes \in Nat /\ asset[a].counter \in Nat
      /\ asset[a] # None
  BY <1>1, AssetHas DEF Sane
<1>5. /\ row \in AssetRow /\ row.lifecycle = "deleted" /\ row.counter = asset[a].counter
      /\ row.project = asset[a].project /\ row.kind = asset[a].kind /\ row.number = asset[a].number
      /\ row.draft = asset[a].draft
  <2> DEFINE D == Definitions \cup Texts
  <2>1. AssetRow = [project : Projects, kind : Kinds, lifecycle : Lifecycles,
                    counter : Nat, number : 0..MaxRevisions, draft : D] /\ "deleted" \in Lifecycles
    BY DEF AssetRow, Lifecycles
  <2> HIDE DEF D
  <2> QED BY <1>3, <1>4, <2>1
<1>6. Sane(row, writes + 1)
  <2>1. row.counter <= writes + 1
    BY <1>4, <1>5 DEF Sane
  <2> QED BY <1>4, <1>5, <2>1 DEF Sane
<1>7. AssetInv' /\ row # None /\ asset'[a] = row /\ \A b \in Assets \ {a} : asset'[b] = asset[b]
  <2>1. asset' = [asset EXCEPT ![a] = row]
    BY <1>1, <1>3 DEF LibraryInv, AssetInv
  <2> QED BY <1>1, <1>6, <2>1, AssetChanges DEF LibraryInv
<1>8. \A b \in Assets : asset[b] # None =>
        /\ asset'[b] # None /\ asset'[b].project = asset[b].project /\ asset'[b].kind = asset[b].kind
        /\ asset'[b].number = asset[b].number /\ asset'[b].counter = asset[b].counter
  <2> TAKE b \in Assets
  <2>1. CASE b = a
    BY <1>5, <1>7, <2>1
  <2>2. CASE b # a
    BY <1>7, <2>2
  <2> QED BY <2>1, <2>2
<1>9. \A b \in Assets : b # a => (Exists(b)' <=> Exists(b))
  BY <1>7 DEF Exists
<1>10. ~ Exists(a)'
  BY <1>5, <1>7 DEF Exists
<1>11. \A r : Stored(r) /\ r[1] # a => Stored(r)'
  BY <1>1 DEF Stored
<1>12. \A r : WasStored(r) => WasStored(r)'
  BY <1>8 DEF WasStored, Revs
<1>13. AskedInv'
  <2>1. \A b \in Assets : asset[b] # None =>
          /\ asset'[b] # None /\ asset[b].counter <= asset'[b].counter
          /\ asset'[b].counter = asset[b].counter => asset'[b].number = asset[b].number
    <3>1. \A b \in Assets : asset[b] # None => asset[b].counter \in Nat
      BY DEF LibraryInv, AssetInv, Sane, AssetRow
    <3> QED BY <1>8, <3>1
  <2> QED BY <1>1, <1>7, <2>1, RequestsStay DEF LibraryInv
<1>14. RowInv'
  <2>1. ASSUME NEW x \in revision'
        PROVE  /\ x.id \in Revs /\ x.deps \subseteq Deps
               /\ Exists(x.id[1])' /\ x.id[2] <= asset'[x.id[1]].number
               /\ x.parts \in DraftsOf(asset'[x.id[1]].kind)
               /\ asset'[x.id[1]].kind = "tokens" => Fit(x.parts)
    <3>1. x \in revision /\ x.id[1] # a
      BY <1>1
    <3>2. /\ x.id \in Revs /\ x.deps \subseteq Deps
          /\ Exists(x.id[1]) /\ x.id[2] <= asset[x.id[1]].number
          /\ x.parts \in DraftsOf(asset[x.id[1]].kind)
          /\ asset[x.id[1]].kind = "tokens" => Fit(x.parts)
      BY <3>1 DEF LibraryInv, RowInv
    <3>3. x.id[1] \in Assets /\ asset'[x.id[1]] = asset[x.id[1]]
      BY <1>7, <3>1, <3>2 DEF Revs
    <3> QED BY <1>9, <3>1, <3>2, <3>3
  <2>2. ASSUME NEW b \in Assets, Exists(b)', NEW n \in 1..asset'[b].number PROVE Stored(<<b, n>>)'
    <3>1. b # a
      BY <1>10, <2>2
    <3>2. Exists(b) /\ n \in 1..asset[b].number
      BY <1>7, <1>9, <2>2, <3>1
    <3>3. Stored(<<b, n>>)
      BY <3>2 DEF LibraryInv, RowInv
    <3> QED BY <1>11, <3>1, <3>3
  <2> QED BY <2>1, <2>2 DEF RowInv
<1>15. EdgeInv'
  <2> SUFFICES ASSUME NEW e \in edges'
               PROVE  /\ WasStored(e.from)' /\ WasStored(e.to)' /\ e.asset \in Assets
                      /\ asset'[e.from[1]].project = asset'[e.to[1]].project
                      /\ e.asset = e.to[1] => Stored(e.to)'
    BY DEF EdgeInv
  <2>1. e \in edges /\ e.asset # a
    BY <1>1
  <2>2. /\ WasStored(e.from) /\ WasStored(e.to) /\ e.asset \in Assets
        /\ asset[e.from[1]].project = asset[e.to[1]].project
        /\ e.asset = e.to[1] => Stored(e.to)
    BY <2>1 DEF LibraryInv, EdgeInv
  <2>3. asset'[e.from[1]].project = asset'[e.to[1]].project
    BY <1>8, <2>2 DEF WasStored, Revs
  <2> QED BY <1>11, <1>12, <2>1, <2>2, <2>3
<1>16. AnchorInv'
  <2>1. lineage' \subseteq Assets \X Assets
    BY <1>1 DEF LibraryInv, AnchorInv
  <2>2. ASSUME NEW x \in revision', NEW d \in x.deps PROVE Anchored(x.id[1], d)'
    <3>1. x \in revision /\ x.id[1] # a
      BY <1>1
    <3>2. PICK b : b = x.id[1]
      OBVIOUS
    <3>3. Anchored(b, d)
      BY <3>1, <3>2 DEF LibraryInv, AnchorInv
    <3>4. PICK S \in SUBSET Assets :
            /\ b \in S /\ \A s \in S : s = b \/ \E c \in S : <<c, s>> \in lineage
            /\ \E e \in edges : e.from[1] \in S /\ e.asset = d.asset /\ e.to = d.to
      BY <3>3 DEF Anchored
    <3>5. a \notin S
      BY <1>2, <3>1, <3>2, <3>4
    <3>6. \A s \in S : s = b \/ \E c \in S : <<c, s>> \in lineage'
      BY <1>1, <3>4, <3>5
    <3>7. \E e \in edges' : e.from[1] \in S /\ e.asset = d.asset /\ e.to = d.to
      BY <1>1, <1>2, <3>4, <3>5
    <3>8. Anchored(b, d)'
      BY <3>4, <3>6, <3>7 DEF Anchored
    <3> QED BY <3>2, <3>8
  <2> QED BY <2>1, <2>2 DEF AnchorInv
<1>17. InstanceInv'
  BY <1>1, <1>2, <1>11 DEF LibraryInv, InstanceInv
<1>18. RankInv' /\ LoopInv'
  <2>1. PICK n \in Nat : \E rank : Ranked(rank, n, edges)
    BY RanksAndWalks
  <2>2. PICK rank : Ranked(rank, n, edges)
    BY <2>1
  <2>3. edges' \in SUBSET edges
    BY <1>1
  <2>4. \A r \in Revs : EdgesIn(edges', r) = EdgesIn(edges, r) \/ EdgesIn(edges', r) = {}
    <3> TAKE r \in Revs
    <3>1. CASE r[1] = a
      BY <1>1, <3>1 DEF EdgesIn
    <3>2. CASE r[1] # a
      BY <1>1, <1>2, <3>2 DEF EdgesIn
    <3> QED BY <3>1, <3>2
  <2>5. Ranked(rank, n, edges') /\ Loopless(edges')
    BY <2>2, <2>3, <2>4, RanksAndWalks, EdgesShrink
  <2> QED BY <2>5 DEF RankInv, LoopInv, Loopless, Walk
<1> QED BY <1>7, <1>13, <1>14, <1>15, <1>16, <1>17, <1>18 DEF LibraryInv

-----------------------------------------------------------------------------
(* Imports. *)

LEMMA LocalDepsAre ==
  ASSUME NEW all \in Seq(Revs), NEW i \in 1..Len(all),
         \A e \in EdgesOf(all[i]) :
           (\E j \in 1..i - 1 : all[j][1] = e.asset) /\ (\E j \in 1..i - 1 : all[j] = e.to)
  PROVE  \A d \in LocalDeps(all, i) :
           \E j, k \in 1..i - 1 : d = [asset |-> Unused[j], to |-> <<Unused[k], 1>>]
<1> SUFFICES ASSUME NEW d \in LocalDeps(all, i)
             PROVE  \E j, k \in 1..i - 1 : d = [asset |-> Unused[j], to |-> <<Unused[k], 1>>]
  OBVIOUS
<1> DEFINE same(e) == {j \in 1..i - 1 : all[j][1] = e.asset}
           place(e) == CHOOSE j \in 1..i - 1 : all[j] = e.to
<1>1. PICK e \in EdgesOf(all[i]) : d = [asset |-> Unused[Max(same(e))], to |-> Local(all, place(e))]
  BY DEF LocalDeps
<1>2. place(e) \in 1..i - 1
  BY <1>1
<1>3. same(e) \in SUBSET (1..i - 1) /\ same(e) # {} /\ i - 1 \in Nat
  OBVIOUS
<1> HIDE DEF same, place
<1>4. Max(same(e)) \in 1..i - 1
  BY <1>3, GreatestNumber
<1> QED BY <1>1, <1>2, <1>4 DEF Local

\* What an import puts into the library: the rows of the new assets, in the
\* order of the closure.
Imports(p, all, U, D, n) ==
  /\ n \in Nat /\ all \in Seq(Revs) /\ n = Len(all)
  /\ \A i \in 1..n : Stored(all[i])
  /\ \A i \in 1..n : U[i] \in Assets /\ asset[U[i]] = None
  /\ \A i, j \in 1..n : U[i] = U[j] => i = j
  /\ \A i \in 1..n : \A d \in D[i] : \E j, k \in 1..i - 1 : d = [asset |-> U[j], to |-> <<U[k], 1>>]
  /\ \A i \in 1..n :
       asset'[U[i]] = Numbered(Draft(p, asset[all[i][1]].kind, RowOf(all[i]).parts))
  /\ \A a \in Assets : (\A i \in 1..n : U[i] # a) => asset'[a] = asset[a]
  /\ asset' = [a \in Assets |-> asset'[a]]
  /\ revision' = revision \cup {Frozen(<<U[i], 1>>, Via(all, i), RowOf(all[i]).parts, D[i]) : i \in 1..n}
  /\ edges' = edges \cup UNION {EdgesFrom(<<U[i], 1>>, D[i]) : i \in 1..n}
  /\ Writes /\ UNCHANGED <<instance, lineage>>
  /\ \A c \in Clients : asked'[c] \in {None, asked[c]}

LEMMA ImportIs ==
  ASSUME LibraryInv, NEW p \in Projects, NEW all \in Seq(Revs), Import(p, all),
         \A c \in Clients : asked'[c] \in {None, asked[c]}
  PROVE  \E U, D, n : Imports(p, all, U, D, n)
<1>1. PICK U : U = Unused
  OBVIOUS
<1>2. PICK n : n = Len(all)
  OBVIOUS
<1>3. PICK D : D = [i \in 1..n |-> LocalDeps(all, i)]
  OBVIOUS
<1> DEFINE at(a) == CHOOSE i \in 1..n : U[i] = a
           row(a) == Numbered(Draft(p, asset[all[at(a)][1]].kind, RowOf(all[at(a)]).parts))
<1>4. /\ Writes /\ n <= Len(U)
      /\ \A i \in 1..n : Stored(all[i])
      /\ \A i \in 1..n : \A e \in EdgesOf(all[i]) :
           (\E j \in 1..i - 1 : all[j][1] = e.asset) /\ (\E j \in 1..i - 1 : all[j] = e.to)
      /\ asset' = [a \in Assets |-> IF \E i \in 1..n : U[i] = a THEN row(a) ELSE asset[a]]
      /\ revision' = revision \cup {LocalRow(all, i) : i \in 1..n}
      /\ edges' = edges \cup UNION {EdgesFrom(Local(all, i), LocalDeps(all, i)) : i \in 1..n}
      /\ UNCHANGED <<instance, lineage>>
  BY <1>1, <1>2 DEF Import, Importable
<1>5. n \in Nat
  BY <1>2
<1>6. /\ \A i \in 1..n : U[i] \in Assets /\ asset[U[i]] = None
      /\ \A i, j \in 1..n : U[i] = U[j] => i = j
  <2>1. Len(U) \in Nat
    BY <1>1, UnusedIs
  <2>2. \A i \in 1..n : i \in 1..Len(Unused)
    BY <1>1, <1>4, <1>5, <2>1
  <2> QED BY <1>1, <2>2, UnusedIs
<1>7. \A i \in 1..n : D[i] = LocalDeps(all, i) /\ Local(all, i) = <<U[i], 1>>
  BY <1>1, <1>3 DEF Local
<1>8. \A i \in 1..n : \A d \in D[i] : \E j, k \in 1..i - 1 : d = [asset |-> U[j], to |-> <<U[k], 1>>]
  <2> TAKE i \in 1..n
  <2>1. \A e \in EdgesOf(all[i]) :
           (\E j \in 1..i - 1 : all[j][1] = e.asset) /\ (\E j \in 1..i - 1 : all[j] = e.to)
    BY <1>4
  <2>2. \A d \in LocalDeps(all, i) :
           \E j, k \in 1..i - 1 : d = [asset |-> Unused[j], to |-> <<Unused[k], 1>>]
    BY <1>2, <1>5, <2>1, LocalDepsAre
  <2> QED BY <1>1, <1>7, <2>2
<1>9. \A i \in 1..n : at(U[i]) = i
  BY <1>6
<1>10. \A i \in 1..n :
         asset'[U[i]] = Numbered(Draft(p, asset[all[i][1]].kind, RowOf(all[i]).parts))
  <2> TAKE i \in 1..n
  <2>1. asset'[U[i]] = row(U[i])
    <3> HIDE DEF row
    <3> QED BY <1>4, <1>6
  <2> HIDE DEF at
  <2> QED BY <1>9, <2>1
<1> HIDE DEF row, at
<1>11. \A a \in Assets : (\A i \in 1..n : U[i] # a) => asset'[a] = asset[a]
  BY <1>4
<1>12. asset' = [a \in Assets |-> asset'[a]]
  BY <1>4
<1>13. \A i \in 1..n : LocalRow(all, i) = Frozen(<<U[i], 1>>, Via(all, i), RowOf(all[i]).parts, D[i])
  BY <1>7 DEF LocalRow
<1>14. revision' = revision \cup {Frozen(<<U[i], 1>>, Via(all, i), RowOf(all[i]).parts, D[i]) : i \in 1..n}
  <2>1. {LocalRow(all, i) : i \in 1..n} = {Frozen(<<U[i], 1>>, Via(all, i), RowOf(all[i]).parts, D[i]) : i \in 1..n}
    BY <1>13
  <2> QED BY <1>4, <2>1
<1>15. edges' = edges \cup UNION {EdgesFrom(<<U[i], 1>>, D[i]) : i \in 1..n}
  <2>1. {EdgesFrom(Local(all, i), LocalDeps(all, i)) : i \in 1..n} = {EdgesFrom(<<U[i], 1>>, D[i]) : i \in 1..n}
    BY <1>7
  <2> QED BY <1>4, <2>1
<1>16. Imports(p, all, U, D, n)
  BY <1>2, <1>4, <1>5, <1>6, <1>8, <1>10, <1>11, <1>12, <1>14, <1>15 DEF Imports
<1> QED BY <1>16

LEMMA ImportedAssets ==
  ASSUME LibraryInv, NEW p \in Projects, NEW all, NEW U, NEW D, NEW n, Imports(p, all, U, D, n)
  PROVE  /\ AssetInv' /\ AskedInv'
         /\ \A i \in 1..n :
              /\ asset'[U[i]] # None /\ asset'[U[i]].project = p /\ asset'[U[i]].number = 1
              /\ asset'[U[i]].kind = asset[all[i][1]].kind /\ asset'[U[i]].lifecycle # "deleted"
         /\ \A b \in Assets : asset[b] # None =>
              asset'[b] = asset[b] /\ asset[b].counter \in Nat /\ asset[b].number \in Nat
         /\ \A i \in 1..n : /\ RowOf(all[i]).parts \in DraftsOf(asset[all[i][1]].kind)
                            /\ asset[all[i][1]].kind = "tokens" => Fit(RowOf(all[i]).parts)
<1>1. writes \in Nat /\ writes' = writes + 1 /\ writes' \in 0..MaxWrites
  BY LibraryAssumption DEF LibraryInv, AssetInv, Writes, Imports
<1>2. ASSUME NEW i \in 1..n
      PROVE  /\ asset[all[i][1]].kind \in Kinds
             /\ RowOf(all[i]).parts \in DraftsOf(asset[all[i][1]].kind)
             /\ asset[all[i][1]].kind = "tokens" => Fit(RowOf(all[i]).parts)
  <2>1. Stored(all[i])
    BY DEF Imports
  <2>2. RowOf(all[i]) \in revision /\ RowOf(all[i]).id = all[i]
    BY <2>1 DEF Stored, RowOf
  <2>3. /\ all[i] \in Revs /\ Exists(all[i][1])
        /\ RowOf(all[i]).parts \in DraftsOf(asset[all[i][1]].kind)
        /\ asset[all[i][1]].kind = "tokens" => Fit(RowOf(all[i]).parts)
    BY <2>2 DEF LibraryInv, RowInv
  <2>4. all[i][1] \in Assets
    BY <2>3 DEF Revs
  <2> QED BY <2>3, <2>4, AssetHas
<1>3. ASSUME NEW i \in 1..n
      PROVE  /\ Sane(asset'[U[i]], writes + 1)
             /\ asset'[U[i]] # None /\ asset'[U[i]].project = p /\ asset'[U[i]].number = 1
             /\ asset'[U[i]].kind = asset[all[i][1]].kind /\ asset'[U[i]].lifecycle # "deleted"
  <2>1. PICK kind : kind = asset[all[i][1]].kind
    OBVIOUS
  <2>2. PICK parts : parts = RowOf(all[i]).parts
    OBVIOUS
  <2>3. PICK first : first = Draft(p, kind, parts)
    OBVIOUS
  <2>4. kind \in Kinds /\ parts \in DraftsOf(kind) /\ (kind = "tokens" => Fit(parts))
    BY <1>2, <2>1, <2>2
  <2>5. Sane(first, writes) /\ first.number = 0 /\ first.lifecycle # "deleted"
    BY <1>1, <2>3, <2>4, DraftSane
  <2>6. first.project = p /\ first.kind = kind
    BY <2>3 DEF Draft
  <2>7. first.number < MaxRevisions
    BY <2>5, LibraryAssumption
  <2>8. asset'[U[i]] = Numbered(first)
    BY <2>1, <2>2, <2>3 DEF Imports
  <2>9. PICK new : new = Numbered(first)
    OBVIOUS
  <2>10. /\ Sane(new, writes + 1) /\ new # None /\ new.project = p /\ new.kind = kind
         /\ new.number = 1 /\ new.lifecycle # "deleted"
    BY <1>1, <2>5, <2>6, <2>7, <2>9, NumberedIs
  <2> QED BY <2>1, <2>8, <2>9, <2>10
<1>4. ASSUME NEW b \in Assets, asset[b] # None
      PROVE  asset'[b] = asset[b] /\ asset[b].counter \in Nat /\ asset[b].number \in Nat
  <2>1. \A i \in 1..n : U[i] # b
    BY <1>4 DEF Imports
  <2>2. asset[b] \in AssetRow
    BY <1>4 DEF LibraryInv, AssetInv, Sane
  <2> QED BY <2>1, <2>2, LibraryAssumption DEF Imports, AssetRow
<1>5. AssetInv'
  <2>1. ASSUME NEW b \in Assets PROVE asset'[b] = None \/ Sane(asset'[b], writes + 1)
    <3>1. CASE \E i \in 1..n : U[i] = b
      BY <1>3, <3>1
    <3>2. CASE \A i \in 1..n : U[i] # b
      <4>1. asset'[b] = asset[b]
        BY <3>2 DEF Imports
      <4>2. CASE asset[b] # None
        <5>1. Sane(asset[b], writes)
          BY <4>2 DEF LibraryInv, AssetInv
        <5> QED BY <1>1, <4>1, <5>1, SaneLater
      <4> QED BY <4>1, <4>2
    <3> QED BY <3>1, <3>2
  <2>2. \A b \in Assets : asset'[b] \in AssetRow \cup {None}
    BY <2>1 DEF Sane
  <2>3. asset' = [b \in Assets |-> asset'[b]]
    BY DEF Imports
  <2>4. asset' \in [Assets -> AssetRow \cup {None}]
    BY <2>2, <2>3
  <2> QED BY <1>1, <2>1, <2>4 DEF AssetInv
<1>6. AskedInv'
  <2>1. \A b \in Assets : asset[b] # None =>
          /\ asset'[b] # None /\ asset[b].counter <= asset'[b].counter
          /\ asset'[b].counter = asset[b].counter => asset'[b].number = asset[b].number
    BY <1>4
  <2>2. \A c \in Clients : asked'[c] \in {None, asked[c]}
    BY DEF Imports
  <2> QED BY <1>5, <2>1, <2>2, RequestsStay DEF LibraryInv
<1> QED BY <1>2, <1>3, <1>4, <1>5, <1>6

LEMMA ImportedLoops ==
  ASSUME LibraryInv, NEW p \in Projects, NEW all, NEW U, NEW D, NEW n, Imports(p, all, U, D, n)
  PROVE  RankInv' /\ LoopInv'
<1> DEFINE loc == [i \in 1..n |-> <<U[i], 1>>]
           N == {loc[i] : i \in 1..n}
           F == UNION {EdgesFrom(loc[i], D[i]) : i \in 1..n}
           order == [x \in N |-> CHOOSE i \in 1..n : loc[i] = x]
           H == [x \in N |-> {loc[j] : j \in 1..order[x] - 1}]
<1>1. /\ n \in Nat /\ \A i \in 1..n : U[i] \in Assets /\ asset[U[i]] = None
      /\ \A i, j \in 1..n : U[i] = U[j] => i = j
      /\ \A i \in 1..n : \A d \in D[i] : \E j, k \in 1..i - 1 : d = [asset |-> U[j], to |-> <<U[k], 1>>]
  BY DEF Imports
<1>2. \A i \in 1..n : loc[i] \in Revs /\ loc[i][1] = U[i] /\ ~ WasStored(loc[i]) /\ loc[i] \in N
  <2> TAKE i \in 1..n
  <2>1. loc[i] = <<U[i], 1>> /\ 1 \in 1..MaxRevisions
    BY LibraryAssumption
  <2> QED BY <1>1, <2>1 DEF Revs, WasStored
<1>3. \A i, j \in 1..n : loc[i] = loc[j] => i = j
  BY <1>1
<1>4. \A i \in 1..n : order[loc[i]] = i
  BY <1>3
<1>5. \A x \in N : \E i \in 1..n : x = loc[i]
  OBVIOUS
<1>6. order \in [N -> 1..n]
  BY <1>4, <1>5
<1>7. ASSUME NEW e \in F PROVE \E i \in 1..n : \E j, k \in 1..i - 1 : e.from = loc[i] /\ e.asset = U[j] /\ e.to = loc[k]
  <2>1. PICK i \in 1..n : e \in EdgesFrom(loc[i], D[i])
    OBVIOUS
  <2>2. PICK d \in D[i] : e.from = loc[i] /\ e.asset = d.asset /\ e.to = d.to
    BY <2>1 DEF EdgesFrom
  <2>3. PICK j \in 1..i - 1, k \in 1..i - 1 : d = [asset |-> U[j], to |-> <<U[k], 1>>]
    BY <1>1
  <2>4. k \in 1..n
    BY <1>1
  <2>5. e.asset = U[j] /\ e.to = loc[k]
    BY <2>2, <2>3, <2>4
  <2> QED BY <2>2, <2>5
<1>8. \A i \in 1..n : H[loc[i]] = {loc[j] : j \in 1..i - 1}
  <2> TAKE i \in 1..n
  <2> HIDE DEF loc, N, order
  <2> QED BY <1>2, <1>4
<1>9. edges' = edges \cup F
  <2>1. {EdgesFrom(loc[i], D[i]) : i \in 1..n} = {EdgesFrom(<<U[i], 1>>, D[i]) : i \in 1..n}
    OBVIOUS
  <2> HIDE DEF loc
  <2> QED BY <2>1 DEF Imports
<1> HIDE DEF loc, N, F, order, H
<1>10. PICK m \in Nat : \E rank : Ranked(rank, m, edges)
  BY RanksAndWalks
<1>11. PICK rank : Ranked(rank, m, edges)
  BY <1>10
<1>12. N \in SUBSET Revs
  BY <1>2, <1>5
<1>13. Typed(F)
  <2> SUFFICES ASSUME NEW e \in F PROVE e.from \in Revs /\ e.asset \in Assets /\ e.to \in Revs
    BY DEF Typed
  <2>0. PICK i \in 1..n : \E j, k \in 1..i - 1 : e.from = loc[i] /\ e.asset = U[j] /\ e.to = loc[k]
    BY <1>7
  <2>1. PICK j \in 1..i - 1, k \in 1..i - 1 : e.from = loc[i] /\ e.asset = U[j] /\ e.to = loc[k]
    BY <2>0
  <2>2. j \in 1..n /\ k \in 1..n
    BY <1>1
  <2> QED BY <1>1, <1>2, <2>1, <2>2
<1>14. \A e \in edges : e.from \notin N /\ e.to \notin N
  <2>1. \A x \in N : ~ WasStored(x)
    BY <1>2, <1>5
  <2> QED BY <2>1 DEF LibraryInv, EdgeInv
<1>15. ASSUME NEW e \in F
       PROVE  /\ e.from \in N /\ e.to \in H[e.from] /\ e.to \in N
              /\ order[e.to] < order[e.from] /\ H[e.to] \subseteq H[e.from]
  <2>0. PICK i \in 1..n : \E j, k \in 1..i - 1 : e.from = loc[i] /\ e.asset = U[j] /\ e.to = loc[k]
    BY <1>7
  <2>1. PICK j \in 1..i - 1, k \in 1..i - 1 : e.from = loc[i] /\ e.asset = U[j] /\ e.to = loc[k]
    BY <2>0
  <2>2. k \in 1..n /\ k < i
    BY <1>1
  <2>3. order[e.from] = i /\ order[e.to] = k /\ e.from \in N /\ e.to \in N
    BY <1>2, <1>4, <2>1, <2>2
  <2>4. H[e.from] = {loc[x] : x \in 1..i - 1} /\ H[e.to] = {loc[x] : x \in 1..k - 1}
    BY <1>8, <2>1, <2>2
  <2>5. 1..k - 1 \subseteq 1..i - 1
    BY <1>1, <2>2
  <2> QED BY <2>1, <2>2, <2>3, <2>4, <2>5
<1>16. ASSUME NEW x \in N, NEW y \in H[x] PROVE y[1] # x[1]
  <2>1. PICK i \in 1..n : x = loc[i]
    BY <1>5
  <2>2. PICK j \in 1..i - 1 : y = loc[j]
    BY <1>8, <2>1
  <2>3. j \in 1..n /\ j # i
    BY <1>1
  <2> QED BY <1>1, <1>2, <2>1, <2>2, <2>3
<1>17. (\E k \in Nat : \E more : Ranked(more, k, edges')) /\ Loopless(edges')
  <2>1. Typed(edges) /\ Loopless(edges)
    BY RanksAndWalks
  <2> QED BY <1>1, <1>6, <1>9, <1>11, <1>12, <1>13, <1>14, <1>15, <1>16, <2>1, EdgesGrow
<1> QED BY <1>17 DEF RankInv, LoopInv, Loopless, Walk

LEMMA ImportStep ==
  ASSUME LibraryInv, NEW p \in Projects, NEW all \in Seq(Revs), Import(p, all),
         \A c \in Clients : asked'[c] \in {None, asked[c]}
  PROVE  LibraryInv'
<1>1. PICK U, D, n : Imports(p, all, U, D, n)
  BY ImportIs
<1>2. RankInv' /\ LoopInv'
  BY <1>1, ImportedLoops
<1>3. /\ AssetInv' /\ AskedInv'
      /\ \A i \in 1..n :
           /\ asset'[U[i]] # None /\ asset'[U[i]].project = p /\ asset'[U[i]].number = 1
           /\ asset'[U[i]].kind = asset[all[i][1]].kind /\ asset'[U[i]].lifecycle # "deleted"
      /\ \A b \in Assets : asset[b] # None =>
           asset'[b] = asset[b] /\ asset[b].counter \in Nat /\ asset[b].number \in Nat
      /\ \A i \in 1..n : /\ RowOf(all[i]).parts \in DraftsOf(asset[all[i][1]].kind)
                         /\ asset[all[i][1]].kind = "tokens" => Fit(RowOf(all[i]).parts)
  BY <1>1, ImportedAssets
<1>4. /\ n \in Nat /\ \A i \in 1..n : U[i] \in Assets /\ asset[U[i]] = None
      /\ \A i \in 1..n : \A d \in D[i] : \E j, k \in 1..i - 1 : d = [asset |-> U[j], to |-> <<U[k], 1>>]
      /\ revision' = revision \cup {Frozen(<<U[i], 1>>, Via(all, i), RowOf(all[i]).parts, D[i]) : i \in 1..n}
      /\ edges' = edges \cup UNION {EdgesFrom(<<U[i], 1>>, D[i]) : i \in 1..n}
      /\ \A a \in Assets : (\A i \in 1..n : U[i] # a) => asset'[a] = asset[a]
      /\ UNCHANGED <<instance, lineage>>
  BY <1>1 DEF Imports
<1>5. Grows
  <2>1. \A b \in Assets : asset[b] # None =>
          /\ asset'[b] # None /\ asset'[b].project = asset[b].project /\ asset'[b].kind = asset[b].kind
          /\ asset[b].number <= asset'[b].number
          /\ (asset'[b].lifecycle = "deleted" <=> asset[b].lifecycle = "deleted")
    BY <1>3
  <2> QED BY <1>4, <2>1 DEF Grows
<1>6. lineage' \subseteq Assets \X Assets
  BY <1>4 DEF LibraryInv, AnchorInv
<1>7. \A i \in 1..n : /\ <<U[i], 1>> \in Revs /\ Stored(<<U[i], 1>>)' /\ WasStored(<<U[i], 1>>)'
                      /\ Exists(U[i])'
  <2> TAKE i \in 1..n
  <2>1. <<U[i], 1>> \in Revs
    BY <1>4, LibraryAssumption DEF Revs
  <2>2. Exists(U[i])'
    BY <1>3 DEF Exists
  <2>3. WasStored(<<U[i], 1>>)'
    BY <1>3, <2>1 DEF WasStored
  <2> DEFINE new == Frozen(<<U[i], 1>>, Via(all, i), RowOf(all[i]).parts, D[i])
  <2>4. new \in revision' /\ new.id = <<U[i], 1>>
    BY <1>4 DEF Frozen
  <2>5. Stored(<<U[i], 1>>)'
    <3> HIDE DEF new
    <3> QED BY <2>4 DEF Stored
  <2> QED BY <2>1, <2>2, <2>3, <2>5
<1>8. ASSUME NEW i \in 1..n, NEW d \in D[i]
      PROVE  d \in Deps /\ Anchored(U[i], d)'
  <2>1. PICK j \in 1..i - 1, k \in 1..i - 1 : d = [asset |-> U[j], to |-> <<U[k], 1>>]
    BY <1>4
  <2>2. j \in 1..n /\ k \in 1..n
    BY <1>4
  <2>3. d \in Deps
    BY <1>4, <1>7, <2>1, <2>2 DEF Deps
  <2> DEFINE e == [from |-> <<U[i], 1>>, asset |-> d.asset, to |-> d.to]
  <2>4. e \in EdgesFrom(<<U[i], 1>>, D[i]) /\ e.from[1] = U[i] /\ e.asset = d.asset /\ e.to = d.to
    BY DEF EdgesFrom
  <2> HIDE DEF e
  <2>5. e \in edges'
    BY <1>4, <2>4
  <2>6. /\ {U[i]} \in SUBSET Assets /\ U[i] \in {U[i]}
        /\ \A s \in {U[i]} : s = U[i] \/ \E c \in {U[i]} : <<c, s>> \in lineage'
        /\ \E f \in edges' : f.from[1] \in {U[i]} /\ f.asset = d.asset /\ f.to = d.to
    BY <1>4, <2>4, <2>5
  <2>7. Anchored(U[i], d)'
    BY <2>6 DEF Anchored
  <2> QED BY <2>3, <2>7
<1>9. ASSUME NEW new \in revision' \ revision PROVE GoodRow(new)'
  <2>1. PICK i \in 1..n : new = Frozen(<<U[i], 1>>, Via(all, i), RowOf(all[i]).parts, D[i])
    BY <1>4
  <2>2. new.id = <<U[i], 1>> /\ new.id[1] = U[i] /\ new.id[2] = 1 /\ new.deps = D[i]
        /\ new.parts = RowOf(all[i]).parts
    BY <2>1 DEF Frozen
  <2>3. \A d \in new.deps : d \in Deps /\ Anchored(new.id[1], d)'
    BY <1>8, <2>2
  <2>4. new.id \in Revs /\ Exists(new.id[1])' /\ new.id[2] <= asset'[new.id[1]].number
    BY <1>3, <1>7, <2>2
  <2>5. /\ new.parts \in DraftsOf(asset'[new.id[1]].kind)
        /\ asset'[new.id[1]].kind = "tokens" => Fit(new.parts)
    BY <1>3, <2>2
  <2> QED BY <2>3, <2>4, <2>5 DEF GoodRow
<1>10. ASSUME NEW e \in edges' \ edges PROVE GoodEdge(e)'
  <2>1. PICK i \in 1..n : e \in EdgesFrom(<<U[i], 1>>, D[i])
    BY <1>4
  <2>2. PICK d \in D[i] : e.from = <<U[i], 1>> /\ e.asset = d.asset /\ e.to = d.to
    BY <2>1 DEF EdgesFrom
  <2>3. PICK j \in 1..i - 1, k \in 1..i - 1 : d = [asset |-> U[j], to |-> <<U[k], 1>>]
    BY <1>4
  <2>4. j \in 1..n /\ k \in 1..n
    BY <1>4
  <2>5. e.asset = U[j] /\ e.to = <<U[k], 1>> /\ e.from[1] = U[i] /\ e.to[1] = U[k]
    BY <2>2, <2>3
  <2>6. asset'[e.from[1]].project = asset'[e.to[1]].project
    BY <1>3, <2>4, <2>5
  <2>7. WasStored(e.from)' /\ WasStored(e.to)' /\ Stored(e.to)' /\ e.asset \in Assets
    BY <1>4, <1>7, <2>2, <2>4, <2>5
  <2> QED BY <2>6, <2>7 DEF GoodEdge
<1>11. ASSUME NEW b \in Assets, Exists(b)', NEW i \in 1..asset'[b].number
       PROVE  (asset[b] # None /\ i <= asset[b].number) \/ Stored(<<b, i>>)'
  <2>1. CASE \E j \in 1..n : U[j] = b
    <3>1. PICK j \in 1..n : U[j] = b
      BY <2>1
    <3>2. i = 1
      BY <1>3, <1>11, <3>1
    <3> QED BY <1>7, <3>1, <3>2
  <2>2. CASE \A j \in 1..n : U[j] # b
    <3>1. asset[b] # None /\ asset'[b] = asset[b]
      BY <1>4, <1>11, <2>2 DEF Exists
    <3> QED BY <1>3, <1>11, <3>1
  <2> QED BY <2>1, <2>2
<1>12. RowInv' /\ EdgeInv' /\ AnchorInv' /\ InstanceInv'
  BY <1>3, <1>5, <1>6, <1>9, <1>10, <1>11, GrowthIsGood
<1> QED BY <1>2, <1>3, <1>12 DEF LibraryInv

LEMMA RequestImportStep ==
  ASSUME LibraryInv, NEW c \in Clients, NEW p \in Projects, NEW r \in Revs, RequestImport(c, p, r)
  PROVE  LibraryInv'
<1> DEFINE u == [do |-> "import", project |-> p, all |-> Append(Walk[r], r)]
<1>1. Asks(c, u)
  BY DEF RequestImport
<1>2. Walk[r] \in Seq(Revs)
  <2>1. PICK m \in Nat : \E rank : Ranked(rank, m, edges)
    BY RanksAndWalks
  <2>2. PICK rank : Ranked(rank, m, edges)
    BY <2>1
  <2>3. WalkOf(edges)[r] \in Seq(Revs)
    BY <2>2, RanksAndWalks, WalkHolds
  <2> QED BY <2>3, RanksAndWalks
<1>3. Append(Walk[r], r) \in Seq(Revs)
  BY <1>2
<1>4. u.do = "import" /\ u.project \in Projects /\ u.all \in Seq(Revs)
  BY <1>3
<1> HIDE DEF u
<1> QED BY <1>1, <1>4, AskStep DEF Awaits

LEMMA FinishImportStep ==
  ASSUME LibraryInv, NEW c \in Clients, FinishImport(c)
  PROVE  LibraryInv'
<1>1. asked[c] # None /\ asked[c].do = "import" /\ Import(asked[c].project, asked[c].all)
  BY DEF FinishImport, Asked
<1>2. Awaits(asked[c])
  BY <1>1 DEF LibraryInv, AskedInv
<1>3. asked[c].project \in Projects /\ asked[c].all \in Seq(Revs)
  BY <1>1, <1>2 DEF Awaits
<1>4. \A d \in Clients : asked'[d] \in {None, asked[d]}
  BY DEF FinishImport, Done
<1> QED BY <1>1, <1>3, <1>4, ImportStep

-----------------------------------------------------------------------------
(* Every operation keeps the invariant. *)

LEMMA LibraryStep == LibraryInv /\ [Next]_vars => LibraryInv'
<1> SUFFICES ASSUME LibraryInv, [Next]_vars PROVE LibraryInv'
  OBVIOUS
<1>1. ASSUME NEW p \in Projects, ImportFile(p) \/ \E x \in Texts : ImportTokens(p, x) PROVE LibraryInv'
  BY <1>1, InsertSteps
<1>2. ASSUME NEW p \in Projects, NEW parts \in Contents, CreateComponent(p, parts)
      PROVE  LibraryInv'
  BY <1>2, InsertSteps
<1>3. ASSUME NEW a \in Assets, NEW parts \in Contents, UpdateDefinition(a, parts) \/ UpdateLayout(a, parts)
      PROVE  LibraryInv'
  BY <1>3, EditSteps
<1>4. ASSUME NEW a \in Assets, NEW x \in Texts, UpdateTokens(a, x) \/ RefreshTokens(a, x) PROVE LibraryInv'
  BY <1>4, EditSteps
<1>5. ASSUME NEW a \in Assets, EnablePreview(a) \/ RefreshFile(a) \/ Copy(a)
      PROVE  LibraryInv'
  BY <1>5, EditSteps, CopyStep
<1>6. ASSUME NEW a \in Assets, PublishComponent(a) \/ PublishPage(a) \/ PublishTokens(a) PROVE LibraryInv'
  BY <1>6, PublishSteps
<1>7. ASSUME NEW a \in Assets, NEW revs, PublishDeclared(a, revs) PROVE LibraryInv'
  BY <1>7, PublishSteps
<1>8. ASSUME NEW a \in Assets, Archive(a) \/ Trash(a) \/ Restore(a) \/ HardDelete(a) PROVE LibraryInv'
  BY <1>8, LifecycleSteps, HardDeleteStep
<1>9. ASSUME NEW p \in Projects, NEW i \in Instances, NEW a \in Assets, NEW r \in Revs, CreateInstance(p, i, a, r)
      PROVE  LibraryInv'
  BY <1>9, InstanceSteps
<1>10. ASSUME NEW S \in SUBSET Instances, NEW r \in Revs, Upgrade(S, r) \/ \E p \in Projects : Rollback(p, S, r)
       PROVE  LibraryInv'
  BY <1>10, InstanceSteps
<1>11. ASSUME NEW c \in Clients, NEW p \in Projects
       PROVE  /\ \A parts \in Contents : CreatePage(c, p, parts) => LibraryInv'
              /\ \A r \in Revs : RequestImport(c, p, r) => LibraryInv'
  BY CreatePageStep, RequestImportStep
<1>12. ASSUME NEW c \in Clients, NEW a \in Assets, DistillCandidate(c, a) \/ RequestUnarchive(c, a)
       PROVE  LibraryInv'
  BY <1>12, DistillStep, RequestUnarchiveStep
<1>13. ASSUME NEW c \in Clients, FinishCreate(c) \/ FinishImport(c) \/ FinishUnarchive(c) \/ Abandon(c)
       PROVE  LibraryInv'
  BY <1>13, FinishCreateStep, FinishImportStep, FinishUnarchiveStep, AbandonStep
<1>14. CASE UNCHANGED vars
  <2>1. UNCHANGED <<rows, writes>> /\ UNCHANGED asked /\ UNCHANGED asset
    BY <1>14 DEF vars, rows
  <2>2. AskedInv'
    BY <2>1 DEF LibraryInv, AskedInv, Awaits, Aims, Published
  <2> QED BY <2>1, <2>2, NothingMoves DEF LibraryInv
<1> QED BY <1>1, <1>2, <1>3, <1>4, <1>5, <1>6, <1>7, <1>8, <1>9, <1>10, <1>11, <1>12, <1>13, <1>14 DEF Next

\* Whoever deletes, copies, imports and publishes meanwhile, no edge, declared
\* dependency or instance of the library dangles, dependencies stay inside their
\* project and never turn back to their asset, the tokens of a revision settle,
\* and the lifecycle of an asset agrees with its revisions.
THEOREM ReferencesAlwaysHold == Spec => []ReferencesHold
<1>1. Init => LibraryInv
  BY LibraryStarts
<1>2. LibraryInv /\ [Next]_vars => LibraryInv'
  BY LibraryStep
<1>3. LibraryInv => ReferencesHold
  BY LibraryInvImplies
<1> QED BY <1>1, <1>2, <1>3, PTL DEF Spec

=============================================================================
