------------------------------ MODULE SetFacts ------------------------------
(* Facts the proofs share: least and greatest elements of sets of naturals    *)
(* (retained snapshots, medians, pages, first-parent lines, reads of the      *)
(* store), and sums counted unit by unit (Totals).                            *)
EXTENDS Integers, FiniteSets, FiniteSetsExt, Totals, FunctionTheorems, FiniteSetTheorems,
        WellFoundedInduction, TLAPS

\* A set of naturals has a least element: < is well-founded on them.
LEMMA LeastOf ==
    ASSUME NEW S \in SUBSET Nat, S # {}
    PROVE  \E m \in S : \A n \in S : m <= n
<1> DEFINE R == OpToRel(<, Nat)
<1>1. IsWellFoundedOn(R, Nat)
  BY NatLessThanWellFounded
<1>2. \A x, y \in Nat : <<y, x>> \in R <=> y < x
  BY DEF OpToRel
<1> HIDE DEF R
<1>3. PICK m \in S : \A n \in S : ~ (<<n, m>> \in R)
  BY <1>1, WFMin
<1>4. \A n \in S : m <= n
  <2> TAKE n \in S
  <2>1. m \in Nat /\ n \in Nat /\ ~ (<<n, m>> \in R)
    BY <1>3
  <2>2. ~ (n < m)
    BY <1>2, <2>1
  <2> QED BY <2>1, <2>2
<1> QED BY <1>4

\* A bounded one has a greatest: the least distance from the bound is its.
LEMMA GreatestOf ==
    ASSUME NEW b \in Nat, NEW S \in SUBSET (0 .. b), S # {}
    PROVE  \E m \in S : \A n \in S : m >= n
<1> DEFINE T == {b - n : n \in S}
<1>1. T \in SUBSET Nat /\ T # {}
  <2>1. \A n \in S : b - n \in Nat
    OBVIOUS
  <2>2. PICK n \in S : TRUE
    OBVIOUS
  <2>3. b - n \in T
    BY <2>2
  <2> QED BY <2>1, <2>3
<1>2. PICK k \in T : \A n \in T : k <= n
  BY <1>1, LeastOf
<1>3. PICK m \in S : k = b - m
  BY <1>2
<1>4. \A n \in S : m >= n
  <2> TAKE n \in S
  <2>1. b - n \in T
    OBVIOUS
  <2> QED BY <1>2, <1>3, <2>1
<1> QED BY <1>4

\* A finite set of naturals has a greatest element: the one most are at most.
LEMMA FiniteGreatest ==
    ASSUME NEW S \in SUBSET Nat, IsFiniteSet(S), S # {}
    PROVE  \E m \in S : \A n \in S : m >= n
<1> DEFINE upTo(n) == {m \in S : m <= n}
           size(n) == Cardinality(upTo(n))
           T == {size(n) : n \in S}
<1>1. Cardinality(S) \in Nat
  BY FS_CardinalityType
<1>2. \A n \in S : IsFiniteSet(upTo(n)) /\ size(n) \in 0 .. Cardinality(S)
  <2> SUFFICES ASSUME NEW n \in S PROVE IsFiniteSet(upTo(n)) /\ size(n) \in 0 .. Cardinality(S)
    OBVIOUS
  <2>1. upTo(n) \in SUBSET S
    OBVIOUS
  <2> HIDE DEF upTo
  <2>2. IsFiniteSet(upTo(n)) /\ size(n) <= Cardinality(S) /\ size(n) \in Nat
    BY <2>1, FS_Subset, FS_CardinalityType
  <2> QED BY <1>1, <2>2
<1>3. ASSUME NEW n \in S, NEW m \in S, m < n PROVE size(m) < size(n)
  <2>1. upTo(m) \in SUBSET upTo(n) /\ n \in upTo(n) /\ n \notin upTo(m)
    <3>1. m \in Nat /\ n \in Nat /\ m < n
      BY <1>3
    <3>2. \A x \in S : x \in Nat /\ (x <= m => x <= n)
      BY <3>1
    <3>3. upTo(m) \in SUBSET upTo(n)
      BY <3>2
    <3>4. n \in upTo(n) /\ n \notin upTo(m)
      BY <3>1
    <3> QED BY <3>3, <3>4
  <2>2. IsFiniteSet(upTo(n)) /\ size(n) \in Nat /\ size(m) \in Nat
    BY <1>2
  <2> HIDE DEF upTo
  <2>3. size(m) <= size(n) /\ size(m) # size(n)
    BY <2>1, <2>2, FS_Subset
  <2> QED BY <2>2, <2>3
<1>4. T \in SUBSET (0 .. Cardinality(S)) /\ T # {}
  BY <1>2
<1> HIDE DEF size
<1>5. PICK t \in T : \A u \in T : t >= u
  BY <1>1, <1>4, GreatestOf
<1>6. PICK m \in S : t = size(m)
  BY <1>5
<1>7. ASSUME NEW n \in S PROVE m >= n
  <2>1. size(m) >= size(n) /\ size(m) \in Int /\ size(n) \in Int
    BY <1>2, <1>4, <1>5, <1>6 DEF T
  <2> QED BY <1>3, <2>1
<1> QED BY <1>7

LEMMA MinIs ==
    ASSUME NEW S \in SUBSET Nat, S # {}
    PROVE  Min(S) \in S /\ \A n \in S : Min(S) <= n
BY LeastOf DEF Min

LEMMA MaxIs ==
    ASSUME NEW S \in SUBSET Nat, IsFiniteSet(S), S # {}
    PROVE  Max(S) \in S /\ \A n \in S : Max(S) >= n
BY FiniteGreatest DEF Max

(* Totals *)

LEMMA ValuesFinite ==
    ASSUME NEW S, IsFiniteSet(S), NEW f, DOMAIN f = S
    PROVE  IsFiniteSet({f[x] : x \in S})
<1> DEFINE T == {f[x] : x \in S}
           g == [x \in S |-> f[x]]
<1>1. g \in [S -> T] /\ \A t \in T : \E x \in S : g[x] = t
  OBVIOUS
<1> HIDE DEF g
<1>2. g \in Surjection(S, T)
  BY <1>1 DEF Surjection
<1> QED BY <1>2, FS_Surjection

LEMMA FirstFinite == ASSUME NEW n \in Nat PROVE IsFiniteSet(1 .. n)
BY FS_Interval

\* Sizes of disjoint finite parts add up to the size of the whole: number the elements
\* of every part.
LEMMA PartsTotal ==
    ASSUME NEW G, NEW f, NEW B, NEW V, IsFiniteSet(G), DOMAIN f = G, DOMAIN B = G,
           \A g \in G : IsFiniteSet(B[g]) /\ f[g] = Cardinality(B[g]),
           \A g, h \in G : g # h => B[g] \cap B[h] = {},
           V = UNION {B[g] : g \in G}
    PROVE  IsFiniteSet(V) /\ TotalOf(f) = Cardinality(V)
<1> DEFINE P == [g \in G |-> {g} \X (1 .. f[g])]
           U == UNION {P[g] : g \in G}
           c == [g \in G |-> CHOOSE b : b \in Bijection(1 .. f[g], B[g])]
           m == [p \in U |-> c[p[1]][p[2]]]
<1>1. \A g \in G : f[g] \in Nat /\ c[g] \in Bijection(1 .. f[g], B[g])
  <2> SUFFICES ASSUME NEW g \in G
               PROVE  f[g] \in Nat /\ c[g] \in Bijection(1 .. f[g], B[g])
    OBVIOUS
  <2>1. f[g] \in Nat /\ ExistsBijection(1 .. f[g], B[g])
    BY FS_CardinalityType
  <2>2. \E b : b \in Bijection(1 .. f[g], B[g])
    BY <2>1 DEF ExistsBijection
  <2> QED BY <2>1, <2>2
<1>2. IsFiniteSet(U)
  <2>1. ASSUME NEW g \in G PROVE IsFiniteSet(P[g])
    <3>1. IsFiniteSet({g}) /\ IsFiniteSet(1 .. f[g])
      BY <1>1, FS_Singleton, FirstFinite
    <3>2. IsFiniteSet({g} \X (1 .. f[g]))
      BY <3>1, FS_Product
    <3> QED BY <3>2
  <2>2. DOMAIN P = G
    OBVIOUS
  <2> HIDE DEF P
  <2>3. IsFiniteSet({P[g] : g \in G})
    BY <2>2, ValuesFinite
  <2> QED BY <2>1, <2>3, FS_UNION
<1>3. TotalOf(f) = Cardinality(U)
  <2>1. {P[g] : g \in G} = {{g} \X (1 .. f[g]) : g \in G}
    OBVIOUS
  <2> QED BY <2>1 DEF TotalOf
<1>4. IsFiniteSet(V)
  <2>1. IsFiniteSet({B[g] : g \in G})
    BY ValuesFinite
  <2> QED BY <2>1, FS_UNION
<1> HIDE DEF c
<1>5. \A p \in U : /\ p[1] \in G /\ p[2] \in 1 .. f[p[1]] /\ p = <<p[1], p[2]>>
                   /\ m[p] = c[p[1]][p[2]]
  OBVIOUS
<1>6. \A g \in G : \A i \in 1 .. f[g] : <<g, i>> \in U
  OBVIOUS
<1> HIDE DEF U, P
<1>7. m \in Bijection(U, V)
  <2>1. \A g \in G : /\ c[g] \in [1 .. f[g] -> B[g]]
                     /\ \A i, j \in 1 .. f[g] : c[g][i] = c[g][j] => i = j
                     /\ \A v \in B[g] : \E i \in 1 .. f[g] : c[g][i] = v
    BY <1>1 DEF Bijection, Injection, IsInjective, Surjection
  <2>2. \A p \in U : m[p] \in B[p[1]] /\ m[p] \in V
    <3> SUFFICES ASSUME NEW p \in U PROVE m[p] \in B[p[1]] /\ m[p] \in V
      OBVIOUS
    <3>1. p[1] \in G /\ p[2] \in 1 .. f[p[1]] /\ m[p] = c[p[1]][p[2]]
      BY <1>5
    <3>2. m[p] \in B[p[1]]
      BY <2>1, <3>1
    <3> QED BY <3>1, <3>2
  <2>3. ASSUME NEW p \in U, NEW q \in U, m[p] = m[q] PROVE p = q
    <3>1. /\ p[1] \in G /\ p[2] \in 1 .. f[p[1]] /\ p = <<p[1], p[2]>> /\ m[p] = c[p[1]][p[2]]
          /\ q[1] \in G /\ q[2] \in 1 .. f[q[1]] /\ q = <<q[1], q[2]>> /\ m[q] = c[q[1]][q[2]]
      BY <1>5
    <3>2. m[p] \in B[p[1]] /\ m[p] \in B[q[1]]
      BY <2>2, <2>3
    <3>3. p[1] = q[1]
      BY <3>1, <3>2
    <3>4. p[2] = q[2]
      BY <2>1, <2>3, <3>1, <3>3
    <3> QED BY <3>1, <3>3, <3>4
  <2>4. \A v \in V : \E p \in U : m[p] = v
    <3> SUFFICES ASSUME NEW v \in V PROVE \E p \in U : m[p] = v
      OBVIOUS
    <3>1. PICK g \in G : v \in B[g]
      OBVIOUS
    <3>2. PICK i \in 1 .. f[g] : c[g][i] = v
      BY <2>1, <3>1
    <3>3. <<g, i>> \in U
      BY <1>6
    <3>4. m[<<g, i>>] = v
      BY <1>5, <3>2, <3>3
    <3> QED BY <3>3, <3>4
  <2>5. m \in [U -> V]
    BY <2>2
  <2> HIDE DEF m
  <2> QED BY <2>3, <2>4, <2>5 DEF Bijection, Injection, IsInjective, Surjection
<1> HIDE DEF m
<1>8. ExistsBijection(U, V)
  BY <1>7 DEF ExistsBijection
<1>9. Cardinality(V) = Cardinality(U)
  BY <1>2, <1>8, FS_Bijection
<1> QED BY <1>3, <1>4, <1>9

(* Sums *)

Summable(f) == IsFiniteSet(DOMAIN f) /\ \A x \in DOMAIN f : f[x] \in Nat
UnitsOf(f) == UNION {{x} \X (1 .. f[x]) : x \in DOMAIN f}
Part(f, T) == [x \in T |-> f[x]]

LEMMA UnitsAre ==
    ASSUME NEW f, Summable(f)
    PROVE  /\ IsFiniteSet(UnitsOf(f)) /\ TotalOf(f) = Cardinality(UnitsOf(f)) /\ TotalOf(f) \in Nat
           /\ \A u : u \in UnitsOf(f) <=> \E x \in DOMAIN f : \E i \in 1 .. f[x] : u = <<x, i>>
<1> DEFINE P == [x \in DOMAIN f |-> {x} \X (1 .. f[x])]
<1>1. IsFiniteSet(DOMAIN f) /\ \A x \in DOMAIN f : f[x] \in Nat
  BY DEF Summable
<1>2. UnitsOf(f) = UNION {P[x] : x \in DOMAIN f} /\ DOMAIN P = DOMAIN f
  BY DEF UnitsOf
<1>3. ASSUME NEW x \in DOMAIN f PROVE IsFiniteSet(P[x])
  <2>1. f[x] \in Nat
    BY <1>1
  <2>2. IsFiniteSet({x}) /\ IsFiniteSet(1 .. f[x])
    BY <2>1, FS_Singleton, FirstFinite
  <2>3. IsFiniteSet({x} \X (1 .. f[x]))
    BY <2>2, FS_Product
  <2> QED BY <2>3
<1>4. \A u : u \in UnitsOf(f) <=> \E x \in DOMAIN f : \E i \in 1 .. f[x] : u = <<x, i>>
  BY DEF UnitsOf
<1> HIDE DEF P
<1>5. IsFiniteSet(UnitsOf(f))
  <2>1. IsFiniteSet({P[x] : x \in DOMAIN f})
    BY <1>1, <1>2, ValuesFinite
  <2> QED BY <1>2, <1>3, <2>1, FS_UNION
<1>6. TotalOf(f) = Cardinality(UnitsOf(f))
  BY DEF TotalOf, UnitsOf
<1> QED BY <1>4, <1>5, <1>6, FS_CardinalityType

LEMMA PartSummable ==
    ASSUME NEW f, Summable(f), NEW T \in SUBSET DOMAIN f
    PROVE  Summable(Part(f, T)) /\ DOMAIN Part(f, T) = T /\ \A x \in T : Part(f, T)[x] = f[x]
<1>1. IsFiniteSet(T)
  BY FS_Subset DEF Summable
<1> QED BY <1>1 DEF Summable, Part

\* A sum is that over a part and that over the rest.
LEMMA SplitTotal ==
    ASSUME NEW f, Summable(f), NEW T \in SUBSET DOMAIN f
    PROVE  TotalOf(f) = TotalOf(Part(f, T)) + TotalOf(Part(f, DOMAIN f \ T))
<1> DEFINE R == DOMAIN f \ T
<1>1. /\ Summable(Part(f, T)) /\ DOMAIN Part(f, T) = T /\ \A x \in T : Part(f, T)[x] = f[x]
      /\ Summable(Part(f, R)) /\ DOMAIN Part(f, R) = R /\ \A x \in R : Part(f, R)[x] = f[x]
  BY PartSummable
<1>2. /\ \A u : u \in UnitsOf(f) <=> \E x \in DOMAIN f : \E i \in 1 .. f[x] : u = <<x, i>>
      /\ \A u : u \in UnitsOf(Part(f, T)) <=> \E x \in T : \E i \in 1 .. f[x] : u = <<x, i>>
      /\ \A u : u \in UnitsOf(Part(f, R)) <=> \E x \in R : \E i \in 1 .. f[x] : u = <<x, i>>
  <2>1. \A u : u \in UnitsOf(f) <=> \E x \in DOMAIN f : \E i \in 1 .. f[x] : u = <<x, i>>
    BY UnitsAre
  <2>2. \A u : u \in UnitsOf(Part(f, T)) <=> \E x \in T : \E i \in 1 .. f[x] : u = <<x, i>>
    BY <1>1, UnitsAre
  <2>3. \A u : u \in UnitsOf(Part(f, R)) <=> \E x \in R : \E i \in 1 .. f[x] : u = <<x, i>>
    BY <1>1, UnitsAre
  <2> QED BY <2>1, <2>2, <2>3
<1>3. UnitsOf(f) = UnitsOf(Part(f, T)) \cup UnitsOf(Part(f, R))
  <2>1. \A u : u \in UnitsOf(f) <=> u \in UnitsOf(Part(f, T)) \/ u \in UnitsOf(Part(f, R))
    BY <1>2
  <2> QED BY <2>1
<1>4. UnitsOf(Part(f, T)) \cap UnitsOf(Part(f, R)) = {}
  <2> SUFFICES ASSUME NEW u, u \in UnitsOf(Part(f, T)), u \in UnitsOf(Part(f, R)) PROVE FALSE
    OBVIOUS
  <2>1. PICK x \in T : \E i \in 1 .. f[x] : u = <<x, i>>
    BY <1>2
  <2>2. PICK y \in R : \E i \in 1 .. f[y] : u = <<y, i>>
    BY <1>2
  <2>3. x = y
    BY <2>1, <2>2
  <2> QED BY <2>1, <2>2, <2>3
<1>5. IsFiniteSet(UnitsOf(Part(f, T))) /\ IsFiniteSet(UnitsOf(Part(f, R)))
  BY <1>1, UnitsAre
<1>6. Cardinality(UnitsOf(f)) = Cardinality(UnitsOf(Part(f, T))) + Cardinality(UnitsOf(Part(f, R)))
  <2>1. Cardinality({}) = 0
    BY FS_EmptySet
  <2>2. PICK a, b : a = UnitsOf(Part(f, T)) /\ b = UnitsOf(Part(f, R))
    OBVIOUS
  <2>3. IsFiniteSet(a) /\ IsFiniteSet(b) /\ a \cap b = {} /\ UnitsOf(f) = a \cup b
    BY <1>3, <1>4, <1>5, <2>2
  <2>4. Cardinality(a) \in Nat /\ Cardinality(b) \in Nat
    BY <2>3, FS_CardinalityType
  <2>5. Cardinality(a \cup b) = Cardinality(a) + Cardinality(b) - Cardinality(a \cap b)
    BY <2>3, FS_Union
  <2>6. Cardinality(a \cup b) = Cardinality(a) + Cardinality(b)
    <3>1. Cardinality(a \cap b) = 0
      BY <2>1, <2>3
    <3> HIDE <2>3
    <3> QED BY <2>4, <2>5, <3>1
  <2> QED BY <2>2, <2>3, <2>6
<1> QED BY <1>1, <1>6, UnitsAre

LEMMA PartTotal ==
    ASSUME NEW f, Summable(f), NEW T \in SUBSET DOMAIN f
    PROVE  TotalOf(Part(f, T)) \in Nat /\ TotalOf(Part(f, T)) <= TotalOf(f)
<1>1. TotalOf(f) = TotalOf(Part(f, T)) + TotalOf(Part(f, DOMAIN f \ T))
  BY SplitTotal
<1>2. Summable(Part(f, T)) /\ Summable(Part(f, DOMAIN f \ T))
  BY PartSummable
<1> QED BY <1>1, <1>2, UnitsAre

\* A sum is zero when what it sums is.
LEMMA ZeroTotal ==
    ASSUME NEW f, Summable(f)
    PROVE  TotalOf(f) = 0 <=> \A x \in DOMAIN f : f[x] = 0
<1>1. TotalOf(f) = 0 <=> UnitsOf(f) = {}
  BY UnitsAre, FS_EmptySet
<1>2. UnitsOf(f) = {} <=> \A x \in DOMAIN f : f[x] = 0
  <2>1. \A u : u \in UnitsOf(f) <=> \E x \in DOMAIN f : \E i \in 1 .. f[x] : u = <<x, i>>
    BY UnitsAre
  <2>2. ASSUME \A x \in DOMAIN f : f[x] = 0 PROVE UnitsOf(f) = {}
    BY <2>1, <2>2
  <2>3. ASSUME UnitsOf(f) = {}, NEW x \in DOMAIN f PROVE f[x] = 0
    <3>1. f[x] \in Nat /\ ~ (1 \in 1 .. f[x])
      BY <2>1, <2>3 DEF Summable
    <3> QED BY <3>1
  <2> QED BY <2>2, <2>3
<1> QED BY <1>1, <1>2

LEMMA NothingTotal == ASSUME NEW f, DOMAIN f = {} PROVE Summable(f) /\ TotalOf(f) = 0
<1>1. Summable(f)
  BY FS_EmptySet DEF Summable
<1> QED BY <1>1, ZeroTotal

\* What is zero does not count.
LEMMA SupportTotal ==
    ASSUME NEW f, Summable(f), NEW T \in SUBSET DOMAIN f, \A x \in DOMAIN f \ T : f[x] = 0
    PROVE  TotalOf(Part(f, T)) = TotalOf(f)
<1>1. /\ Summable(Part(f, DOMAIN f \ T)) /\ DOMAIN Part(f, DOMAIN f \ T) = DOMAIN f \ T
      /\ \A x \in DOMAIN f \ T : Part(f, DOMAIN f \ T)[x] = f[x]
      /\ Summable(Part(f, T))
  BY PartSummable
<1>2. TotalOf(Part(f, DOMAIN f \ T)) = 0
  BY <1>1, ZeroTotal
<1>3. TotalOf(Part(f, T)) \in Nat
  BY <1>1, UnitsAre
<1> QED BY <1>2, <1>3, SplitTotal

\* A sum of more is more.
LEMMA LessTotal ==
    ASSUME NEW f, NEW g, Summable(f), Summable(g), DOMAIN f = DOMAIN g,
           \A x \in DOMAIN f : f[x] <= g[x]
    PROVE  TotalOf(f) <= TotalOf(g)
<1>1. /\ \A u : u \in UnitsOf(f) <=> \E x \in DOMAIN f : \E i \in 1 .. f[x] : u = <<x, i>>
      /\ \A u : u \in UnitsOf(g) <=> \E x \in DOMAIN g : \E i \in 1 .. g[x] : u = <<x, i>>
  BY UnitsAre
<1>2. \A x \in DOMAIN f : \A i \in 1 .. f[x] : i \in 1 .. g[x]
  BY DEF Summable
<1>3. UnitsOf(f) \in SUBSET UnitsOf(g)
  BY <1>1, <1>2
<1>4. Cardinality(UnitsOf(f)) <= Cardinality(UnitsOf(g))
  BY <1>3, UnitsAre, FS_Subset
<1> QED BY <1>4, UnitsAre

\* What is counted group by group is what is counted at once.
LEMMA GroupsTotal ==
    ASSUME NEW f, Summable(f), NEW c, DOMAIN c = DOMAIN f, NEW h,
           DOMAIN h = {c[x] : x \in DOMAIN f},
           \A g \in DOMAIN h : h[g] = TotalOf(Part(f, {x \in DOMAIN f : c[x] = g}))
    PROVE  Summable(h) /\ TotalOf(h) = TotalOf(f)
<1> DEFINE S(g) == {x \in DOMAIN f : c[x] = g}
           B == [g \in DOMAIN h |-> UnitsOf(Part(f, S(g)))]
<1>1. IsFiniteSet(DOMAIN h)
  BY ValuesFinite DEF Summable
<1>2. ASSUME NEW g
      PROVE  /\ Summable(Part(f, S(g)))
             /\ \A u : u \in UnitsOf(Part(f, S(g))) <=>
                         \E x \in DOMAIN f : \E i \in 1 .. f[x] : c[x] = g /\ u = <<x, i>>
  <2>1. S(g) \in SUBSET DOMAIN f
    OBVIOUS
  <2>2. PICK s : s = S(g)
    OBVIOUS
  <2>3. Summable(Part(f, s)) /\ DOMAIN Part(f, s) = s /\ \A x \in s : Part(f, s)[x] = f[x]
    BY <2>1, <2>2, PartSummable
  <2>4. \A u : u \in UnitsOf(Part(f, s)) <=> \E x \in s : \E i \in 1 .. f[x] : u = <<x, i>>
    BY <2>3, UnitsAre
  <2> QED BY <2>2, <2>3, <2>4
<1>3. \A g \in DOMAIN h : IsFiniteSet(B[g]) /\ h[g] = Cardinality(B[g]) /\ h[g] \in Nat
  BY <1>2, UnitsAre
<1>4. \A g \in DOMAIN h : \A u :
        u \in B[g] <=> \E x \in DOMAIN f : \E i \in 1 .. f[x] : c[x] = g /\ u = <<x, i>>
  <2>1. \A g \in DOMAIN h : B[g] = UnitsOf(Part(f, S(g)))
    OBVIOUS
  <2> HIDE DEF B, S
  <2> QED BY <1>2, <2>1
<1>5. DOMAIN B = DOMAIN h
  OBVIOUS
<1> HIDE DEF B
<1>6. \A g, k \in DOMAIN h : g # k => B[g] \cap B[k] = {}
  <2> SUFFICES ASSUME NEW g \in DOMAIN h, NEW k \in DOMAIN h, NEW u, u \in B[g], u \in B[k]
               PROVE  g = k
    OBVIOUS
  <2>1. PICK x \in DOMAIN f : \E i \in 1 .. f[x] : c[x] = g /\ u = <<x, i>>
    BY <1>4
  <2>2. PICK y \in DOMAIN f : \E i \in 1 .. f[y] : c[y] = k /\ u = <<y, i>>
    BY <1>4
  <2>3. x = y
    BY <2>1, <2>2
  <2> QED BY <2>1, <2>2, <2>3
<1>7. UNION {B[g] : g \in DOMAIN h} = UnitsOf(f)
  <2>1. \A u : u \in UnitsOf(f) <=> \E x \in DOMAIN f : \E i \in 1 .. f[x] : u = <<x, i>>
    BY UnitsAre
  <2>2. \A x \in DOMAIN f : c[x] \in DOMAIN h
    OBVIOUS
  <2>3. \A g \in DOMAIN h : \A u \in B[g] : u \in UnitsOf(f)
    BY <1>4, <2>1
  <2>4. \A u \in UnitsOf(f) : \E g \in DOMAIN h : u \in B[g]
    <3> SUFFICES ASSUME NEW u \in UnitsOf(f) PROVE \E g \in DOMAIN h : u \in B[g]
      OBVIOUS
    <3>1. PICK x \in DOMAIN f : \E i \in 1 .. f[x] : u = <<x, i>>
      BY <2>1
    <3>2. c[x] \in DOMAIN h
      BY <2>2
    <3>3. u \in B[c[x]]
      BY <1>4, <3>1, <3>2
    <3> QED BY <3>2, <3>3
  <2> QED BY <2>3, <2>4
<1>8. PICK H : H = DOMAIN h
  OBVIOUS
<1>9. PICK V : V = UNION {B[g] : g \in H}
  OBVIOUS
<1>10. TotalOf(h) = Cardinality(V)
  BY <1>1, <1>3, <1>5, <1>6, <1>8, <1>9, PartsTotal
<1>11. Summable(h)
  BY <1>1, <1>3 DEF Summable
<1> QED BY <1>7, <1>8, <1>9, <1>10, <1>11, UnitsAre

LEMMA OneTotal ==
    ASSUME NEW f, NEW x, DOMAIN f = {x}, f[x] \in Nat
    PROVE  Summable(f) /\ TotalOf(f) = f[x]
<1>1. Summable(f)
  BY FS_Singleton DEF Summable
<1>2. UNION {{y} \X (1 .. f[y]) : y \in {x}} = {x} \X (1 .. f[x])
  OBVIOUS
<1>3. TotalOf(f) = Cardinality({x} \X (1 .. f[x]))
  BY <1>2 DEF TotalOf
<1>4. PICK S, T : S = {x} /\ T = 1 .. f[x]
  OBVIOUS
<1>5. IsFiniteSet(S) /\ Cardinality(S) = 1
  BY <1>4, FS_Singleton
<1>6. IsFiniteSet(T) /\ Cardinality(T) = f[x]
  BY <1>4, FS_Interval
<1>7. Cardinality(S \X T) = Cardinality(S) * Cardinality(T)
  BY <1>5, <1>6, FS_Product
<1>8. 1 * f[x] = f[x]
  OBVIOUS
<1> QED BY <1>1, <1>3, <1>4, <1>5, <1>6, <1>7, <1>8

\* One more point adds its value.
LEMMA MoreTotal ==
    ASSUME NEW f, Summable(f), NEW x \in DOMAIN f
    PROVE  TotalOf(f) = TotalOf(Part(f, DOMAIN f \ {x})) + f[x]
<1>1. PICK T : T = {x}
  OBVIOUS
<1>2. T \in SUBSET DOMAIN f
  BY <1>1
<1>3. Summable(Part(f, T)) /\ DOMAIN Part(f, T) = T /\ \A y \in T : Part(f, T)[y] = f[y]
  BY <1>2, PartSummable
<1>4. TotalOf(Part(f, T)) = f[x]
  BY <1>1, <1>3, OneTotal DEF Summable
<1>5. TotalOf(f) = TotalOf(Part(f, T)) + TotalOf(Part(f, DOMAIN f \ T))
  BY <1>2, SplitTotal
<1>6. Summable(Part(f, DOMAIN f \ T))
  BY PartSummable
<1>7. TotalOf(Part(f, DOMAIN f \ T)) \in Nat /\ f[x] \in Nat
  BY <1>6, UnitsAre DEF Summable
<1> QED BY <1>1, <1>4, <1>5, <1>7

\* The sum of sums: by the smallest domain on which it would fail.
LEMMA SumTotal ==
    ASSUME NEW f, NEW g, NEW h, Summable(f), Summable(g), Summable(h),
           DOMAIN f = DOMAIN h, DOMAIN g = DOMAIN h, \A x \in DOMAIN h : h[x] = f[x] + g[x]
    PROVE  TotalOf(h) = TotalOf(f) + TotalOf(g)
<1> DEFINE D == DOMAIN h
           Holds(T) == TotalOf(Part(h, T)) = TotalOf(Part(f, T)) + TotalOf(Part(g, T))
           bad == {n \in Nat : \E T \in SUBSET D : Cardinality(T) = n /\ ~ Holds(T)}
<1>1. \A T \in SUBSET D : IsFiniteSet(T) /\ Cardinality(T) \in Nat
  BY FS_Subset, FS_CardinalityType DEF Summable
<1>2. ASSUME bad # {} PROVE FALSE
  <2>1. PICK n \in bad : \A m \in bad : n <= m
    BY <1>2, LeastOf
  <2>2. PICK T \in SUBSET D : Cardinality(T) = n /\ ~ Holds(T)
    BY <2>1
  <2>3. /\ Summable(Part(f, T)) /\ DOMAIN Part(f, T) = T /\ \A x \in T : Part(f, T)[x] = f[x]
        /\ Summable(Part(g, T)) /\ DOMAIN Part(g, T) = T /\ \A x \in T : Part(g, T)[x] = g[x]
        /\ Summable(Part(h, T)) /\ DOMAIN Part(h, T) = T /\ \A x \in T : Part(h, T)[x] = h[x]
    BY PartSummable
  <2>4. CASE T = {}
    <3>1. TotalOf(Part(f, T)) = 0 /\ TotalOf(Part(g, T)) = 0 /\ TotalOf(Part(h, T)) = 0
      BY <2>3, <2>4, NothingTotal
    <3> QED BY <2>2, <3>1
  <2>5. CASE T # {}
    <3>1. PICK x \in T : TRUE
      BY <2>5
    <3>2. PICK R : R = T \ {x}
      OBVIOUS
    <3>3. R \in SUBSET D /\ Cardinality(R) = n - 1 /\ Cardinality(R) \in Nat
      BY <1>1, <2>2, <3>1, <3>2, FS_RemoveElement
    <3>4. Holds(R)
      <4>1. n \in Nat /\ n - 1 \notin bad
        BY <2>1
      <4> QED BY <3>3, <4>1
    <3>5. /\ Part(Part(f, T), R) = Part(f, R) /\ Part(Part(g, T), R) = Part(g, R)
          /\ Part(Part(h, T), R) = Part(h, R)
      BY <3>2 DEF Part
    <3>6. /\ TotalOf(Part(f, T)) = TotalOf(Part(f, R)) + f[x]
          /\ TotalOf(Part(g, T)) = TotalOf(Part(g, R)) + g[x]
          /\ TotalOf(Part(h, T)) = TotalOf(Part(h, R)) + h[x]
      BY <2>3, <3>1, <3>2, <3>5, MoreTotal
    <3>7. f[x] \in Nat /\ g[x] \in Nat /\ h[x] = f[x] + g[x]
      BY <3>1 DEF Summable
    <3>8. TotalOf(Part(f, R)) \in Nat /\ TotalOf(Part(g, R)) \in Nat
      BY <3>3, PartSummable, UnitsAre
    <3>9. Holds(T)
      BY <3>4, <3>6, <3>7, <3>8
    <3> QED BY <2>2, <3>9
  <2> QED BY <2>4, <2>5
<1>3. Holds(D)
  BY <1>1, <1>2
<1>4. TotalOf(Part(h, D)) = TotalOf(h) /\ TotalOf(Part(f, D)) = TotalOf(f) /\ TotalOf(Part(g, D)) = TotalOf(g)
  BY SupportTotal
<1> QED BY <1>3, <1>4

LEMMA Multiples ==
    ASSUME NEW a \in Nat, NEW b \in Nat
    PROVE  a * b \in Nat /\ a * b = b * a
OBVIOUS

LEMMA Distributes ==
    ASSUME NEW a \in Nat, NEW b \in Nat, NEW c \in Nat
    PROVE  a * (b + c) = a * b + a * c
OBVIOUS

\* The sum of multiples is the multiple of the sum, by the same argument.
LEMMA ScaleTotal ==
    ASSUME NEW f, NEW h, NEW a \in Nat, Summable(f),
           DOMAIN h = DOMAIN f, \A x \in DOMAIN f : h[x] = a * f[x]
    PROVE  Summable(h) /\ TotalOf(h) = a * TotalOf(f)
<1> DEFINE D == DOMAIN h
           Holds(T) == TotalOf(Part(h, T)) = a * TotalOf(Part(f, T))
           bad == {n \in Nat : \E T \in SUBSET D : Cardinality(T) = n /\ ~ Holds(T)}
<1>0. Summable(h)
  BY Multiples DEF Summable
<1>1. \A T \in SUBSET D : IsFiniteSet(T) /\ Cardinality(T) \in Nat
  BY FS_Subset, FS_CardinalityType DEF Summable
<1>2. ASSUME bad # {} PROVE FALSE
  <2>1. PICK n \in bad : \A m \in bad : n <= m
    BY <1>2, LeastOf
  <2>2. PICK T \in SUBSET D : Cardinality(T) = n /\ ~ Holds(T)
    BY <2>1
  <2>3. /\ Summable(Part(f, T)) /\ DOMAIN Part(f, T) = T /\ \A x \in T : Part(f, T)[x] = f[x]
        /\ Summable(Part(h, T)) /\ DOMAIN Part(h, T) = T /\ \A x \in T : Part(h, T)[x] = h[x]
    BY <1>0, PartSummable
  <2>4. CASE T = {}
    <3>1. TotalOf(Part(f, T)) = 0 /\ TotalOf(Part(h, T)) = 0
      BY <2>3, <2>4, NothingTotal
    <3> QED BY <2>2, <3>1
  <2>5. CASE T # {}
    <3>1. PICK x \in T : TRUE
      BY <2>5
    <3>2. PICK R : R = T \ {x}
      OBVIOUS
    <3>3. R \in SUBSET D /\ Cardinality(R) = n - 1 /\ Cardinality(R) \in Nat
      BY <1>1, <2>2, <3>1, <3>2, FS_RemoveElement
    <3>4. Holds(R)
      <4>1. n \in Nat /\ n - 1 \notin bad
        BY <2>1
      <4> QED BY <3>3, <4>1
    <3>5. Part(Part(f, T), R) = Part(f, R) /\ Part(Part(h, T), R) = Part(h, R)
      BY <3>2 DEF Part
    <3>6. /\ TotalOf(Part(f, T)) = TotalOf(Part(f, R)) + f[x]
          /\ TotalOf(Part(h, T)) = TotalOf(Part(h, R)) + h[x]
      BY <2>3, <3>1, <3>2, <3>5, MoreTotal
    <3>7. f[x] \in Nat /\ h[x] = a * f[x]
      BY <3>1 DEF Summable
    <3>8. TotalOf(Part(f, R)) \in Nat
      BY <3>3, PartSummable, UnitsAre
    <3>9. a * (TotalOf(Part(f, R)) + f[x]) = a * TotalOf(Part(f, R)) + a * f[x]
      BY <3>7, <3>8, Distributes
    <3>10. Holds(T)
      BY <3>4, <3>6, <3>7, <3>9
    <3> QED BY <2>2, <3>10
  <2> QED BY <2>4, <2>5
<1>3. Holds(D)
  BY <1>1, <1>2
<1>4. TotalOf(Part(h, D)) = TotalOf(h) /\ TotalOf(Part(f, D)) = TotalOf(f)
  BY <1>0, SupportTotal
<1> QED BY <1>0, <1>3, <1>4

(* Sums by groups, and balances *)

\* The sum over some points, and the points of one group.
PartSum(f, T) == TotalOf(Part(f, T))
Fiber(c, M, g) == {x \in M : c[x] = g}

LEMMA PartSumNat ==
    ASSUME NEW f, Summable(f), NEW T \in SUBSET DOMAIN f
    PROVE  PartSum(f, T) \in Nat /\ PartSum(f, DOMAIN f) = TotalOf(f) /\ PartSum(f, T) <= TotalOf(f)
<1>1. PartSum(f, T) \in Nat /\ PartSum(f, T) <= TotalOf(f)
  BY PartTotal DEF PartSum
<1>2. TotalOf(Part(f, DOMAIN f)) = TotalOf(f)
  BY SupportTotal
<1> QED BY <1>1, <1>2 DEF PartSum

\* Two disjoint parts.
LEMMA PartSumUnion ==
    ASSUME NEW f, Summable(f), NEW S \in SUBSET DOMAIN f, NEW T \in SUBSET DOMAIN f, S \cap T = {}
    PROVE  PartSum(f, S \cup T) = PartSum(f, S) + PartSum(f, T)
<1>1. PICK U : U = S \cup T
  OBVIOUS
<1>2. Summable(Part(f, U)) /\ DOMAIN Part(f, U) = U /\ \A x \in U : Part(f, U)[x] = f[x]
  BY <1>1, PartSummable
<1>3. TotalOf(Part(f, U)) = TotalOf(Part(Part(f, U), S)) + TotalOf(Part(Part(f, U), U \ S))
  BY <1>1, <1>2, SplitTotal
<1>4. Part(Part(f, U), S) = Part(f, S) /\ Part(Part(f, U), U \ S) = Part(f, T)
  <2>1. U \ S = T
    BY <1>1
  <2>2. S \in SUBSET U /\ T \in SUBSET U
    BY <1>1
  <2> QED BY <1>2, <2>1, <2>2 DEF Part
<1> QED BY <1>1, <1>3, <1>4 DEF PartSum

\* A larger part sums to no less; a part where nothing counts, to zero.
LEMMA PartSumWithin ==
    ASSUME NEW f, Summable(f), NEW T \in SUBSET DOMAIN f, NEW S \in SUBSET T
    PROVE  PartSum(f, S) <= PartSum(f, T)
<1>1. PICK R : R = T \ S
  OBVIOUS
<1>2. S \cup R = T /\ S \cap R = {} /\ R \in SUBSET DOMAIN f /\ S \in SUBSET DOMAIN f
  BY <1>1
<1>3. PartSum(f, T) = PartSum(f, S) + PartSum(f, R)
  BY <1>2, PartSumUnion
<1>4. PartSum(f, S) \in Nat /\ PartSum(f, R) \in Nat
  BY <1>2, PartSumNat
<1> QED BY <1>3, <1>4

LEMMA PartSumZero ==
    ASSUME NEW f, Summable(f), NEW T \in SUBSET DOMAIN f
    PROVE  PartSum(f, T) = 0 <=> \A x \in T : f[x] = 0
BY PartSummable, ZeroTotal DEF PartSum

\* A part, counted group by group.
LEMMA PartSumGroups ==
    ASSUME NEW f, Summable(f), NEW M \in SUBSET DOMAIN f, NEW c, DOMAIN c = DOMAIN f, NEW h,
           \A g : g \in DOMAIN h <=> \E x \in DOMAIN f : c[x] = g,
           \A g \in DOMAIN h : h[g] = PartSum(f, Fiber(c, M, g))
    PROVE  Summable(h) /\ TotalOf(h) = PartSum(f, M)
<1> DEFINE F == [x \in DOMAIN f |-> IF x \in M THEN f[x] ELSE 0]
<1>1. Summable(F) /\ DOMAIN F = DOMAIN f /\ \A x \in DOMAIN f : F[x] = IF x \in M THEN f[x] ELSE 0
  BY DEF Summable
<1> HIDE DEF F
<1>2. TotalOf(F) = PartSum(f, M)
  <2>1. TotalOf(Part(F, M)) = TotalOf(F)
    BY <1>1, SupportTotal
  <2>2. Part(F, M) = Part(f, M)
    BY <1>1 DEF Part
  <2> QED BY <2>1, <2>2 DEF PartSum
<1>3. ASSUME NEW g \in DOMAIN h
      PROVE  h[g] = TotalOf(Part(F, {x \in DOMAIN F : c[x] = g}))
  <2>1. PICK s, t : s = {x \in DOMAIN F : c[x] = g} /\ t = {x \in M : c[x] = g}
    OBVIOUS
  <2>2. s \in SUBSET DOMAIN F /\ t \in SUBSET s /\ t \in SUBSET M /\ \A x \in s \ t : x \notin M
    BY <1>1, <2>1
  <2>3. Summable(Part(F, s)) /\ DOMAIN Part(F, s) = s /\ \A x \in s : Part(F, s)[x] = F[x]
    BY <1>1, <2>2, PartSummable
  <2>4. \A x \in s \ t : Part(F, s)[x] = 0
    BY <1>1, <2>2, <2>3
  <2>5. TotalOf(Part(Part(F, s), t)) = TotalOf(Part(F, s))
    BY <2>2, <2>3, <2>4, SupportTotal
  <2>6. Part(Part(F, s), t) = Part(f, t)
    BY <1>1, <2>2, <2>3 DEF Part
  <2>7. h[g] = TotalOf(Part(f, t))
    BY <2>1 DEF PartSum, Fiber
  <2> QED BY <2>1, <2>5, <2>6, <2>7
<1>4. DOMAIN h = {c[x] : x \in DOMAIN F}
  BY <1>1
<1>5. Summable(h) /\ TotalOf(h) = TotalOf(F)
  BY <1>1, <1>3, <1>4, GroupsTotal
<1> QED BY <1>2, <1>5

\* What counts one for every point counts the points.
LEMMA CountTotal ==
    ASSUME NEW S, IsFiniteSet(S), NEW f, DOMAIN f = S, \A x \in S : f[x] = 1
    PROVE  Summable(f) /\ TotalOf(f) = Cardinality(S)
<1> DEFINE B == [x \in S |-> {x}]
<1>1. \A x \in S : IsFiniteSet(B[x]) /\ f[x] = Cardinality(B[x])
  BY FS_Singleton
<1>2. \A x, y \in S : x # y => B[x] \cap B[y] = {}
  OBVIOUS
<1>3. S = UNION {B[x] : x \in S}
  OBVIOUS
<1>4. DOMAIN B = S
  OBVIOUS
<1> HIDE DEF B
<1>5. TotalOf(f) = Cardinality(S)
  BY <1>1, <1>2, <1>3, <1>4, PartsTotal
<1> QED BY <1>5 DEF Summable

\* What is not above zero adds no unit.
LEMMA PositiveTotal ==
    ASSUME NEW f, NEW p, DOMAIN p = DOMAIN f,
           \A x \in DOMAIN f : f[x] \in Int /\ p[x] = IF f[x] > 0 THEN f[x] ELSE 0
    PROVE  TotalOf(f) = TotalOf(p)
<1>1. \A x \in DOMAIN f : 1 .. f[x] = 1 .. p[x]
  OBVIOUS
<1>2. {{x} \X (1 .. f[x]) : x \in DOMAIN f} = {{x} \X (1 .. p[x]) : x \in DOMAIN p}
  BY <1>1
<1> QED BY <1>2 DEF TotalOf

\* A balance of differences is the difference of the totals.
LEMMA BalanceIs ==
    ASSUME NEW f, Summable(f), NEW g, Summable(g), DOMAIN g = DOMAIN f, NEW d, DOMAIN d = DOMAIN f,
           \A x \in DOMAIN f : d[x] = f[x] - g[x]
    PROVE  BalanceOf(d) = TotalOf(f) - TotalOf(g)
<1> DEFINE D == DOMAIN d
           n == [x \in D |-> -d[x]]
           p == [x \in D |-> IF d[x] > 0 THEN d[x] ELSE 0]
           q == [x \in D |-> IF n[x] > 0 THEN n[x] ELSE 0]
           s == [x \in D |-> f[x] + q[x]]
<1>1. IsFiniteSet(D) /\ \A x \in D : f[x] \in Nat /\ g[x] \in Nat /\ d[x] \in Int /\ d[x] = f[x] - g[x]
  BY DEF Summable
<1>2. /\ DOMAIN n = D /\ \A x \in D : n[x] = -d[x]
      /\ DOMAIN p = D /\ \A x \in D : p[x] = IF d[x] > 0 THEN d[x] ELSE 0
  OBVIOUS
<1>3. BalanceOf(d) = TotalOf(d) - TotalOf(n)
  BY DEF BalanceOf
<1>4. DOMAIN f = D /\ DOMAIN g = D /\ DOMAIN d = D
  OBVIOUS
<1> HIDE DEF n, p
<1>5. DOMAIN q = D /\ \A x \in D : q[x] = IF n[x] > 0 THEN n[x] ELSE 0
  OBVIOUS
<1> HIDE DEF q
<1>6. DOMAIN s = D /\ \A x \in D : s[x] = f[x] + q[x]
  OBVIOUS
<1> HIDE DEF s, D
<1>7. \A x \in D : n[x] \in Int /\ p[x] \in Nat /\ q[x] \in Nat /\ s[x] \in Nat /\ s[x] = g[x] + p[x]
  BY <1>1, <1>2, <1>5, <1>6
<1>8. Summable(p) /\ Summable(q) /\ Summable(s)
  BY <1>1, <1>2, <1>5, <1>6, <1>7 DEF Summable
<1>9. TotalOf(d) = TotalOf(p) /\ TotalOf(n) = TotalOf(q)
  BY <1>1, <1>2, <1>4, <1>5, <1>7, PositiveTotal
<1>10. TotalOf(s) = TotalOf(f) + TotalOf(q)
  BY <1>4, <1>5, <1>6, <1>8, SumTotal
<1>11. TotalOf(s) = TotalOf(g) + TotalOf(p)
  BY <1>2, <1>4, <1>6, <1>7, <1>8, SumTotal
<1>12. TotalOf(f) \in Nat /\ TotalOf(g) \in Nat /\ TotalOf(p) \in Nat /\ TotalOf(q) \in Nat
  BY <1>8, UnitsAre
<1> QED BY <1>3, <1>9, <1>10, <1>11, <1>12

\* A balance is that over a part and that over the rest.
LEMMA SplitBalance ==
    ASSUME NEW d, IsFiniteSet(DOMAIN d), \A x \in DOMAIN d : d[x] \in Int, NEW T \in SUBSET DOMAIN d
    PROVE  /\ BalanceOf(d) = BalanceOf(Part(d, T)) + BalanceOf(Part(d, DOMAIN d \ T))
           /\ BalanceOf(Part(d, T)) \in Int /\ BalanceOf(Part(d, DOMAIN d \ T)) \in Int
<1> DEFINE p == [x \in DOMAIN d |-> IF d[x] > 0 THEN d[x] ELSE 0]
           q == [x \in DOMAIN d |-> IF d[x] > 0 THEN 0 ELSE -d[x]]
<1>1. /\ DOMAIN p = DOMAIN d /\ DOMAIN q = DOMAIN d
      /\ \A x \in DOMAIN d : p[x] \in Nat /\ q[x] \in Nat /\ d[x] = p[x] - q[x]
  OBVIOUS
<1> HIDE DEF p, q
<1>2. Summable(p) /\ Summable(q)
  BY <1>1 DEF Summable
<1>3. ASSUME NEW S \in SUBSET DOMAIN d
      PROVE  /\ BalanceOf(Part(d, S)) = TotalOf(Part(p, S)) - TotalOf(Part(q, S))
             /\ TotalOf(Part(p, S)) \in Nat /\ TotalOf(Part(q, S)) \in Nat
  <2>1. /\ Summable(Part(p, S)) /\ DOMAIN Part(p, S) = S /\ \A x \in S : Part(p, S)[x] = p[x]
        /\ Summable(Part(q, S)) /\ DOMAIN Part(q, S) = S /\ \A x \in S : Part(q, S)[x] = q[x]
    BY <1>1, <1>2, PartSummable
  <2>2. DOMAIN Part(d, S) = S /\ \A x \in S : Part(d, S)[x] = d[x]
    BY DEF Part
  <2>3. \A x \in S : Part(d, S)[x] = Part(p, S)[x] - Part(q, S)[x]
    BY <1>1, <2>1, <2>2
  <2> QED BY <2>1, <2>2, <2>3, BalanceIs, UnitsAre
<1>4. BalanceOf(d) = TotalOf(p) - TotalOf(q)
  BY <1>1, <1>2, BalanceIs
<1>5. /\ TotalOf(p) = TotalOf(Part(p, T)) + TotalOf(Part(p, DOMAIN d \ T))
      /\ TotalOf(q) = TotalOf(Part(q, T)) + TotalOf(Part(q, DOMAIN d \ T))
  BY <1>1, <1>2, SplitTotal
<1>6. DOMAIN d \ T \in SUBSET DOMAIN d
  OBVIOUS
<1> QED BY <1>3, <1>4, <1>5, <1>6

(* Places *)

\* The place of an element under an order: one more than how many come before it.
Places(A, W) == [r \in A |-> 1 + Cardinality({o \in A : <<o, r>> \in W})]

\* A finite set under a strict total order: the places are the first numbers, each held once.
LEMMA PlacesFill ==
    ASSUME NEW A, IsFiniteSet(A), NEW W,
           \A x \in A : <<x, x>> \notin W,
           \A x, y, z \in A : <<x, y>> \in W /\ <<y, z>> \in W => <<x, z>> \in W,
           \A x, y \in A : x # y => <<x, y>> \in W \/ <<y, x>> \in W
    PROVE  Places(A, W) \in Bijection(A, 1 .. Cardinality(A))
<1> DEFINE place == Places(A, W)
           before == [r \in A |-> {o \in A : <<o, r>> \in W}]
           n == Cardinality(A)
<1>1. n \in Nat
  BY FS_CardinalityType
<1>2. \A r \in A : /\ before[r] \in SUBSET A /\ r \notin before[r] /\ place[r] = 1 + Cardinality(before[r])
                   /\ \A o \in A : o \in before[r] <=> <<o, r>> \in W
  BY DEF Places
<1> HIDE DEF before, n
<1>3. \A r \in A : IsFiniteSet(before[r]) /\ Cardinality(before[r]) \in Nat /\ place[r] \in 1 .. n
  <2> SUFFICES ASSUME NEW r \in A
               PROVE  IsFiniteSet(before[r]) /\ Cardinality(before[r]) \in Nat /\ place[r] \in 1 .. n
    OBVIOUS
  <2>1. before[r] \in SUBSET A /\ before[r] # A
    BY <1>2
  <2>2. IsFiniteSet(before[r]) /\ Cardinality(before[r]) \in Nat /\ Cardinality(before[r]) < n
    <3>1. IsFiniteSet(before[r]) /\ Cardinality(before[r]) <= n /\ Cardinality(before[r]) # n
      BY <2>1, FS_Subset DEF n
    <3>2. Cardinality(before[r]) \in Nat
      BY <3>1, FS_CardinalityType
    <3> QED BY <1>1, <3>1, <3>2
  <2> QED BY <1>1, <1>2, <2>2
<1>4. ASSUME NEW x \in A, NEW y \in A, <<x, y>> \in W PROVE place[x] < place[y]
  <2>1. \A o \in before[x] : o \in before[y]
    BY <1>2, <1>4
  <2>2. before[x] \in SUBSET before[y] /\ before[x] # before[y]
    BY <1>2, <1>4, <2>1
  <2>3. Cardinality(before[x]) <= Cardinality(before[y]) /\ Cardinality(before[x]) # Cardinality(before[y])
    BY <1>3, <2>2, FS_Subset
  <2>4. Cardinality(before[x]) \in Nat /\ Cardinality(before[y]) \in Nat
    BY <1>3
  <2>5. place[x] = 1 + Cardinality(before[x]) /\ place[y] = 1 + Cardinality(before[y])
    BY <1>2
  <2> QED BY <2>3, <2>4, <2>5
<1>5. \A x, y \in A : place[x] = place[y] => x = y
  <2> SUFFICES ASSUME NEW x \in A, NEW y \in A, place[x] = place[y], x # y PROVE FALSE
    OBVIOUS
  <2>1. place[x] \in 1 .. n /\ place[y] \in 1 .. n
    BY <1>3
  <2>2. ~ (place[x] < place[y]) /\ ~ (place[y] < place[x])
    BY <1>1, <2>1
  <2>3. <<x, y>> \in W \/ <<y, x>> \in W
    OBVIOUS
  <2> QED BY <1>4, <2>2, <2>3
<1>6. PICK P : P = {place[r] : r \in A}
  OBVIOUS
<1>7. place \in [A -> 1 .. n] /\ place \in Bijection(A, P)
  <2>1. DOMAIN place = A /\ place = [r \in A |-> place[r]]
    BY DEF Places
  <2> HIDE DEF place
  <2> QED BY <2>1, <1>3, <1>5, <1>6 DEF Bijection, Injection, IsInjective, Surjection
<1>8. P = 1 .. n
  <2>1. Cardinality(P) = n
    BY <1>7, FS_Bijection DEF ExistsBijection, n
  <2>2. IsFiniteSet(1 .. n) /\ Cardinality(1 .. n) = n
    BY <1>1, FS_Interval
  <2>3. P \in SUBSET (1 .. n)
    <3> SUFFICES ASSUME NEW t \in P PROVE t \in 1 .. n
      OBVIOUS
    <3>1. PICK r \in A : t = place[r]
      BY <1>6
    <3> QED BY <1>3, <3>1
  <2> QED BY <2>1, <2>2, <2>3, FS_Subset
<1> QED BY <1>7, <1>8 DEF n

\* The places of those in the first so many are the first numbers, too.
LEMMA FirstPlaces ==
    ASSUME NEW A, IsFiniteSet(A), NEW place \in Bijection(A, 1 .. Cardinality(A)), NEW k \in Nat,
           NEW T, T = {r \in A : place[r] <= k}
    PROVE  {place[r] : r \in T} = 1 .. Cardinality(T)
<1> DEFINE n == Cardinality(A)
           m == IF n <= k THEN n ELSE k
<1>1. n \in Nat /\ m \in Nat
  BY FS_CardinalityType
<1>2. /\ \A r \in A : place[r] \in 1 .. n
      /\ \A x, y \in A : place[x] = place[y] => x = y
      /\ \A i \in 1 .. n : \E r \in A : place[r] = i
  BY DEF Bijection, Injection, IsInjective, Surjection
<1>3. \A i \in 1 .. m : i \in 1 .. n /\ i <= k
  BY <1>1
<1>4. \A r \in T : place[r] \in 1 .. m
  BY <1>1, <1>2
<1> HIDE DEF n, m
<1>5. \A i \in 1 .. m : \E r \in T : place[r] = i
  BY <1>2, <1>3
<1>6. {place[r] : r \in T} = 1 .. m
  BY <1>4, <1>5
<1>7. Cardinality(T) = m
  <2>1. PICK f : f = [r \in T |-> place[r]]
    OBVIOUS
  <2>2. \A x, y \in T : f[x] = f[y] => x = y
    BY <1>2, <2>1
  <2>3. f \in Bijection(T, 1 .. m)
    BY <1>4, <1>5, <2>1, <2>2 DEF Bijection, Injection, IsInjective, Surjection
  <2>4. IsFiniteSet(T)
    BY FS_Subset
  <2>5. Cardinality(T) = Cardinality(1 .. m)
    BY <2>3, <2>4, FS_Bijection DEF ExistsBijection
  <2> QED BY <1>1, <2>5, FS_Interval
<1> QED BY <1>6, <1>7
=============================================================================
