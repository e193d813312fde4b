----------------------------- MODULE AnalyticsProofs -----------------------------
(***************************************************************************)
(* Theorems of Analytics for any marathons, participants, data and queries.*)
(*                                                                         *)
(* They rest on facts about numbers: comparing fractions by cross products *)
(* is an order; a sort gives every place once; the sizes of disjoint sets  *)
(* add up to that of their union; what is drawn from a set of amounts,     *)
(* each of them once, adds up to no more than the set does.                *)
(* The lemmas about subsets of a finite set are those of RecordsProofs.    *)
(***************************************************************************)
EXTENDS Analytics, RecordsProofs, FunctionTheorems

------------------------------------------------------------------------------
(***************************************************************************)
(* Sums.                                                                   *)
(***************************************************************************)

OneOf(s) == CHOOSE x \in s : TRUE

\* f adds up the values v of every subset of S, taking one element after the other.
AddsUp(f, v, S) ==
  f = [s \in SUBSET S |-> IF s = {} THEN 0 ELSE v[OneOf(s)] + f[s \ {OneOf(s)}]]
SumOver(v, S) == (CHOOSE f : AddsUp(f, v, S))[S]

LEMMA OneOfIsIn == \A s : s # {} => OneOf(s) \in s
BY DEF OneOf

LEMMA SumsAgree ==
  ASSUME NEW v, NEW S, NEW T, IsFiniteSet(S), S \subseteq T,
         NEW f, NEW g, AddsUp(f, v, S), AddsUp(g, v, T)
  PROVE  \A s \in SUBSET S : f[s] = g[s]
<1> DEFINE G == {s \in SUBSET S : f[s] = g[s]}
<1>1. \A s \in SUBSET S : f[s] = IF s = {} THEN 0 ELSE v[OneOf(s)] + f[s \ {OneOf(s)}]
  BY Zenon DEF AddsUp
<1>2. \A s \in SUBSET T : g[s] = IF s = {} THEN 0 ELSE v[OneOf(s)] + g[s \ {OneOf(s)}]
  BY Zenon DEF AddsUp
<1>3. {} \in G
  BY <1>1, <1>2
<1>4. ASSUME NEW s \in SUBSET S, s # {}, \A x \in s : s \ {x} \in G
      PROVE  s \in G
  <2>1. f[s \ {OneOf(s)}] = g[s \ {OneOf(s)}]
    BY <1>4, OneOfIsIn
  <2> QED
    BY <1>1, <1>2, <1>4, <2>1
<1> HIDE DEF G
<1>5. \A s \in SUBSET S : s \in G
  BY <1>3, <1>4, SubsetInduction
<1> QED
  BY <1>5 DEF G

LEMMA SumsExist ==
  ASSUME NEW v, NEW S, IsFiniteSet(S)
  PROVE  \E f : AddsUp(f, v, S)
<1> DEFINE G == {s \in SUBSET S : \E f : AddsUp(f, v, s)}
           F(s) == CHOOSE f : AddsUp(f, v, s)
<1>1. {} \in G
  <2>1. AddsUp([s \in SUBSET {} |-> 0], v, {})
    BY DEF AddsUp
  <2> QED
    BY <2>1
<1>2. ASSUME NEW s \in SUBSET S, s # {}, \A x \in s : s \ {x} \in G
      PROVE  s \in G
  <2> DEFINE f == [t \in SUBSET s |-> IF t = {} THEN 0 ELSE v[OneOf(t)] + F(t \ {OneOf(t)})[t \ {OneOf(t)}]]
  <2>0. \A t \in SUBSET S : IsFiniteSet(t)
    BY FS_Subset
  <2>1. ASSUME NEW t \in SUBSET s, t # s
        PROVE  AddsUp(F(t), v, t)
    <3>1. PICK x \in s : x \notin t
      BY <2>1
    <3>2. PICK g : AddsUp(g, v, s \ {x})
      BY <1>2
    <3>3. AddsUp([u \in SUBSET t |-> g[u]], v, t)
      <4> DEFINE h == [u \in SUBSET t |-> g[u]]
      <4>1. \A u \in SUBSET (s \ {x}) : g[u] = IF u = {} THEN 0 ELSE v[OneOf(u)] + g[u \ {OneOf(u)}]
        BY <3>2, Zenon DEF AddsUp
      <4>2. \A u \in SUBSET t : u \in SUBSET (s \ {x})
        BY <3>1
      <4>3. h = [u \in SUBSET t |-> IF u = {} THEN 0 ELSE v[OneOf(u)] + h[u \ {OneOf(u)}]]
        BY <4>1, <4>2
      <4> HIDE DEF h
      <4>4. AddsUp(h, v, t)
        BY <4>3, Zenon DEF AddsUp
      <4> QED
        BY <4>4 DEF h
    <3> QED
      BY <3>3, Zenon
  <2>2. ASSUME NEW u \in SUBSET s, u # s
        PROVE  F(u)[u] = f[u]
    <3>1. AddsUp(F(u), v, u)
      BY <2>1, <2>2
    <3> HIDE DEF F
    <3>2. F(u)[u] = IF u = {} THEN 0 ELSE v[OneOf(u)] + F(u)[u \ {OneOf(u)}]
      BY <3>1, Zenon DEF AddsUp
    <3>3. f[u] = IF u = {} THEN 0 ELSE v[OneOf(u)] + F(u \ {OneOf(u)})[u \ {OneOf(u)}]
      BY Zenon
    <3> HIDE DEF f
    <3>4. CASE u # {}
      <4>1. PICK w : w = u \ {OneOf(u)}
        OBVIOUS
      <4>2. w \in SUBSET s /\ w # s /\ w \subseteq u
        BY <3>4, <4>1, OneOfIsIn
      <4>3. AddsUp(F(w), v, w)
        BY <2>1, <4>2
      <4>4. IsFiniteSet(w)
        BY <2>0, <4>2
      <4>5. F(w)[w] = F(u)[w]
        BY <3>1, <4>2, <4>3, <4>4, SumsAgree
      <4> QED
        BY <3>2, <3>3, <3>4, <4>1, <4>5
    <3> QED
      BY <3>2, <3>3, <3>4
  <2>3. f = [t \in SUBSET s |-> IF t = {} THEN 0 ELSE v[OneOf(t)] + f[t \ {OneOf(t)}]]
    <3>1. \A t \in SUBSET s : t # {} => F(t \ {OneOf(t)})[t \ {OneOf(t)}] = f[t \ {OneOf(t)}]
      <4> SUFFICES ASSUME NEW t \in SUBSET s, t # {}
          PROVE  F(t \ {OneOf(t)})[t \ {OneOf(t)}] = f[t \ {OneOf(t)}]
        OBVIOUS
      <4>1. t \ {OneOf(t)} \in SUBSET s /\ t \ {OneOf(t)} # s
        BY OneOfIsIn
      <4> HIDE DEF F, f
      <4> QED
        BY <2>2, <4>1
    <3> HIDE DEF F
    <3> QED
      BY <3>1
  <2>4. AddsUp(f, v, s)
    BY <2>3, Zenon DEF AddsUp
  <2> QED
    BY <2>4
<1> HIDE DEF G, F
<1>3. \A s \in SUBSET S : s \in G
  BY <1>1, <1>2, SubsetInduction
<1> QED
  BY <1>3 DEF G

LEMMA SumsUnfold ==
  ASSUME NEW v, NEW S, IsFiniteSet(S)
  PROVE  /\ SumOver(v, {}) = 0
         /\ S # {} => SumOver(v, S) = v[OneOf(S)] + SumOver(v, S \ {OneOf(S)})
<1>1. ASSUME NEW T, IsFiniteSet(T)
      PROVE  /\ AddsUp(CHOOSE f : AddsUp(f, v, T), v, T)
             /\ SumOver(v, T) = (CHOOSE f : AddsUp(f, v, T))[T]
  <2>1. \E f : AddsUp(f, v, T)
    BY <1>1, SumsExist
  <2> QED
    BY <2>1, Zenon DEF SumOver
<1>2. SumOver(v, {}) = 0
  <2>1. PICK f : AddsUp(f, v, {}) /\ SumOver(v, {}) = f[{}]
    BY <1>1, FS_EmptySet, Zenon
  <2>2. f[{}] = IF {} = {} THEN 0 ELSE v[OneOf({})] + f[{} \ {OneOf({})}]
    BY <2>1, Zenon DEF AddsUp
  <2> QED
    BY <2>1, <2>2
<1>3. ASSUME S # {} PROVE SumOver(v, S) = v[OneOf(S)] + SumOver(v, S \ {OneOf(S)})
  <2>1. PICK r : r = S \ {OneOf(S)}
    OBVIOUS
  <2>2. IsFiniteSet(r) /\ r \subseteq S
    BY <2>1, FS_Subset
  <2>3. PICK f : AddsUp(f, v, S) /\ SumOver(v, S) = f[S]
    BY <1>1, Zenon
  <2>4. PICK g : AddsUp(g, v, r) /\ SumOver(v, r) = g[r]
    BY <1>1, <2>2, Zenon
  <2>5. g[r] = f[r]
    <3>1. \A t \in SUBSET r : g[t] = f[t]
      BY <2>2, <2>3, <2>4, SumsAgree
    <3> QED
      BY <3>1
  <2>6. f[S] = IF S = {} THEN 0 ELSE v[OneOf(S)] + f[S \ {OneOf(S)}]
    BY <2>3, Zenon DEF AddsUp
  <2> QED
    BY <1>3, <2>1, <2>3, <2>4, <2>5, <2>6
<1> QED
  BY <1>2, <1>3

LEMMA SumOfNone == \A v : SumOver(v, {}) = 0
BY SumsUnfold, FS_EmptySet

LEMMA SumsAreInt ==
  ASSUME NEW v, NEW S, IsFiniteSet(S), \A x \in S : v[x] \in Int
  PROVE  \A s \in SUBSET S : SumOver(v, s) \in Int
<1> DEFINE G == {s \in SUBSET S : SumOver(v, s) \in Int}
<1>1. {} \in G
  BY SumOfNone
<1>2. ASSUME NEW s \in SUBSET S, s # {}, \A x \in s : s \ {x} \in G
      PROVE  s \in G
  <2>1. IsFiniteSet(s) /\ OneOf(s) \in s
    BY <1>2, FS_Subset, OneOfIsIn
  <2>2. SumOver(v, s) = v[OneOf(s)] + SumOver(v, s \ {OneOf(s)})
    BY <1>2, <2>1, SumsUnfold
  <2> QED
    BY <1>2, <2>1, <2>2
<1> HIDE DEF G
<1>3. \A s \in SUBSET S : s \in G
  BY <1>1, <1>2, SubsetInduction
<1> QED
  BY <1>3 DEF G

LEMMA SumsAreNat ==
  ASSUME NEW v, NEW S, IsFiniteSet(S), \A x \in S : v[x] \in Nat
  PROVE  SumOver(v, S) \in Nat
<1> DEFINE G == {s \in SUBSET S : SumOver(v, s) \in Nat}
<1>1. {} \in G
  BY SumOfNone
<1>2. ASSUME NEW s \in SUBSET S, s # {}, \A x \in s : s \ {x} \in G
      PROVE  s \in G
  <2>1. IsFiniteSet(s) /\ OneOf(s) \in s
    BY <1>2, FS_Subset, OneOfIsIn
  <2>2. SumOver(v, s) = v[OneOf(s)] + SumOver(v, s \ {OneOf(s)})
    BY <1>2, <2>1, SumsUnfold
  <2> QED
    BY <1>2, <2>1, <2>2
<1> HIDE DEF G
<1>3. \A s \in SUBSET S : s \in G
  BY <1>1, <1>2, SubsetInduction
<1> QED
  BY <1>3 DEF G

\* It does not matter which element is added last.
LEMMA SumWithout ==
  ASSUME NEW v, NEW S, IsFiniteSet(S), \A x \in S : v[x] \in Int
  PROVE  \A s \in SUBSET S : \A y \in s : SumOver(v, s) = v[y] + SumOver(v, s \ {y})
<1> DEFINE G == {s \in SUBSET S : \A y \in s : SumOver(v, s) = v[y] + SumOver(v, s \ {y})}
<1>1. {} \in G
  OBVIOUS
<1>2. ASSUME NEW s \in SUBSET S, s # {}, \A x \in s : s \ {x} \in G
      PROVE  s \in G
  <2> SUFFICES ASSUME NEW y \in s PROVE SumOver(v, s) = v[y] + SumOver(v, s \ {y})
    OBVIOUS
  <2>1. PICK a \in s : a = OneOf(s)
    BY <1>2, OneOfIsIn
  <2>2. SumOver(v, s) = v[a] + SumOver(v, s \ {a})
    <3>1. IsFiniteSet(s)
      BY FS_Subset
    <3> QED
      BY <1>2, <2>1, <3>1, SumsUnfold
  <2>3. CASE y # a
    <3>1. PICK r : r = (s \ {a}) \ {y} /\ r = (s \ {y}) \ {a}
      OBVIOUS
    <3>2. SumOver(v, s \ {a}) = v[y] + SumOver(v, r)
      BY <1>2, <2>3, <3>1
    <3>3. SumOver(v, s \ {y}) = v[a] + SumOver(v, r)
      BY <1>2, <2>3, <3>1
    <3>4. SumOver(v, r) \in Int /\ v[a] \in Int /\ v[y] \in Int
      <4>1. r \in SUBSET S
        BY <3>1
      <4> QED
        BY <4>1, SumsAreInt
    <3> QED
      BY <2>2, <3>2, <3>3, <3>4
  <2> QED
    BY <2>2, <2>3
<1> HIDE DEF G
<1>3. \A s \in SUBSET S : s \in G
  BY <1>1, <1>2, SubsetInduction
<1> QED
  BY <1>3 DEF G

\* A bound on every value bounds the sum.
LEMMA SumIsBounded ==
  ASSUME NEW S, IsFiniteSet(S), NEW u, NEW v, \A x \in S : u[x] \in Int /\ v[x] \in Int,
         NEW a \in Int, NEW b \in Int, NEW c \in Int, \A x \in S : a * u[x] <= b * v[x] + c
  PROVE  a * SumOver(u, S) <= b * SumOver(v, S) + c * Cardinality(S)
<1> DEFINE Holds(s) == a * SumOver(u, s) <= b * SumOver(v, s) + c * Cardinality(s)
           G == {s \in SUBSET S : Holds(s)}
<1>1. {} \in G
  <2>1. a * 0 <= b * 0 + c * 0
    OBVIOUS
  <2> QED
    BY <2>1, SumOfNone, FS_EmptySet
<1>2. ASSUME NEW s \in SUBSET S, s # {}, \A x \in s : s \ {x} \in G
      PROVE  s \in G
  <2>1. PICK x \in s : SumOver(u, s) = u[x] + SumOver(u, s \ {x})
    BY <1>2, SumWithout
  <2>2. SumOver(v, s) = v[x] + SumOver(v, s \ {x})
    BY SumWithout
  <2>3. PICK m \in Nat : Cardinality(s \ {x}) = m /\ Cardinality(s) = m + 1
    <3>1. IsFiniteSet(s)
      BY FS_Subset
    <3>2. IsFiniteSet(s \ {x}) /\ Cardinality(s \ {x}) = Cardinality(s) - 1
      BY <3>1, FS_RemoveElement
    <3>3. Cardinality(s) \in Nat /\ Cardinality(s \ {x}) \in Nat
      BY <3>1, <3>2, FS_CardinalityType
    <3> QED
      BY <3>2, <3>3
  <2>4. PICK p \in Int, q \in Int : p = SumOver(u, s \ {x}) /\ q = SumOver(v, s \ {x})
    BY SumsAreInt
  <2>5. PICK y \in Int, z \in Int : y = u[x] /\ z = v[x]
    OBVIOUS
  <2>6. a * p <= b * q + c * m
    BY <1>2, <2>3, <2>4
  <2>7. a * y <= b * z + c
    BY <2>5
  <2>8. a * (y + p) = a * y + a * p /\ b * (z + q) = b * z + b * q /\ c * (m + 1) = c * m + c
    OBVIOUS
  <2>9. a * (y + p) <= b * (z + q) + c * (m + 1)
    BY <2>6, <2>7, <2>8
  <2> QED
    BY <2>1, <2>2, <2>3, <2>4, <2>5, <2>9
<1> HIDE DEF G
<1>3. \A s \in SUBSET S : s \in G
  BY <1>1, <1>2, SubsetInduction
<1> QED
  BY <1>3 DEF G

\* What is drawn from a set of amounts, each of them once, is at most their sum.
LEMMA DrawnIsWithin ==
  ASSUME NEW P, IsFiniteSet(P), NEW X, IsFiniteSet(X), NEW v, NEW w, NEW j,
         \A p \in P : v[p] \in Int, \A x \in X : w[x] \in Nat,
         \A p \in P : v[p] <= 0 \/ (j[p] \in X /\ v[p] <= w[j[p]]),
         \A p, q \in P : v[p] > 0 /\ v[q] > 0 /\ p # q => j[p] # j[q]
  PROVE  SumOver(v, P) <= SumOver(w, X)
<1> DEFINE Drawn(s, T) == \A p \in s : v[p] <= 0 \/ j[p] \in T
           G == {s \in SUBSET P : \A T \in SUBSET X : Drawn(s, T) => SumOver(v, s) <= SumOver(w, T)}
<1>1. \A T \in SUBSET X : SumOver(w, T) \in Int
  BY SumsAreInt
<1>2. \A s \in SUBSET P : SumOver(v, s) \in Int
  BY SumsAreInt
<1>3. \A T \in SUBSET X : SumOver(w, T) >= 0
  <2> DEFINE N == {T \in SUBSET X : SumOver(w, T) >= 0}
  <2>1. {} \in N
    BY SumOfNone
  <2>2. ASSUME NEW T \in SUBSET X, T # {}, \A x \in T : T \ {x} \in N
        PROVE  T \in N
    <3>1. PICK x \in T : SumOver(w, T) = w[x] + SumOver(w, T \ {x})
      BY <2>2, SumWithout
    <3>2. SumOver(w, T \ {x}) \in Int /\ SumOver(w, T \ {x}) >= 0 /\ w[x] \in Nat
      BY <1>1, <2>2
    <3> QED
      BY <3>1, <3>2
  <2> HIDE DEF N
  <2>3. \A T \in SUBSET X : T \in N
    BY <2>1, <2>2, SubsetInduction
  <2> QED
    BY <2>3 DEF N
<1>4. {} \in G
  BY <1>3, SumOfNone
<1>5. ASSUME NEW s \in SUBSET P, s # {}, \A x \in s : s \ {x} \in G
      PROVE  s \in G
  <2> SUFFICES ASSUME NEW T \in SUBSET X, Drawn(s, T) PROVE SumOver(v, s) <= SumOver(w, T)
    OBVIOUS
  <2>1. PICK a \in s : SumOver(v, s) = v[a] + SumOver(v, s \ {a})
    BY <1>5, SumWithout
  <2>2. SumOver(v, s \ {a}) \in Int /\ v[a] \in Int
    BY <1>2
  <2>3. CASE v[a] <= 0
    <3>1. SumOver(v, s \ {a}) <= SumOver(w, T)
      BY <1>5
    <3> QED
      BY <1>1, <2>1, <2>2, <2>3, <3>1
  <2>4. CASE v[a] > 0
    <3>1. j[a] \in T /\ v[a] <= w[j[a]] /\ w[j[a]] \in Nat
      BY <2>2, <2>4
    <3>2. SumOver(w, T) = w[j[a]] + SumOver(w, T \ {j[a]})
      BY <3>1, SumWithout
    <3>3. Drawn(s \ {a}, T \ {j[a]})
      BY <2>4
    <3>4. SumOver(v, s \ {a}) <= SumOver(w, T \ {j[a]})
      BY <1>5, <3>3
    <3>5. SumOver(w, T \ {j[a]}) \in Int
      BY <1>1
    <3> QED
      BY <2>1, <2>2, <3>1, <3>2, <3>4, <3>5
  <2> QED
    BY <2>2, <2>3, <2>4
<1> HIDE DEF G
<1>6. \A s \in SUBSET P : s \in G
  BY <1>4, <1>5, SubsetInduction
<1>7. \A p \in P : v[p] <= 0 \/ j[p] \in X
  OBVIOUS
<1> QED
  BY <1>6, <1>7 DEF G

------------------------------------------------------------------------------
(***************************************************************************)
(* Ranks.                                                                  *)
(***************************************************************************)

\* Fractions with positive denominators, of which one or the other may be the greater.
IsFraction(x) == x[1] \in Int /\ x[2] \in Nat /\ x[2] > 0

LEMMA GreaterIsAsymmetric ==
  ASSUME NEW x, NEW y, IsFraction(x), IsFraction(y), Exceeds(x, y)
  PROVE  ~Exceeds(y, x)
<1> DEFINE a == x[1] * y[2]
           b == y[1] * x[2]
<1>1. a \in Int /\ b \in Int  BY DEF IsFraction
<1>2. a > b  BY DEF Exceeds
<1> HIDE DEF a, b
<1>3. ~(b > a)  BY <1>1, <1>2
<1> QED  BY <1>3 DEF Exceeds, a, b

LEMMA Scaled ==
  ASSUME NEW a \in Int, NEW b \in Int, NEW c \in Nat, c > 0
  PROVE  a <= b <=> a * c <= b * c
<1>1. a <= b => a * c <= b * c  OBVIOUS
<1>2. ~(a <= b) => b * c < a * c
  <2> SUFFICES ASSUME b < a PROVE b * c < a * c  OBVIOUS
  <2>1. (a - b) * c > 0  OBVIOUS
  <2>2. (a - b) * c = a * c - b * c  OBVIOUS
  <2> QED  BY <2>1, <2>2
<1> QED  BY <1>1, <1>2

LEMMA NotGreaterIsTransitive ==
  ASSUME NEW x, NEW y, NEW z, IsFraction(x), IsFraction(y), IsFraction(z),
         ~Exceeds(x, y), ~Exceeds(y, z)
  PROVE  ~Exceeds(x, z)
<1> PICK x1 \in Int, x2 \in Nat : x1 = x[1] /\ x2 = x[2] /\ x2 > 0  BY DEF IsFraction
<1> PICK y1 \in Int, y2 \in Nat : y1 = y[1] /\ y2 = y[2] /\ y2 > 0  BY DEF IsFraction
<1> PICK z1 \in Int, z2 \in Nat : z1 = z[1] /\ z2 = z[2] /\ z2 > 0  BY DEF IsFraction
<1>1. x1 * y2 <= y1 * x2 /\ y1 * z2 <= z1 * y2  BY DEF Exceeds
<1>2. (x1 * y2) * z2 <= (y1 * x2) * z2  BY <1>1, Scaled
<1>3. (y1 * z2) * x2 <= (z1 * y2) * x2  BY <1>1, Scaled
<1>4. (y1 * x2) * z2 = (y1 * z2) * x2  OBVIOUS
<1>5. (x1 * y2) * z2 = (x1 * z2) * y2 /\ (z1 * y2) * x2 = (z1 * x2) * y2  OBVIOUS
<1>6. (x1 * z2) * y2 <= (z1 * x2) * y2  BY <1>2, <1>3, <1>4, <1>5
<1>7. x1 * z2 <= z1 * x2  BY <1>6, Scaled
<1> QED  BY <1>7 DEF Exceeds

------------------------------------------------------------------------------
\* The library's sum of a function is the sum over its domain.
LEMMA SumsAreOver ==
  ASSUME NEW f, IsFiniteSet(DOMAIN f)
  PROVE  SumFunction(f) = SumOver(f, DOMAIN f)
<1> DEFINE S == DOMAIN f
           Adds(g) == g = [s \in SUBSET S |-> IF s = {} THEN 0 ELSE f[OneOf(s)] + g[s \ {OneOf(s)}]]
<1>1. SumFunction(f) = (CHOOSE g : Adds(g))[S]
  BY Zenon DEF SumFunction, SumFunctionOnSet, FoldFunctionOnSet, MapThenFoldSet, OneOf
<1>2. \A g : Adds(g) <=> AddsUp(g, f, S)
  BY Zenon DEF AddsUp
<1>3. PICK g : g = (CHOOSE h : Adds(h)) /\ AddsUp(g, f, S)
  <2>1. \E h : Adds(h)
    BY <1>2, SumsExist
  <2> HIDE DEF Adds
  <2>2. Adds(CHOOSE h : Adds(h))
    BY <2>1, Zenon
  <2> QED
    BY <1>2, <2>2
<1>4. PICK h : h = (CHOOSE k : AddsUp(k, f, S)) /\ AddsUp(h, f, S)
  BY SumsExist, Zenon
<1>5. \A s \in SUBSET S : g[s] = h[s]
  BY <1>3, <1>4, SumsAgree
<1> HIDE DEF Adds
<1> QED
  BY <1>1, <1>3, <1>4, <1>5 DEF SumOver

LEMMA SumsOfEquals ==
  ASSUME NEW u, NEW v, NEW S, IsFiniteSet(S), \A x \in S : u[x] = v[x] /\ v[x] \in Int
  PROVE  SumOver(u, S) = SumOver(v, S)
<1> DEFINE G == {s \in SUBSET S : SumOver(u, s) = SumOver(v, s)}
<1>1. {} \in G
  BY SumOfNone
<1>2. ASSUME NEW s \in SUBSET S, s # {}, \A x \in s : s \ {x} \in G
      PROVE  s \in G
  <2>1. PICK x \in s : TRUE
    BY <1>2
  <2>2. SumOver(u, s) = u[x] + SumOver(u, s \ {x}) /\ SumOver(v, s) = v[x] + SumOver(v, s \ {x})
    BY SumWithout
  <2>3. SumOver(u, s \ {x}) = SumOver(v, s \ {x})
    BY <1>2
  <2> QED
    BY <2>2, <2>3
<1> HIDE DEF G
<1>3. \A s \in SUBSET S : s \in G
  BY <1>1, <1>2, SubsetInduction
<1> QED
  BY <1>3 DEF G

\* The sums of two parts make the sum of the whole.
LEMMA SumOfParts ==
  ASSUME NEW v, NEW S, IsFiniteSet(S), \A x \in S : v[x] \in Int, NEW T \in SUBSET S
  PROVE  SumOver(v, S) = SumOver(v, T) + SumOver(v, S \ T)
<1> DEFINE G == {s \in SUBSET S : SumOver(v, s) = SumOver(v, s \cap T) + SumOver(v, s \ T)}
<1>1. {} \in G
  <2>1. {} \cap T = {} /\ {} \ T = {}
    OBVIOUS
  <2> QED
    BY <2>1, SumOfNone
<1>2. ASSUME NEW s \in SUBSET S, s # {}, \A x \in s : s \ {x} \in G
      PROVE  s \in G
  <2>1. PICK x \in s : TRUE
    BY <1>2
  <2>2. PICK r : r = s \ {x} /\ r \in SUBSET S /\ r \cap T \in SUBSET S /\ r \ T \in SUBSET S
    OBVIOUS
  <2>3. SumOver(v, s) = v[x] + SumOver(v, r)
    BY <2>2, SumWithout
  <2>4. SumOver(v, r) = SumOver(v, r \cap T) + SumOver(v, r \ T)
    BY <1>2, <2>2
  <2>5. PICK y \in Int, m \in Int, n \in Int : y = v[x] /\ m = SumOver(v, r \cap T) /\ n = SumOver(v, r \ T)
    BY <2>2, SumsAreInt
  <2>6. CASE x \in T
    <3>1. s \ T = r \ T /\ (s \cap T) \ {x} = r \cap T /\ x \in s \cap T /\ s \cap T \in SUBSET S
      BY <2>2, <2>6
    <3>2. SumOver(v, s \cap T) = v[x] + SumOver(v, (s \cap T) \ {x})
      BY <3>1, SumWithout
    <3>3. SumOver(v, s) = y + (m + n) /\ SumOver(v, s \cap T) = y + m /\ SumOver(v, s \ T) = n
      BY <2>3, <2>4, <2>5, <3>1, <3>2
    <3>4. y + (m + n) = (y + m) + n
      OBVIOUS
    <3> QED
      BY <3>3, <3>4
  <2>7. CASE x \notin T
    <3>1. s \cap T = r \cap T /\ (s \ T) \ {x} = r \ T /\ x \in s \ T /\ s \ T \in SUBSET S
      BY <2>2, <2>7
    <3>2. SumOver(v, s \ T) = v[x] + SumOver(v, (s \ T) \ {x})
      BY <3>1, SumWithout
    <3>3. SumOver(v, s) = y + (m + n) /\ SumOver(v, s \ T) = y + n /\ SumOver(v, s \cap T) = m
      BY <2>3, <2>4, <2>5, <3>1, <3>2
    <3>4. y + (m + n) = m + (y + n)
      OBVIOUS
    <3> QED
      BY <3>3, <3>4
  <2> QED
    BY <2>6, <2>7
<1> HIDE DEF G
<1>3. \A s \in SUBSET S : s \in G
  BY <1>1, <1>2, SubsetInduction
<1>4. S \cap T = T
  OBVIOUS
<1> QED
  BY <1>3, <1>4 DEF G

\* A sum does not depend on what its terms are called.
LEMMA SumRenamed ==
  ASSUME NEW S, IsFiniteSet(S), NEW T, IsFiniteSet(T), NEW b \in Bijection(S, T),
         NEW u, NEW v, \A y \in T : v[y] \in Int, \A x \in S : u[x] = v[b[x]]
  PROVE  SumOver(u, S) = SumOver(v, T)
<1> DEFINE Image(s) == {y \in T : \E x \in s : y = b[x]}
           G == {s \in SUBSET S : SumOver(u, s) = SumOver(v, Image(s))}
<1>0. /\ \A x \in S : b[x] \in T
      /\ \A x, y \in S : b[x] = b[y] => x = y
      /\ \A y \in T : \E x \in S : b[x] = y
  BY Fun_BijectionProperties
<1>00. \A x \in S : u[x] \in Int
  BY <1>0
<1>1. {} \in G
  <2>1. Image({}) = {}
    OBVIOUS
  <2> HIDE DEF Image
  <2> QED
    BY <2>1, SumOfNone
<1>2. ASSUME NEW s \in SUBSET S, s # {}, \A x \in s : s \ {x} \in G
      PROVE  s \in G
  <2>1. PICK x \in s : TRUE
    BY <1>2
  <2>2. SumOver(u, s) = u[x] + SumOver(u, s \ {x})
    BY <1>00, SumWithout
  <2>3. Image(s \ {x}) = Image(s) \ {b[x]} /\ b[x] \in Image(s) /\ Image(s) \in SUBSET T
    BY <1>0
  <2>4. SumOver(u, s \ {x}) = SumOver(v, Image(s \ {x}))
    BY <1>2
  <2> HIDE DEF Image
  <2>5. SumOver(v, Image(s)) = v[b[x]] + SumOver(v, Image(s) \ {b[x]})
    BY <2>3, SumWithout
  <2> QED
    BY <2>2, <2>3, <2>4, <2>5
<1>3. Image(S) = T
  BY <1>0
<1> HIDE DEF G
<1>4. \A s \in SUBSET S : s \in G
  BY <1>1, <1>2, SubsetInduction
<1>5. S \in G
  BY <1>4
<1> HIDE DEF Image
<1> QED
  BY <1>3, <1>5 DEF G

\* Of disjoint sets the sizes add up to that of their union.
Together(part, S) == UNION {part[x] : x \in S}

LEMMA SizesAddUp ==
  ASSUME NEW S, IsFiniteSet(S), NEW part, \A x \in S : IsFiniteSet(part[x]),
         \A x, y \in S : x # y => part[x] \cap part[y] = {},
         NEW size, \A x \in S : size[x] = Cardinality(part[x])
  PROVE  /\ IsFiniteSet(Together(part, S))
         /\ SumOver(size, S) = Cardinality(Together(part, S))
<1> DEFINE All(s) == UNION {part[x] : x \in s}
           G == {s \in SUBSET S : IsFiniteSet(All(s)) /\ SumOver(size, s) = Cardinality(All(s))}
<1>0. \A x \in S : size[x] \in Int
  BY FS_CardinalityType
<1>1. {} \in G
  <2>1. All({}) = {}
    OBVIOUS
  <2> HIDE DEF All
  <2> QED
    BY <2>1, SumOfNone, FS_EmptySet
<1>2. ASSUME NEW s \in SUBSET S, s # {}, \A x \in s : s \ {x} \in G
      PROVE  s \in G
  <2>1. PICK x \in s : TRUE
    BY <1>2
  <2>2. SumOver(size, s) = size[x] + SumOver(size, s \ {x})
    BY <1>0, SumWithout
  <2>3. PICK rest : rest = All(s \ {x})
    OBVIOUS
  <2>4. IsFiniteSet(rest) /\ SumOver(size, s \ {x}) = Cardinality(rest)
    BY <1>2, <2>3
  <2>5. All(s) = part[x] \cup rest
    BY <2>3
  <2>6. part[x] \cap rest = {}
    <3>1. \A z \in rest : \E y \in s : y # x /\ z \in part[y]
      BY <2>3
    <3>2. \A y \in s : y # x => part[x] \cap part[y] = {}
      OBVIOUS
    <3> QED
      BY <3>1, <3>2
  <2> HIDE DEF All
  <2>7. IsFiniteSet(part[x])
    OBVIOUS
  <2>8. IsFiniteSet(All(s)) /\ Cardinality(All(s)) = Cardinality(part[x]) + Cardinality(rest) - Cardinality(part[x] \cap rest)
    BY <2>4, <2>5, <2>7, FS_Union
  <2>9. Cardinality(part[x]) \in Nat /\ Cardinality(rest) \in Nat
    BY <2>4, <2>7, FS_CardinalityType
  <2>10. Cardinality(part[x] \cap rest) = 0
    BY <2>6, FS_EmptySet
  <2> QED
    BY <2>2, <2>4, <2>8, <2>9, <2>10
<1> HIDE DEF G
<1>3. \A s \in SUBSET S : s \in G
  BY <1>1, <1>2, SubsetInduction
<1> QED
  BY <1>3 DEF G, Together

------------------------------------------------------------------------------
(***************************************************************************)
(* Sorts.  A place for each element after those before it gives every      *)
(* place once, so the elements by their places are all of them, once each. *)
(***************************************************************************)

\* R orders I totally and strictly.
OrdersTotally(R, I) ==
  /\ \A i \in I : <<i, i>> \notin R
  /\ \A i, j \in I : i # j => <<i, j>> \in R \/ <<j, i>> \in R
  /\ \A i, j, k \in I : <<i, j>> \in R /\ <<j, k>> \in R => <<i, k>> \in R

PlacesBy(I, R) == [i \in I |-> 1 + Cardinality({j \in I : <<j, i>> \in R})]

LEMMA SortsArePlacings ==
  ASSUME NEW I, IsFiniteSet(I), NEW R, OrdersTotally(R, I)
  PROVE  /\ PlacesBy(I, R) \in Bijection(I, 1 .. Cardinality(I))
         /\ \A i, j \in I : <<i, j>> \in R => PlacesBy(I, R)[i] < PlacesBy(I, R)[j]
<1> DEFINE Above(i) == {j \in I : <<j, i>> \in R}
           places == PlacesBy(I, R)
<1>1. ASSUME NEW i \in I
      PROVE  /\ IsFiniteSet(Above(i)) /\ Cardinality(Above(i)) \in Nat
             /\ Cardinality(Above(i)) < Cardinality(I)
  <2>1. Above(i) \in SUBSET I /\ i \notin Above(i)
    BY DEF OrdersTotally
  <2>2. IsFiniteSet(Above(i)) /\ Cardinality(Above(i)) <= Cardinality(I)
        /\ (Cardinality(I) = Cardinality(Above(i)) => I = Above(i))
    BY <2>1, FS_Subset, Zenon
  <2>3. Cardinality(Above(i)) \in Nat /\ Cardinality(I) \in Nat
    BY <2>2, FS_CardinalityType
  <2>4. Cardinality(I) # Cardinality(Above(i))
    BY <2>1, <2>2
  <2> HIDE DEF Above
  <2> QED
    BY <2>2, <2>3, <2>4
<1>2. ASSUME NEW i \in I, NEW j \in I, <<i, j>> \in R
      PROVE  Cardinality(Above(i)) < Cardinality(Above(j))
  <2>1. Above(i) \in SUBSET Above(j)
    BY <1>2 DEF OrdersTotally
  <2>2. i \in Above(j) /\ i \notin Above(i)
    BY <1>2 DEF OrdersTotally
  <2> HIDE DEF Above
  <2>3. Cardinality(Above(i)) <= Cardinality(Above(j))
        /\ (Cardinality(Above(j)) = Cardinality(Above(i)) => Above(j) = Above(i))
    BY <1>1, <2>1, FS_Subset, Zenon
  <2>4. Cardinality(Above(i)) \in Nat /\ Cardinality(Above(j)) \in Nat
    BY <1>1
  <2>5. Cardinality(Above(j)) # Cardinality(Above(i))
    BY <2>2, <2>3, Zenon
  <2> QED
    BY <2>3, <2>4, <2>5
<1>3. places = [i \in I |-> 1 + Cardinality(Above(i))]
  BY DEF PlacesBy
<1> HIDE DEF Above, places
<1>4. Cardinality(I) \in Nat
  BY FS_CardinalityType
<1>5. places \in [I -> 1 .. Cardinality(I)]
  BY <1>1, <1>3, <1>4
<1>6. \A i, j \in I : <<i, j>> \in R => places[i] < places[j]
  BY <1>1, <1>2, <1>3
<1>7. \A i, j \in I : places[i] = places[j] => i = j
  <2> SUFFICES ASSUME NEW i \in I, NEW j \in I, i # j PROVE places[i] # places[j]
    OBVIOUS
  <2>1. places[i] < places[j] \/ places[j] < places[i]
    BY <1>6 DEF OrdersTotally
  <2>2. places[i] \in Int /\ places[j] \in Int
    BY <1>4, <1>5
  <2> QED
    BY <2>1, <2>2
<1>8. places \in Injection(I, 1 .. Cardinality(I))
  BY <1>5, <1>7, Fun_IsInj
<1>9. IsFiniteSet(1 .. Cardinality(I)) /\ Cardinality(1 .. Cardinality(I)) = Cardinality(I)
  BY <1>4, FS_Interval
<1>10. places \in Surjection(I, 1 .. Cardinality(I))
  BY <1>8, <1>9, FS_Injection
<1> QED
  BY <1>6, <1>8, <1>10 DEF places, Bijection

\* s lists the elements of I, once each.
Lists(s, I) ==
  /\ s \in Seq(I) /\ Len(s) = Cardinality(I) /\ DOMAIN s = 1 .. Cardinality(I)
  /\ s \in Bijection(1 .. Cardinality(I), I)

LEMMA ArrangedLists ==
  ASSUME NEW I, IsFiniteSet(I), NEW places, places \in Bijection(I, 1 .. Cardinality(I))
  PROVE  /\ Lists(Arranged(places), I)
         /\ \A i \in I : Arranged(places)[places[i]] = i
<1> DEFINE s == Arranged(places)
           m == Cardinality(I)
<1>1. m \in Nat
  BY FS_CardinalityType
<1>2. DOMAIN places = I
  BY Fun_BijectionProperties
<1>3. s = Inverse(places, I, 1 .. m)
  BY <1>2 DEF Arranged
<1> HIDE DEF s, m
<1>4. places \in Bijection(I, 1 .. m)
  BY DEF m
<1>5. s \in Bijection(1 .. m, I) /\ \A i \in I : s[places[i]] = i
  BY <1>3, <1>4, Fun_BijInverse
<1>6. s \in [1 .. m -> I]
  BY <1>5, Fun_BijectionProperties
<1>7. s \in Seq(I) /\ Len(s) = m
  <2>1. s \in Seq(I)
    BY <1>1, <1>6, SeqDef
  <2>2. DOMAIN s = 1 .. Len(s) /\ Len(s) \in Nat
    BY <2>1, LenProperties
  <2> QED
    BY <1>1, <1>6, <2>1, <2>2
<1> QED
  BY <1>5, <1>6, <1>7 DEF Lists, s, m

\* A sort by a key in descending order, those of one key by another in ascending order.
KeyPlaces(I, key, tie) ==
  [i \in I |-> 1 + Cardinality({j \in I : key[j] > key[i] \/ (key[j] = key[i] /\ tie[j] < tie[i])})]
Sorted(I, key, tie) == Arranged(KeyPlaces(I, key, tie))

LEMMA SortedLists ==
  ASSUME NEW I, IsFiniteSet(I), NEW key, NEW tie, \A i \in I : key[i] \in Int /\ tie[i] \in Int,
         \A i, j \in I : tie[i] = tie[j] => i = j
  PROVE  /\ Lists(Sorted(I, key, tie), I)
         /\ \A i \in I : (\A j \in I : i # j => key[i] > key[j]) => Sorted(I, key, tie)[1] = i
<1> DEFINE Before(i, j) == key[i] > key[j] \/ (key[i] = key[j] /\ tie[i] < tie[j])
           R == {r \in I \X I : Before(r[1], r[2])}
           places == KeyPlaces(I, key, tie)
<1>1. \A i, j \in I : <<i, j>> \in R <=> Before(i, j)
  OBVIOUS
<1>2. places = PlacesBy(I, R)
  <2>1. \A i \in I : {j \in I : Before(j, i)} = {j \in I : <<j, i>> \in R}
    BY <1>1
  <2> HIDE DEF R
  <2> QED
    BY <2>1 DEF KeyPlaces, PlacesBy
<1> HIDE DEF R, places
<1>3. OrdersTotally(R, I)
  <2>1. \A i \in I : ~Before(i, i)
    OBVIOUS
  <2>2. \A i, j \in I : i # j => Before(i, j) \/ Before(j, i)
    <3> SUFFICES ASSUME NEW i \in I, NEW j \in I, i # j PROVE Before(i, j) \/ Before(j, i)
      OBVIOUS
    <3>1. tie[i] # tie[j] /\ tie[i] \in Int /\ tie[j] \in Int /\ key[i] \in Int /\ key[j] \in Int
      OBVIOUS
    <3> QED
      BY <3>1
  <2>3. \A i, j, k \in I : Before(i, j) /\ Before(j, k) => Before(i, k)
    <3> SUFFICES ASSUME NEW i \in I, NEW j \in I, NEW k \in I, Before(i, j), Before(j, k) PROVE Before(i, k)
      OBVIOUS
    <3>1. /\ tie[i] \in Int /\ tie[j] \in Int /\ tie[k] \in Int
          /\ key[i] \in Int /\ key[j] \in Int /\ key[k] \in Int
      OBVIOUS
    <3> QED
      BY <3>1
  <2> HIDE DEF Before
  <2> QED
    BY <1>1, <2>1, <2>2, <2>3 DEF OrdersTotally
<1>4. /\ places \in Bijection(I, 1 .. Cardinality(I))
      /\ \A i, j \in I : <<i, j>> \in R => places[i] < places[j]
  BY <1>2, <1>3, SortsArePlacings
<1>5. /\ Lists(Arranged(places), I)
      /\ \A i \in I : Arranged(places)[places[i]] = i
  BY <1>4, ArrangedLists
<1>6. ASSUME NEW i \in I, \A j \in I : i # j => key[i] > key[j]
      PROVE  Arranged(places)[1] = i
  <2>1. \A j \in I : i # j => places[i] < places[j]
    BY <1>1, <1>4, <1>6
  <2>2. places \in [I -> 1 .. Cardinality(I)] /\ Cardinality(I) \in Nat
    BY <1>4, Fun_BijectionProperties, FS_CardinalityType
  <2>3. PICK j \in I : places[j] = 1
    <3>1. Cardinality(I) # 0
      BY FS_EmptySet
    <3>2. 1 \in 1 .. Cardinality(I)
      BY <2>2, <3>1
    <3>3. places \in Surjection(I, 1 .. Cardinality(I))
      BY <1>4, Fun_BijectionProperties
    <3> QED
      BY <3>2, <3>3 DEF Surjection
  <2>4. j = i
    <3>1. places[i] \in 1 .. Cardinality(I) /\ places[j] \in 1 .. Cardinality(I)
      BY <2>2
    <3>2. ~(places[i] < 1)
      BY <2>2, <3>1
    <3> QED
      BY <2>1, <2>3, <3>2
  <2> QED
    BY <1>5, <2>3, <2>4
<1> QED
  BY <1>5, <1>6 DEF Sorted, places

------------------------------------------------------------------------------
\* A sort by values v in descending order, those of one value by their number.
Precedes(v, o, p) == Exceeds(v[o], v[p]) \/ (~Exceeds(v[p], v[o]) /\ o < p)
RanksOf(P, v) == [p \in P |-> 1 + Cardinality({o \in P : Precedes(v, o, p)})]

LEMMA PrecedenceIsAnOrder ==
  ASSUME NEW P, P \subseteq Nat, NEW v, \A p \in P : IsFraction(v[p])
  PROVE  /\ \A p \in P : ~Precedes(v, p, p)
         /\ \A o, p \in P : o # p => Precedes(v, o, p) \/ Precedes(v, p, o)
         /\ \A n, o, p \in P : Precedes(v, n, o) /\ Precedes(v, o, p) => Precedes(v, n, p)
<1>1. \A o, p \in P : Exceeds(v[o], v[p]) => ~Exceeds(v[p], v[o])
  BY GreaterIsAsymmetric
<1>2. \A n, o, p \in P : ~Exceeds(v[n], v[o]) /\ ~Exceeds(v[o], v[p]) => ~Exceeds(v[n], v[p])
  BY NotGreaterIsTransitive
<1>3. \A p \in P : ~Precedes(v, p, p)
  BY <1>1 DEF Precedes
<1>4. \A o, p \in P : o # p => Precedes(v, o, p) \/ Precedes(v, p, o)
  <2> SUFFICES ASSUME NEW o \in P, NEW p \in P, o # p
      PROVE  Precedes(v, o, p) \/ Precedes(v, p, o)
    OBVIOUS
  <2>1. o < p \/ p < o
    OBVIOUS
  <2> QED
    BY <1>1, <2>1 DEF Precedes
<1>5. ASSUME NEW n \in P, NEW o \in P, NEW p \in P, Precedes(v, n, o), Precedes(v, o, p)
      PROVE  Precedes(v, n, p)
  <2>1. ~Exceeds(v[o], v[n]) /\ ~Exceeds(v[p], v[o])
    BY <1>1, <1>5 DEF Precedes
  <2>2. ~Exceeds(v[p], v[n])
    BY <1>2, <2>1
  <2>3. CASE n < o /\ o < p
    <3>1. n < p
      BY <2>3
    <3> QED
      BY <2>2, <3>1 DEF Precedes
  <2>4. CASE Exceeds(v[n], v[o]) \/ Exceeds(v[o], v[p])
    <3>1. Exceeds(v[n], v[p])
      BY <1>2, <2>1, <2>4
    <3> QED
      BY <3>1 DEF Precedes
  <2> QED
    BY <1>5, <2>3, <2>4 DEF Precedes
<1> QED
  BY <1>3, <1>4, <1>5

\* Every rank is given once, and the better value has the better rank.
LEMMA SortsAreRankings ==
  ASSUME NEW P, P \subseteq Nat, IsFiniteSet(P), NEW v, \A p \in P : IsFraction(v[p])
  PROVE  /\ GivenOnce(RanksOf(P, v))
         /\ \A o, p \in P : o # p => RanksOf(P, v)[o] # RanksOf(P, v)[p]
         /\ \A o, p \in P : Exceeds(v[o], v[p]) => RanksOf(P, v)[o] < RanksOf(P, v)[p]
<1> DEFINE R == {r \in P \X P : Precedes(v, r[1], r[2])}
           ranks == RanksOf(P, v)
<1>1. \A o, p \in P : <<o, p>> \in R <=> Precedes(v, o, p)
  OBVIOUS
<1>2. ranks = PlacesBy(P, R)
  <2>1. \A p \in P : {o \in P : Precedes(v, o, p)} = {o \in P : <<o, p>> \in R}
    BY <1>1
  <2> HIDE DEF R
  <2> QED
    BY <2>1 DEF RanksOf, PlacesBy
<1> HIDE DEF R, ranks
<1>3. OrdersTotally(R, P)
  <2>1. /\ \A p \in P : ~Precedes(v, p, p)
        /\ \A o, p \in P : o # p => Precedes(v, o, p) \/ Precedes(v, p, o)
        /\ \A n, o, p \in P : Precedes(v, n, o) /\ Precedes(v, o, p) => Precedes(v, n, p)
    BY PrecedenceIsAnOrder
  <2> QED
    BY <1>1, <2>1 DEF OrdersTotally
<1>4. /\ ranks \in Bijection(P, 1 .. Cardinality(P))
      /\ \A o, p \in P : <<o, p>> \in R => ranks[o] < ranks[p]
  BY <1>2, <1>3, SortsArePlacings
<1>5. DOMAIN ranks = P /\ Range(ranks) = 1 .. Cardinality(P)
  BY <1>4, Fun_BijectionProperties, Fun_SurjectionProperties
<1>6. \A o, p \in P : o # p => ranks[o] # ranks[p]
  BY <1>4, Fun_BijectionProperties
<1>7. \A o, p \in P : Exceeds(v[o], v[p]) => ranks[o] < ranks[p]
  BY <1>1, <1>4 DEF Precedes
<1> QED
  BY <1>5, <1>6, <1>7 DEF GivenOnce, ranks

------------------------------------------------------------------------------
Rows == {With(kind, "of", p) : kind \in TradeKinds, p \in Entrants}

\* Points in time, each with an amount.
IsHistory(f) == IsFiniteSet(DOMAIN f) /\ DOMAIN f \subseteq Nat /\ \A t \in DOMAIN f : f[t] \in Int

AnalyticsInv ==
  /\ trades \in Seq(Rows)
  /\ \A p \in Entrants : IsHistory(balances[p])
  /\ \A p \in Entrants : reports[p] = None \/ reports[p] \in Reports
  /\ \A p \in Entrants : live[p] = None \/ live[p] \in LiveSnapshots
  /\ DOMAIN balances = Entrants /\ DOMAIN reports = Entrants /\ DOMAIN live = Entrants
  /\ strategy \in [DOMAIN Marathons -> Strategies]

LEMMA HistoriesGrow ==
  ASSUME NEW f, IsHistory(f), NEW point \in Nat \X Int
  PROVE  IsHistory(With(f, point[1], point[2]))
<1> DEFINE g == With(f, point[1], point[2])
<1>1. DOMAIN g = DOMAIN f \cup {point[1]}
  BY DEF With
<1>2. \A t \in DOMAIN g : g[t] = IF t = point[1] THEN point[2] ELSE f[t]
  BY DEF With
<1>3. IsFiniteSet(DOMAIN f \cup {point[1]})
  BY FS_AddElement DEF IsHistory
<1> HIDE DEF g
<1> QED
  BY <1>1, <1>2, <1>3 DEF IsHistory, g

LEMMA AnalyticsInvariant == AnalyticsSpec => []AnalyticsInv
<1>1. AnalyticsInit => AnalyticsInv
  <2>1. DOMAIN <<>> = {}
    OBVIOUS
  <2>2. IsHistory(<<>>)
    BY <2>1, FS_EmptySet DEF IsHistory
  <2> QED
    BY <2>2, EmptySeq DEF AnalyticsInit, AnalyticsInv
<1>2. AnalyticsInv /\ [AnalyticsNext]_analyticsVars => AnalyticsInv'
  <2> SUFFICES ASSUME AnalyticsInv, [AnalyticsNext]_analyticsVars
      PROVE  AnalyticsInv'
    OBVIOUS
  <2>1. ASSUME NEW p \in Entrants, NEW kind \in TradeKinds, StoreTrade(p, kind)
        PROVE  AnalyticsInv'
    <3>1. With(kind, "of", p) \in Rows
      BY DEF Rows
    <3>2. Append(trades, With(kind, "of", p)) \in Seq(Rows)
      BY <3>1 DEF AnalyticsInv
    <3> QED
      BY <2>1, <3>2 DEF AnalyticsInv, StoreTrade
  <2>2. ASSUME NEW p \in Entrants, NEW point \in BalancePoints, StoreBalance(p, point)
        PROVE  AnalyticsInv'
    <3>1. IsHistory(With(balances[p], point[1], point[2]))
      BY AnalyticsAssumption, HistoriesGrow DEF AnalyticsInv
    <3>2. balances' = [balances EXCEPT ![p] = With(balances[p], point[1], point[2])]
      BY <2>2 DEF StoreBalance
    <3> QED
      BY <2>2, <3>1, <3>2 DEF AnalyticsInv, StoreBalance
  <2>3. ASSUME NEW p \in Entrants, NEW point \in EquityPoints, StoreEquity(p, point)
        PROVE  AnalyticsInv'
    BY <2>3 DEF AnalyticsInv, StoreEquity
  <2>4. ASSUME NEW p \in Entrants, NEW report \in Reports, StoreReport(p, report)
        PROVE  AnalyticsInv'
    BY <2>4 DEF AnalyticsInv, StoreReport
  <2>5. ASSUME NEW p \in Entrants, NEW snapshot \in LiveSnapshots, Show(p, snapshot)
        PROVE  AnalyticsInv'
    BY <2>5 DEF AnalyticsInv, Show
  <2>6. CASE Forget
    BY <2>6 DEF AnalyticsInv, Forget
  <2>7. ASSUME NEW m \in DOMAIN Marathons, NEW split \in Strategies, SplitBy(m, split)
        PROVE  AnalyticsInv'
    BY <2>7 DEF AnalyticsInv, SplitBy
  <2>8. CASE UNCHANGED analyticsVars
    BY <2>8 DEF AnalyticsInv, analyticsVars
  <2> QED
    BY <2>1, <2>2, <2>3, <2>4, <2>5, <2>6, <2>7, <2>8 DEF AnalyticsNext
<1> QED
  BY <1>1, <1>2, PTL DEF AnalyticsSpec

\* Who has the better value has the better rank.
ProfitDecides(m) ==
  /\ \A o, p \in Of(m) : Exceeds(NetProfit(o), NetProfit(p)) => ReportRanks(m)[o] < ReportRanks(m)[p]
  /\ \A o, p \in {q \in Of(m) : live[q] # None} :
       Exceeds(ProfitRate(o), ProfitRate(p)) => LiveRanks(m)[o] < LiveRanks(m)[p]

LEMMA EntrantsAreRanked ==
  ASSUME AnalyticsInv, NEW m
  PROVE  /\ GivenOnce(ReportRanks(m)) /\ GivenOnce(LiveRanks(m)) /\ ProfitDecides(m)
         /\ \A o, p \in {q \in Of(m) : live[q] # None} :
              o # p => LiveRanks(m)[o] # LiveRanks(m)[p]
<1>1. Of(m) \subseteq Nat /\ IsFiniteSet(Of(m))
  BY AnalyticsAssumption, FS_Subset DEF Of
<1>2. /\ GivenOnce(ReportRanks(m))
      /\ \A o, p \in Of(m) : Exceeds(NetProfit(o), NetProfit(p)) => ReportRanks(m)[o] < ReportRanks(m)[p]
  <2> DEFINE v == [p \in Of(m) |-> NetProfit(p)]
  <2>1. \A p \in Of(m) : IsFraction(v[p])
    BY AnalyticsAssumption DEF AnalyticsInv, Of, NetProfit, IsFraction
  <2>2. ReportRanks(m) = RanksOf(Of(m), v)
    BY DEF ReportRanks, RankBy, Places, RanksOf, Precedes
  <2>3. \A p \in Of(m) : v[p] = NetProfit(p)
    OBVIOUS
  <2> HIDE DEF v
  <2>4. GivenOnce(ReportRanks(m))
    BY <1>1, <2>1, <2>2, SortsAreRankings
  <2>5. \A o, p \in Of(m) : Exceeds(v[o], v[p]) => ReportRanks(m)[o] < ReportRanks(m)[p]
    BY <1>1, <2>1, <2>2, SortsAreRankings
  <2> QED
    BY <2>3, <2>4, <2>5
<1>3. /\ GivenOnce(LiveRanks(m))
      /\ \A o, p \in {q \in Of(m) : live[q] # None} :
           o # p => LiveRanks(m)[o] # LiveRanks(m)[p]
      /\ \A o, p \in {q \in Of(m) : live[q] # None} :
           Exceeds(ProfitRate(o), ProfitRate(p)) => LiveRanks(m)[o] < LiveRanks(m)[p]
  <2> DEFINE P == {q \in Of(m) : live[q] # None}
             v == [p \in P |-> ProfitRate(p)]
  <2>1. \A p \in P : IsFraction(v[p])
    BY AnalyticsAssumption DEF AnalyticsInv, Of, ProfitRate, IsFraction
  <2>2. LiveRanks(m) = RanksOf(P, v)
    BY DEF LiveRanks, RankBy, Places, RanksOf, Precedes
  <2>3. P \subseteq Nat /\ IsFiniteSet(P)
    BY <1>1, FS_Subset
  <2>4. \A p \in P : v[p] = ProfitRate(p)
    OBVIOUS
  <2> HIDE DEF v
  <2>5. GivenOnce(LiveRanks(m))
    BY <2>1, <2>2, <2>3, SortsAreRankings
  <2>6. \A o, p \in P : Exceeds(v[o], v[p]) => LiveRanks(m)[o] < LiveRanks(m)[p]
    BY <2>1, <2>2, <2>3, SortsAreRankings
  <2>7. \A o, p \in P : o # p => LiveRanks(m)[o] # LiveRanks(m)[p]
    BY <2>1, <2>2, <2>3, SortsAreRankings
  <2> QED
    BY <2>4, <2>5, <2>6, <2>7
<1> QED
  BY <1>2, <1>3 DEF ProfitDecides

LeaderboardsRank == RanksAreGivenOnce /\ \A m \in DOMAIN Marathons : ProfitDecides(m)

\* On both leaderboards of a marathon every rank from the first on is given exactly once,
\* and the higher profit has the better rank, whoever shares a profit, whatever data has
\* come and whichever snapshots were forgotten.
THEOREM AnalyticsLeaderboardsRank == AnalyticsSpec => []LeaderboardsRank
<1>1. AnalyticsInv => LeaderboardsRank
  BY EntrantsAreRanked DEF LeaderboardsRank, RanksAreGivenOnce
<1> QED
  BY <1>1, AnalyticsInvariant, PTL

------------------------------------------------------------------------------
(***************************************************************************)
(* Prizes.                                                                 *)
(***************************************************************************)

Ranked(m) == {p \in Of(m) : live[p] # None}

LEMMA StandingIsShown == \A p : LiveAnalysis(p).standing = Standing(p)
BY DEF LiveAnalysis

LEMMA PrizeIsShown ==
  ASSUME NEW m, NEW p \in Ranked(m)
  PROVE  LiveAnalysis(p).standing.prize = Prize(LiveRanks(m)[p], m)
<1>1. Standing(p).prize
        = Prize(IF live[p] = None THEN 0 ELSE LiveRanks(Enrolled[p].marathon)[p], Enrolled[p].marathon)
  BY DEF Standing
<1> QED
  BY <1>1, StandingIsShown DEF Ranked, Of

\* Rounding adds or takes away at most half of a unit.
LEMMA RoundedIsClose ==
  ASSUME NEW part \in Nat
  PROVE  /\ Rounded(part, Whole) \in Nat
         /\ (2 * Whole) * Rounded(part, Whole) <= 2 * part + Whole
         /\ 2 * part <= (2 * Whole) * Rounded(part, Whole) + Whole
<1>1. Rounded(part, Whole) = (2 * part + 10000) \div 20000
  BY DEF Rounded, Absolute, Whole
<1>2. PICK n \in Nat : n = 2 * part + 10000
  OBVIOUS
<1>3. n \div 20000 \in Nat /\ 20000 * (n \div 20000) <= n /\ n < 20000 * (n \div 20000) + 20000
  OBVIOUS
<1>4. PICK k \in Nat : k = n \div 20000 /\ 20000 * k <= n /\ n < 20000 * k + 20000
  BY <1>3
<1>5. 2 * part <= 20000 * k + 10000
  BY <1>2, <1>4
<1>6. Whole = 10000 /\ 2 * Whole = 20000
  BY DEF Whole
<1> QED
  BY <1>1, <1>2, <1>4, <1>5, <1>6

Placed(m, rank) == {n \in DOMAIN Payouts(m) : Payouts(m)[n].position = rank}
ShareOf(m, n) == Or(Payouts(m)[n].share, 0)
ShareAt(m, rank) == IF Placed(m, rank) = {} THEN 0 ELSE ShareOf(m, Min(Placed(m, rank)))

LEMMA PayoutsAreListed ==
  ASSUME AnalyticsInv, NEW m \in DOMAIN Marathons
  PROVE  /\ IsFiniteSet(DOMAIN Payouts(m)) /\ DOMAIN Payouts(m) \subseteq Nat
         /\ \A n \in DOMAIN Payouts(m) : Payouts(m)[n].position \in Nat \ {0} /\ ShareOf(m, n) \in Nat
<1>1. Payouts(m) \in Seq(PrizePlacements)
  <2>1. [position |-> 1, share |-> Whole] \in PrizePlacements
    BY DEF PrizePlacements, Whole
  <2>2. <<[position |-> 1, share |-> Whole]>> \in Seq(PrizePlacements)
    BY <2>1
  <2>3. strategy[m].placements \in Seq(PrizePlacements)
    BY AnalyticsAssumption DEF AnalyticsInv
  <2> QED
    BY <2>2, <2>3 DEF Payouts
<1>2. DOMAIN Payouts(m) = 1 .. Len(Payouts(m)) /\ Len(Payouts(m)) \in Nat
  BY <1>1
<1>3. ASSUME NEW n \in DOMAIN Payouts(m)
      PROVE  Payouts(m)[n].position \in Nat \ {0} /\ ShareOf(m, n) \in Nat
  <2>1. PICK x \in PrizePlacements : x = Payouts(m)[n]
    BY <1>1, <1>2
  <2>2. x.position \in Nat \ {0} /\ x.share \in 0 .. Whole \cup {None}
    BY <2>1 DEF PrizePlacements
  <2>3. ShareOf(m, n) = Or(x.share, 0)
    BY <2>1 DEF ShareOf
  <2>4. ShareOf(m, n) \in Nat
    <3>1. x.share = None \/ x.share \in Nat
      <4>1. PICK most \in Nat : most = Whole
        BY DEF Whole
      <4>2. x.share \in 0 .. most \cup {None}
        BY <2>2, <4>1
      <4> QED
        BY <4>2
    <3>2. CASE x.share = None
      BY <2>3, <3>2 DEF Or
    <3>3. CASE x.share # None
      BY <2>3, <3>1, <3>3 DEF Or
    <3> QED
      BY <3>2, <3>3
  <2> QED
    BY <2>1, <2>2, <2>4
<1>4. \A k \in Nat : IsFiniteSet(1 .. k) /\ 1 .. k \subseteq Nat
  BY FS_Interval
<1> QED
  BY <1>2, <1>3, <1>4

LEMMA FirstIsPlaced ==
  ASSUME AnalyticsInv, NEW m \in DOMAIN Marathons, NEW rank, Placed(m, rank) # {}
  PROVE  Min(Placed(m, rank)) \in Placed(m, rank)
<1>1. Placed(m, rank) \subseteq Nat
  BY PayoutsAreListed DEF Placed
<1> QED
  BY <1>1, LeastExists DEF Min

LEMMA SharesAreNat ==
  ASSUME AnalyticsInv, NEW m \in DOMAIN Marathons, NEW rank
  PROVE  ShareAt(m, rank) \in Nat
BY FirstIsPlaced, PayoutsAreListed DEF ShareAt, Placed

\* A prize is its share of the award, but for half a cent.
LEMMA PrizeIsItsShare ==
  ASSUME AnalyticsInv, NEW m \in DOMAIN Marathons, NEW rank, NEW award \in Nat, award = Marathons[m].award
  PROVE  /\ Prize(rank, m) \in Int
         /\ (2 * Whole) * Prize(rank, m) <= (2 * award) * ShareAt(m, rank) + Whole
         /\ (2 * award) * ShareAt(m, rank) <= (2 * Whole) * Prize(rank, m) + Whole
<1>1. PICK s \in Nat : s = ShareAt(m, rank)
  BY SharesAreNat
<1>2. PICK part \in Nat : part = award * s /\ (2 * award) * s = 2 * part
  OBVIOUS
<1>3. CASE Placed(m, rank) = {}
  <2>1. Prize(rank, m) = 0 /\ s = 0 /\ (2 * award) * s = 0
    BY <1>1, <1>3 DEF Prize, Placed, ShareAt
  <2>2. Whole \in Nat
    BY DEF Whole
  <2> QED
    BY <1>1, <2>1, <2>2
<1>4. CASE Placed(m, rank) # {}
  <2>1. Prize(rank, m) = Rounded(award * s, Whole)
    BY <1>1, <1>4 DEF Prize, Placed, ShareAt, ShareOf
  <2>2. Whole \in Nat
    BY DEF Whole
  <2>3. PICK k \in Nat : k = Rounded(part, Whole) /\ (2 * Whole) * k <= 2 * part + Whole /\ 2 * part <= (2 * Whole) * k + Whole
    BY RoundedIsClose
  <2>4. Prize(rank, m) = k /\ (2 * award) * ShareAt(m, rank) = 2 * part
    BY <1>1, <1>2, <2>1, <2>3
  <2> QED
    BY <2>3, <2>4
<1> QED
  BY <1>3, <1>4

\* The shares of the ranks are shares of placements, each taken by one rank.
LEMMA SharesAreWithin ==
  ASSUME AnalyticsInv, NEW m \in DOMAIN Marathons,
         NEW P, IsFiniteSet(P), NEW ranks, \A o, p \in P : o # p => ranks[o] # ranks[p],
         NEW v, \A p \in P : v[p] = ShareAt(m, ranks[p]),
         NEW w, \A n \in DOMAIN Payouts(m) : w[n] = ShareOf(m, n)
  PROVE  SumOver(v, P) <= SumOver(w, DOMAIN Payouts(m))
<1> DEFINE N == DOMAIN Payouts(m)
           j == [p \in P |-> Min(Placed(m, ranks[p]))]
<1>1. IsFiniteSet(N) /\ \A n \in N : w[n] \in Nat
  BY PayoutsAreListed
<1>2. \A p \in P : v[p] \in Nat
  BY SharesAreNat
<1>3. \A p \in P : v[p] = 0 \/ (j[p] \in Placed(m, ranks[p]) /\ v[p] = ShareOf(m, j[p]))
  BY FirstIsPlaced DEF ShareAt
<1> HIDE DEF j
<1>4. \A p \in P : v[p] <= 0 \/ (j[p] \in N /\ v[p] <= w[j[p]])
  <2> SUFFICES ASSUME NEW p \in P, v[p] # 0 PROVE j[p] \in N /\ v[p] <= w[j[p]]
    BY <1>2
  <2>1. j[p] \in N /\ v[p] = w[j[p]]
    BY <1>3 DEF Placed
  <2> QED
    BY <1>2, <2>1
<1>5. \A p, q \in P : v[p] > 0 /\ v[q] > 0 /\ p # q => j[p] # j[q]
  BY <1>3 DEF Placed
<1>6. \A p \in P : v[p] \in Int
  BY <1>2
<1> HIDE DEF N
<1> QED
  BY <1>1, <1>4, <1>5, <1>6, DrawnIsWithin DEF N

\* Where every placement is for another rank that is given, all shares are taken.
LEMMA SharesAreTaken ==
  ASSUME AnalyticsInv, NEW m \in DOMAIN Marathons,
         NEW P, IsFiniteSet(P), NEW ranks,
         \A n \in DOMAIN Payouts(m) : \E p \in P : ranks[p] = Payouts(m)[n].position,
         \A n, k \in DOMAIN Payouts(m) : n # k => Payouts(m)[n].position # Payouts(m)[k].position,
         NEW v, \A p \in P : v[p] = ShareAt(m, ranks[p]),
         NEW w, \A n \in DOMAIN Payouts(m) : w[n] = ShareOf(m, n)
  PROVE  SumOver(w, DOMAIN Payouts(m)) <= SumOver(v, P)
<1> DEFINE N == DOMAIN Payouts(m)
           j == [n \in N |-> CHOOSE p \in P : ranks[p] = Payouts(m)[n].position]
<1>1. IsFiniteSet(N) /\ \A n \in N : w[n] \in Int
  BY PayoutsAreListed
<1>2. \A p \in P : v[p] \in Nat
  BY SharesAreNat
<1>3. \A n \in N : j[n] \in P /\ ranks[j[n]] = Payouts(m)[n].position
  OBVIOUS
<1> HIDE DEF j
<1>4. \A n \in N : w[n] <= 0 \/ (j[n] \in P /\ w[n] <= v[j[n]])
  <2> SUFFICES ASSUME NEW n \in N PROVE j[n] \in P /\ w[n] <= v[j[n]]
    OBVIOUS
  <2>1. Placed(m, ranks[j[n]]) = {n}
    BY <1>3 DEF Placed
  <2>2. ShareAt(m, ranks[j[n]]) = ShareOf(m, n)
    <3>1. Min(Placed(m, ranks[j[n]])) = n
      BY <2>1, FirstIsPlaced
    <3> QED
      BY <2>1, <3>1 DEF ShareAt
  <2>3. w[n] = v[j[n]]
    BY <1>3, <2>2
  <2> QED
    BY <1>1, <1>3, <2>3
<1>5. \A n, k \in N : w[n] > 0 /\ w[k] > 0 /\ n # k => j[n] # j[k]
  BY <1>3
<1> HIDE DEF N
<1> QED
  BY <1>1, <1>2, <1>4, <1>5, DrawnIsWithin DEF N

LEMMA PrizesFollow ==
  ASSUME AnalyticsInv, NEW m \in DOMAIN Marathons
  PROVE  PrizesFollowThePlacements(m)
<1> DEFINE P == {p \in Of(m) : live[p] # None}
           N == DOMAIN Payouts(m)
           ranks == LiveRanks(m)
           prize == [p \in P |-> LiveAnalysis(p).standing.prize]
           share == [p \in P |-> ShareAt(m, ranks[p])]
           w == [n \in N |-> Or(Payouts(m)[n].share, 0)]
<1>1. IsFiniteSet(P) /\ Cardinality(P) \in Nat
  <2>1. IsFiniteSet(P)
    BY AnalyticsAssumption, FS_Subset DEF Of
  <2> QED
    BY <2>1, FS_CardinalityType
<1>2. /\ \A o, p \in P : o # p => ranks[o] # ranks[p]
      /\ DOMAIN ranks = P /\ Range(ranks) = 1 .. Cardinality(P)
  <2>1. DOMAIN ranks = P
    BY DEF LiveRanks, RankBy, Places
  <2> QED
    BY <2>1, EntrantsAreRanked DEF GivenOnce
<1>3. IsFiniteSet(N) /\ \A n \in N : Payouts(m)[n].position \in Nat \ {0} /\ ShareOf(m, n) \in Nat
  BY PayoutsAreListed
<1>4. PICK award \in Nat : award = Marathons[m].award
  BY AnalyticsAssumption
<1>5. \A p \in P : prize[p] = Prize(ranks[p], m) /\ share[p] = ShareAt(m, ranks[p])
  BY PrizeIsShown DEF Ranked
<1>6. /\ DOMAIN prize = P /\ DOMAIN w = N
      /\ \A n \in N : w[n] = ShareOf(m, n)
  BY DEF ShareOf
<1>7. PrizesFollowThePlacements(m) <=>
        /\ 2 * Whole * SumFunction(prize) <= 2 * Marathons[m].award * SumFunction(w) + Whole * Cardinality(P)
        /\ (/\ \A n \in N : Payouts(m)[n].position <= Cardinality(P)
            /\ \A n, k \in N : n # k => Payouts(m)[n].position # Payouts(m)[k].position)
           => 2 * Marathons[m].award * SumFunction(w) <= 2 * Whole * SumFunction(prize) + Whole * Cardinality(P)
  BY DEF PrizesFollowThePlacements
<1> HIDE DEF prize, share, w, N, ranks, P
<1>8. SumFunction(prize) = SumOver(prize, P) /\ SumFunction(w) = SumOver(w, N)
  BY <1>1, <1>3, <1>6, SumsAreOver
<1>9. PICK b \in Nat, c \in Nat, d \in Nat : b = 2 * award /\ c = Whole /\ d = 2 * Whole
  BY DEF Whole
<1>10. \A p \in P : /\ prize[p] \in Int /\ share[p] \in Int
                    /\ d * prize[p] <= b * share[p] + c
                    /\ b * share[p] <= d * prize[p] + c
  <2> SUFFICES ASSUME NEW p \in P
      PROVE  /\ prize[p] \in Int /\ share[p] \in Int
             /\ d * prize[p] <= b * share[p] + c
             /\ b * share[p] <= d * prize[p] + c
    OBVIOUS
  <2>1. share[p] \in Nat
    BY <1>5, SharesAreNat
  <2> QED
    BY <1>4, <1>5, <1>9, <2>1, PrizeIsItsShare
<1>11. d * SumOver(prize, P) <= b * SumOver(share, P) + c * Cardinality(P)
  <2>1. b \in Int /\ c \in Int /\ d \in Int
    OBVIOUS
  <2>2. \A p \in P : prize[p] \in Int /\ share[p] \in Int
    BY <1>10
  <2>3. \A p \in P : d * prize[p] <= b * share[p] + c
    BY <1>10
  <2> QED
    BY <1>1, <2>1, <2>2, <2>3, SumIsBounded, Zenon
<1>12. b * SumOver(share, P) <= d * SumOver(prize, P) + c * Cardinality(P)
  <2>1. d \in Int /\ c \in Int /\ b \in Int
    OBVIOUS
  <2>2. \A p \in P : share[p] \in Int /\ prize[p] \in Int
    BY <1>10
  <2>3. \A p \in P : b * share[p] <= d * prize[p] + c
    BY <1>10
  <2> QED
    BY <1>1, <2>1, <2>2, <2>3, SumIsBounded, Zenon
<1>13. PICK paid \in Int, handed \in Int, all \in Int, size \in Nat :
         /\ paid = SumOver(prize, P) /\ handed = SumOver(share, P)
         /\ all = SumOver(w, N) /\ size = Cardinality(P)
  <2>1. \A p \in P : prize[p] \in Int /\ share[p] \in Int
    BY <1>10
  <2>2. \A n \in N : w[n] \in Int
    BY <1>3, <1>6
  <2> QED
    BY <1>1, <1>3, <2>1, <2>2, SumsAreInt
<1>14. \A x, y \in Int : x <= y => b * x <= b * y
  <2> SUFFICES ASSUME NEW x \in Int, NEW y \in Int, x <= y PROVE b * x <= b * y
    OBVIOUS
  <2>1. b * (y - x) >= 0
    OBVIOUS
  <2>2. b * (y - x) = b * y - b * x
    OBVIOUS
  <2> QED
    BY <2>1, <2>2
<1>15. 2 * Marathons[m].award * SumFunction(w) = b * all
  BY <1>4, <1>8, <1>9, <1>13
<1>16. d * paid <= b * all + c * size
  <2>1. handed <= all
    BY <1>1, <1>2, <1>5, <1>6, <1>13, SharesAreWithin DEF N
  <2>2. b * handed <= b * all
    BY <1>14, <2>1
  <2>3. d * paid <= b * handed + c * size
    BY <1>11, <1>13
  <2>4. PICK x \in Int, y \in Int : x = b * handed /\ y = b * all
    OBVIOUS
  <2> QED
    BY <2>2, <2>3, <2>4
<1>17. ASSUME \A n \in N : Payouts(m)[n].position <= Cardinality(P),
              \A n, k \in N : n # k => Payouts(m)[n].position # Payouts(m)[k].position
       PROVE  b * all <= d * paid + c * size
  <2>1. \A n \in N : \E p \in P : ranks[p] = Payouts(m)[n].position
    <3> SUFFICES ASSUME NEW n \in N PROVE \E p \in P : ranks[p] = Payouts(m)[n].position
      OBVIOUS
    <3>1. Payouts(m)[n].position \in 1 .. Cardinality(P)
      BY <1>1, <1>3, <1>17
    <3> QED
      BY <1>2, <3>1 DEF Range
  <2>2. all <= handed
    BY <1>1, <1>5, <1>6, <1>13, <1>17, <2>1, SharesAreTaken DEF N
  <2>3. b * all <= b * handed
    BY <1>14, <2>2
  <2>4. b * handed <= d * paid + c * size
    BY <1>12, <1>13
  <2>5. PICK x \in Int, y \in Int : x = b * handed /\ y = b * all
    OBVIOUS
  <2> QED
    BY <2>3, <2>4, <2>5
<1> QED
  BY <1>7, <1>8, <1>9, <1>13, <1>15, <1>16, <1>17

\* On every leaderboard each rank is given once, and the prizes shown to the participants
\* of a marathon are what its placements make of the award, but for half a cent each: for any
\* placements that may be stored, whenever they are changed, and any number of participants.
THEOREM AnalyticsPrizesFollowTheSplit == AnalyticsSpec => []PrizesFollowTheSplit
<1>1. ASSUME AnalyticsInv PROVE PrizesFollowTheSplit
  <2>1. RanksAreGivenOnce
    BY <1>1, EntrantsAreRanked DEF RanksAreGivenOnce
  <2>2. ASSUME NEW p \in Entrants, AccountEntry(p) # None
        PROVE  AccountEntry(p).rank = LiveAnalysis(p).standing.rank
    <3>1. live[p] # None
      BY <2>2 DEF AccountEntry
    <3>2. AccountEntry(p).rank = LiveRanks(Enrolled[p].marathon)[p]
      BY <3>1 DEF AccountEntry
    <3>3. Standing(p).rank = LiveRanks(Enrolled[p].marathon)[p]
      BY <3>1 DEF Standing
    <3> QED
      BY <3>2, <3>3, StandingIsShown
  <2> QED
    BY <1>1, <2>1, <2>2, PrizesFollow DEF PrizesFollowTheSplit
<1> QED
  BY <1>1, AnalyticsInvariant, PTL

------------------------------------------------------------------------------
(***************************************************************************)
(* The dashboard's marathons.                                              *)
(***************************************************************************)

\* A list of all has a place for every one.
LEMMA PlacesOfSome ==
  ASSUME NEW I, IsFiniteSet(I), NEW s, Lists(s, I), NEW X \in SUBSET I
  PROVE  Cardinality({n \in DOMAIN s : s[n] \in X}) = Cardinality(X)
<1> DEFINE N == {n \in DOMAIN s : s[n] \in X}
           f == [n \in N |-> s[n]]
<1>1. /\ DOMAIN s = 1 .. Cardinality(I)
      /\ \A m, n \in DOMAIN s : s[m] = s[n] => m = n
      /\ \A i \in I : \E n \in DOMAIN s : s[n] = i
  BY Fun_BijectionProperties DEF Lists
<1>2. f \in [N -> X] /\ (\A m, n \in N : f[m] = f[n] => m = n) /\ (\A x \in X : \E n \in N : f[n] = x)
  BY <1>1
<1>3. IsFiniteSet(N)
  <2>1. IsFiniteSet(1 .. Cardinality(I))
    BY FS_CardinalityType, FS_Interval
  <2>2. N \in SUBSET (1 .. Cardinality(I))
    BY <1>1
  <2> HIDE DEF N
  <2> QED
    BY <2>1, <2>2, FS_Subset
<1> HIDE DEF N, f
<1>4. f \in Bijection(N, X)
  BY <1>2, Fun_IsBij
<1>5. ExistsBijection(N, X)
  BY <1>4 DEF ExistsBijection
<1>6. Cardinality(X) = Cardinality(N)
  BY <1>3, <1>5, FS_Bijection
<1> QED
  BY <1>6 DEF N

LEMMA BestFirstLists ==
  ASSUME NEW ranks, IsFiniteSet(DOMAIN ranks), DOMAIN ranks \subseteq Nat, \A p \in DOMAIN ranks : ranks[p] \in Int
  PROVE  Lists(BestFirst(ranks), {p \in DOMAIN ranks : ranks[p] > 0})
<1> DEFINE P == {p \in DOMAIN ranks : ranks[p] > 0}
           key == [p \in P |-> -ranks[p]]
           tie == [p \in P |-> -p]
           Before(p, o) == ranks[p] < ranks[o] \/ (ranks[p] = ranks[o] /\ p > o)
<1>1. IsFiniteSet(P)
  BY FS_Subset
<1>2. /\ \A p \in P : key[p] \in Int /\ tie[p] \in Int
      /\ \A o, p \in P : tie[o] = tie[p] => o = p
  OBVIOUS
<1>3. ASSUME NEW o \in P, NEW p \in P
      PROVE  Before(o, p) <=> (key[o] > key[p] \/ (key[o] = key[p] /\ tie[o] < tie[p]))
  <2>1. ranks[o] \in Int /\ ranks[p] \in Int /\ o \in Int /\ p \in Int
    OBVIOUS
  <2>2. key[o] = -ranks[o] /\ key[p] = -ranks[p] /\ tie[o] = -o /\ tie[p] = -p
    OBVIOUS
  <2> HIDE DEF key, tie, P
  <2> QED
    BY <2>1, <2>2
<1>4. BestFirst(ranks) = Sorted(P, key, tie)
  <2>1. Places(P, Before) = KeyPlaces(P, key, tie)
    <3>1. \A p \in P : {o \in P : Before(o, p)} = {o \in P : key[o] > key[p] \/ (key[o] = key[p] /\ tie[o] < tie[p])}
      BY <1>3
    <3> HIDE DEF P, key, tie, Before
    <3> QED
      BY <3>1 DEF Places, KeyPlaces
  <2> QED
    BY <2>1, Zenon DEF BestFirst, Sorted
<1> HIDE DEF key, tie, P
<1>5. Lists(Sorted(P, key, tie), P)
  BY <1>1, <1>2, SortedLists
<1> QED
  BY <1>4, <1>5 DEF P

LEMMA StandingHasARank ==
  ASSUME AnalyticsInv, NEW p \in Entrants
  PROVE  Standing(p).rank \in Int
<1> DEFINE m == Enrolled[p].marathon
           P == {o \in Of(m) : live[o] # None}
<1>1. Standing(p).rank = IF live[p] = None THEN 0 ELSE LiveRanks(m)[p]
  BY DEF Standing
<1>2. CASE live[p] # None
  <2>1. DOMAIN LiveRanks(m) = P /\ p \in P
    BY <1>2 DEF LiveRanks, RankBy, Places, Of
  <2>2. GivenOnce(LiveRanks(m))
    BY EntrantsAreRanked
  <2>3. LiveRanks(m)[p] \in 1 .. Cardinality(DOMAIN LiveRanks(m))
    BY <2>1, <2>2 DEF GivenOnce, Range
  <2>4. Cardinality(DOMAIN LiveRanks(m)) \in Nat
    <3>1. IsFiniteSet(P)
      BY AnalyticsAssumption, FS_Subset DEF Of
    <3> QED
      BY <2>1, <3>1, FS_CardinalityType
  <2> QED
    BY <1>1, <1>2, <2>3, <2>4
<1> QED
  BY <1>1, <1>2

LEMMA WonMarathonsAreListed == AnalyticsInv => WonAreListed
<1> SUFFICES ASSUME AnalyticsInv, NEW u \in Owners, Len(Dashboard(u).best) < 5
    PROVE  Dashboard(u).won
             = Cardinality({n \in DOMAIN Dashboard(u).best : Standing(Dashboard(u).best[n]).rank = 1})
  BY Zenon DEF WonAreListed, WonIsListed
<1> DEFINE F == {o \in By(u) : Its(o).status = "FINISHED"}
           ranks == [p \in F |-> Standing(p).rank]
           best == BestFirst(ranks)
           R == {p \in F : ranks[p] > 0}
           W == {p \in F : ranks[p] = 1}
<1>1. IsFiniteSet(F) /\ F \subseteq Entrants /\ F \subseteq Nat
  <2>1. F \in SUBSET Entrants
    BY DEF By
  <2> HIDE DEF F
  <2> QED
    BY <2>1, AnalyticsAssumption, FS_Subset
<1>2. DOMAIN ranks = F /\ \A p \in F : ranks[p] = Standing(p).rank
  OBVIOUS
<1>3. \A p \in F : ranks[p] \in Int
  BY <1>1, <1>2, StandingHasARank
<1>4. Dashboard(u).best = Cut(best, 5) /\ Dashboard(u).won = Cardinality({p \in DOMAIN ranks : ranks[p] = 1})
  BY DEF Dashboard, DashboardOf
<1> HIDE DEF F, ranks, best
<1>5. Lists(best, R)
  BY <1>1, <1>2, <1>3, BestFirstLists DEF best
<1>6. IsFiniteSet(R) /\ W \in SUBSET R
  BY <1>1, <1>3, FS_Subset
<1>7. Cut(best, 5) = best
  <2>1. best \in Seq(R) /\ Len(best) \in Nat
    BY <1>5, LenProperties DEF Lists
  <2>2. CASE Len(best) > 5
    <3>1. \A n \in 1 .. 5 : best[n] \in R
      BY <2>1, <2>2
    <3>2. Len(SubSeq(best, 1, 5)) = 5
      BY <3>1, SubSeqProperties
    <3> QED
      BY <1>4, <3>2 DEF Cut
  <2> QED
    BY <2>1, <2>2 DEF Cut
<1>8. Cardinality({n \in DOMAIN best : best[n] \in W}) = Cardinality(W)
  BY <1>5, <1>6, PlacesOfSome
<1>9. {n \in DOMAIN best : best[n] \in W} = {n \in DOMAIN best : Standing(best[n]).rank = 1}
  <2>1. \A n \in DOMAIN best : best[n] \in R
    BY <1>5, Fun_BijectionProperties DEF Lists
  <2> QED
    BY <1>2, <2>1
<1>10. {p \in DOMAIN ranks : ranks[p] = 1} = W
  BY <1>2
<1> QED
  BY <1>4, <1>7, <1>8, <1>9, <1>10

------------------------------------------------------------------------------
(***************************************************************************)
(* Series.                                                                 *)
(***************************************************************************)

LEMMA QuotientAndRest ==
  ASSUME NEW a \in Int, NEW b \in Nat \ {0}
  PROVE  /\ a \div b \in Int /\ a % b \in 0 .. b - 1
         /\ a = b * (a \div b) + (a % b)
OBVIOUS

LEMMA Multiples ==
  ASSUME NEW a \in Nat, NEW b \in Nat, NEW c \in Nat, c > 0, a * c < b * c
  PROVE  a < b
<1> SUFFICES ASSUME b <= a PROVE FALSE
  OBVIOUS
<1>1. b * c <= a * c
  BY Scaled
<1> QED
  BY <1>1

LEMMA StepsReach ==
  ASSUME NEW size \in Nat, NEW limit \in Nat \ {0}, size > limit
  PROVE  Step(size, limit) \in Nat \ {0} /\ size <= limit * Step(size, limit)
<1> DEFINE n == size + limit - 1
           q == n \div limit
           r == n % limit
<1>1. n \in Int
  OBVIOUS
<1>2. Step(size, limit) = q
  BY DEF Step
<1>3. limit * q \in Int /\ q \in Int /\ size <= limit * q
  <2> HIDE DEF n
  <2>1. q \in Int /\ r \in 0 .. limit - 1 /\ n = limit * q + r
    BY <1>1, QuotientAndRest
  <2> HIDE DEF q, r
  <2>2. size + limit - 1 <= limit * q + (limit - 1) /\ limit * q \in Int
    BY <2>1 DEF n
  <2> QED
    BY <2>1, <2>2
<1> HIDE DEF q, r
<1>4. q > 0
  <2> SUFFICES ASSUME q <= 0 PROVE FALSE
    BY <1>3
  <2>1. q * limit <= 0 * limit
    BY <1>3, Scaled
  <2> QED
    BY <1>3, <2>1
<1> QED
  BY <1>2, <1>3, <1>4

LEMMA FewAreKept ==
  ASSUME NEW size \in Nat, NEW limit \in Nat \ {0}, size > limit
  PROVE  Cardinality({k \in 1 .. size : (k - 1) % Step(size, limit) = 0}) <= limit
<1> DEFINE kept == {k \in 1 .. size : (k - 1) % Step(size, limit) = 0}
           f == [k \in kept |-> (k - 1) \div Step(size, limit)]
<1>1. PICK step \in Nat \ {0} : step = Step(size, limit) /\ size <= limit * step
  BY StepsReach
<1>2. ASSUME NEW k \in kept
      PROVE  f[k] \in 0 .. limit - 1 /\ k - 1 = step * f[k]
  <2>1. PICK a \in Nat : a = k - 1 /\ a < size /\ a % step = 0
    BY <1>1
  <2>2. a \div step \in Int /\ a = step * (a \div step) + (a % step)
    BY <2>1, QuotientAndRest
  <2>3. f[k] = a \div step
    BY <1>1, <2>1
  <2>4. PICK q \in Int : q = a \div step /\ a = step * q
    BY <2>1, <2>2
  <2>5. q >= 0
    <3> SUFFICES ASSUME q < 0 PROVE FALSE
      BY <2>4
    <3>1. q <= -1
      BY <2>4
    <3>2. q * step <= (-1) * step
      BY <3>1, Scaled
    <3> QED
      BY <2>1, <2>4, <3>2
  <2>6. q < limit
    <3>1. q * step < limit * step
      BY <1>1, <2>1, <2>4
    <3> QED
      BY <2>5, <3>1, Multiples
  <2> QED
    BY <2>1, <2>3, <2>4, <2>5, <2>6
<1> HIDE DEF f
<1>3. f \in [kept -> 0 .. limit - 1]
  BY <1>2 DEF f
<1>4. \A j, k \in kept : f[j] = f[k] => j = k
  BY <1>2
<1> HIDE DEF kept
<1>5. f \in Injection(kept, 0 .. limit - 1)
  BY <1>3, <1>4, Fun_IsInj
<1>6. IsFiniteSet(0 .. limit - 1) /\ Cardinality(0 .. limit - 1) = limit
  BY FS_Interval
<1>7. Cardinality(kept) <= Cardinality(0 .. limit - 1)
  BY <1>5, <1>6, FS_Injection
<1> QED
  BY <1>6, <1>7 DEF kept

LEMMA GreatestExists ==
  ASSUME NEW S, IsFiniteSet(S), S \subseteq Nat
  PROVE  \A s \in SUBSET S : s # {} => Max(s) \in s /\ \A x \in s : x <= Max(s)
<1> DEFINE G == {s \in SUBSET S : s = {} \/ \E x \in s : \A y \in s : x >= y}
<1>1. {} \in G
  OBVIOUS
<1>2. ASSUME NEW s \in SUBSET S, s # {}, \A x \in s : s \ {x} \in G
      PROVE  s \in G
  <2>1. PICK x \in s : TRUE
    BY <1>2
  <2>2. CASE s \ {x} = {}
    BY <2>1, <2>2
  <2>3. CASE s \ {x} # {}
    <3>1. PICK z \in s \ {x} : \A y \in s \ {x} : z >= y
      BY <1>2, <2>3
    <3>2. x \in Nat /\ z \in Nat /\ s \subseteq Nat
      OBVIOUS
    <3>3. CASE x >= z
      BY <3>1, <3>2, <3>3
    <3>4. CASE z >= x
      BY <3>1, <3>2, <3>4
    <3> QED
      BY <3>2, <3>3, <3>4
  <2> QED
    BY <2>2, <2>3
<1> HIDE DEF G
<1>3. \A s \in SUBSET S : s \in G
  BY <1>1, <1>2, SubsetInduction
<1> SUFFICES ASSUME NEW s \in SUBSET S, s # {} PROVE Max(s) \in s /\ \A x \in s : x <= Max(s)
  OBVIOUS
<1>4. PICK x \in s : \A y \in s : x >= y
  BY <1>3 DEF G
<1>5. Max(s) \in s /\ \A y \in s : Max(s) >= y
  BY <1>4, Zenon DEF Max
<1>6. s \subseteq Nat
  OBVIOUS
<1> QED
  BY <1>5, <1>6

LEMMA SmallestIsMin ==
  ASSUME NEW S, S \subseteq Nat, S # {}
  PROVE  Min(S) \in S /\ \A x \in S : Min(S) <= x
<1>1. PICK x \in S : \A y \in S : x <= y
  BY LeastExists
<1> QED
  BY <1>1, Zenon DEF Min

\* The points a series is sampled at.
Times(series) == Sorted(DOMAIN series, [t \in DOMAIN series |-> -t], [t \in DOMAIN series |-> t])
KeptAt(series, limit) ==
  LET size == Len(Times(series)) IN
  {Times(series)[n] : n \in {k \in 1 .. size : (k - 1) % Step(size, limit) = 0}}

LEMMA SampledIs ==
  ASSUME NEW series, DOMAIN series \subseteq Nat, NEW limit
  PROVE  Sampled(series, limit)
           = IF limit = None \/ Len(Times(series)) <= limit THEN series
             ELSE [t \in KeptAt(series, limit) |-> series[t]]
<1> DEFINE D == DOMAIN series
           key == [t \in D |-> -t]
           tie == [t \in D |-> t]
<1>1. Places(D, <) = KeyPlaces(D, key, tie)
  <2>1. ASSUME NEW t \in D
        PROVE  {u \in D : u < t} = {u \in D : key[u] > key[t] \/ (key[u] = key[t] /\ tie[u] < tie[t])}
    <3>1. ASSUME NEW u \in D
          PROVE  u < t <=> (key[u] > key[t] \/ (key[u] = key[t] /\ tie[u] < tie[t]))
      <4>1. u \in Nat /\ t \in Nat /\ key[u] = -u /\ key[t] = -t /\ tie[u] = u /\ tie[t] = t
        OBVIOUS
      <4> HIDE DEF key, tie, D
      <4> QED
        BY <4>1
    <3> HIDE DEF key, tie, D
    <3> QED
      BY <3>1
  <2> HIDE DEF D, key, tie
  <2> QED
    BY <2>1 DEF Places, KeyPlaces
<1>2. Arranged(Places(DOMAIN series, <)) = Times(series)
  BY <1>1, Zenon DEF Times, Sorted
<1> QED
  BY <1>2, Zenon DEF Sampled, KeptAt

IsSeries(f) == IsFiniteSet(DOMAIN f) /\ DOMAIN f \subseteq Nat

\* A sample is some of the points, the first among them, and no more than asked for.
LEMMA SamplesAreSome ==
  ASSUME NEW series, IsSeries(series), NEW limit \in (Nat \ {0}) \cup {None}
  PROVE  LET sample == Sampled(series, limit) IN
         /\ DOMAIN sample \subseteq DOMAIN series /\ \A t \in DOMAIN sample : sample[t] = series[t]
         /\ limit # None => Cardinality(DOMAIN sample) <= limit
         /\ DOMAIN series # {} => Min(DOMAIN series) \in DOMAIN sample
<1> DEFINE D == DOMAIN series
           times == Times(series)
           size == Len(times)
           kept == {k \in 1 .. size : (k - 1) % Step(size, limit) = 0}
           K == KeptAt(series, limit)
           sample == Sampled(series, limit)
<1>1. D \subseteq Nat /\ IsFiniteSet(D)
  BY DEF IsSeries
<1>2. /\ Lists(times, D)
      /\ D # {} => times[1] = Min(D)
  <2> DEFINE key == [t \in D |-> -t]
             tie == [t \in D |-> t]
  <2>1. /\ \A t \in D : key[t] \in Int /\ tie[t] \in Int
        /\ \A t, u \in D : tie[t] = tie[u] => t = u
    BY <1>1
  <2>2. D # {} => Min(D) \in D /\ \A t \in D : Min(D) # t => key[Min(D)] > key[t]
    <3> SUFFICES ASSUME D # {} PROVE Min(D) \in D /\ \A t \in D : Min(D) # t => key[Min(D)] > key[t]
      OBVIOUS
    <3>1. PICK m \in D : m = Min(D) /\ \A t \in D : m <= t
      BY <1>1, SmallestIsMin
    <3>2. \A t \in D : m # t => key[m] > key[t]
      <4> SUFFICES ASSUME NEW t \in D, m # t PROVE -m > -t
        OBVIOUS
      <4>1. m \in Nat /\ t \in Nat /\ m <= t
        BY <1>1, <3>1
      <4> QED
        BY <4>1
    <3> QED
      BY <3>1, <3>2
  <2>3. times = Sorted(D, key, tie)
    BY Zenon DEF Times
  <2> HIDE DEF D, key, tie, times
  <2>4. /\ Lists(Sorted(D, key, tie), D)
        /\ \A i \in D : (\A j \in D : i # j => key[i] > key[j]) => Sorted(D, key, tie)[1] = i
    BY <1>1, <2>1, SortedLists
  <2> QED
    BY <2>2, <2>3, <2>4
<1>3. sample = IF limit = None \/ size <= limit THEN series ELSE [t \in K |-> series[t]]
  BY <1>1, SampledIs
<1>4. K = {times[n] : n \in kept}
  BY Zenon DEF KeptAt
<1> HIDE DEF times, D, K, sample
<1>5. size \in Nat /\ size = Cardinality(D) /\ DOMAIN times = 1 .. size /\ \A n \in 1 .. size : times[n] \in D
  BY <1>1, <1>2, FS_CardinalityType, Fun_BijectionProperties DEF Lists
<1>6. CASE limit = None \/ size <= limit
  <2>1. sample = series
    BY <1>3, <1>6
  <2>2. D # {} => Min(D) \in D
    BY <1>1, SmallestIsMin
  <2> QED
    BY <1>5, <1>6, <2>1, <2>2 DEF D, sample
<1>7. CASE ~(limit = None \/ size <= limit)
  <2>1. sample = [t \in K |-> series[t]]
    BY <1>3, <1>7
  <2>2. limit \in Nat \ {0} /\ size > limit
    BY <1>5, <1>7
  <2>3. K \subseteq D
    BY <1>4, <1>5
  <2> HIDE DEF size
  <2>4. Cardinality(kept) <= limit
    BY <1>5, <2>2, FewAreKept
  <2>5. IsFiniteSet(kept)
    <3>1. IsFiniteSet(1 .. size)
      BY <1>5, FS_Interval
    <3>2. kept \in SUBSET (1 .. size)
      OBVIOUS
    <3> HIDE DEF kept
    <3> QED
      BY <3>1, <3>2, FS_Subset
  <2>6. Cardinality(K) <= Cardinality(kept)
    <3> DEFINE f == [n \in kept |-> times[n]]
    <3>1. f \in [kept -> K] /\ \A t \in K : \E n \in kept : f[n] = t
      BY <1>4
    <3> HIDE DEF f, kept
    <3>2. f \in Surjection(kept, K)
      BY <3>1, Fun_IsSurj
    <3> QED
      BY <2>5, <3>2, FS_Surjection
  <2>7. Cardinality(K) <= limit
    <3>1. IsFiniteSet(K)
      BY <1>1, <2>3, FS_Subset
    <3>2. Cardinality(K) \in Nat /\ Cardinality(kept) \in Nat
      BY <2>5, <3>1, FS_CardinalityType
    <3> HIDE DEF kept
    <3> QED
      BY <2>2, <2>4, <2>6, <3>2
  <2>8. D # {} => Min(D) \in K
    <3> SUFFICES ASSUME D # {} PROVE Min(D) \in K
      OBVIOUS
    <3>1. 1 \in 1 .. size
      BY <1>1, <1>5, FS_EmptySet
    <3>2. Step(size, limit) \in Nat \ {0}
      BY <1>5, <2>2, StepsReach
    <3>3. (1 - 1) % Step(size, limit) = 0
      BY <3>2
    <3> QED
      BY <1>2, <1>4, <3>1, <3>3
  <2>9. DOMAIN sample = K /\ \A t \in K : sample[t] = series[t]
    BY <2>1
  <2> QED
    BY <2>3, <2>7, <2>8, <2>9 DEF D, sample
<1> QED
  BY <1>6, <1>7

\* The last point of a period stands for it.
LEMMA CondensedStands ==
  ASSUME NEW series, IsSeries(series), NEW period \in Nat \ {0}
  PROVE  LET condensed == Condensed(series, period) IN
         /\ IsSeries(condensed)
         /\ \A k \in DOMAIN condensed : \E t \in DOMAIN series \cap (k .. k + period - 1) : condensed[k] = series[t]
         /\ DOMAIN series # {} =>
              /\ DOMAIN condensed # {}
              /\ Min(DOMAIN series) \in Min(DOMAIN condensed) .. Min(DOMAIN condensed) + period - 1
<1> DEFINE D == DOMAIN series
           Begins(t) == t - (t % period)
           B == {Begins(t) : t \in D}
           condensed == Condensed(series, period)
<1>1. D \subseteq Nat /\ IsFiniteSet(D)
  BY DEF IsSeries
<1>2. ASSUME NEW t \in Nat
      PROVE  Begins(t) \in Nat /\ t \in Begins(t) .. Begins(t) + period - 1
  <2>1. PICK q \in Int, r \in 0 .. period - 1 : q = t \div period /\ r = t % period /\ t = period * q + r
    BY QuotientAndRest
  <2>2. period * q \in Int /\ Begins(t) = period * q
    BY <2>1
  <2>3. q >= 0
    <3> SUFFICES ASSUME q < 0 PROVE FALSE
      BY <2>1
    <3>1. q * period <= (-1) * period
      BY <2>1, Scaled
    <3> QED
      BY <2>1, <3>1
  <2>4. 0 * period <= q * period
    BY <2>1, <2>3, Scaled
  <2> QED
    BY <2>1, <2>2, <2>4
<1>3. condensed = [k \in B |-> series[Max({t \in D : Begins(t) = k})]]
  BY Zenon DEF Condensed
<1>4. DOMAIN condensed = B /\ \A k \in B : condensed[k] = series[Max({t \in D : Begins(t) = k})]
  BY <1>3
<1> HIDE DEF D, condensed
<1>5. B \subseteq Nat
  BY <1>1, <1>2
<1>6. IsFiniteSet(B)
  <2> DEFINE f == [t \in D |-> Begins(t)]
  <2>1. f \in [D -> B] /\ \A k \in B : \E t \in D : f[t] = k
    OBVIOUS
  <2> HIDE DEF f, B
  <2>2. f \in Surjection(D, B)
    BY <2>1, Fun_IsSurj
  <2> QED
    BY <1>1, <2>2, FS_Surjection
<1>7. ASSUME NEW k \in B
      PROVE  \E t \in D \cap (k .. k + period - 1) : condensed[k] = series[t]
  <2> DEFINE T == {t \in D : Begins(t) = k}
  <2>1. T \in SUBSET D /\ T # {}
    OBVIOUS
  <2> HIDE DEF T, Begins
  <2>2. Max(T) \in T
    BY <1>1, <2>1, GreatestExists
  <2> USE DEF T
  <2>3. Max(T) \in D /\ Begins(Max(T)) = k
    BY <2>2
  <2>4. Max(T) \in k .. k + period - 1
    BY <1>1, <1>2, <2>3
  <2>5. condensed[k] = series[Max(T)]
    BY <1>4
  <2> QED
    BY <2>3, <2>4, <2>5
<1>8. ASSUME D # {}
      PROVE  B # {} /\ Min(D) \in Min(B) .. Min(B) + period - 1
  <2>1. PICK t \in D : t = Min(D) /\ \A u \in D : t <= u
    BY <1>1, <1>8, SmallestIsMin
  <2>2. B # {}
    BY <1>8
  <2>3. PICK k \in B : k = Min(B) /\ \A l \in B : k <= l
    BY <1>5, <2>2, SmallestIsMin
  <2>4. PICK u \in D : k = Begins(u)
    BY <2>3
  <2>5. t \in Nat /\ u \in Nat /\ k \in Nat /\ Begins(t) \in B
    BY <1>1, <1>5
  <2>6. Begins(t) \in Nat /\ t \in Begins(t) .. Begins(t) + period - 1
    BY <1>2, <2>5
  <2>7. u \in k .. k + period - 1
    BY <1>2, <2>4, <2>5
  <2> HIDE DEF Begins, B
  <2>8. PICK b \in Nat : b = Begins(t) /\ b <= t
    BY <2>5, <2>6
  <2>9. k <= b /\ t <= u
    BY <2>1, <2>3, <2>5, <2>8
  <2> QED
    BY <2>1, <2>2, <2>3, <2>5, <2>7, <2>8, <2>9
<1> HIDE DEF B
<1> QED
  BY <1>4, <1>5, <1>6, <1>7, <1>8 DEF IsSeries, condensed, D

StandsFor(q, k) == IF q.period = None THEN {k} ELSE k .. k + q.period - 1

LEMMA ShownIsASample ==
  ASSUME NEW series, IsSeries(series), NEW q \in Queries
  PROVE  LET drawn == Shown(q, series) IN
         /\ q.points # None => Cardinality(DOMAIN drawn) <= q.points
         /\ \A k \in DOMAIN drawn : \E t \in DOMAIN series \cap StandsFor(q, k) : drawn[k] = series[t]
         /\ DOMAIN series # {} => \E k \in DOMAIN drawn : Min(DOMAIN series) \in StandsFor(q, k)
<1> DEFINE whole == IF q.period = None THEN series ELSE Condensed(series, q.period)
           drawn == Shown(q, series)
<1>1. /\ q.period \in (Nat \ {0}) \cup {None}
      /\ q.points \in (Nat \ {0}) \cup {None}
  BY QueriesAssumption
<1>2. drawn = Sampled(whole, q.points)
  BY DEF Shown
<1> HIDE DEF whole, drawn
<1>3. /\ IsSeries(whole)
      /\ \A k \in DOMAIN whole : \E t \in DOMAIN series \cap StandsFor(q, k) : whole[k] = series[t]
      /\ DOMAIN series # {} =>
           DOMAIN whole # {} /\ Min(DOMAIN series) \in StandsFor(q, Min(DOMAIN whole))
  <2>1. CASE q.period = None
    <3>1. whole = series
      BY <2>1 DEF whole
    <3> QED
      BY <2>1, <3>1 DEF StandsFor
  <2>2. CASE q.period # None
    <3>1. PICK period \in Nat \ {0} : period = q.period /\ whole = Condensed(series, period)
      BY <1>1, <2>2 DEF whole
    <3>2. \A k : StandsFor(q, k) = k .. k + period - 1
      BY <2>2, <3>1 DEF StandsFor
    <3>3. /\ IsSeries(whole)
          /\ \A k \in DOMAIN whole : \E t \in DOMAIN series \cap (k .. k + period - 1) : whole[k] = series[t]
          /\ DOMAIN series # {} =>
               /\ DOMAIN whole # {}
               /\ Min(DOMAIN series) \in Min(DOMAIN whole) .. Min(DOMAIN whole) + period - 1
      BY <3>1, CondensedStands
    <3> QED
      BY <3>2, <3>3
  <2> QED
    BY <2>1, <2>2
<1>4. /\ DOMAIN drawn \subseteq DOMAIN whole /\ \A t \in DOMAIN drawn : drawn[t] = whole[t]
      /\ q.points # None => Cardinality(DOMAIN drawn) <= q.points
      /\ DOMAIN whole # {} => Min(DOMAIN whole) \in DOMAIN drawn
  BY <1>1, <1>2, <1>3, SamplesAreSome
<1> QED
  BY <1>3, <1>4 DEF drawn

LEMMA HistoriesAreSeries ==
  ASSUME AnalyticsInv, NEW p \in Entrants, NEW from, NEW to
  PROVE  /\ IsSeries(Merged(p, from, to))
         /\ IsSeries(Between(balances[p], from, to))
         /\ \A t \in DOMAIN Between(balances[p], from, to) :
              Between(balances[p], from, to)[t] = balances[p][t] /\ balances[p][t] \in Int
<1> DEFINE D == DOMAIN balances[p] \cap (from .. to)
<1>1. IsFiniteSet(D) /\ D \subseteq Nat /\ \A t \in D : balances[p][t] \in Int
  <2>1. /\ IsFiniteSet(DOMAIN balances[p]) /\ DOMAIN balances[p] \subseteq Nat
        /\ \A t \in DOMAIN balances[p] : balances[p][t] \in Int
    BY DEF AnalyticsInv, IsHistory
  <2>2. D \in SUBSET DOMAIN balances[p]
    OBVIOUS
  <2>3. IsFiniteSet(D)
    <3> HIDE DEF D
    <3> QED
      BY <2>1, <2>2, FS_Subset
  <2> QED
    BY <2>1, <2>2, <2>3
<1>2. DOMAIN Between(balances[p], from, to) = D /\ \A t \in D : Between(balances[p], from, to)[t] = balances[p][t]
  BY DEF Between
<1>3. DOMAIN Merged(p, from, to) = DOMAIN Between(balances[p], from, to)
  BY DEF Merged
<1> HIDE DEF D
<1> QED
  BY <1>1, <1>2, <1>3 DEF IsSeries

\* The balance profit and loss are measured from is close to the first.
LEMMA ProfitAndLossBegins ==
  ASSUME AnalyticsInv, NEW p \in Entrants, NEW from, NEW to
  PROVE  LET pnl == ProfitAndLoss(p, from, to) IN
         DOMAIN pnl # {} => \/ pnl[Min(DOMAIN pnl)] = 0
                            \/ 10 * Absolute(pnl[Min(DOMAIN pnl)]) < balances[p][Min(DOMAIN pnl)]
<1> DEFINE f == Or(from, Its(p).start)
           t == Or(to, Its(p).end)
           series == Between(balances[p], f, t)
           pnl == ProfitAndLoss(p, from, to)
           x == Min(DOMAIN series)
           initial == InitialBalance(p, f, t)
<1>1. pnl = [y \in DOMAIN series |-> series[y] - initial]
  BY DEF ProfitAndLoss
<1>2. IsSeries(series) /\ \A y \in DOMAIN series : series[y] = balances[p][y] /\ balances[p][y] \in Int
  BY HistoriesAreSeries
<1> SUFFICES ASSUME DOMAIN pnl # {}
    PROVE  pnl[Min(DOMAIN pnl)] = 0 \/ 10 * Absolute(pnl[Min(DOMAIN pnl)]) < balances[p][Min(DOMAIN pnl)]
  OBVIOUS
<1>3. DOMAIN pnl = DOMAIN series
  BY <1>1
<1>4. x \in DOMAIN series
  BY <1>2, <1>3, SmallestIsMin DEF IsSeries
<1>5. PICK first \in Int : first = balances[p][x] /\ pnl[x] = first - initial
  BY <1>1, <1>2, <1>4
<1>6. initial = first \/ (initial \in Int /\ 10 * Absolute(initial - first) < first)
  <2> DEFINE reported == reports[p].balance - reports[p].profit
  <2>1. initial = IF reports[p] # None /\ reported > 0 /\ 10 * Absolute(reported - first) < first
                  THEN reported ELSE first
    BY <1>5, Zenon DEF InitialBalance
  <2>2. reports[p] # None => reported \in Int
    BY AnalyticsAssumption DEF AnalyticsInv
  <2> HIDE DEF reported, initial
  <2> QED
    BY <2>1, <2>2
<1> HIDE DEF pnl, initial, series, x
<1>7. CASE initial = first
  BY <1>3, <1>5, <1>7 DEF x
<1>8. CASE initial \in Int /\ 10 * Absolute(initial - first) < first
  <2>1. Absolute(first - initial) = Absolute(initial - first)
    BY <1>8 DEF Absolute
  <2> QED
    BY <1>3, <1>5, <1>8, <2>1 DEF x
<1> QED
  BY <1>6, <1>7, <1>8 DEF pnl

LEMMA SeriesAreSampled == AnalyticsInv => SeriesAreSamples
<1> SUFFICES ASSUME AnalyticsInv, NEW p \in Entrants, NEW q \in Queries
    PROVE  LET from == Or(q.from, Its(p).start)
               to == Or(q.to, Its(p).end)
               all == Merged(p, from, to)
               drawn == Shown(q, all)
               Stands(k) == IF q.period = None THEN {k} ELSE k .. k + q.period - 1 IN
           /\ q.points # None => Cardinality(DOMAIN drawn) <= q.points
           /\ \A k \in DOMAIN drawn : \E t \in DOMAIN all \cap Stands(k) : drawn[k] = all[t]
           /\ DOMAIN all # {} => \E k \in DOMAIN drawn : Min(DOMAIN all) \in Stands(k)
           /\ LET pnl == ProfitAndLoss(p, q.from, q.to) IN
              DOMAIN pnl # {} => \/ pnl[Min(DOMAIN pnl)] = 0
                                 \/ 10 * Absolute(pnl[Min(DOMAIN pnl)]) < balances[p][Min(DOMAIN pnl)]
  BY Zenon DEF SeriesAreSamples
<1> DEFINE all == Merged(p, Or(q.from, Its(p).start), Or(q.to, Its(p).end))
           drawn == Shown(q, all)
<1>1. IsSeries(all)
  BY HistoriesAreSeries
<1> HIDE DEF all
<1>2. /\ q.points # None => Cardinality(DOMAIN drawn) <= q.points
      /\ \A k \in DOMAIN drawn : \E t \in DOMAIN all \cap StandsFor(q, k) : drawn[k] = all[t]
      /\ DOMAIN all # {} => \E k \in DOMAIN drawn : Min(DOMAIN all) \in StandsFor(q, k)
  BY <1>1, ShownIsASample
<1>3. LET pnl == ProfitAndLoss(p, q.from, q.to) IN
      DOMAIN pnl # {} => \/ pnl[Min(DOMAIN pnl)] = 0
                         \/ 10 * Absolute(pnl[Min(DOMAIN pnl)]) < balances[p][Min(DOMAIN pnl)]
  BY ProfitAndLossBegins
<1> HIDE DEF drawn
<1> QED
  BY <1>2, <1>3, Zenon DEF StandsFor, all, drawn

------------------------------------------------------------------------------
(***************************************************************************)
(* Trades.  The rows an answer is about are arranged, none is lost; and    *)
(* the statistics of the symbols share them out.                           *)
(***************************************************************************)

\* Rows of some trades.
AreOpened(I) == IsFiniteSet(I) /\ I \subseteq Nat /\ \A i \in I : trades[i].open \in Int

LEMMA NewestFirstLists ==
  ASSUME NEW I, AreOpened(I)
  PROVE  Lists(NewestFirst(I), I)
<1> DEFINE key == [i \in I |-> trades[i].open]
           tie == [i \in I |-> i]
           Before(i, j) == trades[i].open > trades[j].open \/ (trades[i].open = trades[j].open /\ i < j)
<1>1. /\ \A i \in I : key[i] \in Int /\ tie[i] \in Int
      /\ \A i, j \in I : tie[i] = tie[j] => i = j
  BY DEF AreOpened
<1>2. NewestFirst(I) = Sorted(I, key, tie)
  <2>1. Places(I, Before) = KeyPlaces(I, key, tie)
    <3>1. \A i \in I : {j \in I : Before(j, i)} = {j \in I : key[j] > key[i] \/ (key[j] = key[i] /\ tie[j] < tie[i])}
      OBVIOUS
    <3> HIDE DEF key, tie, Before
    <3> QED
      BY <3>1 DEF Places, KeyPlaces
  <2> QED
    BY <2>1, Zenon DEF NewestFirst, Descending, Sorted
<1>3. IsFiniteSet(I)
  BY DEF AreOpened
<1> HIDE DEF key, tie
<1>4. Lists(Sorted(I, key, tie), I)
  BY <1>1, <1>3, SortedLists
<1> QED
  BY <1>2, <1>4

Symbols(I) == {trades[i].symbol : i \in I} \ {NoSymbol}
OfSymbol(I) == [s \in Symbols(I) |-> {i \in I : trades[i].symbol = s}]
Totals(stats) == [n \in DOMAIN stats |-> stats[n].total]

LEMMA SymbolsAreFinite ==
  ASSUME NEW I, IsFiniteSet(I)
  PROVE  /\ IsFiniteSet(Symbols(I))
         /\ \A s \in Symbols(I) : IsFiniteSet(OfSymbol(I)[s]) /\ Cardinality(OfSymbol(I)[s]) \in Nat
<1> DEFINE All == {trades[i].symbol : i \in I}
           f == [i \in I |-> trades[i].symbol]
<1>1. f \in [I -> All] /\ \A s \in All : \E i \in I : f[i] = s
  OBVIOUS
<1> HIDE DEF f
<1>2. IsFiniteSet(All)
  <2> HIDE DEF All
  <2>1. f \in Surjection(I, All)
    BY <1>1, Fun_IsSurj
  <2> QED
    BY <2>1, FS_Surjection
<1>3. Symbols(I) \in SUBSET All
  BY DEF Symbols
<1> HIDE DEF All
<1>4. IsFiniteSet(Symbols(I))
  BY <1>2, <1>3, FS_Subset
<1>5. ASSUME NEW s \in Symbols(I)
      PROVE  IsFiniteSet(OfSymbol(I)[s]) /\ Cardinality(OfSymbol(I)[s]) \in Nat
  <2>1. OfSymbol(I)[s] \in SUBSET I
    BY DEF OfSymbol
  <2>2. IsFiniteSet(OfSymbol(I)[s])
    BY <2>1, FS_Subset
  <2> QED
    BY <2>2, FS_CardinalityType
<1> QED
  BY <1>4, <1>5

\* The statistics are a list of the symbols, each with the number of its trades.
LEMMA StatsAreOfSymbols ==
  ASSUME NEW I, AreOpened(I)
  PROVE  \E order : /\ Lists(order, Symbols(I))
                    /\ DOMAIN SymbolStats(I) = DOMAIN order
                    /\ \A n \in DOMAIN order : SymbolStats(I)[n] = CountedFor(order[n], I)
                    /\ SymbolStats(I) = [n \in DOMAIN order |-> CountedFor(order[n], I)]
<1> DEFINE S == Symbols(I)
           stats == [s \in S |-> CountedFor(s, I)]
           PlacesOf(s) == {n \in 1 .. Cardinality(I) : trades[NewestFirst(I)[n]].symbol = s}
           first == [s \in S |-> Min(PlacesOf(s))]
           key == [s \in S |-> stats[s].total]
           Before(s, r) == stats[s].total > stats[r].total \/ (stats[s].total = stats[r].total /\ first[s] < first[r])
           order == Arranged(Places(S, Before))
<1>0. IsFiniteSet(I) /\ IsFiniteSet(S)
  BY SymbolsAreFinite DEF AreOpened
<1>1. SymbolStats(I) = [n \in DOMAIN order |-> stats[order[n]]]
  BY Zenon DEF SymbolStats, Symbols
<1>2. \A s \in S : key[s] \in Int
  <2>1. \A s \in S : key[s] = Cardinality(OfSymbol(I)[s])
    BY DEF CountedFor, OfSymbol
  <2> HIDE DEF key, S
  <2> QED
    BY <1>0, <2>1, SymbolsAreFinite DEF S
<1>3. ASSUME NEW s \in S
      PROVE  first[s] \in Nat /\ trades[NewestFirst(I)[first[s]]].symbol = s
  <2>1. PICK i \in I : trades[i].symbol = s
    BY DEF Symbols
  <2>2. Lists(NewestFirst(I), I)
    BY NewestFirstLists
  <2>3. PICK n \in 1 .. Cardinality(I) : NewestFirst(I)[n] = i
    BY <2>2, Fun_BijectionProperties DEF Lists
  <2>4. n \in PlacesOf(s)
    BY <2>1, <2>3
  <2>5. PlacesOf(s) \subseteq Nat
    OBVIOUS
  <2>6. Min(PlacesOf(s)) \in PlacesOf(s)
    <3> HIDE DEF PlacesOf
    <3> QED
      BY <2>4, <2>5, SmallestIsMin
  <2> QED
    BY <2>6
<1>4. \A s, r \in S : first[s] = first[r] => s = r
  BY <1>3
<1> HIDE DEF S, stats, first
<1>5. order = Sorted(S, key, first)
  <2>1. Places(S, Before) = KeyPlaces(S, key, first)
    <3>1. \A s \in S : {r \in S : Before(r, s)} = {r \in S : key[r] > key[s] \/ (key[r] = key[s] /\ first[r] < first[s])}
      OBVIOUS
    <3> HIDE DEF key, Before
    <3> QED
      BY <3>1 DEF Places, KeyPlaces
  <2> QED
    BY <2>1, Zenon DEF Sorted
<1>6. Lists(order, S)
  <2>1. \A s \in S : key[s] \in Int /\ first[s] \in Int
    BY <1>2, <1>3
  <2> HIDE DEF key, order
  <2> QED
    BY <1>0, <1>4, <1>5, <2>1, SortedLists
<1> HIDE DEF order
<1>7. \A n \in DOMAIN order : order[n] \in S
  BY <1>6, Fun_BijectionProperties DEF Lists
<1>8. \A n \in DOMAIN order : stats[order[n]] = CountedFor(order[n], I)
  BY <1>7 DEF stats
<1>9. SymbolStats(I) = [n \in DOMAIN order |-> CountedFor(order[n], I)]
  BY <1>1, <1>8
<1> QED
  BY <1>6, <1>9 DEF S

\* The totals of the statistics are those of the symbols, so they add up to the trades that have one.
LEMMA TotalsAreOfSymbols ==
  ASSUME NEW I, AreOpened(I)
  PROVE  /\ SymbolStats(I) \in Seq({CountedFor(s, I) : s \in Symbols(I)})
         /\ \A n \in DOMAIN SymbolStats(I) : SymbolStats(I)[n].total \in Nat
         /\ SumOf(SymbolStats(I), Total) = Cardinality({i \in I : trades[i].symbol # NoSymbol})
<1> DEFINE S == Symbols(I)
           stats == SymbolStats(I)
           size == [s \in S |-> Cardinality(OfSymbol(I)[s])]
<1>0. IsFiniteSet(S) /\ \A s \in S : IsFiniteSet(OfSymbol(I)[s]) /\ Cardinality(OfSymbol(I)[s]) \in Nat
  BY SymbolsAreFinite DEF AreOpened
<1>1. PICK order : /\ Lists(order, S)
                   /\ DOMAIN stats = DOMAIN order
                   /\ \A n \in DOMAIN order : stats[n] = CountedFor(order[n], I)
                   /\ stats = [n \in DOMAIN order |-> CountedFor(order[n], I)]
  BY StatsAreOfSymbols
<1>2. \A s \in S : CountedFor(s, I).total = size[s]
  BY DEF CountedFor, OfSymbol
<1>3. \A s \in S : size[s] \in Nat /\ size[s] = Cardinality(OfSymbol(I)[s])
  BY <1>0
<1>4. SumOver(size, S) = Cardinality({i \in I : trades[i].symbol # NoSymbol})
  <2> DEFINE part == OfSymbol(I)
  <2>1. \A s \in S : part[s] = {i \in I : trades[i].symbol = s}
    BY DEF OfSymbol
  <2>2. \A i \in I : trades[i].symbol # NoSymbol => trades[i].symbol \in S
    BY DEF Symbols
  <2>3. \A s \in S : s # NoSymbol
    BY DEF Symbols
  <2> HIDE DEF S, size, part
  <2>4. Together(part, S) = {i \in I : trades[i].symbol # NoSymbol}
    BY <2>1, <2>2, <2>3 DEF Together
  <2>5. \A s, r \in S : s # r => part[s] \cap part[r] = {}
    BY <2>1
  <2>6. \A s \in S : IsFiniteSet(part[s]) /\ size[s] = Cardinality(part[s])
    BY <1>0, <1>3 DEF part
  <2>7. SumOver(size, S) = Cardinality(Together(part, S))
    BY <1>0, <2>5, <2>6, SizesAddUp
  <2> QED
    BY <2>4, <2>7
<1> HIDE DEF S, stats, size
<1>5. /\ DOMAIN order = 1 .. Cardinality(S) /\ Cardinality(S) \in Nat
      /\ order \in Bijection(DOMAIN order, S) /\ \A n \in DOMAIN order : order[n] \in S
  BY <1>0, <1>1, FS_CardinalityType, Fun_BijectionProperties DEF Lists
<1>6. \A n \in DOMAIN stats : stats[n].total = size[order[n]]
  BY <1>1, <1>2, <1>5
<1>7. \A n \in DOMAIN stats : stats[n].total \in Nat
  BY <1>1, <1>3, <1>5, <1>6
<1>8. stats \in Seq({CountedFor(s, I) : s \in S})
  <2>1. stats \in [1 .. Cardinality(S) -> {CountedFor(s, I) : s \in S}]
    BY <1>1, <1>5
  <2> QED
    BY <1>5, <2>1, SeqDef
<1>9. SumOf(stats, Total) = SumOver(Totals(stats), DOMAIN stats)
  <2>1. SumOf(stats, Total) = SumFunction(Totals(stats))
    BY Zenon DEF SumOf, Total, Totals
  <2>2. DOMAIN Totals(stats) = DOMAIN stats /\ IsFiniteSet(DOMAIN stats)
    BY <1>1, <1>5, FS_Interval DEF Totals
  <2> QED
    BY <2>1, <2>2, SumsAreOver
<1>10. SumOver(Totals(stats), DOMAIN stats) = SumOver(size, S)
  <2>1. IsFiniteSet(DOMAIN stats)
    BY <1>1, <1>5, FS_Interval
  <2>2. \A n \in DOMAIN stats : Totals(stats)[n] = size[order[n]]
    BY <1>6 DEF Totals
  <2>3. order \in Bijection(DOMAIN stats, S) /\ \A s \in S : size[s] \in Int
    BY <1>1, <1>3, <1>5
  <2> QED
    BY <1>0, <2>1, <2>2, <2>3, SumRenamed
<1> QED
  BY <1>4, <1>7, <1>8, <1>9, <1>10 DEF S, stats

\* Cutting off the first TopSymbols.
LEMMA CutAtTop ==
  ASSUME NEW X, NEW s \in Seq(X)
  PROVE  DOMAIN Cut(s, TopSymbols) = 1 .. IF Len(s) > TopSymbols THEN TopSymbols ELSE Len(s)
<1>1. TopSymbols \in Nat \ {0} /\ TopSymbols # None
  BY AnalyticsAssumption
<1>2. Len(s) \in Nat /\ DOMAIN s = 1 .. Len(s) /\ \A n \in DOMAIN s : s[n] \in X
  BY LenProperties, ElementOfSeq
<1>3. CASE Len(s) > TopSymbols
  <2>1. \A n \in 1 .. TopSymbols : s[n] \in X
    BY <1>1, <1>2, <1>3
  <2>2. SubSeq(s, 1, TopSymbols) \in Seq(X) /\ Len(SubSeq(s, 1, TopSymbols)) = TopSymbols
    BY <1>1, <2>1, SubSeqProperties
  <2>3. DOMAIN SubSeq(s, 1, TopSymbols) = 1 .. TopSymbols
    BY <2>2, LenProperties
  <2> QED
    BY <1>1, <1>3, <2>3 DEF Cut
<1>4. CASE ~(Len(s) > TopSymbols)
  BY <1>1, <1>2, <1>4 DEF Cut
<1> QED
  BY <1>3, <1>4

\* The others are what the first leave.
LEMMA OthersAreTheRest ==
  ASSUME NEW X, NEW stats \in Seq(X), \A n \in DOMAIN stats : stats[n].total \in Nat
  PROVE  LET first == 1 .. IF Len(stats) > TopSymbols THEN TopSymbols ELSE Len(stats) IN
         /\ first \subseteq DOMAIN stats
         /\ SumOf(Others(stats), Total) \in Nat
         /\ SumOf(stats, Total) = SumOver(Totals(stats), first) + SumOf(Others(stats), Total)
<1> DEFINE top == IF Len(stats) > TopSymbols THEN TopSymbols ELSE Len(stats)
           first == 1 .. top
           others == Others(stats)
           D == DOMAIN stats
           R == D \ first
           v == Totals(stats)
           w == Totals(others)
           b == [n \in DOMAIN others |-> TopSymbols + n]
<1>1. TopSymbols \in Nat \ {0}
  BY AnalyticsAssumption
<1>2. Len(stats) \in Nat /\ D = 1 .. Len(stats) /\ \A n \in D : stats[n] \in X
  BY LenProperties, ElementOfSeq
<1>3. PICK L \in Nat, T \in Nat \ {0} : L = Len(stats) /\ T = TopSymbols
  BY <1>1, <1>2
<1>30. top \in Nat /\ top <= L /\ top <= T /\ (L > T => top = T) /\ (L <= T => top = L)
  BY <1>3
<1> HIDE DEF top
<1>31. first \in SUBSET D /\ R = (T + 1) .. L
  <2>1. D = 1 .. L
    BY <1>2, <1>3
  <2>2. \A n \in first : n \in D
    BY <1>30, <2>1
  <2>3. \A n \in Int : n \in 1 .. L /\ n \notin 1 .. top <=> n \in (T + 1) .. L
    BY <1>30
  <2>4. \A n \in R : n \in Int /\ n \in 1 .. L /\ n \notin 1 .. top
    BY <2>1
  <2>5. \A n \in (T + 1) .. L : n \in Int /\ n \in R
    BY <2>1, <2>3
  <2> QED
    BY <2>2, <2>3, <2>4, <2>5
<1>4. others \in Seq(X) /\ Len(others) = L - top /\ \A n \in 1 .. L - T : others[n] = stats[T + n]
  <2>1. T + 1 \in Int /\ L \in Int /\ \A n \in (T + 1) .. L : stats[n] \in X
    BY <1>2, <1>3
  <2>2. others = SubSeq(stats, T + 1, L)
    BY <1>3 DEF Others
  <2> HIDE DEF others
  <2>3. PICK m \in Int : m = T + 1
    OBVIOUS
  <2>4. /\ SubSeq(stats, m, L) \in Seq(X)
        /\ Len(SubSeq(stats, m, L)) = IF m <= L THEN L - m + 1 ELSE 0
        /\ \A n \in 1 .. L - m + 1 : SubSeq(stats, m, L)[n] = stats[m + n - 1]
    BY <2>1, <2>3, SubSeqProperties
  <2>5. Len(others) = L - top
    <3>1. (m <= L => L - m + 1 = L - top) /\ (~(m <= L) => L - top = 0)
      BY <1>30, <2>3
    <3> QED
      BY <2>2, <2>3, <2>4, <3>1
  <2>6. L - m + 1 = L - T /\ \A n \in 1 .. L - T : m + n - 1 = T + n
    BY <2>3
  <2>7. \A n \in 1 .. L - T : others[n] = stats[T + n]
    BY <2>2, <2>3, <2>4, <2>6
  <2> QED
    BY <2>2, <2>3, <2>4, <2>5, <2>7
<1>5. DOMAIN others = 1 .. L - top
  BY <1>4, LenProperties
<1>50. \A n \in DOMAIN others : T + n \in R /\ n \in 1 .. L - T
  BY <1>30, <1>31, <1>5
<1>6. v = [n \in D |-> stats[n].total] /\ w = [n \in DOMAIN others |-> others[n].total]
  BY DEF Totals
<1> HIDE DEF others, v, w
<1>7. /\ DOMAIN v = D /\ DOMAIN w = DOMAIN others /\ \A n \in D : v[n] \in Nat
      /\ \A n \in DOMAIN others : b[n] \in R /\ w[n] = v[b[n]]
  <2>1. /\ DOMAIN v = D /\ DOMAIN w = DOMAIN others /\ \A n \in D : v[n] \in Nat
        /\ \A n \in D : v[n] = stats[n].total
        /\ \A n \in DOMAIN others : w[n] = others[n].total
    BY <1>6
  <2>2. \A n \in DOMAIN others : b[n] = T + n /\ others[n] = stats[T + n]
    BY <1>3, <1>4, <1>50
  <2>3. R \subseteq D
    OBVIOUS
  <2> HIDE DEF D, R, b
  <2> QED
    BY <1>50, <2>1, <2>2, <2>3
<1>8. b \in Bijection(DOMAIN others, R)
  <2>1. \A m, n \in DOMAIN others : b[m] = b[n] => m = n
    BY <1>3, <1>5, <1>30
  <2>2. \A n \in R : n - TopSymbols \in DOMAIN others /\ b[n - TopSymbols] = n
    <3>1. \A n \in (T + 1) .. L : n - T \in 1 .. L - top /\ T + (n - T) = n
      BY <1>30
    <3>2. \A n \in R : n - T \in DOMAIN others /\ T + (n - T) = n
      BY <1>5, <1>31, <3>1
    <3> HIDE DEF R
    <3> QED
      BY <1>3, <3>2
  <2>3. b \in [DOMAIN others -> R]
    BY <1>7
  <2> HIDE DEF b, R
  <2> QED
    BY <2>1, <2>2, <2>3, Fun_IsBij
<1>9. IsFiniteSet(D) /\ IsFiniteSet(R) /\ IsFiniteSet(DOMAIN others)
  <2>1. L \in Int /\ 1 \in Int /\ T + 1 \in Int /\ L - top \in Int
    BY <1>30
  <2>2. IsFiniteSet(1 .. L) /\ IsFiniteSet((T + 1) .. L) /\ IsFiniteSet(1 .. (L - top))
    BY <2>1, FS_Interval
  <2> QED
    BY <1>2, <1>3, <1>31, <1>5, <2>2
<1>10. SumOf(stats, Total) = SumOver(v, D) /\ SumOf(others, Total) = SumOver(w, DOMAIN others)
  <2>1. SumOf(stats, Total) = SumFunction(v) /\ SumOf(others, Total) = SumFunction(w)
    BY Zenon DEF SumOf, Total, Totals, v, w
  <2> QED
    BY <1>7, <1>9, <2>1, SumsAreOver
<1> HIDE DEF b, R, D, first, top
<1>11. SumOver(w, DOMAIN others) = SumOver(v, R)
  <2>1. \A n \in R : v[n] \in Int
    BY <1>7 DEF R
  <2> QED
    BY <1>7, <1>8, <1>9, <2>1, SumRenamed
<1>12. SumOver(v, D) = SumOver(v, first) + SumOver(v, D \ first)
  BY <1>31, <1>7, <1>9, SumOfParts
<1>13. SumOver(v, R) \in Nat
  <2>1. \A n \in R : v[n] \in Nat
    BY <1>7 DEF R
  <2> QED
    BY <1>9, <2>1, SumsAreNat
<1> QED
  BY <1>31, <1>10, <1>11, <1>12, <1>13 DEF first, top, others, R, D, v

\* The pairs shown add up to the statistics they are of.
LEMMA PairsAddUp ==
  ASSUME NEW X, NEW stats \in Seq(X), \A n \in DOMAIN stats : stats[n].total \in Nat
  PROVE  SumOf(CurrencyPairs(stats), LAMBDA pair : pair.value) = SumOf(stats, Total)
<1> DEFINE Pair(label, value) == [label |-> label, value |-> value, percentage |-> PercentOf(value, SumOf(stats, Total))]
           top == IF Len(stats) > TopSymbols THEN TopSymbols ELSE Len(stats)
           first == 1 .. top
           other == SumOf(Others(stats), Total)
           head == [n \in first |-> Pair(stats[n].symbol, stats[n].total)]
           last == Pair("Other", other)
           tail == IF other > 0 THEN <<last>> ELSE <<>>
           pairs == CurrencyPairs(stats)
           values == [n \in DOMAIN pairs |-> pairs[n].value]
           v == Totals(stats)
           Y == {head[n] : n \in first} \cup {last}
<1>1. /\ first \subseteq DOMAIN stats /\ other \in Nat
      /\ SumOf(stats, Total) = SumOver(v, first) + other
  BY OthersAreTheRest
<1>2. top \in Nat
  BY AnalyticsAssumption, LenProperties
<1>3. pairs = head \o tail
  <2>1. DOMAIN Cut(stats, TopSymbols) = first
    BY CutAtTop
  <2> HIDE DEF first
  <2> QED
    BY <2>1, Zenon DEF CurrencyPairs
<1>4. SumOf(pairs, LAMBDA pair : pair.value) = SumFunction(values)
  BY Zenon DEF SumOf
<1>5. /\ DOMAIN head = first /\ \A n \in first : head[n].value = v[n] /\ v[n] \in Nat
      /\ last.value = other
  BY <1>1 DEF Totals
<1>6. IsFiniteSet(first)
  BY <1>2, FS_Interval
<1>7. DOMAIN values = DOMAIN pairs /\ \A n \in DOMAIN pairs : values[n] = pairs[n].value
  OBVIOUS
<1>8. head \in Seq(Y) /\ Len(head) = top /\ <<>> \in Seq(Y) /\ <<last>> \in Seq(Y) /\ Len(<<last>>) = 1 /\ <<last>>[1] = last
  <2>1. head \in [1 .. top -> Y] /\ last \in Y
    OBVIOUS
  <2> HIDE DEF Y, head, last, top
  <2>2. head \in Seq(Y)
    BY <1>2, <2>1, SeqDef
  <2>3. DOMAIN head = 1 .. Len(head) /\ Len(head) \in Nat
    BY <2>2, LenProperties
  <2>4. Len(head) = top
    BY <1>2, <2>1, <2>3
  <2> QED
    BY <2>1, <2>2, <2>4
<1> HIDE DEF pairs, head, values, other, last, Y, v, top
<1>9. CASE other > 0
  <2>1. tail = <<last>>
    BY <1>9
  <2>2. /\ head \o <<last>> \in Seq(Y)
        /\ Len(head \o <<last>>) = Len(head) + Len(<<last>>)
        /\ \A n \in 1 .. Len(head) + Len(<<last>>) :
             (head \o <<last>>)[n] = IF n <= Len(head) THEN head[n] ELSE <<last>>[n - Len(head)]
    BY <1>8, ConcatProperties
  <2>3. Len(pairs) = top + 1 /\ pairs \in Seq(Y)
    BY <1>3, <1>8, <2>1, <2>2
  <2>4. DOMAIN pairs = 1 .. top + 1
    BY <2>3, LenProperties
  <2>5. \A n \in first : pairs[n] = head[n]
    BY <1>2, <1>3, <1>8, <2>1, <2>2
  <2>6. pairs[top + 1] = last
    BY <1>2, <1>3, <1>8, <2>1, <2>2
  <2>7. /\ DOMAIN values = first \cup {top + 1} /\ top + 1 \notin first
        /\ \A n \in first : values[n] = v[n] /\ v[n] \in Int
        /\ values[top + 1] = other
    BY <1>2, <1>5, <1>7, <2>4, <2>5, <2>6
  <2> DEFINE D == DOMAIN values
  <2>8. IsFiniteSet(D)
    BY <1>6, <2>7, FS_AddElement
  <2>9. \A n \in D : values[n] \in Int
    BY <1>1, <2>7
  <2>10. D \ {top + 1} = first /\ top + 1 \in D
    BY <2>7
  <2>11. SumFunction(values) = SumOver(values, D)
    BY <2>8, SumsAreOver
  <2> HIDE DEF D, first
  <2>12. SumOver(values, D) = values[top + 1] + SumOver(values, D \ {top + 1})
    BY <2>8, <2>9, <2>10, SumWithout
  <2>13. SumOver(values, first) = SumOver(v, first)
    BY <1>6, <2>7, SumsOfEquals
  <2>14. PICK k \in Int : k = SumOver(v, first)
    BY <1>6, <2>7, SumsAreInt
  <2>15. other + k = k + other
    BY <1>1
  <2> QED
    BY <1>1, <1>4, <2>7, <2>10, <2>11, <2>12, <2>13, <2>14, <2>15 DEF pairs
<1>10. CASE ~(other > 0)
  <2>1. pairs = head /\ other = 0
    BY <1>1, <1>3, <1>8, <1>10, ConcatEmptySeq
  <2>2. /\ DOMAIN values = first
        /\ \A n \in first : values[n] = v[n] /\ v[n] \in Int
    BY <1>5, <1>7, <2>1
  <2>3. SumFunction(values) = SumOver(values, first)
    BY <1>6, <2>2, SumsAreOver
  <2> HIDE DEF first
  <2>4. SumOver(values, first) = SumOver(v, first)
    BY <1>6, <2>2, SumsOfEquals
  <2>5. SumOver(v, first) \in Int
    BY <1>6, <2>2, SumsAreInt
  <2> QED
    BY <1>1, <1>4, <2>1, <2>3, <2>4, <2>5 DEF pairs
<1> QED
  BY <1>9, <1>10

LEMMA RowsAreOpened ==
  ASSUME AnalyticsInv
  PROVE  /\ IsFiniteSet(DOMAIN trades)
         /\ \A I \in SUBSET DOMAIN trades : AreOpened(I)
         /\ \A i \in DOMAIN trades : trades[i].of \in Entrants /\ trades[i].open \in Int
<1>1. Len(trades) \in Nat /\ DOMAIN trades = 1 .. Len(trades) /\ \A i \in DOMAIN trades : trades[i] \in Rows
  BY LenProperties, ElementOfSeq DEF AnalyticsInv
<1>2. IsFiniteSet(DOMAIN trades)
  BY <1>1, FS_Interval
<1>3. \A row \in Rows : row.of \in Entrants /\ row.open \in Int
  <2> SUFFICES ASSUME NEW kind \in TradeKinds, NEW p \in Entrants
      PROVE  With(kind, "of", p).of \in Entrants /\ With(kind, "of", p).open \in Int
    BY DEF Rows
  <2>1. "open" \in DOMAIN kind /\ kind.open \in Int
    BY AnalyticsAssumption
  <2> QED
    BY <2>1 DEF With
<1>4. ASSUME NEW I \in SUBSET DOMAIN trades
      PROVE  AreOpened(I)
  <2>1. IsFiniteSet(I)
    BY <1>2, FS_Subset
  <2> QED
    BY <1>1, <1>3, <2>1 DEF AreOpened
<1> QED
  BY <1>1, <1>2, <1>3, <1>4

\* What the analyses show of the trades.
LEMMA AnalysisOfTrades ==
  ASSUME NEW p, NEW q
  PROVE  LET I == Filtered(q, Opened(p, Or(q.from, Its(p).start), Or(q.to, Its(p).end))) IN
         /\ "statsPerSymbol" \in Sections(q) =>
              Analysis(p, q)["statsPerSymbol"] = Cut(SymbolStats(I), q.symbolLimit)
         /\ "tradeHistory" \in Sections(q) =>
              Analysis(p, q)["tradeHistory"] = Cut(SortedBy(q.order, I), q.tradeLimit)
BY DEF Analysis

LEMMA AllAnalysisOfTrades ==
  ASSUME NEW u, NEW q
  PROVE  /\ "statsPerSymbol" \in Sections(q) =>
              AllAnalysis(u, q)["statsPerSymbol"] = Cut(SymbolStats(AllTrades(u, q)), q.symbolLimit)
         /\ "tradeHistory" \in Sections(q) =>
              AllAnalysis(u, q)["tradeHistory"] = Cut(SortedBy(q.order, AllTrades(u, q)), q.tradeLimit)
BY DEF AllAnalysis, AllStats

LEMMA NothingInParticular ==
  ASSUME NEW q, q.symbols = {}, q.only = "any", q.min = None, q.max = None, NEW I
  PROVE  Filtered(q, I) = I /\ SortedBy("openTime_desc", I) = NewestFirst(I)
<1>1. Filtered(q, I) = I
  BY DEF Filtered
<1>2. SortedBy("openTime_desc", I) = NewestFirst(I)
  BY DEF SortedBy
<1> QED
  BY <1>1, <1>2

\* The smallest and the largest of one number.
LEMMA OnlyOne == \A n \in Nat : Min({n}) = n /\ Max({n}) = n
<1> SUFFICES ASSUME NEW n \in Nat PROVE Min({n}) = n /\ Max({n}) = n
  OBVIOUS
<1>1. Min({n}) \in {n}
  BY SmallestIsMin
<1>2. Max({n}) \in {n}
  <2>1. IsFiniteSet({n}) /\ {n} \subseteq Nat /\ {n} # {}
    BY FS_Singleton
  <2>2. \A s \in SUBSET {n} : s # {} => Max(s) \in s
    BY <2>1, GreatestExists
  <2> QED
    BY <2>1, <2>2
<1> QED
  BY <1>1, <1>2

\* What the dashboard asks for.
Asked == [Plain EXCEPT !.sections = {"performance", "statsPerSymbol", "tradeHistory"}, !.tradeLimit = TradeCap]

LEMMA PlainQueries ==
  /\ Plain.symbols = {} /\ Plain.only = "any" /\ Plain.min = None /\ Plain.max = None
  /\ Plain.from = None /\ Plain.to = None /\ Plain.order = "openTime_desc"
  /\ Plain.symbolLimit = None /\ Plain.tradeLimit = None
  /\ "statsPerSymbol" \in Sections(Plain) /\ "tradeHistory" \in Sections(Plain)
  /\ Asked.symbols = {} /\ Asked.only = "any" /\ Asked.min = None /\ Asked.max = None
  /\ Asked.from = None /\ Asked.to = None /\ Asked.order = "openTime_desc"
  /\ Asked.symbolLimit = None /\ Asked.tradeLimit = TradeCap
  /\ "statsPerSymbol" \in Sections(Asked) /\ "tradeHistory" \in Sections(Asked)
BY DEF Plain, Asked, Sections, AllSections

\* The trades of a user with one participant are the participant's.
LEMMA TradesOfTheOnlyOne ==
  ASSUME NEW p \in Entrants, By(Enrolled[p].user) = {p}
  PROVE  AllTrades(Enrolled[p].user, Asked) = Opened(p, Its(p).start, Its(p).end)
<1> DEFINE u == Enrolled[p].user
<1>1. Its(p).start \in Nat /\ Its(p).end \in Nat
  BY AnalyticsAssumption DEF Its
<1>2. FromEarliest(u, Asked) = Its(p).start
  <2>1. {Its(o).start : o \in By(u)} = {Its(p).start}
    OBVIOUS
  <2> QED
    BY <1>1, <2>1, OnlyOne, PlainQueries DEF FromEarliest, Or
<1>3. ToLatest(u, Asked) = Its(p).end
  <2>1. {Its(o).end : o \in By(u)} = {Its(p).end}
    OBVIOUS
  <2> QED
    BY <1>1, <2>1, OnlyOne, PlainQueries DEF ToLatest, Or
<1>4. UNION {Opened(o, FromEarliest(u, Asked), ToLatest(u, Asked)) : o \in By(u)} = Opened(p, Its(p).start, Its(p).end)
  BY <1>2, <1>3
<1> QED
  BY <1>4, NothingInParticular, PlainQueries DEF AllTrades

\* A side written in either of two words is counted once.
LEMMA EitherWord ==
  ASSUME NEW rows, IsFiniteSet(DOMAIN rows), NEW a, NEW b, a # b
  PROVE  Written({a, b}, rows) = Written({a}, rows) + Written({b}, rows)
<1> DEFINE A == {n \in DOMAIN rows : trades[rows[n]].side \in {a}}
           B == {n \in DOMAIN rows : trades[rows[n]].side \in {b}}
<1>1. IsFiniteSet(A) /\ IsFiniteSet(B)
  BY FS_Subset
<1>2. A \cap B = {} /\ A \cup B = {n \in DOMAIN rows : trades[rows[n]].side \in {a, b}}
  OBVIOUS
<1>3. Written({a}, rows) = Cardinality(A) /\ Written({b}, rows) = Cardinality(B)
      /\ Written({a, b}, rows) = Cardinality(A \cup B)
  BY <1>2, Zenon DEF Written
<1> HIDE DEF A, B
<1>4. Cardinality(A \cup B) = Cardinality(A) + Cardinality(B) - Cardinality(A \cap B)
  BY <1>1, FS_Union
<1>5. Cardinality(A \cap B) = 0 /\ Cardinality(A) \in Nat /\ Cardinality(B) \in Nat
  BY <1>1, <1>2, FS_EmptySet, FS_CardinalityType
<1> QED
  BY <1>3, <1>4, <1>5

LEMMA ParticipantsTradesAgree ==
  ASSUME AnalyticsInv, NEW p \in Entrants
  PROVE  TradesAgree(p, LiveAnalysis(p), Analysis(p, Plain), Dashboard(Enrolled[p].user))
<1> DEFINE I == Opened(p, Its(p).start, Its(p).end)
           u == Enrolled[p].user
           here == LiveAnalysis(p)
           analysis == Analysis(p, Plain)
           dashboard == Dashboard(u)
           rows == NewestFirst(I)
           stats == SymbolStats(I)
<1>1. AreOpened(I) /\ IsFiniteSet(I)
  <2>1. I \in SUBSET DOMAIN trades
    BY DEF Opened
  <2> HIDE DEF I
  <2> QED
    BY <2>1, RowsAreOpened DEF AreOpened
<1>2. here.trades = rows /\ here.pairs = CurrencyPairs(stats) /\ here.sides = Sides(rows)
  BY DEF LiveAnalysis
<1>3. analysis["tradeHistory"] = rows /\ analysis["statsPerSymbol"] = stats
  <2>1. Or(None, Its(p).start) = Its(p).start /\ Or(None, Its(p).end) = Its(p).end
    BY DEF Or
  <2>2. Filtered(Plain, I) = I /\ SortedBy("openTime_desc", I) = rows
    BY PlainQueries, NothingInParticular
  <2>3. \A s : Cut(s, None) = s
    BY DEF Cut
  <2> HIDE DEF I, rows, stats
  <2> QED
    BY <2>1, <2>2, <2>3, AnalysisOfTrades, PlainQueries DEF I, rows, stats
<1>4. MarathonTrades(p, None, None, None) = rows
  BY DEF MarathonTrades, Or, Cut
<1> HIDE DEF I, rows, stats, here, analysis, dashboard
<1>5. SumOf(here.pairs, LAMBDA pair : pair.value)
        = Cardinality({n \in DOMAIN here.trades : trades[here.trades[n]].symbol # NoSymbol})
  <2> DEFINE X == {i \in I : trades[i].symbol # NoSymbol}
             Z == {CountedFor(s, I) : s \in Symbols(I)}
             N == {n \in DOMAIN rows : trades[rows[n]].symbol # NoSymbol}
  <2>1. /\ stats \in Seq(Z) /\ \A n \in DOMAIN stats : stats[n].total \in Nat
        /\ SumOf(stats, Total) = Cardinality(X)
    BY <1>1, TotalsAreOfSymbols DEF stats
  <2> HIDE DEF Z
  <2>2. SumOf(CurrencyPairs(stats), LAMBDA pair : pair.value) = SumOf(stats, Total)
    BY <2>1, PairsAddUp
  <2>3. Lists(rows, I)
    BY <1>1, NewestFirstLists DEF rows
  <2>4. Cardinality({n \in DOMAIN rows : rows[n] \in X}) = Cardinality(X)
    <3>1. X \in SUBSET I
      OBVIOUS
    <3> HIDE DEF X
    <3> QED
      BY <1>1, <2>3, <3>1, PlacesOfSome
  <2>5. {n \in DOMAIN rows : rows[n] \in X} = N
    <3>1. \A n \in DOMAIN rows : rows[n] \in I
      BY <2>3, Fun_BijectionProperties DEF Lists
    <3> QED
      BY <3>1
  <2>6. Cardinality(N) = SumOf(CurrencyPairs(stats), LAMBDA pair : pair.value)
    BY <2>1, <2>2, <2>4, <2>5
  <2> HIDE DEF N
  <2>7. N = {n \in DOMAIN here.trades : trades[here.trades[n]].symbol # NoSymbol}
    BY <1>2 DEF N
  <2>8. here.pairs = CurrencyPairs(stats)
    BY <1>2
  <2> QED
    BY <2>6, <2>7, <2>8, Zenon
<1>6. ASSUME By(u) = {p}
      PROVE  /\ dashboard.pairs = here.pairs
             /\ Len(here.trades) <= TradeCap =>
                  /\ dashboard.sides.long = here.sides.long + Written({"long"}, here.trades)
                  /\ dashboard.sides.short = here.sides.short + Written({"short"}, here.trades)
  <2> DEFINE all == AllAnalysis(u, Asked)
  <2>1. AllTrades(u, Asked) = I
    BY <1>6, TradesOfTheOnlyOne DEF I
  <2>2. all["statsPerSymbol"] = stats
    <3>1. all["statsPerSymbol"] = Cut(SymbolStats(AllTrades(u, Asked)), Asked.symbolLimit)
      BY AllAnalysisOfTrades, PlainQueries
    <3> QED
      BY <2>1, <3>1, PlainQueries DEF Cut, stats
  <2>3. all["tradeHistory"] = Cut(rows, TradeCap)
    <3>1. all["tradeHistory"] = Cut(SortedBy("openTime_desc", AllTrades(u, Asked)), TradeCap)
      BY AllAnalysisOfTrades, PlainQueries
    <3>2. SortedBy("openTime_desc", I) = rows
      BY PlainQueries, NothingInParticular DEF rows
    <3> QED
      BY <2>1, <3>1, <3>2
  <2>4. dashboard.pairs = CurrencyPairs(all["statsPerSymbol"]) /\ dashboard.sides = SidesOfAll(all["tradeHistory"])
    BY DEF dashboard, Dashboard, DashboardOf, Asked
  <2>5. Len(rows) \in Nat
    BY <1>1, NewestFirstLists, FS_CardinalityType DEF Lists, rows
  <2>6. Len(rows) <= TradeCap => Cut(rows, TradeCap) = rows
    BY <2>5, AnalyticsAssumption DEF Cut
  <2>7. /\ Written({"buy", "long"}, rows) = Written({"buy"}, rows) + Written({"long"}, rows)
        /\ Written({"sell", "short"}, rows) = Written({"sell"}, rows) + Written({"short"}, rows)
    <3>1. IsFiniteSet(DOMAIN rows)
      BY <1>1, <2>5, NewestFirstLists, FS_Interval DEF Lists, rows
    <3> QED
      BY <3>1, EitherWord
  <2>8. Len(rows) <= TradeCap =>
          /\ dashboard.sides.long = here.sides.long + Written({"long"}, rows)
          /\ dashboard.sides.short = here.sides.short + Written({"short"}, rows)
    BY <1>2, <2>3, <2>4, <2>6, <2>7 DEF Sides, SidesOfAll
  <2> HIDE DEF all
  <2> QED
    BY <1>2, <2>2, <2>4, <2>8
<1>7. here.trades = analysis["tradeHistory"] /\ here.trades = MarathonTrades(p, None, None, None)
      /\ here.pairs = CurrencyPairs(analysis["statsPerSymbol"])
  BY <1>2, <1>3, <1>4
<1> HIDE DEF u
<1>8. TradesAgree(p, here, analysis, dashboard)
  BY <1>5, <1>6, <1>7, Zenon DEF TradesAgree, u
<1> QED
  BY <1>8 DEF here, analysis, dashboard, u

\* The dates of a participant are within those of its user.
LEMMA DatesAreWithin ==
  ASSUME NEW q \in Queries, NEW u \in Owners, NEW p \in By(u)
  PROVE  Or(q.from, Its(p).start) .. Or(q.to, Its(p).end) \subseteq FromEarliest(u, q) .. ToLatest(u, q)
<1> DEFINE starts == {Its(o).start : o \in By(u)}
           ends == {Its(o).end : o \in By(u)}
<1>1. \A o \in By(u) : Its(o).start \in Nat /\ Its(o).end \in Nat
  BY AnalyticsAssumption DEF Its, By
<1>2. Min(starts) \in Nat /\ Min(starts) <= Its(p).start
  <2>1. starts \subseteq Nat /\ Its(p).start \in starts
    BY <1>1
  <2> HIDE DEF starts
  <2> QED
    BY <2>1, SmallestIsMin
<1>3. Max(ends) \in Nat /\ Its(p).end <= Max(ends)
  <2>1. ends \subseteq Nat /\ Its(p).end \in ends
    BY <1>1
  <2>2. IsFiniteSet(ends)
    <3> DEFINE f == [o \in By(u) |-> Its(o).end]
    <3>1. f \in [By(u) -> ends] /\ \A e \in ends : \E o \in By(u) : f[o] = e
      OBVIOUS
    <3>2. IsFiniteSet(By(u))
      BY AnalyticsAssumption, FS_Subset DEF By
    <3> HIDE DEF f, ends
    <3>3. f \in Surjection(By(u), ends)
      BY <3>1, Fun_IsSurj
    <3> QED
      BY <3>2, <3>3, FS_Surjection
  <2> HIDE DEF ends
  <2>3. \A s \in SUBSET ends : s # {} => Max(s) \in s /\ \A x \in s : x <= Max(s)
    BY <2>1, <2>2, GreatestExists
  <2> QED
    BY <2>1, <2>3
<1>4. q.from \in Int \cup {None} /\ q.to \in Int \cup {None}
  BY QueriesAssumption
<1>8. FromEarliest(u, q) = Or(q.from, Min(starts)) /\ ToLatest(u, q) = Or(q.to, Max(ends))
  BY DEF FromEarliest, ToLatest
<1> HIDE DEF starts, ends
<1>5. PICK a \in Int, b \in Int : a = Or(q.from, Its(p).start) /\ b = FromEarliest(u, q) /\ b <= a
  BY <1>1, <1>2, <1>4, <1>8 DEF Or
<1>6. PICK c \in Int, d \in Int : c = Or(q.to, Its(p).end) /\ d = ToLatest(u, q) /\ c <= d
  BY <1>1, <1>3, <1>4, <1>8 DEF Or
<1>7. a .. c \subseteq b .. d
  BY <1>5, <1>6
<1> QED
  BY <1>5, <1>6, <1>7

\* The rows with a symbol that an analysis of a participant counts.
CountedOf(p, q) ==
  {i \in Filtered(q, Opened(p, Or(q.from, Its(p).start), Or(q.to, Its(p).end))) : trades[i].symbol # NoSymbol}

\* The trades of a user are those of the participants, no trade twice, and those made elsewhere.
LEMMA TradesAreShared ==
  ASSUME AnalyticsInv, NEW q \in Queries, NEW u \in Owners, NEW f, \A p \in By(u) : f[p] = Cardinality(CountedOf(p, q))
  PROVE  Cardinality({i \in AllTrades(u, q) : trades[i].symbol # NoSymbol})
           = SumOver(f, By(u)) + Cardinality({i \in AllTrades(u, q) : trades[i].symbol # NoSymbol /\ Elsewhere(i, q)})
<1> DEFINE B == By(u)
           part == [p \in B |-> CountedOf(p, q)]
           All == {i \in AllTrades(u, q) : trades[i].symbol # NoSymbol}
           Far == {i \in AllTrades(u, q) : trades[i].symbol # NoSymbol /\ Elsewhere(i, q)}
           Near == Together(part, B)
<1>1. IsFiniteSet(B)
  BY AnalyticsAssumption, FS_Subset DEF By
<1>2. \A p \in B : \A i \in DOMAIN trades :
        i \in CountedOf(p, q) <=> /\ trades[i].of = p /\ i \in Filtered(q, DOMAIN trades) /\ trades[i].symbol # NoSymbol
                                  /\ trades[i].open \in Or(q.from, Its(p).start) .. Or(q.to, Its(p).end)
  BY DEF CountedOf, Filtered, Opened
<1>3. \A p \in B : CountedOf(p, q) \subseteq DOMAIN trades
  BY DEF CountedOf, Filtered, Opened
<1>4. AllTrades(u, q) \subseteq DOMAIN trades
  BY DEF AllTrades, Filtered, Opened
<1>5. \A i \in DOMAIN trades :
        i \in AllTrades(u, q) <=> /\ trades[i].of \in B /\ i \in Filtered(q, DOMAIN trades)
                                  /\ trades[i].open \in FromEarliest(u, q) .. ToLatest(u, q)
  BY DEF AllTrades, Filtered, Opened
<1>6. \A i \in DOMAIN trades :
        Elsewhere(i, q) <=> trades[i].open \notin Or(q.from, Its(trades[i].of).start) .. Or(q.to, Its(trades[i].of).end)
  BY DEF Elsewhere
<1>7. \A p \in B : Or(q.from, Its(p).start) .. Or(q.to, Its(p).end) \subseteq FromEarliest(u, q) .. ToLatest(u, q)
  BY DatesAreWithin
<1>8. /\ \A p \in B : part[p] = CountedOf(p, q)
      /\ \A p, o \in B : p # o => part[p] \cap part[o] = {}
  BY <1>2, <1>3
<1>9. \A p \in B : IsFiniteSet(part[p])
  BY <1>3, <1>8, RowsAreOpened DEF AreOpened
<1>10. \A i \in Near : i \in DOMAIN trades /\ \E p \in B : i \in CountedOf(p, q)
  BY <1>3, <1>8 DEF Together
<1>11. \A i \in DOMAIN trades : (\E p \in B : i \in CountedOf(p, q)) => i \in Near
  BY <1>8 DEF Together
<1>12. \A p \in B : f[p] = Cardinality(part[p])
  BY <1>8
<1> HIDE DEF part, Near, B
<1>13. Near \cup Far = All
  BY <1>2, <1>4, <1>5, <1>6, <1>7, <1>10, <1>11
<1>14. Near \cap Far = {}
  BY <1>2, <1>6, <1>10
<1>15. IsFiniteSet(Near) /\ SumOver(f, B) = Cardinality(Near)
  BY <1>1, <1>8, <1>9, <1>12, SizesAddUp DEF Near
<1>16. IsFiniteSet(Far)
  <2>1. Far \in SUBSET DOMAIN trades
    BY <1>4
  <2> HIDE DEF Far
  <2> QED
    BY <2>1, RowsAreOpened, FS_Subset
<1> HIDE DEF Far, All
<1>17. Cardinality(Near \cup Far) = Cardinality(Near) + Cardinality(Far) - Cardinality(Near \cap Far)
  BY <1>15, <1>16, FS_Union
<1>18. Cardinality(Near \cap Far) = 0 /\ Cardinality(Near) \in Nat /\ Cardinality(Far) \in Nat
  BY <1>14, <1>15, <1>16, FS_EmptySet, FS_CardinalityType
<1>19. Cardinality(All) = SumOver(f, B) + Cardinality(Far)
  <2>1. PICK m \in Nat, n \in Nat : m = Cardinality(Near) /\ n = Cardinality(Far)
    BY <1>18
  <2>2. Cardinality(Near \cup Far) = m + n - 0
    BY <1>17, <1>18, <2>1
  <2>3. m + n - 0 = m + n
    OBVIOUS
  <2> QED
    BY <1>13, <1>15, <2>1, <2>2, <2>3
<1> QED
  BY <1>19, Zenon DEF All, Far, B

\* The query of the totals asks for the same rows.
LEMMA TotalsQuery ==
  ASSUME NEW q \in Queries
  PROVE  LET all == [q EXCEPT !.sections = {}, !.symbolLimit = None] IN
         /\ all.symbols = q.symbols /\ all.only = q.only /\ all.min = q.min /\ all.max = q.max
         /\ all.from = q.from /\ all.to = q.to /\ all.symbolLimit = None
         /\ "statsPerSymbol" \in Sections(all)
<1>1. DOMAIN q = DOMAIN Plain
  BY QueriesAssumption
<1>2. {"symbols", "only", "min", "max", "from", "to", "symbolLimit", "sections"} \subseteq DOMAIN q
  BY <1>1 DEF Plain
<1> QED
  BY <1>2 DEF Sections, AllSections

LEMMA TotalsOfUsers ==
  ASSUME AnalyticsInv, NEW u \in Owners, NEW q \in Queries
  PROVE  LET all == AllAnalysis(u, [q EXCEPT !.sections = {}, !.symbolLimit = None])["statsPerSymbol"]
             Part(p) == SumOf(Analysis(p, [q EXCEPT !.sections = {}, !.symbolLimit = None])["statsPerSymbol"], Total) IN
         SumOf(all, Total) = SumFunction([p \in By(u) |-> Part(p)])
           + Cardinality({i \in AllTrades(u, q) : trades[i].symbol # NoSymbol /\ Elsewhere(i, q)})
<1> DEFINE r == [q EXCEPT !.sections = {}, !.symbolLimit = None]
           all == AllAnalysis(u, r)["statsPerSymbol"]
           Part(p) == SumOf(Analysis(p, r)["statsPerSymbol"], Total)
           f == [p \in By(u) |-> Part(p)]
           A == AllTrades(u, q)
<1>1. /\ r.symbols = q.symbols /\ r.only = q.only /\ r.min = q.min /\ r.max = q.max
      /\ r.from = q.from /\ r.to = q.to /\ r.symbolLimit = None
      /\ "statsPerSymbol" \in Sections(r)
  BY TotalsQuery
<1> HIDE DEF r
<1>2. \A I : Filtered(r, I) = Filtered(q, I)
  BY <1>1 DEF Filtered
<1>3. AllTrades(u, r) = A
  <2>1. FromEarliest(u, r) = FromEarliest(u, q) /\ ToLatest(u, r) = ToLatest(u, q)
    BY <1>1 DEF FromEarliest, ToLatest
  <2> QED
    BY <1>2, <2>1 DEF AllTrades
<1>4. \A s : Cut(s, None) = s
  BY DEF Cut
<1>5. all = SymbolStats(A)
  BY <1>1, <1>3, <1>4, AllAnalysisOfTrades
<1>6. ASSUME NEW p \in By(u)
      PROVE  f[p] = Cardinality(CountedOf(p, q))
  <2> DEFINE I == Filtered(q, Opened(p, Or(q.from, Its(p).start), Or(q.to, Its(p).end)))
  <2>1. Analysis(p, r)["statsPerSymbol"] = SymbolStats(I)
    <3>1. Analysis(p, r)["statsPerSymbol"]
            = Cut(SymbolStats(Filtered(r, Opened(p, Or(r.from, Its(p).start), Or(r.to, Its(p).end)))), r.symbolLimit)
      BY <1>1, AnalysisOfTrades
    <3> QED
      BY <1>1, <1>2, <1>4, <3>1
  <2>2. AreOpened(I)
    <3>1. I \in SUBSET DOMAIN trades
      BY DEF Filtered, Opened
    <3> HIDE DEF I
    <3> QED
      BY <3>1, RowsAreOpened
  <2>3. CountedOf(p, q) = {i \in I : trades[i].symbol # NoSymbol}
    BY DEF CountedOf
  <2> HIDE DEF I
  <2>4. SumOf(SymbolStats(I), Total) = Cardinality({i \in I : trades[i].symbol # NoSymbol})
    BY <2>2, TotalsAreOfSymbols
  <2>5. f[p] = SumOf(Analysis(p, r)["statsPerSymbol"], Total)
    OBVIOUS
  <2> QED
    BY <2>1, <2>3, <2>4, <2>5
<1>7. SumOf(SymbolStats(A), Total) = Cardinality({i \in A : trades[i].symbol # NoSymbol})
  <2>1. AreOpened(A)
    <3>1. A \in SUBSET DOMAIN trades
      BY DEF AllTrades, Filtered, Opened
    <3> HIDE DEF A
    <3> QED
      BY <3>1, RowsAreOpened
  <2> HIDE DEF A
  <2> QED
    BY <2>1, TotalsAreOfSymbols
<1>8. DOMAIN f = By(u)
  OBVIOUS
<1> HIDE DEF f, all
<1>9. Cardinality({i \in A : trades[i].symbol # NoSymbol})
        = SumOver(f, By(u)) + Cardinality({i \in A : trades[i].symbol # NoSymbol /\ Elsewhere(i, q)})
  BY <1>6, TradesAreShared
<1>10. SumFunction(f) = SumOver(f, By(u))
  <2>1. IsFiniteSet(By(u))
    BY AnalyticsAssumption, FS_Subset DEF By
  <2> QED
    BY <1>8, <2>1, SumsAreOver
<1>11. SumOf(all, Total) = SumFunction(f)
         + Cardinality({i \in A : trades[i].symbol # NoSymbol /\ Elsewhere(i, q)})
  BY <1>5, <1>7, <1>9, <1>10
<1> QED
  BY <1>11, Zenon DEF f, all, r, A

LEMMA TradesAreCounted == AnalyticsInv => TradesAreCountedOnce
<1> SUFFICES ASSUME AnalyticsInv
    PROVE  /\ \A u \in Owners, q \in Queries :
                LET all == AllAnalysis(u, [q EXCEPT !.sections = {}, !.symbolLimit = None])["statsPerSymbol"]
                    Part(p) == SumOf(Analysis(p, [q EXCEPT !.sections = {}, !.symbolLimit = None])["statsPerSymbol"], Total) IN
                SumOf(all, Total) = SumFunction([p \in By(u) |-> Part(p)])
                  + Cardinality({i \in AllTrades(u, q) : trades[i].symbol # NoSymbol /\ Elsewhere(i, q)})
           /\ \A p \in Entrants : TradesAgree(p, LiveAnalysis(p), Analysis(p, Plain), Dashboard(Enrolled[p].user))
  BY Zenon DEF TradesAreCountedOnce
<1> QED
  BY TotalsOfUsers, ParticipantsTradesAgree, Zenon

\* Of whatever data and snapshots there are, and at every query: a trade is counted once for the
\* participant and once for the user, a series is a sample of what was recorded, and the
\* dashboard lists the marathons it counts as won.
THEOREM AnalyticsAnswersShowTheRecords == AnalyticsSpec => []AnswersShowTheRecords
<1>1. AnalyticsInv => AnswersShowTheRecords
  BY TradesAreCounted, SeriesAreSampled, WonMarathonsAreListed DEF AnswersShowTheRecords
<1> QED
  BY <1>1, AnalyticsInvariant, PTL
==============================================================================
