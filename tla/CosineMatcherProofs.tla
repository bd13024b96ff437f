-------------------------- MODULE CosineMatcherProofs --------------------------
(***************************************************************************)
(* Theorems about sums, averages and cosines of vectors of any length, for *)
(* every threshold: what VerificationDecision assumes of its matcher, and  *)
(* what makes an enrolled face a recognised one.                           *)
(***************************************************************************)
EXTENDS CosineMatcher, FiniteSetTheorems, TLAPS

-----------------------------------------------------------------------------
(* Sums.  Total is a fold, a function defined on all sets of indices by    *)
(* taking one out.  That there is such a function, and what it is, follows *)
(* from the well-foundedness of inclusion between finite sets: among the   *)
(* sets of which a claim fails one would be minimal.                       *)

(* A set of subsets of a finite set has a minimal member.                  *)
LEMMA MinimalSubset ==
  ASSUME NEW S, IsFiniteSet(S), NEW F, F \subseteq SUBSET S, F # {}
  PROVE  \E T \in F : \A U \in F : U \subseteq T => U = T
<1>1. FiniteSubsetsOf(S) = SUBSET S
  BY FS_FiniteSubsetsOfFinite
<1>2. IsWellFoundedOn(StrictSubsetOrdering(S), SUBSET S)
  BY <1>1, FS_StrictSubsetOrderingWellFounded
<1>3. \E T \in F : \A U \in F : ~ (<<U, T>> \in StrictSubsetOrdering(S))
  BY <1>2, WFMin
<1> QED BY <1>3 DEF StrictSubsetOrdering

Taken(s) == CHOOSE x \in s : TRUE
Rest(s) == s \ {Taken(s)}

(* g[s] is the sum of f over s, for each subset s of S.                    *)
Sums(f, S, g) ==
  g = [s \in SUBSET S |-> IF s = {} THEN 0 ELSE f[Taken(s)] + g[Rest(s)]]

LEMMA TotalUnfolds ==
  ASSUME NEW f
  PROVE  Total(f) = (CHOOSE g : Sums(f, DOMAIN f, g))[DOMAIN f]
BY Zenon DEF Total, FoldFunction, FoldFunctionOnSet, MapThenFoldSet, Sums, Taken, Rest

LEMMA RestSmaller ==
  ASSUME NEW S, NEW s \in SUBSET S, s # {}
  PROVE  /\ Taken(s) \in s /\ Taken(s) \in S
         /\ Rest(s) \in SUBSET S /\ Rest(s) \subseteq s /\ Rest(s) # s
         /\ Taken(s) \notin Rest(s) /\ s = Rest(s) \cup {Taken(s)}
BY DEF Taken, Rest

LEMMA SumsRule ==
  ASSUME NEW f, NEW S, NEW g, Sums(f, S, g)
  PROVE  \A s \in SUBSET S : g[s] = IF s = {} THEN 0 ELSE f[Taken(s)] + g[Rest(s)]
<1> DEFINE h == [s \in SUBSET S |-> IF s = {} THEN 0 ELSE f[Taken(s)] + g[Rest(s)]]
<1>1. g = h
  BY DEF Sums
<1>2. \A s \in SUBSET S : h[s] = IF s = {} THEN 0 ELSE f[Taken(s)] + g[Rest(s)]
  OBVIOUS
<1> HIDE DEF h
<1> QED BY <1>1, <1>2

(* Two such functions agree where both are defined.                        *)
LEMMA SumsUnique ==
  ASSUME NEW f, NEW S, IsFiniteSet(S), NEW S1, NEW S2, S \subseteq S1, S \subseteq S2,
         NEW g, NEW h, Sums(f, S1, g), Sums(f, S2, h)
  PROVE  g[S] = h[S]
<1> DEFINE F == {s \in SUBSET S : g[s] # h[s]}
<1> SUFFICES ASSUME F # {} PROVE FALSE
  OBVIOUS
<1>1. PICK s \in F : \A u \in F : u \subseteq s => u = s
  <2>1. F \subseteq SUBSET S
    OBVIOUS
  <2> HIDE DEF F
  <2> QED BY <2>1, MinimalSubset
<1>2. s # {} /\ s \in SUBSET S /\ s \in SUBSET S1 /\ s \in SUBSET S2
  BY SumsRule
<1>3. Rest(s) \in SUBSET S /\ Rest(s) \subseteq s /\ Rest(s) # s
  BY <1>2, RestSmaller
<1>4. g[Rest(s)] = h[Rest(s)]
  BY <1>1, <1>3
<1>5. /\ g[s] = f[Taken(s)] + g[Rest(s)]
      /\ h[s] = f[Taken(s)] + h[Rest(s)]
  <2> HIDE DEF F
  <2>1. \A r \in SUBSET S1 : r # {} => g[r] = f[Taken(r)] + g[Rest(r)]
    BY SumsRule
  <2>2. \A r \in SUBSET S2 : r # {} => h[r] = f[Taken(r)] + h[Rest(r)]
    BY SumsRule
  <2> QED BY <1>2, <2>1, <2>2
<1> QED BY <1>4, <1>5

(* There is one.                                                           *)
LEMMA SumsExist ==
  ASSUME NEW f, NEW S, IsFiniteSet(S)
  PROVE  \E g : Sums(f, S, g)
<1> DEFINE F == {s \in SUBSET S : ~ \E g : Sums(f, s, g)}
<1> SUFFICES ASSUME F # {} PROVE FALSE
  OBVIOUS
<1>1. PICK T \in F : \A u \in F : u \subseteq T => u = T
  <2>1. F \subseteq SUBSET S
    OBVIOUS
  <2> HIDE DEF F
  <2>2. \E T \in F : \A u \in F : u \subseteq T => u = T
    BY <2>1, MinimalSubset
  <2> QED BY <2>2
<1> DEFINE G(s) == CHOOSE g : Sums(f, s, g)
           V(s) == IF s = {} THEN 0 ELSE f[Taken(s)] + G(Rest(s))[Rest(s)]
           h == [s \in SUBSET T |-> V(s)]
<1>2. ASSUME NEW s \in SUBSET T, s # T
      PROVE  Sums(f, s, G(s))
  BY <1>1, <1>2
<1>3. ASSUME NEW s \in SUBSET T, s # T
      PROVE  G(s)[s] = V(s)
  <2>1. Sums(f, s, G(s))
    BY <1>2, <1>3
  <2>2. CASE s = {}
    BY <2>1, <2>2, SumsRule
  <2>3. CASE s # {}
    <3>1. Rest(s) \in SUBSET T /\ Rest(s) # T /\ Rest(s) \subseteq s
      BY <2>3, <1>3, RestSmaller
    <3>2. Sums(f, Rest(s), G(Rest(s)))
      BY <3>1, <1>2
    <3>3. IsFiniteSet(Rest(s))
      BY <3>1, FS_Subset
    <3>4. G(s)[Rest(s)] = G(Rest(s))[Rest(s)]
      <4> HIDE DEF G
      <4> QED BY <2>1, <3>1, <3>2, <3>3, SumsUnique
    <3>5. G(s)[s] = f[Taken(s)] + G(s)[Rest(s)]
      <4> DEFINE k == G(s)
      <4>1. Sums(f, s, k)
        BY <2>1
      <4> HIDE DEF k, F
      <4>2. s \in SUBSET s
        OBVIOUS
      <4>3. \A r \in SUBSET s : r # {} => k[r] = f[Taken(r)] + k[Rest(r)]
        BY <4>1, SumsRule
      <4> QED BY <4>2, <4>3, <2>3 DEF k
    <3> HIDE DEF G
    <3> QED BY <2>3, <3>4, <3>5
  <2> QED BY <2>2, <2>3
<1>4. ASSUME NEW s \in SUBSET T
      PROVE  V(s) = IF s = {} THEN 0 ELSE f[Taken(s)] + h[Rest(s)]
  <2>1. CASE s = {}
    BY <2>1
  <2>2. CASE s # {}
    <3>1. Rest(s) \in SUBSET T /\ Rest(s) # T
      BY <2>2, RestSmaller
    <3>2. G(Rest(s))[Rest(s)] = V(Rest(s))
      BY <3>1, <1>3
    <3>3. h[Rest(s)] = V(Rest(s))
      BY <3>1
    <3> HIDE DEF G
    <3> QED BY <2>2, <3>2, <3>3
  <2> QED BY <2>1, <2>2
<1>5. h = [s \in SUBSET T |-> IF s = {} THEN 0 ELSE f[Taken(s)] + h[Rest(s)]]
  <2> HIDE DEF h, V, G
  <2>1. h = [s \in SUBSET T |-> V(s)]
    BY DEF h
  <2> QED BY <2>1, <1>4
<1>6. Sums(f, T, h)
  BY <1>5 DEF Sums
<1> QED BY <1>1, <1>6

(* What later proofs use: the total is the last value of a function that   *)
(* starts from nothing and takes one index at a time.                      *)
LEMMA TotalBySums ==
  ASSUME NEW f, NEW D, DOMAIN f = D, IsFiniteSet(D)
  PROVE  \E g : /\ g[{}] = 0
                /\ \A s \in SUBSET D : s # {} => g[s] = f[Taken(s)] + g[Rest(s)]
                /\ Total(f) = g[D]
<1> DEFINE g == CHOOSE g : Sums(f, D, g)
<1>1. Sums(f, D, g)
  BY SumsExist
<1>2. Total(f) = g[D]
  BY TotalUnfolds
<1> HIDE DEF g
<1>3. \A s \in SUBSET D : g[s] = IF s = {} THEN 0 ELSE f[Taken(s)] + g[Rest(s)]
  BY <1>1, SumsRule
<1> QED BY <1>2, <1>3

(* Induction along such a sum: a set of subsets that has the empty one and *)
(* each whose rest it has, has them all.                                   *)
LEMMA SumsInduction ==
  ASSUME NEW S, IsFiniteSet(S), NEW F, F \subseteq SUBSET S, {} \in F,
         \A s \in SUBSET S : s # {} /\ Rest(s) \in F => s \in F
  PROVE  S \in F
<1> DEFINE B == (SUBSET S) \ F
<1> SUFFICES ASSUME B # {} PROVE FALSE
  OBVIOUS
<1>1. PICK T \in B : \A u \in B : u \subseteq T => u = T
  <2>1. B \subseteq SUBSET S
    OBVIOUS
  <2> HIDE DEF B
  <2>2. \E T \in B : \A u \in B : u \subseteq T => u = T
    BY <2>1, MinimalSubset
  <2> QED BY <2>2
<1>2. T # {} /\ T \in SUBSET S
  BY <1>1
<1>3. Rest(T) \in SUBSET S /\ Rest(T) \subseteq T /\ Rest(T) # T
  BY <1>2, RestSmaller
<1>4. Rest(T) \in F
  BY <1>1, <1>3
<1> QED BY <1>1, <1>2, <1>4

(* A sum of integers is an integer.                                        *)
LEMMA TotalInt ==
  ASSUME NEW D, IsFiniteSet(D), NEW f \in [D -> Int]
  PROVE  Total(f) \in Int
<1>1. DOMAIN f = D
  OBVIOUS
<1>2. PICK g : /\ g[{}] = 0
               /\ \A s \in SUBSET D : s # {} => g[s] = f[Taken(s)] + g[Rest(s)]
               /\ Total(f) = g[D]
  BY <1>1, TotalBySums
<1> DEFINE F == {s \in SUBSET D : g[s] \in Int}
<1>3. ASSUME NEW s \in SUBSET D, s # {}, Rest(s) \in F
      PROVE  s \in F
  <2>1. Taken(s) \in D
    BY <1>3, RestSmaller
  <2> QED BY <1>2, <1>3, <2>1
<1>4. {} \in F /\ F \subseteq SUBSET D
  BY <1>2
<1>5. D \in F
  <2> HIDE DEF F
  <2> QED BY <1>3, <1>4, SumsInduction
<1> QED BY <1>2, <1>5

(* A sum of numbers that are not negative is none, and is zero only if     *)
(* each of them is.                                                        *)
LEMMA TotalOfNaturals ==
  ASSUME NEW D, IsFiniteSet(D), NEW f \in [D -> Nat]
  PROVE  /\ Total(f) \in Nat
         /\ Total(f) = 0 => \A x \in D : f[x] = 0
<1>1. DOMAIN f = D
  OBVIOUS
<1>2. PICK g : /\ g[{}] = 0
               /\ \A s \in SUBSET D : s # {} => g[s] = f[Taken(s)] + g[Rest(s)]
               /\ Total(f) = g[D]
  BY <1>1, TotalBySums
<1> DEFINE F == {s \in SUBSET D : g[s] \in Nat /\ (g[s] = 0 => \A x \in s : f[x] = 0)}
<1>3. ASSUME NEW s \in SUBSET D, s # {}, Rest(s) \in F
      PROVE  s \in F
  <2>1. Taken(s) \in D /\ s = Rest(s) \cup {Taken(s)}
    BY <1>3, RestSmaller
  <2>2. g[s] = f[Taken(s)] + g[Rest(s)] /\ f[Taken(s)] \in Nat /\ g[Rest(s)] \in Nat
    BY <1>2, <1>3, <2>1
  <2>3. ASSUME g[s] = 0, NEW x \in s PROVE f[x] = 0
    <3>1. f[Taken(s)] = 0 /\ g[Rest(s)] = 0
      BY <2>2, <2>3
    <3> QED BY <2>1, <2>3, <3>1, <1>3
  <2> QED BY <2>2, <2>3
<1>4. {} \in F /\ F \subseteq SUBSET D
  BY <1>2
<1>5. D \in F
  <2> HIDE DEF F
  <2> QED BY <1>3, <1>4, SumsInduction
<1> QED BY <1>2, <1>5

(* A common factor leaves the sum.                                         *)
LEMMA TotalScaled ==
  ASSUME NEW D, IsFiniteSet(D), NEW f \in [D -> Int], NEW h \in [D -> Int],
         NEW a \in Int, NEW b \in Int, \A x \in D : a * h[x] = b * f[x]
  PROVE  a * Total(h) = b * Total(f)
<1>1. DOMAIN f = D /\ DOMAIN h = D
  OBVIOUS
<1>2. PICK g : /\ g[{}] = 0
               /\ \A s \in SUBSET D : s # {} => g[s] = f[Taken(s)] + g[Rest(s)]
               /\ Total(f) = g[D]
  BY <1>1, TotalBySums
<1>3. PICK k : /\ k[{}] = 0
               /\ \A s \in SUBSET D : s # {} => k[s] = h[Taken(s)] + k[Rest(s)]
               /\ Total(h) = k[D]
  BY <1>1, TotalBySums
<1> DEFINE F == {s \in SUBSET D : g[s] \in Int /\ k[s] \in Int /\ a * k[s] = b * g[s]}
<1>4. ASSUME NEW s \in SUBSET D, s # {}, Rest(s) \in F
      PROVE  s \in F
  <2>1. Taken(s) \in D
    BY <1>4, RestSmaller
  <2> DEFINE x == f[Taken(s)]
             y == h[Taken(s)]
             u == g[Rest(s)]
             v == k[Rest(s)]
  <2>2. x \in Int /\ y \in Int /\ u \in Int /\ v \in Int /\ a * y = b * x /\ a * v = b * u
    BY <1>4, <2>1
  <2>3. g[s] = x + u /\ k[s] = y + v
    BY <1>2, <1>3, <1>4
  <2> HIDE DEF x, y, u, v
  <2>4. a * (y + v) = b * (x + u)
    BY <2>2
  <2>5. a * k[s] = b * g[s]
    BY <2>3, <2>4
  <2>6. g[s] \in Int /\ k[s] \in Int
    BY <2>2, <2>3
  <2> QED BY <2>5, <2>6
<1>5. {} \in F /\ F \subseteq SUBSET D
  BY <1>2, <1>3
<1>6. D \in F
  <2> HIDE DEF F
  <2> QED BY <1>4, <1>5, SumsInduction
<1> QED BY <1>2, <1>3, <1>6

(* The sum of equal numbers.                                               *)
LEMMA TotalConstant ==
  ASSUME NEW D, IsFiniteSet(D), NEW c \in Int, NEW f, f = [x \in D |-> c]
  PROVE  Total(f) = c * Cardinality(D)
<1>1. DOMAIN f = D /\ \A x \in D : f[x] = c
  OBVIOUS
<1>2. PICK g : /\ g[{}] = 0
               /\ \A s \in SUBSET D : s # {} => g[s] = f[Taken(s)] + g[Rest(s)]
               /\ Total(f) = g[D]
  BY <1>1, TotalBySums
<1> DEFINE F == {s \in SUBSET D : g[s] = c * Cardinality(s)}
<1>3. ASSUME NEW s \in SUBSET D, s # {}, Rest(s) \in F
      PROVE  s \in F
  <2>1. Taken(s) \in D /\ Taken(s) \notin Rest(s) /\ s = Rest(s) \cup {Taken(s)}
        /\ Rest(s) \subseteq D
    BY <1>3, RestSmaller
  <2>2. IsFiniteSet(Rest(s)) /\ Cardinality(Rest(s)) \in Nat
    BY <2>1, FS_Subset, FS_CardinalityType
  <2>3. Cardinality(s) = Cardinality(Rest(s)) + 1
    BY <2>1, <2>2, FS_AddElement
  <2>4. g[s] = c + g[Rest(s)]
    BY <1>1, <1>2, <1>3, <2>1
  <2>5. \A n \in Nat : c + c * n = c * (n + 1)
    OBVIOUS
  <2> QED BY <1>3, <2>2, <2>3, <2>4, <2>5
<1>4. {} \in F /\ F \subseteq SUBSET D
  BY <1>2, FS_EmptySet
<1>5. D \in F
  <2> HIDE DEF F
  <2> QED BY <1>3, <1>4, SumsInduction
<1> QED BY <1>2, <1>5

(* A sum of larger numbers is larger.                                      *)
LEMMA TotalMonotone ==
  ASSUME NEW D, IsFiniteSet(D), NEW f \in [D -> Int], NEW h \in [D -> Int],
         \A x \in D : f[x] <= h[x]
  PROVE  Total(f) <= Total(h)
<1>1. DOMAIN f = D /\ DOMAIN h = D
  OBVIOUS
<1>2. PICK g : /\ g[{}] = 0
               /\ \A s \in SUBSET D : s # {} => g[s] = f[Taken(s)] + g[Rest(s)]
               /\ Total(f) = g[D]
  BY <1>1, TotalBySums
<1>3. PICK k : /\ k[{}] = 0
               /\ \A s \in SUBSET D : s # {} => k[s] = h[Taken(s)] + k[Rest(s)]
               /\ Total(h) = k[D]
  BY <1>1, TotalBySums
<1> DEFINE F == {s \in SUBSET D : g[s] \in Int /\ k[s] \in Int /\ g[s] <= k[s]}
<1>4. ASSUME NEW s \in SUBSET D, s # {}, Rest(s) \in F
      PROVE  s \in F
  <2>1. Taken(s) \in D
    BY <1>4, RestSmaller
  <2>2. g[s] = f[Taken(s)] + g[Rest(s)] /\ k[s] = h[Taken(s)] + k[Rest(s)]
    BY <1>2, <1>3, <1>4
  <2>3. f[Taken(s)] \in Int /\ h[Taken(s)] \in Int /\ f[Taken(s)] <= h[Taken(s)]
    BY <2>1
  <2> QED BY <1>4, <2>2, <2>3
<1>5. {} \in F /\ F \subseteq SUBSET D
  BY <1>2, <1>3
<1>6. D \in F
  <2> HIDE DEF F
  <2> QED BY <1>4, <1>5, SumsInduction
<1> QED BY <1>2, <1>3, <1>6

(* The sum of sums, index by index, is the sum of the two.                 *)
LEMMA TotalAdd ==
  ASSUME NEW D, IsFiniteSet(D), NEW f \in [D -> Int], NEW h \in [D -> Int],
         NEW e \in [D -> Int], \A x \in D : e[x] = f[x] + h[x]
  PROVE  Total(e) = Total(f) + Total(h)
<1>1. DOMAIN f = D /\ DOMAIN h = D /\ DOMAIN e = D
  OBVIOUS
<1>2. PICK g : /\ g[{}] = 0
               /\ \A s \in SUBSET D : s # {} => g[s] = f[Taken(s)] + g[Rest(s)]
               /\ Total(f) = g[D]
  BY <1>1, TotalBySums
<1>3. PICK k : /\ k[{}] = 0
               /\ \A s \in SUBSET D : s # {} => k[s] = h[Taken(s)] + k[Rest(s)]
               /\ Total(h) = k[D]
  BY <1>1, TotalBySums
<1>4. PICK l : /\ l[{}] = 0
               /\ \A s \in SUBSET D : s # {} => l[s] = e[Taken(s)] + l[Rest(s)]
               /\ Total(e) = l[D]
  BY <1>1, TotalBySums
<1> DEFINE F == {s \in SUBSET D : g[s] \in Int /\ k[s] \in Int /\ l[s] = g[s] + k[s]}
<1>5. ASSUME NEW s \in SUBSET D, s # {}, Rest(s) \in F
      PROVE  s \in F
  <2>1. Taken(s) \in D
    BY <1>5, RestSmaller
  <2>2. /\ g[s] = f[Taken(s)] + g[Rest(s)]
        /\ k[s] = h[Taken(s)] + k[Rest(s)]
        /\ l[s] = e[Taken(s)] + l[Rest(s)]
    BY <1>2, <1>3, <1>4, <1>5
  <2>3. f[Taken(s)] \in Int /\ h[Taken(s)] \in Int /\ e[Taken(s)] = f[Taken(s)] + h[Taken(s)]
    BY <2>1
  <2> QED BY <1>5, <2>2, <2>3
<1>6. {} \in F /\ F \subseteq SUBSET D
  BY <1>2, <1>3, <1>4
<1>7. D \in F
  <2> HIDE DEF F
  <2> QED BY <1>5, <1>6, SumsInduction
<1> QED BY <1>2, <1>3, <1>4, <1>7

(* Among some numbers one is at most their average and one at least.       *)
LEMMA TotalAverage ==
  ASSUME NEW D, IsFiniteSet(D), D # {}, NEW f \in [D -> Int]
  PROVE  /\ \E x \in D : Cardinality(D) * f[x] <= Total(f)
         /\ \E x \in D : Cardinality(D) * f[x] >= Total(f)
<1> DEFINE m == Cardinality(D)
           t == Total(f)
           scaled == [x \in D |-> m * f[x]]
           below == [x \in D |-> t - 1]
           above == [x \in D |-> t + 1]
<1>1. m \in Nat /\ m > 0
  BY FS_EmptySet, FS_CardinalityType
<1>2. t \in Int
  BY TotalInt
<1>3. Total(scaled) = m * t
  <2>1. scaled \in [D -> Int] /\ \A x \in D : 1 * scaled[x] = m * f[x]
    BY <1>1
  <2> HIDE DEF scaled, m
  <2>2. 1 * Total(scaled) = m * Total(f)
    BY <1>1, <2>1, TotalScaled
  <2> QED BY <2>1, <2>2, TotalInt
<1>4. Total(below) = (t - 1) * m /\ Total(above) = (t + 1) * m
  BY <1>2, TotalConstant
<1>5. scaled \in [D -> Int] /\ below \in [D -> Int] /\ above \in [D -> Int]
  BY <1>1, <1>2
<1>6. (t - 1) * m < m * t /\ m * t < (t + 1) * m
  <2> HIDE DEF m, t
  <2> QED BY <1>1, <1>2
<1>7. ASSUME \A x \in D : ~ (m * f[x] <= t) PROVE FALSE
  <2>1. \A x \in D : above[x] <= scaled[x]
    BY <1>1, <1>2, <1>7
  <2> HIDE DEF above, scaled
  <2>2. Total(above) <= Total(scaled)
    BY <1>5, <2>1, TotalMonotone
  <2> HIDE DEF m, t
  <2> QED BY <1>1, <1>2, <1>3, <1>4, <1>6, <2>2
<1>8. ASSUME \A x \in D : ~ (m * f[x] >= t) PROVE FALSE
  <2>1. \A x \in D : scaled[x] <= below[x]
    BY <1>1, <1>2, <1>8
  <2> HIDE DEF below, scaled
  <2>2. Total(scaled) <= Total(below)
    BY <1>5, <2>1, TotalMonotone
  <2> HIDE DEF m, t
  <2> QED BY <1>1, <1>2, <1>3, <1>4, <1>6, <2>2
<1> QED BY <1>7, <1>8

-----------------------------------------------------------------------------
(* Products of vectors.                                                    *)

LEMMA DotFacts ==
  ASSUME NEW a \in Vector, NEW b \in Vector
  PROVE  /\ Dot(a, b) \in Int
         /\ Dot(a, b) = Dot(b, a)
         /\ Norm2(a) \in Nat
         /\ Norm2(a) = 0 => \A i \in DOMAIN a : a[i] = 0
<1> DEFINE D == DOMAIN a \cap DOMAIN b
           f == [i \in D |-> a[i] * b[i]]
           h == [i \in DOMAIN b \cap DOMAIN a |-> b[i] * a[i]]
           q == [i \in DOMAIN a \cap DOMAIN a |-> a[i] * a[i]]
<1>1. IsFiniteSet(DOMAIN a) /\ IsFiniteSet(D)
  <2>1. DOMAIN a = 1 .. Len(a)
    BY DEF Vector
  <2>2. IsFiniteSet(DOMAIN a)
    BY <2>1, FS_Interval DEF Vector
  <2> QED BY <2>2, FS_Subset
<1>2. /\ \A i \in DOMAIN a : a[i] \in Int
      /\ \A i \in DOMAIN b : b[i] \in Int
  BY DEF Vector
<1>3. f \in [D -> Int] /\ f = h
  BY <1>2
<1>4. \A x \in Int : x * x \in Nat /\ (x * x = 0 => x = 0)
  OBVIOUS
<1>5. q \in [DOMAIN a -> Nat]
  BY <1>2, <1>4
<1>6. Dot(a, b) = Total(f) /\ Dot(b, a) = Total(h) /\ Norm2(a) = Total(q)
  BY DEF Dot, Norm2
<1>7. Total(f) \in Int
  BY <1>1, <1>3, TotalInt
<1>8. Total(q) \in Nat /\ (Total(q) = 0 => \A i \in DOMAIN a : q[i] = 0)
  <2> HIDE DEF q
  <2> QED BY <1>1, <1>5, TotalOfNaturals
<1>9. Total(q) = 0 => \A i \in DOMAIN a : a[i] = 0
  BY <1>2, <1>4, <1>8
<1> QED BY <1>3, <1>6, <1>7, <1>8, <1>9

(* The indices of vectors of one length, and what a product of them sums.  *)
LEMMA DotOfOneLength ==
  ASSUME NEW a \in Vector, NEW b \in Vector, NEW n, Len(a) = n, Len(b) = n,
         NEW f, f = [i \in 1 .. n |-> a[i] * b[i]]
  PROVE  /\ Dot(a, b) = Total(f)
         /\ f \in [1 .. n -> Int]
         /\ n \in Nat
         /\ IsFiniteSet(1 .. n) /\ Cardinality(1 .. n) = n
         /\ a \in [1 .. n -> Int] /\ b \in [1 .. n -> Int]
<1>1. n \in Nat /\ DOMAIN a = 1 .. n /\ DOMAIN b = 1 .. n
  <2>1. \A v \in Vector : Len(v) \in Nat /\ DOMAIN v = 1 .. Len(v)
    BY DEF Vector
  <2> QED BY <2>1
<1>2. a \in [1 .. n -> Int] /\ b \in [1 .. n -> Int]
  BY <1>1 DEF Vector
<1>3. f \in [1 .. n -> Int]
  BY <1>2
<1>4. DOMAIN a \cap DOMAIN b = 1 .. n
  BY <1>1
<1>5. Dot(a, b) = Total(f)
  BY <1>4 DEF Dot
<1>6. IsFiniteSet(1 .. n) /\ Cardinality(1 .. n) = n
  <2>1. \A m \in Nat : IsFiniteSet(1 .. m) /\ Cardinality(1 .. m) = m
    BY FS_Interval
  <2> QED BY <1>1, <2>1
<1> QED BY <1>1, <1>2, <1>3, <1>5, <1>6

(* A product as a sum that takes one index at a time.                      *)
Products(g, a, b) ==
  /\ g[{}] = 0
  /\ \A s \in SUBSET (1 .. Len(b)) :
       s # {} => g[s] = a[Taken(s)] * b[Taken(s)] + g[Rest(s)]
  /\ Dot(a, b) = g[1 .. Len(b)]

LEMMA DotBySums ==
  ASSUME NEW a \in Vector, NEW b \in Vector, Len(a) = Len(b)
  PROVE  \E g : Products(g, a, b)
<1> DEFINE D == 1 .. Len(b)
           f == [i \in D |-> a[i] * b[i]]
<1>1. Dot(a, b) = Total(f) /\ IsFiniteSet(D)
  BY DotOfOneLength
<1>2. DOMAIN f = D /\ \A i \in D : f[i] = a[i] * b[i]
  OBVIOUS
<1>3. IsFiniteSet(D)
  BY <1>1
<1>4. DOMAIN f = D
  BY <1>2
<1> HIDE DEF f, D
<1>5. PICK g : /\ g[{}] = 0
               /\ \A s \in SUBSET D : s # {} => g[s] = f[Taken(s)] + g[Rest(s)]
               /\ Total(f) = g[D]
  BY <1>3, <1>4, TotalBySums
<1>6. \A s \in SUBSET D : s # {} => g[s] = a[Taken(s)] * b[Taken(s)] + g[Rest(s)]
  BY <1>2, <1>5, RestSmaller
<1> QED BY <1>1, <1>5, <1>6 DEF Products, D

(* A factor of a vector is one of its products.                            *)
LEMMA DotScaled ==
  ASSUME NEW a \in Vector, NEW c \in Vector, NEW b \in Vector,
         Len(a) = Len(b), Len(c) = Len(b), NEW k \in Int, NEW l \in Int,
         \A i \in 1 .. Len(b) : k * c[i] = l * a[i]
  PROVE  k * Dot(c, b) = l * Dot(a, b)
<1> DEFINE n == Len(b)
           f == [i \in 1 .. n |-> a[i] * b[i]]
           h == [i \in 1 .. n |-> c[i] * b[i]]
<1>1. /\ Dot(a, b) = Total(f) /\ f \in [1 .. n -> Int]
      /\ IsFiniteSet(1 .. n) /\ a \in [1 .. n -> Int] /\ b \in [1 .. n -> Int]
  BY DotOfOneLength
<1>2. Dot(c, b) = Total(h) /\ h \in [1 .. n -> Int] /\ c \in [1 .. n -> Int]
  BY DotOfOneLength
<1>3. \A i \in 1 .. n : k * h[i] = l * f[i]
  <2> SUFFICES ASSUME NEW i \in 1 .. n PROVE k * h[i] = l * f[i]
    OBVIOUS
  <2>1. \A x, y, z \in Int : k * x = l * y => k * (x * z) = l * (y * z)
    BY SMTT(30)
  <2>2. k * c[i] = l * a[i] /\ a[i] \in Int /\ b[i] \in Int /\ c[i] \in Int
    BY <1>1, <1>2
  <2>3. k * (c[i] * b[i]) = l * (a[i] * b[i])
    BY <2>1, <2>2
  <2> QED BY <2>3
<1>4. k * Total(h) = l * Total(f)
  <2> DEFINE D == 1 .. n
  <2>1. IsFiniteSet(D) /\ f \in [D -> Int] /\ h \in [D -> Int] /\ \A i \in D : k * h[i] = l * f[i]
    BY <1>1, <1>2, <1>3
  <2> HIDE DEF f, h, n, D
  <2> QED BY <2>1, TotalScaled
<1> QED BY <1>1, <1>2, <1>4

(* What one step of the sum adds keeps the inequality below.               *)
LEMMA CauchyStep ==
  ASSUME NEW x \in Int, NEW y \in Int, NEW u \in Int, NEW p \in Nat, NEW q \in Nat,
         u * u <= p * q
  PROVE  (x * y + u) * (x * y + u) <= (x * x + p) * (y * y + q)
<1> DEFINE s == x * x * q
           t == y * y * p
           w == x * y * u
<1>1. s \in Nat /\ t \in Nat /\ w \in Int
  <2>1. \A v \in Int : v * v \in Nat
    OBVIOUS
  <2>2. \A v, z \in Nat : v * z \in Nat
    OBVIOUS
  <2>3. x * x \in Nat /\ y * y \in Nat /\ x * y \in Int
    BY <2>1
  <2> QED BY <2>2, <2>3
<1>2. w * w <= s * t
  <2> DEFINE r == (x * y) * (x * y)
  <2>1. w * w = r * (u * u)
    BY SMTT(30)
  <2>2. s * t = r * (p * q)
    BY SMTT(30)
  <2>3. r \in Nat
    <3>1. x * y \in Int
      OBVIOUS
    <3>2. \A v \in Int : v * v \in Nat
      OBVIOUS
    <3> QED BY <3>1, <3>2
  <2>4. u * u \in Int /\ p * q \in Int
    OBVIOUS
  <2>5. \A v, z \in Int : v <= z => r * v <= r * z
    <3> HIDE DEF r
    <3> QED BY <2>3
  <2>6. r * (u * u) <= r * (p * q)
    <3> HIDE DEF r
    <3> QED BY <2>4, <2>5
  <2> HIDE DEF r, w, s, t
  <2> QED BY <2>1, <2>2, <2>6
<1>3. 2 * w <= s + t
  <2> HIDE DEF s, t, w
  <2>1. ASSUME 2 * w > s + t PROVE FALSE
    <3>1. (2 * w) * (2 * w) > (s + t) * (s + t)
      <4>1. \A a, b \in Nat : a > b => a * a > b * b
        OBVIOUS
      <4>2. 2 * w \in Nat /\ s + t \in Nat
        BY <1>1, <2>1
      <4> QED BY <2>1, <4>1, <4>2
    <3>2. (s + t) * (s + t) = (s - t) * (s - t) + 4 * (s * t)
      BY <1>1
    <3>3. (s - t) * (s - t) >= 0
      <4>1. \A v \in Int : v * v >= 0
        OBVIOUS
      <4>2. s - t \in Int
        BY <1>1
      <4> QED BY <4>1, <4>2
    <3>4. (2 * w) * (2 * w) = 4 * (w * w)
      BY <1>1
    <3>5. w * w \in Int /\ s * t \in Int /\ (s - t) * (s - t) \in Int
      BY <1>1
    <3> QED BY <1>2, <3>1, <3>2, <3>3, <3>4, <3>5
  <2> QED BY <1>1, <2>1
<1>4. (x * y + u) * (x * y + u) = (x * x) * (y * y) + 2 * w + u * u
  BY SMTT(30)
<1>5. (x * x + p) * (y * y + q) = (x * x) * (y * y) + s + t + p * q
  BY SMTT(30)
<1>6. (x * x) * (y * y) \in Int /\ u * u \in Int /\ p * q \in Int
  OBVIOUS
<1> HIDE DEF s, t, w
<1> QED BY <1>1, <1>3, <1>4, <1>5, <1>6

(* The product of two vectors is at most that of their lengths.            *)
LEMMA Cauchy ==
  ASSUME NEW a \in Vector, NEW b \in Vector, Len(a) = Len(b)
  PROVE  Dot(a, b) * Dot(a, b) <= Norm2(a) * Norm2(b)
<1> DEFINE D == 1 .. Len(b)
<1>1. IsFiniteSet(D) /\ a \in [D -> Int] /\ b \in [D -> Int]
  BY DotOfOneLength
<1>2. (\E g : Products(g, a, b)) /\ (\E k : Products(k, a, a)) /\ (\E l : Products(l, b, b))
  BY DotBySums
<1>3. PICK g, k, l : Products(g, a, b) /\ Products(k, a, a) /\ Products(l, b, b)
  BY <1>2
<1>4. /\ g[{}] = 0
      /\ \A s \in SUBSET D : s # {} => g[s] = a[Taken(s)] * b[Taken(s)] + g[Rest(s)]
      /\ Dot(a, b) = g[D]
  BY <1>3 DEF Products
<1>5. /\ k[{}] = 0
      /\ \A s \in SUBSET D : s # {} => k[s] = a[Taken(s)] * a[Taken(s)] + k[Rest(s)]
      /\ Norm2(a) = k[D]
  BY <1>3 DEF Products, Norm2
<1>6. /\ l[{}] = 0
      /\ \A s \in SUBSET D : s # {} => l[s] = b[Taken(s)] * b[Taken(s)] + l[Rest(s)]
      /\ Norm2(b) = l[D]
  BY <1>3 DEF Products, Norm2
<1> HIDE DEF D
<1> DEFINE F == {s \in SUBSET D : /\ g[s] \in Int /\ k[s] \in Nat /\ l[s] \in Nat
                                  /\ g[s] * g[s] <= k[s] * l[s]}
<1>7. ASSUME NEW s \in SUBSET D, s # {}, Rest(s) \in F
      PROVE  s \in F
  <2> DEFINE x == a[Taken(s)]
             y == b[Taken(s)]
             r == Rest(s)
  <2>1. Taken(s) \in D
    BY <1>7, RestSmaller
  <2>2. /\ g[s] = x * y + g[r] /\ k[s] = x * x + k[r] /\ l[s] = y * y + l[r]
        /\ x \in Int /\ y \in Int
    BY <1>1, <1>4, <1>5, <1>6, <1>7, <2>1
  <2>3. g[r] \in Int /\ k[r] \in Nat /\ l[r] \in Nat /\ g[r] * g[r] <= k[r] * l[r]
    BY <1>7
  <2> HIDE DEF x, y, r
  <2>4. (x * y + g[r]) * (x * y + g[r]) <= (x * x + k[r]) * (y * y + l[r])
    BY <2>2, <2>3, CauchyStep
  <2>5. x * x \in Nat /\ y * y \in Nat /\ x * y \in Int
    <3>1. \A v \in Int : v * v \in Nat
      OBVIOUS
    <3> QED BY <2>2, <3>1
  <2>6. g[s] \in Int /\ k[s] \in Nat /\ l[s] \in Nat
    <3> DEFINE xx == x * x
               yy == y * y
               xy == x * y
    <3>1. g[s] = xy + g[r] /\ k[s] = xx + k[r] /\ l[s] = yy + l[r]
          /\ xx \in Nat /\ yy \in Nat /\ xy \in Int
      BY <2>2, <2>5
    <3> HIDE DEF xx, yy, xy
    <3> QED BY <3>1, <2>3
  <2>7. g[s] * g[s] <= k[s] * l[s]
    BY <2>2, <2>4
  <2> QED BY <2>6, <2>7
<1>8. {} \in F /\ F \subseteq SUBSET D
  BY <1>4, <1>5, <1>6
<1>9. D \in F
  <2> HIDE DEF F
  <2> QED BY <1>1, <1>7, <1>8, SumsInduction
<1> QED BY <1>4, <1>5, <1>6, <1>9

-----------------------------------------------------------------------------
(* The comparison with the threshold.                                      *)

LEMMA VectorFacts ==
  ASSUME NEW v \in Vector
  PROVE  /\ Len(v) \in Nat /\ DOMAIN v = 1 .. Len(v)
         /\ v \in [1 .. Len(v) -> Int]
         /\ v = <<>> <=> Len(v) = 0
         /\ IsFiniteSet(DOMAIN v)
         /\ Norm2(v) # 0 => v # <<>>
<1>1. /\ Len(v) \in Nat /\ DOMAIN v = 1 .. Len(v)
      /\ v \in [1 .. Len(v) -> Int] /\ (v = <<>> <=> Len(v) = 0)
  BY DEF Vector
<1>2. IsFiniteSet(DOMAIN v)
  <2>1. \A m \in Nat : IsFiniteSet(1 .. m)
    BY FS_Interval
  <2> QED BY <1>1, <2>1
<1>3. ASSUME v = <<>> PROVE Norm2(v) = 0
  <2> DEFINE f == [i \in 1 .. 0 |-> v[i] * v[i]]
  <2>1. Len(v) = 0
    BY <1>1, <1>3
  <2>2. Norm2(v) = Total(f)
    BY <2>1, DotOfOneLength DEF Norm2
  <2>3. DOMAIN f = {}
    OBVIOUS
  <2> HIDE DEF f
  <2>4. Total(f) = 0
    BY <2>3, FS_EmptySet, TotalBySums
  <2> QED BY <2>2, <2>4
<1> QED BY <1>1, <1>2, <1>3

(* A vector that is not zero matches itself, unless the threshold is above *)
(* 1, where nothing matches.                                               *)
THEOREM SelfMatch ==
  ASSUME NEW p \in Vector, Norm2(p) # 0, match_threshold <= 100
  PROVE  matches(p, p)
<1> DEFINE n == Norm2(p)
           t == match_threshold
<1>1. n \in Nat /\ Dot(p, p) = n /\ p # <<>>
  BY DotFacts, VectorFacts DEF Norm2
<1>2. t \in Int /\ (t >= 0 => t \in Nat /\ t * t <= 10000)
  <2>1. t \in Int /\ t <= 100
    BY CosineAssumption
  <2>2. \A x \in Nat : x <= 100 => x * x <= 10000
    OBVIOUS
  <2> QED BY <2>1, <2>2
<1>3. ASSUME t >= 0 PROVE 10000 * n * n >= t * t * n * n
  <2>1. n * n \in Nat /\ t * t \in Nat
    <3>1. \A x \in Nat : x * x \in Nat
      OBVIOUS
    <3> QED BY <1>1, <1>2, <1>3, <3>1
  <2>2. \A a, b, c \in Nat : a >= b => a * c >= b * c
    OBVIOUS
  <2>3. 10000 * (n * n) >= (t * t) * (n * n)
    BY <1>2, <1>3, <2>1, <2>2
  <2>4. 10000 * n * n = 10000 * (n * n) /\ t * t * n * n = (t * t) * (n * n)
    <3> HIDE DEF n, t
    <3> QED BY <1>1, <1>2, <1>3
  <2> HIDE DEF n, t
  <2> QED BY <2>3, <2>4
<1>4. HasCosine(p, p)
  BY <1>1 DEF HasCosine
<1> QED BY <1>1, <1>3, <1>4 DEF matches

(* A threshold above 1, such as one written in percent, locks every face   *)
(* out: no cosine reaches it.                                              *)
THEOREM ThresholdAboveOne ==
  ASSUME match_threshold > 100, NEW a \in Vector, NEW b \in Vector
  PROVE  ~ matches(a, b)
<1> SUFFICES ASSUME matches(a, b) PROVE FALSE
  OBVIOUS
<1> DEFINE x == Dot(a, b)
           m == Norm2(a)
           n == Norm2(b)
           t == match_threshold
<1>1. x \in Int /\ m \in Nat /\ n \in Nat /\ t \in Int /\ t > 100
  BY DotFacts, CosineAssumption
<1>2. m # 0 /\ n # 0 /\ Len(a) = Len(b) /\ 10000 * x * x >= t * t * m * n
  BY <1>1 DEF matches, HasCosine
<1>3. x * x <= m * n
  BY <1>2, Cauchy
<1> DEFINE xx == x * x
           mn == m * n
           tt == t * t
<1> HIDE DEF x, m, n, t
<1>4. xx \in Int /\ mn \in Nat /\ mn > 0 /\ tt \in Nat /\ tt > 10000
  <2>1. \A v, w \in Nat : v > 0 /\ w > 0 => v * w \in Nat /\ v * w > 0
    OBVIOUS
  <2>2. \A v \in Int : v > 100 => v * v \in Nat /\ v * v > 10000
    OBVIOUS
  <2>3. m > 0 /\ n > 0 /\ x * x \in Int
    BY <1>1, <1>2
  <2> QED BY <1>1, <2>1, <2>2, <2>3
<1>5. 10000 * xx >= tt * mn
  <2>1. 10000 * x * x = 10000 * (x * x) /\ t * t * m * n = (t * t) * (m * n)
    BY <1>1
  <2> QED BY <1>2, <2>1
<1>6. xx <= mn
  BY <1>3
<1> HIDE DEF xx, mn, tt
<1>7. \A v, w \in Nat : v > 0 /\ w > 10000 => w * v > 10000 * v
  OBVIOUS
<1> QED BY <1>4, <1>5, <1>6, <1>7

(* Which of two vectors is the probe makes no difference.                  *)
THEOREM MatchSymmetric ==
  ASSUME NEW a \in Vector, NEW b \in Vector
  PROVE  matches(a, b) <=> matches(b, a)
<1> SUFFICES ASSUME NEW c \in Vector, NEW d \in Vector, matches(c, d)
             PROVE  matches(d, c)
  OBVIOUS
<1> DEFINE x == Dot(c, d)
           m == Norm2(c)
           n == Norm2(d)
           t == match_threshold
<1>1. x \in Int /\ m \in Nat /\ n \in Nat /\ Dot(d, c) = x /\ t \in Int
  BY DotFacts, CosineAssumption
<1>2. HasCosine(c, d)
  BY DEF matches
<1>3. HasCosine(d, c)
  BY <1>2, VectorFacts DEF HasCosine
<1>4. t * t * m * n = t * t * n * m
  <2> HIDE DEF t, m, n
  <2> QED BY <1>1
<1> QED BY <1>1, <1>3, <1>4 DEF matches

(* The square of its length grows with the square of the factor.           *)
LEMMA NormScaled ==
  ASSUME NEW a \in Vector, NEW c \in Vector, Len(c) = Len(a),
         NEW k \in Int, NEW l \in Int, \A i \in 1 .. Len(a) : k * c[i] = l * a[i]
  PROVE  k * k * Norm2(c) = l * l * Norm2(a)
<1> DEFINE z == Dot(a, c)
           m == Norm2(a)
           n == Norm2(c)
<1>1. k * Dot(c, c) = l * Dot(a, c)
  BY DotScaled
<1>2. k * Dot(c, a) = l * Dot(a, a)
  BY DotScaled
<1>3. Dot(c, a) = z /\ z \in Int /\ m \in Int /\ n \in Int
  BY DotFacts
<1>4. k * n = l * z /\ k * z = l * m
  BY <1>1, <1>2, <1>3 DEF Norm2
<1> HIDE DEF z, n, m
<1>5. k * (k * n) = k * (l * z) /\ l * (k * z) = l * (l * m)
  BY <1>4
<1>6. k * (l * z) = l * (k * z) /\ k * (k * n) = k * k * n /\ l * (l * m) = l * l * m
  BY <1>3
<1>7. k * k * n = l * l * m
  BY <1>5, <1>6
<1> QED BY <1>7 DEF n, m

(* Cancelling a square.                                                    *)
LEMMA CancelSquare ==
  ASSUME NEW k \in Nat, k > 0, NEW x \in Int, NEW y \in Int, k * k * x >= k * k * y
  PROVE  x >= y
<1> DEFINE q == k * k
<1>1. q \in Nat /\ q > 0
  <2>1. \A v \in Nat : v > 0 => v * v \in Nat /\ v * v > 0
    OBVIOUS
  <2> QED BY <2>1
<1>2. \A v \in Nat, a, b \in Int : v > 0 /\ v * a >= v * b => a >= b
  OBVIOUS
<1>3. q * x >= q * y
  OBVIOUS
<1> HIDE DEF q
<1> QED BY <1>1, <1>2, <1>3

(* Only the directions of the vectors matter: a multiple matches what the  *)
(* vector matches.  So normalising embeddings or templates changes no      *)
(* answer.                                                                 *)
LEMMA MultipleMatches ==
  ASSUME NEW a \in Vector, NEW c \in Vector, NEW b \in Vector,
         NEW k \in Nat \ {0}, NEW l \in Nat \ {0},
         Len(c) = Len(a), \A i \in DOMAIN a : k * c[i] = l * a[i],
         matches(a, b)
  PROVE  matches(c, b)
<1> DEFINE x == Dot(a, b)
           y == Dot(c, b)
           m == Norm2(a)
           n == Norm2(c)
           o == Norm2(b)
           t == match_threshold
<1>1. /\ x \in Int /\ y \in Int /\ m \in Nat /\ n \in Nat /\ o \in Nat
      /\ t \in Int
  BY DotFacts, CosineAssumption
<1>2. /\ HasCosine(a, b)
      /\ IF t >= 0 THEN x >= 0 /\ 10000 * x * x >= t * t * m * o
                   ELSE x >= 0 \/ 10000 * x * x <= t * t * m * o
      /\ m # 0 /\ o # 0 /\ Len(a) = Len(b)
  BY DEF matches, HasCosine
<1>3. /\ Len(a) = Len(b) /\ Len(c) = Len(b) /\ Len(a) = Len(c) /\ k \in Int /\ l \in Int
      /\ \A i \in 1 .. Len(b) : k * c[i] = l * a[i]
      /\ \A i \in 1 .. Len(c) : k * c[i] = l * a[i]
      /\ \A i \in 1 .. Len(a) : k * c[i] = l * a[i]
  <2>1. DOMAIN a = 1 .. Len(a)
    BY VectorFacts
  <2> HIDE DEF x, y, m, n, o
  <2> QED BY <1>2, <2>1
<1>4. k * y = l * x
  <2>1. k * Dot(c, b) = l * Dot(a, b)
    BY <1>3, DotScaled
  <2> QED BY <2>1
<1>5. k * k * n = l * l * m
  BY <1>3, NormScaled
<1> HIDE DEF x, y, m, n, o, t
<1>6. ASSUME x >= 0 PROVE y >= 0
  <2>1. l * x >= 0
    BY <1>1, <1>6
  <2>2. \A v \in Nat \ {0}, w \in Int : v * w >= 0 => w >= 0
    OBVIOUS
  <2> QED BY <1>1, <1>4, <2>1, <2>2
<1>7. n # 0
  <2>1. \A v \in Nat \ {0} : v * v \in Nat /\ v * v > 0
    OBVIOUS
  <2>2. \A v, w \in Nat : v > 0 /\ w > 0 => v * w > 0
    OBVIOUS
  <2>3. l * l * m > 0
    BY <1>1, <1>2, <2>1, <2>2
  <2> QED BY <1>1, <1>5, <2>3
<1>8. /\ 10000 * x * x >= t * t * m * o => 10000 * y * y >= t * t * n * o
      /\ 10000 * x * x <= t * t * m * o => 10000 * y * y <= t * t * n * o
  <2>1. k * k * (10000 * y * y) = 10000 * ((k * y) * (k * y))
    BY <1>1
  <2>2. 10000 * ((l * x) * (l * x)) = (l * l) * (10000 * x * x)
    BY <1>1
  <2>3. (l * l) * (t * t * m * o) = (l * l * m) * (t * t * o)
    BY <1>1
  <2>4. (k * k * n) * (t * t * o) = k * k * (t * t * n * o)
    BY <1>1
  <2> DEFINE cosine == 10000 * y * y
             least == t * t * n * o
             cosineA == 10000 * x * x
             leastA == t * t * m * o
             s == l * l
  <2>5. /\ cosine \in Int /\ least \in Int /\ cosineA \in Int /\ leastA \in Int
        /\ s \in Nat /\ k \in Nat /\ k > 0
    <3>1. \A v \in Nat : v * v \in Nat
      OBVIOUS
    <3> QED BY <1>1, <3>1
  <2>6. k * k * cosine = s * cosineA
    BY <1>4, <2>1, <2>2
  <2>7. k * k * least = s * leastA
    BY <1>5, <2>3, <2>4
  <2>8. \A v \in Nat, w, z \in Int : w >= z => v * w >= v * z
    OBVIOUS
  <2> HIDE DEF cosine, least, cosineA, leastA, s
  <2>9. ASSUME cosineA >= leastA PROVE cosine >= least
    <3>1. s * cosineA >= s * leastA
      BY <2>5, <2>8, <2>9
    <3> QED BY <2>5, <2>6, <2>7, <3>1, CancelSquare
  <2>10. ASSUME cosineA <= leastA PROVE cosine <= least
    <3>1. s * leastA >= s * cosineA
      BY <2>5, <2>8, <2>10
    <3>2. least >= cosine
      BY <2>5, <2>6, <2>7, <3>1, CancelSquare
    <3> QED BY <2>5, <3>2
  <2> QED BY <2>9, <2>10 DEF cosine, least, cosineA, leastA
<1>9. HasCosine(c, b)
  BY <1>2, <1>7, VectorFacts DEF HasCosine, n, o
<1>10. IF t >= 0 THEN y >= 0 /\ 10000 * y * y >= t * t * n * o
                 ELSE y >= 0 \/ 10000 * y * y <= t * t * n * o
  BY <1>2, <1>6, <1>8
<1> QED BY <1>9, <1>10 DEF matches, x, y, m, n, o, t

SameDirection(c, a) ==
  /\ Len(c) = Len(a)
  /\ \E k, l \in Nat \ {0} : \A i \in DOMAIN a : k * c[i] = l * a[i]

(* A probe and any multiple of it match the same templates, and templates  *)
(* and any multiple of them the same probes: normalisation decides nothing *)
(* in the comparison, and a template need not have length 1.               *)
THEOREM MatchOfMultiple ==
  ASSUME NEW a \in Vector, NEW c \in Vector, NEW b \in Vector, SameDirection(c, a)
  PROVE  /\ matches(c, b) <=> matches(a, b)
         /\ matches(b, c) <=> matches(b, a)
<1>1. PICK k \in Nat \ {0}, l \in Nat \ {0} : \A i \in DOMAIN a : k * c[i] = l * a[i]
  BY DEF SameDirection
<1>2. Len(c) = Len(a)
  BY DEF SameDirection
<1>3. matches(a, b) => matches(c, b)
  BY <1>1, <1>2, MultipleMatches
<1>4. matches(c, b) => matches(a, b)
  <2>1. DOMAIN a = DOMAIN c
    BY <1>2, VectorFacts
  <2>2. \A i \in DOMAIN c : l * a[i] = k * c[i]
    BY <1>1, <2>1
  <2> QED BY <1>2, <2>2, MultipleMatches
<1>5. (matches(b, c) <=> matches(c, b)) /\ (matches(b, a) <=> matches(a, b))
  BY MatchSymmetric
<1> QED BY <1>3, <1>4, <1>5

(* An embedding that l2_normalize changes decides like the one the network *)
(* gave, as long as the division by its norm comes out even: the length is *)
(* nothing the matcher sees.                                               *)
THEOREM NormalisedMatchesSame ==
  ASSUME NEW v \in Vector, NEW b \in Vector,
         Norm2(v) # 0 =>
           \E n \in Nat \ {0} : n * n = Norm2(v) /\ \A i \in DOMAIN v : (v[i] * One) % n = 0
  PROVE  /\ l2_normalize(v) \in Vector
         /\ matches(l2_normalize(v), b) <=> matches(v, b)
         /\ matches(b, l2_normalize(v)) <=> matches(b, v)
<1> DEFINE c == l2_normalize(v)
<1>1. CASE Norm2(v) = 0
  BY <1>1 DEF l2_normalize
<1>2. CASE Norm2(v) # 0
  <2>1. PICK n \in Nat \ {0} : n * n = Norm2(v) /\ \A i \in DOMAIN v : (v[i] * One) % n = 0
    BY <1>2
  <2> DEFINE m == CHOOSE m \in 1 .. Norm2(v) : m * m = Norm2(v)
  <2>2. n \in 1 .. Norm2(v)
    <3>1. \A k \in Nat \ {0} : k <= k * k /\ k * k \in Nat
      OBVIOUS
    <3>2. n <= n * n /\ n * n \in Nat
      BY <2>1, <3>1
    <3> QED BY <2>1, <3>2
  <2>3. m \in 1 .. Norm2(v) /\ m * m = Norm2(v)
    BY <2>1, <2>2
  <2>4. m = n
    <3>1. \A x, y \in Nat \ {0} : x < y => x * x < y * y
      <4>1. ASSUME NEW x \in Nat \ {0}, NEW y \in Nat \ {0}, x < y PROVE x * x < y * y
        <5>1. x * x < x * y /\ x * y < y * y
          BY <4>1
        <5> QED BY <5>1
      <4> QED BY <4>1
    <3>2. m \in Nat \ {0}
      BY <2>1, <2>3
    <3>3. ~(m < n) /\ ~(n < m)
      <4> HIDE DEF m
      <4>1. m * m = n * n /\ m * m \in Int
        BY <2>1, <2>3, <3>2
      <4> QED BY <2>1, <3>1, <3>2, <4>1
    <3> HIDE DEF m
    <3> QED BY <3>2, <3>3
  <2>5. c = [i \in DOMAIN v |-> (v[i] * One) \div n]
    <3>1. c = [i \in DOMAIN v |-> (v[i] * One) \div m]
      BY <1>2 DEF l2_normalize
    <3> HIDE DEF m, c
    <3> QED BY <2>4, <3>1
  <2>6. ASSUME NEW i \in DOMAIN v
        PROVE  c[i] \in Int /\ n * c[i] = One * v[i]
    <3>1. v[i] \in Int /\ One \in Nat \ {0}
      BY CosineAssumption DEF Vector
    <3> DEFINE x == v[i] * One
    <3>2. x \in Int /\ x % n = 0 /\ x = One * v[i]
      BY <2>1, <3>1
    <3>3. c[i] = x \div n
      BY <2>5
    <3> HIDE DEF x, c
    <3>4. \A y \in Int, k \in Nat \ {0} : y = k * (y \div k) + (y % k) /\ y \div k \in Int
      OBVIOUS
    <3>5. x = n * (x \div n) + 0 /\ x \div n \in Int
      BY <2>1, <3>2, <3>4
    <3>6. \A y, k, d \in Int : y = k * d + 0 => k * d = y
      OBVIOUS
    <3>7. n \in Int
      BY <2>1
    <3> QED BY <3>2, <3>3, <3>5, <3>6, <3>7
  <2>7. c \in Vector /\ Len(c) = Len(v)
    <3>1. v \in Seq(Int) /\ DOMAIN v = 1 .. Len(v) /\ Len(v) \in Nat
      BY DEF Vector
    <3>2. c \in [1 .. Len(v) -> Int]
      BY <2>5, <2>6, <3>1
    <3> DEFINE k == Len(v)
    <3>3. k \in Nat /\ c \in [1 .. k -> Int] /\ k = Len(v)
      BY <3>1, <3>2
    <3> HIDE DEF c, k
    <3>4. c \in Seq(Int) /\ Len(c) = k
      BY <3>3
    <3> QED BY <3>3, <3>4 DEF Vector
  <2>8. SameDirection(c, v)
    <3>1. One \in Nat \ {0}
      BY CosineAssumption
    <3> HIDE DEF c
    <3> QED BY <2>6, <2>7, <3>1 DEF SameDirection
  <2> HIDE DEF c
  <2>9. c \in Vector /\ (matches(c, b) <=> matches(v, b)) /\ (matches(b, c) <=> matches(b, v))
    BY <2>7, <2>8, MatchOfMultiple
  <2> QED BY <2>9 DEF c
<1> QED BY <1>1, <1>2

-----------------------------------------------------------------------------
(* Averages.                                                               *)

(* What try_average accepts, and what it makes of it.                      *)
Averaged(es) ==
  es # <<>> /\ es[1] # <<>> /\ \A j \in DOMAIN es : Len(es[j]) = Len(es[1])

LEMMA AverageOfCapture ==
  ASSUME NEW es \in Seq(Vector), Averaged(es)
  PROVE  /\ es # <<>> /\ Len(es) \in Nat \ {0} /\ DOMAIN es = 1 .. Len(es)
         /\ \A j \in DOMAIN es : es[j] \in Vector /\ Len(es[j]) = Len(es[1])
         /\ try_average(es) \in Vector
         /\ Len(try_average(es)) = Len(es[1]) /\ Len(es[1]) # 0
         /\ \A i \in 1 .. Len(es[1]) :
              /\ [j \in DOMAIN es |-> es[j][i]] \in [DOMAIN es -> Int]
              /\ try_average(es)[i]
                   = Total([j \in DOMAIN es |-> es[j][i]]) \div Len(es)
<1> DEFINE n == Len(es[1])
           m == Len(es)
           S(i) == Total([j \in DOMAIN es |-> es[j][i]])
           average == [i \in DOMAIN es[1] |-> S(i) \div m]
<1>1. es # <<>> /\ m \in Nat \ {0} /\ DOMAIN es = 1 .. m /\ IsFiniteSet(1 .. m)
  <2>1. es # <<>>
    BY DEF Averaged
  <2>2. m \in Nat \ {0} /\ DOMAIN es = 1 .. m
    BY <2>1
  <2>3. \A l \in Nat : IsFiniteSet(1 .. l)
    BY FS_Interval
  <2> QED BY <2>1, <2>2, <2>3
<1>2. \A j \in DOMAIN es : es[j] \in Vector /\ Len(es[j]) = n
  BY DEF Averaged
<1>3. es[1] \in Vector /\ es[1] # <<>> /\ try_average(es) = average
  <2>1. es[1] \in Vector
    BY <1>1, <1>2
  <2>2. es[1] # <<>> /\ try_average(es) = average
    BY DEF try_average, Averaged
  <2> QED BY <2>1, <2>2
<1>4. n \in Nat \ {0} /\ DOMAIN es[1] = 1 .. n
  BY <1>3, VectorFacts
<1>5. ASSUME NEW i \in 1 .. n
      PROVE  [j \in DOMAIN es |-> es[j][i]] \in [DOMAIN es -> Int] /\ S(i) \in Int
  <2>1. \A j \in DOMAIN es : es[j][i] \in Int
    <3>1. \A v \in Vector : \A k \in 1 .. Len(v) : v[k] \in Int
      BY DEF Vector
    <3> QED BY <1>2, <1>5, <3>1
  <2> DEFINE f == [j \in DOMAIN es |-> es[j][i]]
  <2>2. f \in [DOMAIN es -> Int] /\ IsFiniteSet(DOMAIN es)
    BY <1>1, <2>1
  <2> HIDE DEF f
  <2>3. Total(f) \in Int
    BY <2>2, TotalInt
  <2> QED BY <2>2, <2>3 DEF f
<1> HIDE DEF S
<1>6. \A i \in 1 .. n : S(i) \div m \in Int
  <2>1. \A x \in Int, y \in Nat \ {0} : x \div y \in Int
    OBVIOUS
  <2> QED BY <1>1, <1>5, <2>1
<1>7. average \in Vector /\ Len(average) = n /\ \A i \in 1 .. n : average[i] = S(i) \div m
  <2>1. average = [i \in 1 .. n |-> S(i) \div m]
    BY <1>4
  <2>2. average \in [1 .. n -> Int] /\ \A i \in 1 .. n : average[i] = S(i) \div m
    BY <1>6, <2>1
  <2> HIDE DEF average, n
  <2>3. average \in Seq(Int) /\ Len(average) = n
    BY <1>4, <2>2
  <2> QED BY <2>2, <2>3 DEF Vector
<1> HIDE DEF average, n, m
<1>8. \A i \in 1 .. n : average[i] = Total([j \in DOMAIN es |-> es[j][i]]) \div m
  BY <1>7 DEF S
<1> QED BY <1>1, <1>2, <1>3, <1>4, <1>5, <1>7, <1>8 DEF n, m

LEMMA AverageAccepts ==
  ASSUME NEW es \in Seq(Vector)
  PROVE  try_average(es) # NoTemplate <=> Averaged(es)
<1>1. ASSUME Averaged(es) PROVE try_average(es) # NoTemplate
  BY <1>1, AverageOfCapture, CosineAssumption DEF Vector
<1>2. ASSUME ~ Averaged(es) PROVE try_average(es) = NoTemplate
  BY <1>2 DEF Averaged, try_average
<1> QED BY <1>1, <1>2

LEMMA AverageVector ==
  ASSUME NEW es \in Seq(Vector), try_average(es) # NoTemplate
  PROVE  /\ es # <<>> /\ Len(es) \in Nat \ {0} /\ DOMAIN es = 1 .. Len(es)
         /\ \A j \in DOMAIN es : es[j] \in Vector /\ Len(es[j]) = Len(es[1])
         /\ try_average(es) \in Vector
         /\ Len(try_average(es)) = Len(es[1]) /\ Len(es[1]) # 0
         /\ \A i \in 1 .. Len(es[1]) :
              /\ [j \in DOMAIN es |-> es[j][i]] \in [DOMAIN es -> Int]
              /\ try_average(es)[i]
                   = Total([j \in DOMAIN es |-> es[j][i]]) \div Len(es)
BY AverageAccepts, AverageOfCapture

(* A capture in which all frames gave the same embedding is enrolled as it.*)
THEOREM AverageOfEqual ==
  ASSUME NEW es \in Seq(Vector), NEW v \in Vector, v # <<>>, es # <<>>,
         \A j \in DOMAIN es : es[j] = v
  PROVE  try_average(es) = v
<1>1. DOMAIN es = 1 .. Len(es) /\ Len(es) \in Nat \ {0} /\ 1 \in DOMAIN es
  OBVIOUS
<1>2. es[1] = v
  BY <1>1
<1> DEFINE S(i) == Total([j \in DOMAIN es |-> es[j][i]])
<1>3. try_average(es) = [i \in DOMAIN v |-> S(i) \div Len(es)]
  BY <1>1, <1>2 DEF try_average
<1>4. ASSUME NEW i \in DOMAIN v PROVE S(i) \div Len(es) = v[i]
  <2> DEFINE D == DOMAIN es
             f == [j \in D |-> v[i]]
  <2>1. f = [j \in DOMAIN es |-> es[j][i]]
    OBVIOUS
  <2>2. \A m \in Nat : IsFiniteSet(1 .. m) /\ Cardinality(1 .. m) = m
    BY FS_Interval
  <2>3. IsFiniteSet(D) /\ Cardinality(D) = Len(es)
    BY <1>1, <2>2
  <2>4. v[i] \in Int
    BY DEF Vector
  <2>5. Total(f) = v[i] * Cardinality(D)
    <3> HIDE DEF D
    <3> QED BY <2>3, <2>4, TotalConstant
  <2>6. S(i) = v[i] * Len(es)
    BY <2>1, <2>3, <2>5
  <2>7. \A x \in Int, m \in Nat \ {0} : (x * m) \div m = x
    OBVIOUS
  <2> QED BY <1>1, <2>4, <2>6, <2>7
<1> HIDE DEF S
<1>5. try_average(es) = [i \in DOMAIN v |-> v[i]]
  BY <1>3, <1>4
<1> QED BY <1>5 DEF Vector

(* The product with the sum of some vectors is the sum of the products:    *)
(* first the step that takes one more index.                               *)
Linear(D) ==
  \A k \in Int : \A rest, entries, all \in [D -> Int] :
    (\A j \in D : all[j] = k * entries[j] + rest[j])
      => Total(all) = k * Total(entries) + Total(rest)

LEMMA SumOfColumns ==
  ASSUME NEW D, IsFiniteSet(D)
  PROVE  Linear(D)
<1> SUFFICES ASSUME NEW k \in Int, NEW rest \in [D -> Int],
                    NEW entries \in [D -> Int], NEW all \in [D -> Int],
                    \A j \in D : all[j] = k * entries[j] + rest[j]
             PROVE  Total(all) = k * Total(entries) + Total(rest)
  BY DEF Linear
<1> DEFINE products == [j \in D |-> k * entries[j]]
<1>1. products \in [D -> Int] /\ \A j \in D : products[j] = k * entries[j]
  OBVIOUS
<1> HIDE DEF products
<1>2. \A j \in D : all[j] = products[j] + rest[j]
  BY <1>1
<1>3. \A j \in D : 1 * products[j] = k * entries[j]
  BY <1>1
<1>4. Total(all) = Total(products) + Total(rest)
  BY <1>1, <1>2, TotalAdd
<1>5. 1 * Total(products) = k * Total(entries)
  BY <1>1, <1>3, TotalScaled
<1>6. Total(products) \in Int
  BY <1>1, TotalInt
<1> QED BY <1>4, <1>5, <1>6

(* Then all of them.                                                       *)
Entries(es, D, i) == [j \in D |-> es[j][i]]

IsSumOf(t, es, D) ==
  /\ t \in Vector /\ IsFiniteSet(D)
  /\ \A j \in D : es[j] \in Vector /\ Len(es[j]) = Len(t)
  /\ \A i \in 1 .. Len(t) : t[i] = Total(Entries(es, D, i))

LEMMA DotOfSum ==
  ASSUME NEW p \in Vector, NEW t, NEW es, NEW D, IsSumOf(t, es, D), Len(p) = Len(t)
  PROVE  Dot(p, t) = Total([j \in D |-> Dot(p, es[j])])
<1> DEFINE n == Len(t)
<1>1. /\ t \in Vector /\ IsFiniteSet(D) /\ n \in Nat
      /\ \A j \in D : es[j] \in Vector /\ Len(es[j]) = n
      /\ \A i \in 1 .. n : t[i] = Total(Entries(es, D, i))
  BY VectorFacts DEF IsSumOf
<1>2. Linear(D)
  BY <1>1, SumOfColumns
<1> DEFINE N == 1 .. n
           G(j) == CHOOSE h : Products(h, p, es[j])
           Column(s) == [j \in D |-> G(j)[s]]
<1>3. IsFiniteSet(N) /\ p \in [N -> Int] /\ t \in [N -> Int]
  BY <1>1, DotOfOneLength
<1>4. PICK g : Products(g, p, t)
  BY <1>1, DotBySums
<1>5. ASSUME NEW j \in D PROVE Products(G(j), p, es[j])
  <2>1. \E h : Products(h, p, es[j])
    BY <1>1, DotBySums
  <2> QED BY <2>1
<1>6. /\ g[{}] = 0
      /\ \A s \in SUBSET N : s # {} => g[s] = p[Taken(s)] * t[Taken(s)] + g[Rest(s)]
      /\ Dot(p, t) = g[N]
  BY <1>4 DEF Products
<1> HIDE DEF G
<1>7. \A j \in D :
        /\ G(j)[{}] = 0
        /\ \A s \in SUBSET N :
             s # {} => G(j)[s] = p[Taken(s)] * es[j][Taken(s)] + G(j)[Rest(s)]
        /\ Dot(p, es[j]) = G(j)[N]
  BY <1>5, <1>1 DEF Products
<1>8. \A j \in D : es[j] \in [N -> Int]
  <2>1. \A v \in Vector : v \in [1 .. Len(v) -> Int]
    BY DEF Vector
  <2> QED BY <1>1, <2>1
<1>9. \A i \in N : t[i] = Total(Entries(es, D, i))
  BY <1>1
<1> HIDE DEF N
<1> DEFINE F == {s \in SUBSET N : Column(s) \in [D -> Int] /\ g[s] = Total(Column(s))}
<1>10. {} \in F /\ F \subseteq SUBSET N
  <2> DEFINE zero == [j \in D |-> 0]
  <2>1. Column({}) = zero
    BY <1>7
  <2>2. IsFiniteSet(D)
    BY <1>1
  <2>3. Total(zero) = 0 * Cardinality(D)
    BY <2>2, TotalConstant
  <2>4. Cardinality(D) \in Nat
    BY <2>2, FS_CardinalityType
  <2>5. zero \in [D -> Int]
    OBVIOUS
  <2> HIDE DEF zero
  <2> QED BY <1>6, <2>1, <2>3, <2>4, <2>5
<1>11. ASSUME NEW s \in SUBSET N, s # {}, Rest(s) \in F
      PROVE  s \in F
  <2> DEFINE i == Taken(s)
             r == Rest(s)
             entries == Entries(es, D, i)
             all == Column(s)
             rest == Column(r)
  <2>1. i \in N /\ r \in SUBSET N
    BY <1>11, RestSmaller
  <2>2. g[s] = p[i] * t[i] + g[r]
    BY <1>6, <1>11
  <2>3. \A j \in D : G(j)[s] = p[i] * es[j][i] + G(j)[r]
    BY <1>7, <1>11
  <2>4. rest \in [D -> Int] /\ g[r] = Total(rest)
    BY <1>11
  <2> HIDE DEF i, r
  <2>5. p[i] \in Int /\ \A j \in D : es[j][i] \in Int
    BY <1>3, <1>8, <2>1
  <2>6. entries \in [D -> Int] /\ \A j \in D : entries[j] = es[j][i]
    BY <2>5 DEF Entries
  <2>7. \A j \in D : all[j] = p[i] * entries[j] + rest[j]
    BY <2>3, <2>6
  <2>8. \A j \in D : rest[j] \in Int /\ G(j)[r] = rest[j]
    BY <2>4
  <2>9. all \in [D -> Int]
    <3>1. \A j \in D : p[i] * es[j][i] \in Int /\ G(j)[r] \in Int
      BY <2>5, <2>8
    <3>2. \A j \in D : G(j)[s] \in Int
      BY <2>3, <3>1
    <3> QED BY <3>2
  <2>10. t[i] = Total(entries)
    BY <1>9, <2>1
  <2> HIDE DEF all, rest, entries, F
  <2>11. Total(all) = p[i] * Total(entries) + Total(rest)
    <3>1. p[i] \in Int /\ \A j \in D : all[j] = p[i] * entries[j] + rest[j]
      BY <2>5, <2>7
    <3>2. rest \in [D -> Int]
      BY <2>4
    <3> QED BY <1>2, <2>6, <2>9, <3>1, <3>2 DEF Linear
  <2>12. g[s] = Total(all)
    BY <2>2, <2>4, <2>10, <2>11
  <2> QED BY <2>9, <2>12 DEF all, F
<1>12. N \in F
  <2> HIDE DEF F
  <2> QED BY <1>3, <1>10, <1>11, SumsInduction
<1>13. \A j \in D : G(j)[N] = Dot(p, es[j])
  BY <1>7
<1>14. Column(N) = [j \in D |-> Dot(p, es[j])]
  BY <1>13
<1> QED BY <1>6, <1>12, <1>14

(* Two numbers whose squares compare.                                      *)
LEMMA SquareRoot ==
  ASSUME NEW x \in Int, NEW y \in Nat, x * x <= y * y
  PROVE  x <= y
<1>1. \A a, b \in Nat : a > b => a * a > b * b
  OBVIOUS
<1>2. x * x \in Int /\ y * y \in Int
  OBVIOUS
<1>3. ASSUME x > y PROVE FALSE
  <2>1. x \in Nat
    BY <1>3
  <2> QED BY <1>1, <1>2, <1>3, <2>1
<1> QED BY <1>3

(* Two templates that match a probe are not too far apart: u is the square *)
(* of the threshold times the length of the probe, x and y its products    *)
(* with them, m and n their lengths, w their product.                      *)
LEMMA PairStep ==
  ASSUME NEW u \in Nat, NEW m \in Nat, NEW n \in Nat, NEW x \in Nat, NEW y \in Nat,
         NEW w \in Int, w * w <= m * n,
         u * m <= 10000 * (x * x), u * n <= 10000 * (y * y)
  PROVE  u * w <= 10000 * (x * y)
<1> DEFINE a == u * m
           b == u * n
           c == 10000 * (x * x)
           d == 10000 * (y * y)
           z == 10000 * (x * y)
<1>1. a \in Nat /\ b \in Nat /\ c \in Nat /\ d \in Nat /\ z \in Nat /\ u * w \in Int
  <2>1. \A i, j \in Nat : i * j \in Nat
    OBVIOUS
  <2> QED BY <2>1
<1>2. a <= c /\ b <= d
  OBVIOUS
<1>3. (u * w) * (u * w) <= a * b
  <2> DEFINE q == u * u
  <2>1. q \in Nat
    <3>1. \A i, j \in Nat : i * j \in Nat
      OBVIOUS
    <3> QED BY <3>1
  <2>2. (u * w) * (u * w) = q * (w * w) /\ a * b = q * (m * n)
    BY SMTT(30)
  <2>3. \A i, j \in Int : i <= j => q * i <= q * j
    <3> HIDE DEF q
    <3> QED BY <2>1
  <2>4. w * w \in Int /\ m * n \in Int
    OBVIOUS
  <2> HIDE DEF q, a, b
  <2>5. q * (w * w) <= q * (m * n)
    BY <2>3, <2>4
  <2> QED BY <2>2, <2>5
<1>4. a * b <= c * d
  <2>1. \A i, j, k, l \in Nat : i <= k /\ j <= l => i * j <= k * l
    <3> SUFFICES ASSUME NEW i \in Nat, NEW j \in Nat, NEW k \in Nat, NEW l \in Nat,
                        i <= k, j <= l
                 PROVE  i * j <= k * l
      OBVIOUS
    <3>1. i * j <= k * j
      OBVIOUS
    <3>2. k * j <= k * l
      OBVIOUS
    <3>3. i * j \in Int /\ k * j \in Int /\ k * l \in Int
      OBVIOUS
    <3> QED BY <3>1, <3>2, <3>3
  <2> HIDE DEF a, b, c, d
  <2> QED BY <1>1, <1>2, <2>1
<1>5. c * d = z * z
  BY SMTT(30)
<1>6. (u * w) * (u * w) \in Int /\ a * b \in Int /\ c * d \in Int
  <2> HIDE DEF a, b, c, d
  <2> QED BY <1>1
<1>7. (u * w) * (u * w) <= z * z
  <2> DEFINE i == (u * w) * (u * w)
             j == a * b
             k == c * d
             l == z * z
  <2>1. i <= j /\ j <= k /\ k = l /\ i \in Int /\ j \in Int /\ k \in Int
    BY <1>3, <1>4, <1>5, <1>6
  <2> HIDE DEF i, j, k, l
  <2>2. i <= l
    BY <2>1
  <2> QED BY <2>2 DEF i, l
<1>8. u * w <= z
  <2> DEFINE v == u * w
  <2>1. v \in Int /\ v * v <= z * z
    BY <1>1, <1>7
  <2> HIDE DEF v, z
  <2>2. v <= z
    BY <1>1, <2>1, SquareRoot
  <2> QED BY <2>2 DEF v
<1> QED BY <1>8

(* A comparison that holds of every number holds of their sums.            *)
Comparing(D) ==
  \A u, v \in Int : \A f, h \in [D -> Int] :
    (\A x \in D : u * f[x] <= v * h[x]) => u * Total(f) <= v * Total(h)

LEMMA TotalCompare ==
  ASSUME NEW D, IsFiniteSet(D)
  PROVE  Comparing(D)
<1> SUFFICES ASSUME NEW u \in Int, NEW v \in Int,
                    NEW f \in [D -> Int], NEW h \in [D -> Int],
                    \A x \in D : u * f[x] <= v * h[x]
             PROVE  u * Total(f) <= v * Total(h)
  BY DEF Comparing
<1> DEFINE a == [x \in D |-> u * f[x]]
           b == [x \in D |-> v * h[x]]
<1>1. /\ a \in [D -> Int] /\ b \in [D -> Int]
      /\ \A x \in D : 1 * a[x] = u * f[x] /\ 1 * b[x] = v * h[x] /\ a[x] <= b[x]
  OBVIOUS
<1> HIDE DEF a, b
<1>2. \A x \in D : a[x] <= b[x]
  BY <1>1
<1>3. \A x \in D : 1 * a[x] = u * f[x]
  BY <1>1
<1>4. \A x \in D : 1 * b[x] = v * h[x]
  BY <1>1
<1>5. Total(a) <= Total(b)
  BY <1>1, <1>2, TotalMonotone
<1>6. 1 * Total(a) = u * Total(f)
  BY <1>1, <1>3, TotalScaled
<1>7. 1 * Total(b) = v * Total(h)
  BY <1>1, <1>4, TotalScaled
<1>8. Total(a) \in Int /\ Total(b) \in Int
  BY <1>1, TotalInt
<1> QED BY <1>5, <1>6, <1>7, <1>8

(* What a match says, with one number for the threshold and the probe.     *)
Weight(p) == match_threshold * match_threshold * Norm2(p)

LEMMA MatchMeasure ==
  ASSUME NEW p \in Vector, NEW a \in Vector, matches(p, a), match_threshold > 0
  PROVE  /\ Weight(p) \in Nat /\ Weight(p) > 0 /\ Norm2(p) # 0 /\ Len(a) = Len(p)
         /\ Norm2(a) \in Nat /\ Dot(p, a) \in Nat /\ Dot(p, a) > 0
         /\ Weight(p) * Norm2(a) <= 10000 * (Dot(p, a) * Dot(p, a))
<1> DEFINE t == match_threshold
           m == Norm2(p)
           n == Norm2(a)
           x == Dot(p, a)
           v == t * t * m
<1>1. t \in Nat /\ t > 0
  BY CosineAssumption
<1>2. m \in Nat /\ n \in Nat /\ x \in Int
  BY DotFacts
<1>3. m # 0 /\ n # 0 /\ Len(a) = Len(p) /\ x >= 0 /\ 10000 * x * x >= t * t * m * n
  BY CosineAssumption DEF matches, HasCosine
<1> HIDE DEF t, m, n, x
<1>4. v \in Nat /\ v > 0
  <2>1. \A i, j \in Nat : i > 0 /\ j > 0 => i * j \in Nat /\ i * j > 0
    OBVIOUS
  <2>2. t * t \in Nat /\ t * t > 0
    BY <1>1, <2>1
  <2>3. m \in Nat /\ m > 0
    BY <1>2, <1>3
  <2> QED BY <2>1, <2>2, <2>3
<1>5. v * n <= 10000 * (x * x)
  <2>1. 10000 * x * x = 10000 * (x * x)
    BY <1>2
  <2> QED BY <1>3, <2>1
<1>6. x > 0
  <2>1. v * n > 0
    <3>1. \A i, j \in Nat : i > 0 /\ j > 0 => i * j > 0
      OBVIOUS
    <3> HIDE DEF v
    <3> QED BY <1>2, <1>3, <1>4, <3>1
  <2>2. x = 0 => 10000 * (x * x) = 0
    OBVIOUS
  <2>3. v * n \in Int
    BY <1>2, <1>4
  <2> HIDE DEF v
  <2> QED BY <1>2, <1>3, <1>5, <2>1, <2>2, <2>3
<1>7. Weight(p) = v
  BY DEF t, m, Weight
<1> HIDE DEF v
<1> QED BY <1>2, <1>3, <1>4, <1>5, <1>6, <1>7 DEF m, n, x

(* Two templates that match a probe.                                       *)
LEMMA PairOfMatches ==
  ASSUME NEW p \in Vector, NEW a \in Vector, NEW b \in Vector,
         matches(p, a), matches(p, b), match_threshold > 0
  PROVE  Weight(p) * Dot(a, b) <= 10000 * (Dot(p, a) * Dot(p, b))
<1> DEFINE u == Weight(p)
           m == Norm2(a)
           n == Norm2(b)
           x == Dot(p, a)
           y == Dot(p, b)
           w == Dot(a, b)
<1>1. /\ u \in Nat /\ m \in Nat /\ n \in Nat /\ x \in Nat /\ y \in Nat
      /\ u * m <= 10000 * (x * x) /\ u * n <= 10000 * (y * y)
      /\ Len(a) = Len(b)
  BY MatchMeasure
<1>2. w \in Int
  BY DotFacts
<1>3. w * w <= m * n
  BY <1>1, Cauchy
<1> HIDE DEF u, m, n, x, y, w
<1>4. u * w <= 10000 * (x * y)
  BY <1>1, <1>2, <1>3, PairStep
<1> QED BY <1>4 DEF u, x, y, w

(* A sum of vectors that all match a probe matches it: the threshold bounds*)
(* the angle of every two of them, so it bounds the length of the sum by   *)
(* its product with the probe.                                             *)
LEMMA SumOfMatches ==
  ASSUME NEW p \in Vector, NEW t, NEW es, NEW D, D # {}, IsSumOf(t, es, D),
         match_threshold > 0, \A j \in D : matches(p, es[j])
  PROVE  matches(p, t)
<1> DEFINE u == Weight(p)
           d == [j \in D |-> Dot(p, es[j])]
           row(j) == [k \in D |-> Dot(es[j], es[k])]
           e == [j \in D |-> Dot(t, es[j])]
           T == Total(d)
<1> DEFINE n == Len(t)
<1>1. /\ t \in Vector /\ IsFiniteSet(D) /\ n \in Nat
      /\ \A j \in D : es[j] \in Vector /\ Len(es[j]) = n
  BY VectorFacts DEF IsSumOf
<1>2. Len(p) = n
  BY <1>1 DEF matches, HasCosine
<1>3. Comparing(D)
  BY <1>1, TotalCompare
<1>4. Dot(p, t) = T
  BY <1>2, DotOfSum
<1>5. \A j \in D : Dot(es[j], t) = Total(row(j))
  <2> SUFFICES ASSUME NEW j \in D PROVE Dot(es[j], t) = Total(row(j))
    OBVIOUS
  <2> DEFINE q == es[j]
  <2>1. q \in Vector /\ Len(q) = n
    BY <1>1
  <2> HIDE DEF q
  <2>2. Dot(q, t) = Total([k \in D |-> Dot(q, es[k])])
    BY <2>1, DotOfSum
  <2> QED BY <2>2 DEF q
<1>6. Dot(t, t) = Total(e)
  BY <1>1, DotOfSum
<1>7. \A j \in D : /\ u \in Nat /\ u > 0 /\ Norm2(p) # 0
                   /\ Norm2(es[j]) \in Nat /\ Dot(p, es[j]) \in Nat /\ Dot(p, es[j]) > 0
                   /\ u * Norm2(es[j]) <= 10000 * (Dot(p, es[j]) * Dot(p, es[j]))
  BY <1>1, MatchMeasure
<1>8. \A j, k \in D : u * Dot(es[j], es[k]) <= 10000 * (Dot(p, es[j]) * Dot(p, es[k]))
  <2> SUFFICES ASSUME NEW j \in D, NEW k \in D
               PROVE  u * Dot(es[j], es[k]) <= 10000 * (Dot(p, es[j]) * Dot(p, es[k]))
    OBVIOUS
  <2> QED BY <1>1, PairOfMatches
<1>9. /\ d \in [D -> Int] /\ e \in [D -> Int] /\ \A j \in D : row(j) \in [D -> Int]
      /\ \A j \in D : d[j] > 0
  <2>1. \A a, b \in Vector : Dot(a, b) \in Int
    BY DotFacts
  <2>2. \A j \in D : Dot(p, es[j]) > 0
    BY <1>7
  <2> QED BY <1>1, <2>1, <2>2
<1>10. u \in Nat /\ u > 0 /\ Norm2(p) # 0
  BY <1>7
<1> HIDE DEF u, Weight
<1>11. T \in Int /\ T > 0
  <2> DEFINE ones == [j \in D |-> 1]
  <2>1. Total(ones) = 1 * Cardinality(D)
    BY <1>1, TotalConstant
  <2>2. Cardinality(D) \in Nat /\ Cardinality(D) # 0
    BY <1>1, FS_EmptySet, FS_CardinalityType
  <2>3. ones \in [D -> Int] /\ \A j \in D : ones[j] <= d[j]
    BY <1>9
  <2> HIDE DEF ones, d
  <2>4. Total(ones) <= Total(d)
    BY <1>9, <1>1, <2>3, TotalMonotone
  <2>5. Total(d) \in Int
    BY <1>9, <1>1, TotalInt
  <2> QED BY <2>1, <2>2, <2>4, <2>5
<1>12. \A j \in D : u * e[j] <= (10000 * T) * d[j]
  <2> SUFFICES ASSUME NEW j \in D PROVE u * e[j] <= (10000 * T) * d[j]
    OBVIOUS
  <2> DEFINE r == row(j)
             v == 10000 * d[j]
  <2>1. r \in [D -> Int] /\ v \in Int
    BY <1>9
  <2>2. \A k \in D : u * r[k] <= v * d[k]
    <3> SUFFICES ASSUME NEW k \in D PROVE u * r[k] <= v * d[k]
      OBVIOUS
    <3>1. u * r[k] <= 10000 * (d[j] * d[k])
      BY <1>8
    <3>2. d[j] \in Int /\ d[k] \in Int
      BY <1>9
    <3>3. 10000 * (d[j] * d[k]) = (10000 * d[j]) * d[k]
      <4> HIDE DEF d
      <4> QED BY <3>2
    <3> HIDE DEF d, r
    <3> QED BY <3>1, <3>3
  <2>3. e[j] = Total(r)
    <3>1. e[j] = Dot(es[j], t)
      BY <1>1, DotFacts
    <3> QED BY <1>5, <3>1
  <2> HIDE DEF r, v, d, e
  <2>4. u * Total(r) <= v * Total(d)
    BY <1>9, <1>10, <1>3, <2>1, <2>2 DEF Comparing
  <2>5. v * T = (10000 * T) * d[j]
    <3>1. d[j] \in Int
      BY <1>9
    <3> HIDE DEF T
    <3> QED BY <1>11, <3>1 DEF v
  <2> QED BY <2>3, <2>4, <2>5
<1>13. u * Total(e) <= (10000 * T) * T
  <2> DEFINE v == 10000 * T
  <2>1. v \in Int
    BY <1>11
  <2> HIDE DEF v, d, e
  <2>2. \A j \in D : u * e[j] <= v * d[j]
    BY <1>12 DEF v
  <2>3. u * Total(e) <= v * Total(d)
    BY <1>9, <1>10, <1>3, <2>1, <2>2 DEF Comparing
  <2> QED BY <2>3 DEF v
<1> HIDE DEF d, e, T
<1>14. Norm2(t) \in Nat /\ u * Norm2(t) <= 10000 * T * T
  BY <1>6, <1>13, <1>1, DotFacts DEF Norm2
<1>15. Norm2(t) # 0
  <2>1. T * T <= Norm2(p) * Norm2(t)
    BY <1>4, <1>1, <1>2, Cauchy
  <2>2. T * T > 0
    BY <1>11
  <2>3. Norm2(p) \in Nat
    BY DotFacts
  <2>4. Norm2(t) = 0 => Norm2(p) * Norm2(t) = 0
    BY <2>3
  <2>5. T * T \in Int
    BY <1>11
  <2> QED BY <2>1, <2>2, <2>4, <2>5
<1>16. HasCosine(p, t)
  BY <1>10, <1>15, <1>2, VectorFacts DEF HasCosine
<1>17. 10000 * Dot(p, t) * Dot(p, t)
         >= match_threshold * match_threshold * Norm2(p) * Norm2(t)
  BY <1>4, <1>14 DEF u, Weight
<1> QED BY <1>4, <1>11, <1>16, <1>17 DEF matches

(* The mean of a capture is fit for matching: a template that every frame  *)
(* matches matches the mean of the frames, and a probe that matches every  *)
(* frame enrolled as one template matches that template.  It needs the     *)
(* mean to be whole (One fine enough) and a threshold above 0.             *)
THEOREM AverageKeepsMatches ==
  ASSUME NEW es \in Seq(Vector), NEW p \in Vector,
         try_average(es) # NoTemplate, match_threshold > 0,
         \A j \in DOMAIN es : matches(p, es[j]),
         \A i \in DOMAIN es[1] :
           Len(es) * try_average(es)[i] = Total([j \in DOMAIN es |-> es[j][i]])
  PROVE  matches(p, try_average(es)) /\ matches(try_average(es), p)
<1> DEFINE D == DOMAIN es
           n == Len(es[1])
           m == Len(es)
           average == try_average(es)
           S(i) == Total([j \in D |-> es[j][i]])
           t == [i \in 1 .. n |-> S(i)]
<1>1. /\ m \in Nat \ {0} /\ D = 1 .. m
      /\ \A j \in D : es[j] \in Vector /\ Len(es[j]) = n
      /\ average \in Vector /\ Len(average) = n
      /\ \A i \in 1 .. n : [j \in D |-> es[j][i]] \in [D -> Int]
  BY AverageVector
<1>2. IsFiniteSet(D) /\ D # {} /\ 1 \in D
  <2>1. \A k \in Nat : IsFiniteSet(1 .. k)
    BY FS_Interval
  <2> QED BY <1>1, <2>1
<1>3. n \in Nat /\ DOMAIN es[1] = 1 .. n
  BY <1>1, <1>2, VectorFacts
<1>4. \A i \in 1 .. n : S(i) \in Int
  <2> SUFFICES ASSUME NEW i \in 1 .. n PROVE S(i) \in Int
    OBVIOUS
  <2> DEFINE f == [j \in D |-> es[j][i]]
  <2>1. f \in [D -> Int]
    BY <1>1
  <2> HIDE DEF f
  <2>2. Total(f) \in Int
    BY <1>2, <2>1, TotalInt
  <2> QED BY <2>2 DEF f
<1> DEFINE one == 1
<1>5. \A i \in 1 .. n : m * average[i] = one * S(i)
  <2> SUFFICES ASSUME NEW i \in 1 .. n PROVE m * average[i] = one * S(i)
    OBVIOUS
  <2>1. m * average[i] = S(i) /\ S(i) \in Int
    BY <1>3, <1>4
  <2> HIDE DEF average, S, m
  <2> QED BY <2>1
<1>6. one \in Nat \ {0}
  OBVIOUS
<1> HIDE DEF S, m, one
<1>7. t \in Vector /\ Len(t) = n /\ \A i \in 1 .. n : t[i] = S(i)
  BY <1>3, <1>4 DEF Vector
<1> HIDE DEF t, n, average
<1>8. IsSumOf(t, es, D)
  BY <1>1, <1>2, <1>7 DEF IsSumOf, S, Entries
<1>9. matches(p, t)
  BY <1>2, <1>8, SumOfMatches
<1>10. SameDirection(average, t)
  <2>1. Len(average) = Len(t) /\ DOMAIN t = 1 .. n
    BY <1>1, <1>7, VectorFacts
  <2>2. \A i \in DOMAIN t : m * average[i] = one * t[i]
    BY <1>5, <1>7, <2>1
  <2> QED BY <1>1, <1>6, <2>1, <2>2 DEF SameDirection
<1>11. matches(p, average)
  BY <1>1, <1>7, <1>9, <1>10, MatchOfMultiple
<1>12. matches(average, p)
  BY <1>1, <1>11, MatchSymmetric
<1> QED BY <1>11, <1>12 DEF average

-----------------------------------------------------------------------------
(* The decider of VerificationDecision with this matcher.                  *)

(* What VerificationDecision assumes of opaque embeddings is true of the   *)
(* vectors and the matcher the daemon is built with.                       *)
THEOREM VectorsMeetAssumptions ==
  /\ NoTemplate \notin Vector
  /\ MatchingPairs \subseteq Vector \X Vector
  /\ Dimensions \in [Vector -> Nat]
  /\ Means \in [SUBSET Vector -> SUBSET Vector]
  /\ \A e \in Vector : Dimensions[e] # 0 => Means[{e}] = {e}
<1>1. NoTemplate \notin Vector
  BY CosineAssumption DEF Vector
<1>2. MatchingPairs \subseteq Vector \X Vector
  BY DEF MatchingPairs
<1>3. Dimensions \in [Vector -> Nat]
  BY VectorFacts DEF Dimensions
<1>4. ASSUME NEW V \in SUBSET Vector PROVE Means[V] \subseteq Vector
  <2>1. ASSUME NEW es \in Seq(V), try_average(es) # NoTemplate
        PROVE  try_average(es) \in Vector
    <3>1. es \in Seq(Vector)
      OBVIOUS
    <3> QED BY <2>1, <3>1, AverageVector
  <2> QED BY <2>1 DEF Means
<1>5. Means \in [SUBSET Vector -> SUBSET Vector]
  <2>1. Means = [V \in SUBSET Vector |-> Means[V]]
    BY DEF Means
  <2> QED BY <1>4, <2>1
<1>6. ASSUME NEW e \in Vector, Dimensions[e] # 0 PROVE Means[{e}] = {e}
  <2>1. e # <<>> /\ {e} \in SUBSET Vector
    BY <1>6, VectorFacts DEF Dimensions
  <2>2. Means[{e}]
          = {try_average(es) : es \in {s \in Seq({e}) : Range(s) = {e}}} \ {NoTemplate}
    BY <2>1 DEF Means
  <2>3. ASSUME NEW es \in Seq({e}), Range(es) = {e} PROVE try_average(es) = e
    <3>1. es \in Seq(Vector) /\ es # <<>> /\ \A j \in DOMAIN es : es[j] = e
      BY <2>3 DEF Range
    <3> QED BY <2>1, <3>1, AverageOfEqual
  <2>4. <<e>> \in Seq({e}) /\ Range(<<e>>) = {e}
    BY DEF Range
  <2>5. e # NoTemplate
    BY <1>1
  <2> QED BY <2>2, <2>3, <2>4, <2>5
<1> QED BY <1>1, <1>2, <1>3, <1>5, <1>6

(* The mean the daemon computes is one of those the abstract try_average   *)
(* allows, and it computes one exactly when that allows any.               *)
THEOREM AverageImplements ==
  ASSUME NEW es \in Seq(Vector)
  PROVE  IF try_average(es) = NoTemplate THEN Decider!try_average(es) = {}
         ELSE try_average(es) \in Decider!try_average(es)
<1>1. ASSUME es # <<>>
      PROVE  /\ es[1] \in Vector /\ \A i \in DOMAIN es : es[i] \in Vector
             /\ (es[1] = <<>> <=> Len(es[1]) = 0)
  BY <1>1, VectorFacts
<1>2. \A v \in Vector : Dimensions[v] = Len(v)
  BY DEF Dimensions
<1>3. Averaged(es) <=> /\ es # <<>> /\ Dimensions[es[1]] # 0
                       /\ \A i \in DOMAIN es : Dimensions[es[i]] = Dimensions[es[1]]
  BY <1>1, <1>2 DEF Averaged
<1>4. CASE ~ Averaged(es)
  <2>1. Decider!try_average(es) = {}
    BY <1>3, <1>4 DEF Decider!try_average
  <2> QED BY <1>4, <2>1, AverageAccepts
<1>5. CASE Averaged(es)
  <2> DEFINE V == {es[i] : i \in DOMAIN es}
  <2>1. Decider!try_average(es) = Means[V]
    BY <1>3, <1>5 DEF Decider!try_average, Decider!EmbeddingsIn
  <2>2. V \in SUBSET Vector /\ es \in Seq(V) /\ Range(es) = V
    BY DEF Range
  <2>3. try_average(es) # NoTemplate
    BY <1>5, AverageAccepts
  <2> HIDE DEF V
  <2>4. try_average(es) \in Means[V]
    BY <2>2, <2>3 DEF Means
  <2> QED BY <2>1, <2>3, <2>4
<1> QED BY <1>4, <1>5

===============================================================================
