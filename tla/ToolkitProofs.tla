--------------------------- MODULE ToolkitProofs ---------------------------
(* Proofs about the parts around the agent.  Each part has an inductive invariant of its own, with the
   lemmas that it holds at first, that it outlives each action of the part and the steps of the others,
   and that the part's conjuncts of the two invariants of the group follow from it. *)
EXTENDS MCToolkit, FiniteSetTheorems, TLAPS

(* Numbers, cardinalities and sums. *)
LEMMA Least == ASSUME NEW P \in SUBSET Nat, P # {} PROVE \E n \in P : \A m \in P : n <= m
<1> DEFINE less == {ss \in Nat \X Nat : ss[1] < ss[2]}
<1>1. IsWellFoundedOn(less, Nat) BY NatLessThanWellFounded DEF OpToRel
<1>2. PICK n \in P : \A m \in P : <<m, n>> \notin less BY <1>1, WFMin
<1>3. ASSUME NEW m \in P, ~(n <= m) PROVE FALSE
 <2>1. m < n /\ <<m, n>> \in Nat \X Nat BY <1>3
 <2> QED BY <1>2, <2>1
<1> QED BY <1>3

\* Induction, over a set in place of a formula.
LEMMA Induction == ASSUME NEW P \in SUBSET Nat, 0 \in P, \A n \in P : n + 1 \in P PROVE P = Nat
<1> SUFFICES ASSUME Nat \ P # {} PROVE FALSE OBVIOUS
<1>1. PICK n \in Nat \ P : \A m \in Nat \ P : n <= m BY Least
<1>2. n # 0 /\ n - 1 \in Nat /\ n - 1 \notin Nat \ P BY <1>1
<1> QED BY <1>1, <1>2

LEMMA Product == ASSUME NEW a \in Nat, NEW b \in Nat, a <= b, NEW c \in Nat
  PROVE  a * c \in Nat /\ b * c \in Nat /\ a * c <= b * c
<1>1. b - a \in Nat /\ (b - a) * c \in Nat OBVIOUS
<1>2. b * c = a * c + (b - a) * c OBVIOUS
<1> QED BY <1>1, <1>2

LEMMA Cardinalities == ASSUME NEW U
  PROVE  /\ SE!Cardinality(U) = Cardinality(U) /\ BA!Cardinality(U) = Cardinality(U)
         /\ (BA!IsFiniteSet(U) <=> IsFiniteSet(U))
BY DEF SE!Cardinality, BA!Cardinality, BA!IsFiniteSet, Cardinality, IsFiniteSet

\* The values that f takes.
LEMMA Image == ASSUME NEW U, IsFiniteSet(U), NEW f
  PROVE  /\ IsFiniteSet({f[x] : x \in U}) /\ Cardinality({f[x] : x \in U}) <= Cardinality(U)
<1> DEFINE g == [x \in U |-> f[x]]
<1>1. g \in Surjection(U, {f[x] : x \in U}) BY DEF Surjection
<1> QED BY <1>1, FS_Surjection

LEMMA FirstTaken == ASSUME NEW U, IsFiniteSet(U), NEW s \in SUBSET U, s # {}
  PROVE  /\ First(s) \in s /\ s \ {First(s)} \in SUBSET U /\ IsFiniteSet(s) /\ Cardinality(s) \in Nat
         /\ Cardinality(s \ {First(s)}) = Cardinality(s) - 1
<1>1. First(s) \in s BY DEF First
<1>2. IsFiniteSet(s) /\ Cardinality(s) \in Nat BY FS_Subset, FS_CardinalityType
<1> QED BY <1>1, <1>2, FS_RemoveElement

LEMMA SumsExist == ASSUME NEW U, IsFiniteSet(U), NEW w \in [U -> Nat] PROVE \E it : Sums(U, w, it)
<1> DEFINE fold(g, s) == IF s = {} THEN 0 ELSE g[s \ {First(s)}] + w[First(s)]
           upTo(g, n) == \A s \in SUBSET U : Cardinality(s) <= n => g[s] = fold(g, s)
           P == {n \in Nat : \E g \in [SUBSET U -> Nat] : upTo(g, n)}
<1>0. \A s \in SUBSET U : IsFiniteSet(s) /\ Cardinality(s) \in Nat /\ (Cardinality(s) = 0 <=> s = {})
 BY FS_Subset, FS_CardinalityType, FS_EmptySet
<1>1. 0 \in P
 <2> DEFINE g == [s \in SUBSET U |-> 0]
 <2>1. ASSUME NEW s \in SUBSET U, Cardinality(s) <= 0 PROVE s = {} BY <1>0, <2>1
 <2>2. g \in [SUBSET U -> Nat] /\ upTo(g, 0) BY <2>1
 <2> QED BY <2>2
<1>2. ASSUME NEW n \in P PROVE n + 1 \in P
 <2>1. PICK g \in [SUBSET U -> Nat] : upTo(g, n) OBVIOUS
 <2> DEFINE h == [s \in SUBSET U |-> IF Cardinality(s) <= n THEN g[s] ELSE fold(g, s)]
 <2>2. \A s \in SUBSET U : s # {} => /\ First(s) \in U /\ s \ {First(s)} \in SUBSET U
                                    /\ Cardinality(s \ {First(s)}) = Cardinality(s) - 1 BY FirstTaken
 <2>3. h \in [SUBSET U -> Nat]
  <3>1. ASSUME NEW s \in SUBSET U PROVE fold(g, s) \in Nat
   <4>1. CASE s = {} BY <4>1
   <4>2. CASE s # {}
    <5>1. g[s \ {First(s)}] \in Nat /\ w[First(s)] \in Nat BY <2>2, <4>2
    <5> QED BY <4>2, <5>1
   <4> QED BY <4>1, <4>2
  <3>2. \A s \in SUBSET U : (IF Cardinality(s) <= n THEN g[s] ELSE fold(g, s)) \in Nat BY <3>1
  <3> QED BY <3>2
 <2>4. ASSUME NEW s \in SUBSET U, Cardinality(s) <= n + 1 PROVE h[s] = fold(h, s)
  <3>1. CASE s = {}
   <4>1. Cardinality(s) = 0 BY <1>0, <3>1
   <4>2. h[s] = g[s] /\ g[s] = fold(g, s) BY <2>1, <4>1
   <4> QED BY <3>1, <4>2
  <3>2. CASE s # {}
   <4>1. Cardinality(s \ {First(s)}) <= n /\ s \ {First(s)} \in SUBSET U
    <5>1. Cardinality(s \ {First(s)}) = Cardinality(s) - 1 /\ Cardinality(s) \in Nat
          /\ s \ {First(s)} \in SUBSET U BY <1>0, <2>2, <3>2
    <5> QED BY <2>4, <5>1
   <4>2. h[s \ {First(s)}] = g[s \ {First(s)}] BY <4>1
   <4>3. h[s] = fold(g, s) BY <2>1
   <4> QED BY <3>2, <4>2, <4>3
  <3> QED BY <3>1, <3>2
 <2>5. upTo(h, n + 1) /\ n + 1 \in Nat
  <3>1. n + 1 \in Nat OBVIOUS
  <3> HIDE DEF h, fold, P
  <3> QED BY <2>4, <3>1
 <2> HIDE DEF h, upTo
 <2> QED BY <2>3, <2>5
<1>3. P = Nat
 <2> HIDE DEF P
 <2> QED BY <1>1, <1>2, Induction DEF P
<1>4. Cardinality(U) \in Nat BY FS_CardinalityType
<1>5. PICK g \in [SUBSET U -> Nat] : upTo(g, Cardinality(U)) BY <1>3, <1>4
<1>6. \A s \in SUBSET U : g[s] = fold(g, s) BY <1>5, FS_Subset
<1> QED BY <1>6 DEF Sums

LEMMA SumsStep == ASSUME NEW U, IsFiniteSet(U), NEW w, NEW it, Sums(U, w, it)
  PROVE  /\ it[{}] = 0
         /\ \A s \in SUBSET U : s # {} => it[s] = it[s \ {First(s)}] + w[First(s)]
BY DEF Sums

\* A sum is no less than one that is no less at each member.
LEMMA SumsGrow ==
  ASSUME NEW U, IsFiniteSet(U), NEW v \in [U -> Nat], NEW w \in [U -> Nat],
         \A x \in U : v[x] <= w[x], NEW it, Sums(U, v, it), NEW jt, Sums(U, w, jt)
  PROVE  \A s \in SUBSET U : it[s] \in Nat /\ jt[s] \in Nat /\ it[s] <= jt[s]
<1> DEFINE P == {n \in Nat : \A s \in SUBSET U : Cardinality(s) = n =>
                                it[s] \in Nat /\ jt[s] \in Nat /\ it[s] <= jt[s]}
<1>1. 0 \in P
 <2>1. \A s \in SUBSET U : Cardinality(s) = 0 => s = {} BY FS_Subset, FS_EmptySet
 <2>2. it[{}] = 0 /\ jt[{}] = 0 BY SumsStep
 <2> QED BY <2>1, <2>2
<1>2. ASSUME NEW n \in P, NEW s \in SUBSET U, Cardinality(s) = n + 1
      PROVE  it[s] \in Nat /\ jt[s] \in Nat /\ it[s] <= jt[s]
 <2>1. s # {}
  <3>1. n + 1 # 0 OBVIOUS
  <3> QED BY <1>2, <3>1, FS_EmptySet
 <2>2. First(s) \in U /\ s \ {First(s)} \in SUBSET U /\ Cardinality(s \ {First(s)}) = n BY <1>2, <2>1, FirstTaken
 <2>3. it[s] = it[s \ {First(s)}] + v[First(s)] /\ jt[s] = jt[s \ {First(s)}] + w[First(s)]
  <3>1. it[s] = it[s \ {First(s)}] + v[First(s)] BY SMTT(60), <2>1, SumsStep
  <3>2. jt[s] = jt[s \ {First(s)}] + w[First(s)] BY SMTT(60), <2>1, SumsStep
  <3> QED BY <3>1, <3>2
 <2> HIDE DEF P
 <2>4. v[First(s)] \in Nat /\ w[First(s)] \in Nat /\ v[First(s)] <= w[First(s)] BY <2>2
 <2>5. it[s \ {First(s)}] \in Nat /\ jt[s \ {First(s)}] \in Nat
       /\ it[s \ {First(s)}] <= jt[s \ {First(s)}] BY <2>2 DEF P
 <2> QED BY <2>3, <2>4, <2>5
<1>3. \A n \in P : n + 1 \in P BY <1>2
<1> HIDE DEF P
<1>4. P = Nat BY <1>1, <1>3, Induction DEF P
<1>5. \A s \in SUBSET U : Cardinality(s) \in Nat BY FS_Subset, FS_CardinalityType
<1> QED BY <1>4, <1>5 DEF P

\* Where w differs at one member only, its sum differs by as much.
LEMMA SumsMove ==
  ASSUME NEW U, IsFiniteSet(U), NEW v \in [U -> Nat], NEW w \in [U -> Nat], NEW d \in U,
         \A x \in U : x # d => v[x] = w[x], NEW it, Sums(U, v, it), NEW jt, Sums(U, w, jt)
  PROVE  it[U] \in Nat /\ jt[U] \in Nat /\ it[U] + w[d] = jt[U] + v[d]
<1> DEFINE moved(s) == IF d \in s THEN it[s] + w[d] = jt[s] + v[d] ELSE it[s] = jt[s]
           P == {n \in Nat : \A s \in SUBSET U : Cardinality(s) = n => it[s] \in Nat /\ jt[s] \in Nat /\ moved(s)}
<1>1. 0 \in P
 <2>1. \A s \in SUBSET U : Cardinality(s) = 0 => s = {} BY FS_Subset, FS_EmptySet
 <2>2. it[{}] = 0 /\ jt[{}] = 0 BY SumsStep
 <2> QED BY <2>1, <2>2
<1>2. ASSUME NEW n \in P, NEW s \in SUBSET U, Cardinality(s) = n + 1 PROVE  it[s] \in Nat /\ jt[s] \in Nat /\ moved(s)
 <2>1. s # {}
  <3>1. n + 1 # 0 OBVIOUS
  <3> QED BY <1>2, <3>1, FS_EmptySet
 <2> DEFINE rest == s \ {First(s)}
 <2>2. First(s) \in s /\ First(s) \in U /\ rest \in SUBSET U /\ Cardinality(rest) = n BY <1>2, <2>1, FirstTaken
 <2>3. it[s] = it[rest] + v[First(s)] /\ jt[s] = jt[rest] + w[First(s)] BY <2>1, SumsStep
 <2>4. (d \in rest <=> d \in s /\ d # First(s)) /\ v[d] \in Nat /\ w[d] \in Nat OBVIOUS
 <2>5. it[rest] \in Nat /\ jt[rest] \in Nat /\ moved(rest) BY <2>2
 <2> HIDE DEF rest
 <2>6. v[First(s)] \in Nat /\ w[First(s)] \in Nat /\ (First(s) # d => v[First(s)] = w[First(s)]) BY <2>2
 <2>7. CASE d = First(s) BY <2>2, <2>3, <2>4, <2>5, <2>6, <2>7
 <2>8. CASE d # First(s) BY <2>2, <2>3, <2>4, <2>5, <2>6, <2>8
 <2> QED BY <2>7, <2>8
<1>3. \A n \in P : n + 1 \in P BY <1>2
<1>4. P = Nat
 <2> HIDE DEF P
 <2> QED BY <1>1, <1>3, Induction DEF P
<1>5. Cardinality(U) \in Nat BY FS_CardinalityType
<1>6. it[U] \in Nat /\ jt[U] \in Nat /\ moved(U) BY <1>4, <1>5
<1> QED BY <1>6

\* No member counts for more than the sum.
LEMMA SumsCover == ASSUME NEW U, IsFiniteSet(U), NEW w \in [U -> Nat], NEW d \in U, NEW it, Sums(U, w, it)
  PROVE  it[U] \in Nat /\ w[d] <= it[U]
<1> DEFINE v == [x \in U |-> IF x = d THEN 0 ELSE w[x]]
<1>1. v \in [U -> Nat] OBVIOUS
<1>2. PICK jt : Sums(U, v, jt) BY <1>1, SumsExist
<1>3. \A x \in U : x # d => v[x] = w[x] OBVIOUS
<1>4. v[d] = 0 OBVIOUS
<1> HIDE DEF v
<1>5. it[U] \in Nat /\ jt[U] \in Nat /\ it[U] + v[d] = jt[U] + w[d] BY <1>1, <1>2, <1>3, SumsMove
<1> QED BY <1>4, <1>5
(***************************************************************************)
(* The capsule store and its export.                                       *)

LEMMA SummedIs == ASSUME NEW U, IsFiniteSet(U), NEW w \in [U -> Nat], NEW it, Sums(U, w, it)
  PROVE  Summed(U, w) = it[U] /\ Summed(U, w) \in Nat
<1> DEFINE jt == CHOOSE kt : Sums(U, w, kt)
<1>1. Sums(U, w, jt)
 <2>1. \E kt : Sums(U, w, kt) OBVIOUS
 <2> QED BY <2>1
<1>2. Summed(U, w) = jt[U] BY DEF Summed
<1> HIDE DEF jt
<1>3. \A x \in U : w[x] <= w[x]
 <2>1. \A n \in Nat : n <= n OBVIOUS
 <2> QED BY <2>1
<1>4. \A s \in SUBSET U : it[s] \in Nat /\ jt[s] \in Nat /\ it[s] <= jt[s] BY <1>1, <1>3, SumsGrow
<1>5. \A s \in SUBSET U : jt[s] \in Nat /\ it[s] \in Nat /\ jt[s] <= it[s] BY <1>1, <1>3, SumsGrow
<1>6. it[U] \in Nat /\ jt[U] \in Nat /\ it[U] <= jt[U] /\ jt[U] <= it[U] BY <1>4, <1>5
<1> QED BY <1>2, <1>6

LEMMA SummedNat == ASSUME NEW U, IsFiniteSet(U), NEW w \in [U -> Nat] PROVE Summed(U, w) \in Nat
<1>1. PICK it : Sums(U, w, it) BY SumsExist
<1> QED BY <1>1, SummedIs

LEMMA SummedMoves ==
  ASSUME NEW U, IsFiniteSet(U), NEW v \in [U -> Nat], NEW w \in [U -> Nat], NEW d \in U,
         \A x \in U : x # d => v[x] = w[x]
  PROVE  Summed(U, v) \in Nat /\ Summed(U, w) \in Nat /\ Summed(U, v) + w[d] = Summed(U, w) + v[d]
<1>1. PICK it : Sums(U, v, it) BY SumsExist
<1>2. PICK jt : Sums(U, w, jt) BY SumsExist
<1>3. it[U] \in Nat /\ jt[U] \in Nat /\ it[U] + w[d] = jt[U] + v[d] BY <1>1, <1>2, SumsMove
<1>4. Summed(U, v) = it[U] /\ Summed(U, w) = jt[U] BY <1>1, <1>2, SummedIs
<1> QED BY <1>3, <1>4

LEMMA SummedGrows ==
  ASSUME NEW U, IsFiniteSet(U), NEW v \in [U -> Nat], NEW w \in [U -> Nat], \A x \in U : v[x] <= w[x]
  PROVE  Summed(U, v) \in Nat /\ Summed(U, w) \in Nat /\ Summed(U, v) <= Summed(U, w)
<1>1. PICK it : Sums(U, v, it) BY SumsExist
<1>2. PICK jt : Sums(U, w, jt) BY SumsExist
<1>3. it[U] \in Nat /\ jt[U] \in Nat /\ it[U] <= jt[U] BY <1>1, <1>2, SumsGrow
<1>4. Summed(U, v) = it[U] /\ Summed(U, w) = jt[U] BY <1>1, <1>2, SummedIs
<1> QED BY <1>3, <1>4

LEMMA SummedCovers == ASSUME NEW U, IsFiniteSet(U), NEW w \in [U -> Nat], NEW d \in U
  PROVE  Summed(U, w) \in Nat /\ w[d] <= Summed(U, w)
<1>1. PICK it : Sums(U, w, it) BY SumsExist
<1> QED BY <1>1, SummedIs, SumsCover

LEMMA SummedZero == ASSUME NEW U, IsFiniteSet(U), NEW w \in [U -> Nat], \A x \in U : w[x] = 0 PROVE  Summed(U, w) = 0
<1> DEFINE it == [s \in SUBSET U |-> 0]
<1>1. \A s \in SUBSET U : s # {} => it[s \ {First(s)}] + w[First(s)] = 0
 <2>1. \A s \in SUBSET U : s # {} => First(s) \in U /\ s \ {First(s)} \in SUBSET U BY FirstTaken
 <2> QED BY <2>1
<1>2. Sums(U, w, it)
 <2>1. \A s \in SUBSET U : 0 = IF s = {} THEN 0 ELSE it[s \ {First(s)}] + w[First(s)] BY <1>1
 <2> QED BY <2>1 DEF Sums
<1>3. it[U] = 0 OBVIOUS
<1> HIDE DEF it
<1> QED BY <1>2, <1>3, SummedIs

\* A sum of members that are at most m, one of them none.
LEMMA SumsBounded ==
  ASSUME NEW U, IsFiniteSet(U), NEW w \in [U -> Nat], NEW m \in Nat, \A x \in U : w[x] <= m,
         NEW it, Sums(U, w, it) PROVE  it[U] \in Nat /\ it[U] <= Cardinality(U) * m
<1> DEFINE P == {n \in Nat : \A s \in SUBSET U : Cardinality(s) = n => it[s] \in Nat /\ it[s] <= n * m}
<1>1. 0 \in P
 <2>1. \A s \in SUBSET U : Cardinality(s) = 0 => s = {} BY FS_Subset, FS_EmptySet
 <2>2. it[{}] = 0 /\ 0 <= 0 * m BY SumsStep
 <2> QED BY <2>1, <2>2
<1>2. ASSUME NEW n \in P, NEW s \in SUBSET U, Cardinality(s) = n + 1 PROVE  it[s] \in Nat /\ it[s] <= (n + 1) * m
 <2>1. s # {}
  <3>1. n + 1 # 0 OBVIOUS
  <3> QED BY <1>2, <3>1, FS_EmptySet
 <2>2. First(s) \in U /\ s \ {First(s)} \in SUBSET U /\ Cardinality(s \ {First(s)}) = n BY <1>2, <2>1, FirstTaken
 <2>3. it[s] = it[s \ {First(s)}] + w[First(s)] BY <2>1, SumsStep
 <2>4. n \in Nat OBVIOUS
 <2> HIDE DEF P
 <2>5. w[First(s)] \in Nat /\ w[First(s)] <= m BY <2>2
 <2>6. it[s \ {First(s)}] \in Nat /\ it[s \ {First(s)}] <= n * m BY <2>2 DEF P
 <2>7. (n + 1) * m = n * m + m /\ n * m \in Nat BY <2>4
 <2> HIDE <1>2
 <2> QED BY <2>3, <2>5, <2>6, <2>7
<1>3. \A n \in P : n + 1 \in P BY <1>2
<1> HIDE DEF P
<1>4. P = Nat BY <1>1, <1>3, Induction DEF P
<1>5. Cardinality(U) \in Nat /\ U \in SUBSET U BY FS_CardinalityType
<1> QED BY <1>4, <1>5 DEF P

LEMMA SummedBounded ==
  ASSUME NEW U, IsFiniteSet(U), NEW w \in [U -> Nat], NEW m \in Nat, \A x \in U : w[x] <= m,
         NEW d \in U, w[d] = 0 PROVE  Summed(U, w) \in Nat /\ Summed(U, w) <= (Cardinality(U) - 1) * m
<1> DEFINE v == [x \in U |-> IF x = d THEN m ELSE w[x]]
<1>1. v \in [U -> Nat] /\ \A x \in U : v[x] <= m BY DEF v
<1>2. v[d] = m /\ \A x \in U : x # d => v[x] = w[x] OBVIOUS
<1> HIDE DEF v
<1>3. PICK it : Sums(U, v, it) BY <1>1, SumsExist
<1>4. Summed(U, v) = it[U] /\ it[U] \in Nat /\ it[U] <= Cardinality(U) * m BY <1>1, <1>3, SummedIs, SumsBounded
<1>5. Summed(U, v) \in Nat /\ Summed(U, w) \in Nat /\ Summed(U, v) + w[d] = Summed(U, w) + v[d]
 BY <1>1, <1>2, SummedMoves
<1>6. Cardinality(U) \in Nat BY FS_CardinalityType
<1>7. (Cardinality(U) - 1) * m = Cardinality(U) * m - m /\ Cardinality(U) * m \in Nat BY <1>6
<1> QED BY <1>2, <1>4, <1>5, <1>7

\* What a fold over a set computes.
Folds(U, w, it) ==
  it = [s \in SUBSET U |-> IF s = {} THEN 0 ELSE w[CHOOSE x \in s : TRUE] + it[s \ {CHOOSE x \in s : TRUE}]]

LEMMA FoldExists == ASSUME NEW U, IsFiniteSet(U), NEW w \in [U -> Nat]
  PROVE  \E it : Sums(U, w, it) /\ Folds(U, w, it)
<1>1. PICK jt : Sums(U, w, jt) BY SumsExist
<1>2. \A s \in SUBSET U : s # {} =>
         /\ s \ {First(s)} \in SUBSET U /\ w[First(s)] \in Nat /\ jt[s \ {First(s)}] \in Nat
 <2>1. \A n \in Nat : n <= n OBVIOUS
 <2>2. \A s \in SUBSET U : jt[s] \in Nat BY <1>1, <2>1, SumsGrow
 <2> QED BY <2>2, FirstTaken
<1>3. ASSUME NEW s \in SUBSET U
      PROVE  (IF s = {} THEN 0 ELSE jt[s \ {First(s)}] + w[First(s)])
               = (IF s = {} THEN 0 ELSE w[First(s)] + jt[s \ {First(s)}])
 <2>1. CASE s = {} BY <2>1
 <2>2. CASE s # {}
  <3>1. w[First(s)] \in Nat /\ jt[s \ {First(s)}] \in Nat BY <1>2, <2>2
  <3>2. w[First(s)] + jt[s \ {First(s)}] = jt[s \ {First(s)}] + w[First(s)] BY <3>1
  <3> QED BY <2>2, <3>2
 <2> QED BY <2>1, <2>2
<1>4. jt = [s \in SUBSET U |-> IF s = {} THEN 0 ELSE w[First(s)] + jt[s \ {First(s)}]] BY <1>1, <1>3 DEF Sums
<1> QED BY <1>1, <1>4 DEF Folds, First

LEMMA FoldIs == ASSUME NEW U, IsFiniteSet(U), NEW w \in [U -> Nat], NEW it, Folds(U, w, it)
  PROVE  it[U] = Summed(U, w)
<1>1. PICK jt : Sums(U, w, jt) /\ Folds(U, w, jt) BY FoldExists
<1>2. \A s \in SUBSET U : s # {} =>
          /\ jt[s] = w[First(s)] + jt[s \ {First(s)}] /\ it[s] = w[First(s)] + it[s \ {First(s)}]
 BY <1>1 DEF Folds, First
<1>3. it[{}] = jt[{}]
 <2>1. jt[{}] = 0 BY <1>1 DEF Folds
 <2>2. it[{}] = 0 BY DEF Folds
 <2> QED BY <2>1, <2>2
<1> DEFINE P == {n \in Nat : \A s \in SUBSET U : Cardinality(s) = n => it[s] = jt[s]}
<1>6. 0 \in P
 <2>1. \A s \in SUBSET U : Cardinality(s) = 0 => s = {} BY FS_Subset, FS_EmptySet
 <2> QED BY <1>3, <2>1
<1>7. ASSUME NEW n \in P, NEW s \in SUBSET U, Cardinality(s) = n + 1 PROVE  it[s] = jt[s]
 <2>1. s # {}
  <3>1. n + 1 # 0 OBVIOUS
  <3> QED BY <1>7, <3>1, FS_EmptySet
 <2>2. First(s) \in U /\ s \ {First(s)} \in SUBSET U /\ Cardinality(s \ {First(s)}) = n BY <1>7, <2>1, FirstTaken
 <2>3. it[s \ {First(s)}] = jt[s \ {First(s)}] BY <2>2
 <2> QED BY <1>2, <2>1, <2>3
<1>8. ASSUME NEW n \in P PROVE n + 1 \in P
 <2>1. n + 1 \in Nat OBVIOUS
 <2>2. \A s \in SUBSET U : Cardinality(s) = n + 1 => it[s] = jt[s] BY <1>7
 <2> QED BY <2>1, <2>2
<1> HIDE DEF P
<1>9. P = Nat BY <1>6, <1>8, Induction DEF P
<1>10. it[U] = jt[U] BY <1>9, FS_CardinalityType DEF P
<1> QED BY <1>1, <1>10, SummedIs

(* Sequences: what they have, and whether they have it only once. *)
LEMMA Appends == ASSUME NEW U, NEW s \in Seq(U), NEW x \in U
  PROVE  /\ Append(s, x) \in Seq(U) /\ Len(s) \in Nat /\ Len(Append(s, x)) = Len(s) + 1
         /\ DOMAIN s = 1..Len(s) /\ DOMAIN Append(s, x) = 1..(Len(s) + 1)
         /\ \A j \in 1..Len(s) : Append(s, x)[j] = s[j]
         /\ Append(s, x)[Len(s) + 1] = x
OBVIOUS

LEMMA Elements == ASSUME NEW U, NEW s \in Seq(U)
  PROVE  /\ Len(s) \in Nat /\ DOMAIN s = 1..Len(s)
         /\ \A j \in DOMAIN s : s[j] \in U
OBVIOUS

LEMMA NonEmpty == ASSUME NEW U, NEW s \in Seq(U), s # <<>>
  PROVE  Len(s) \in Nat /\ Len(s) >= 1 /\ 1 \in DOMAIN s /\ s[1] \in U
OBVIOUS

LEMMA OnceAppended == ASSUME NEW U, NEW s \in Seq(U), NEW x \in U
  PROVE  /\ \A y : Has(Append(s, x), y) <=> Has(s, y) \/ y = x
         /\ Once(s) /\ ~Has(s, x) => Once(Append(s, x))
<1>1. /\ Append(s, x) \in Seq(U) /\ Len(s) \in Nat /\ Len(Append(s, x)) = Len(s) + 1
      /\ DOMAIN s = 1..Len(s) /\ DOMAIN Append(s, x) = 1..(Len(s) + 1)
      /\ \A j \in 1..Len(s) : Append(s, x)[j] = s[j]
      /\ Append(s, x)[Len(s) + 1] = x BY Appends
<1>2. \A j \in 1..(Len(s) + 1) : j \in 1..Len(s) \/ j = Len(s) + 1 BY <1>1
<1>3. \A j \in 1..Len(s) : j \in 1..(Len(s) + 1) BY <1>1
<1>4. Len(s) + 1 \in 1..(Len(s) + 1) BY <1>1
<1> DEFINE t == Append(s, x)
<1> HIDE DEF t
<1>5. /\ DOMAIN s = 1..Len(s) /\ DOMAIN t = 1..(Len(s) + 1)
      /\ \A j \in 1..Len(s) : t[j] = s[j]
      /\ t[Len(s) + 1] = x BY <1>1 DEF t
<1>6. \A y : Has(t, y) <=> Has(s, y) \/ y = x BY <1>2, <1>3, <1>4, <1>5 DEF Has
<1>7. Once(s) /\ ~Has(s, x) => Once(t) BY <1>2, <1>5 DEF Has, Once
<1> QED BY <1>6, <1>7 DEF t

LEMMA OnceTail == ASSUME NEW U, NEW s \in Seq(U), s # <<>>
  PROVE  /\ Head(s) \in U /\ Tail(s) \in Seq(U) /\ Has(s, Head(s))
         /\ \A y : Has(s, y) <=> Has(Tail(s), y) \/ y = Head(s)
         /\ Once(s) => Once(Tail(s)) /\ ~Has(Tail(s), Head(s))
<1>1. /\ Len(s) \in Nat /\ Len(s) >= 1 /\ DOMAIN s = 1..Len(s)
      /\ Head(s) = s[1] /\ Tail(s) \in Seq(U) /\ Len(Tail(s)) = Len(s) - 1 /\ DOMAIN Tail(s) = 1..(Len(s) - 1)
      /\ \A j \in 1..(Len(s) - 1) : Tail(s)[j] = s[j + 1] OBVIOUS
<1>2. \A j \in 1..(Len(s) - 1) : j + 1 \in 1..Len(s) /\ j + 1 # 1 BY <1>1
<1>4. 1 \in 1..Len(s) BY <1>1
<1>5. \A j, k \in 1..(Len(s) - 1) : j + 1 = k + 1 => j = k OBVIOUS
<1> DEFINE t == Tail(s)
           x == Head(s)
<1> HIDE DEF t, x
<1>6. /\ DOMAIN s = 1..Len(s) /\ DOMAIN t = 1..(Len(s) - 1) /\ x = s[1]
      /\ \A j \in 1..(Len(s) - 1) : t[j] = s[j + 1] BY <1>1 DEF t, x
<1>7. \A y : Has(s, y) <=> Has(t, y) \/ y = x
 <2>1. ASSUME NEW y, Has(s, y) PROVE Has(t, y) \/ y = x
  <3>1. PICK j \in 1..Len(s) : s[j] = y BY <1>6, <2>1 DEF Has
  <3>2. CASE j = 1 BY <1>6, <3>1, <3>2
  <3>3. CASE j # 1
   <4> DEFINE l == j - 1
   <4>1. l \in 1..(Len(s) - 1) /\ j = l + 1 BY <1>1, <3>3
   <4> HIDE DEF l
   <4>2. t[l] = y BY <1>6, <3>1, <4>1
   <4> QED BY <1>6, <4>1, <4>2 DEF Has
  <3> QED BY <3>2, <3>3
 <2>2. ASSUME NEW y, Has(t, y) \/ y = x PROVE Has(s, y) BY <1>2, <1>4, <1>6, <2>2 DEF Has
 <2> QED BY <2>1, <2>2
<1>8. Once(s) => Once(t) /\ ~Has(t, x)
 <2> SUFFICES ASSUME Once(s) PROVE Once(t) /\ ~Has(t, x) OBVIOUS
 <2>1. ASSUME NEW j \in 1..(Len(s) - 1), NEW k \in 1..(Len(s) - 1), t[j] = t[k] PROVE j = k
  <3>1. s[j + 1] = s[k + 1] /\ j + 1 \in DOMAIN s /\ k + 1 \in DOMAIN s BY <1>2, <1>6, <2>1
  <3>2. j + 1 = k + 1 BY <3>1 DEF Once
  <3> QED BY <1>5, <3>2
 <2>2. ASSUME NEW j \in 1..(Len(s) - 1), t[j] = x PROVE FALSE
  <3>1. s[j + 1] = s[1] /\ j + 1 \in DOMAIN s /\ 1 \in DOMAIN s /\ j + 1 # 1 BY <1>2, <1>4, <1>6, <2>2
  <3> QED BY <3>1 DEF Once
 <2>3. Once(t) BY <1>6, <2>1 DEF Once
 <2>4. ~Has(t, x) BY <1>6, <2>2 DEF Has
 <2> QED BY <2>3, <2>4
<1>9. x \in U BY <1>1 DEF x
<1> QED BY <1>1, <1>4, <1>6, <1>7, <1>8, <1>9 DEF t, x, Has

\* A sequence without repetition has as many values as places.
LEMMA OnceCounts == ASSUME NEW U, NEW s \in Seq(U), Once(s)
  PROVE  /\ IsFiniteSet({s[j] : j \in DOMAIN s}) /\ Cardinality({s[j] : j \in DOMAIN s}) = Len(s)
<1> DEFINE V == {s[j] : j \in DOMAIN s}
<1>1. DOMAIN s = 1..Len(s) /\ Len(s) \in Nat /\ s \in [1..Len(s) -> V] OBVIOUS
<1>2. IsFiniteSet(1..Len(s)) /\ Cardinality(1..Len(s)) = Len(s) BY <1>1, FS_Interval
<1>3. s \in Bijection(1..Len(s), V) BY <1>1 DEF Once, Bijection, Injection, IsInjective, Surjection
<1> HIDE DEF V
<1>4. ExistsBijection(1..Len(s), V) BY <1>3 DEF ExistsBijection
<1>5. IsFiniteSet(V) /\ Cardinality(V) = Cardinality(1..Len(s)) BY <1>2, <1>4, FS_Bijection
<1> QED BY <1>2, <1>5 DEF V

(* The stores: on a key that no two writes ever overlapped on, versions only rise, and a write under
   way has the highest; on a key that only the primary served, a write is on the primary before the fallback. *)

LEMMA StoreConstants ==
  /\ StoreKeys # {} /\ FailureThreshold \in Nat /\ FailureThreshold >= 1
  /\ MaxWrites \in Nat /\ MaxCalls \in Nat /\ MaxRestarts \in Nat
BY ToolkitAssumption DEF FS!FallbackAssumption

LEMMA NoCallIs == FS!NoCall \in Calls /\ FS!NoCall.op = "none" /\ FS!NoCall.at = "idle"
<1>1. (CHOOSE k \in StoreKeys : TRUE) \in StoreKeys /\ 0 \in 0..MaxWrites BY StoreConstants
<1> QED BY <1>1 DEF FS!NoCall, Calls, FS!Places

LEMMA AbsentIs == FS!Absent \in [StoreKeys -> FS!Pattern] /\ \A k \in StoreKeys : FS!Absent[k].ver = 0
<1>1. 0 \in 0..MaxWrites BY StoreConstants
<1> QED BY <1>1 DEF FS!Absent, FS!Pattern

LEMMA StoreInit == ASSUME FS!Init PROVE StoreInv
<1>1. /\ circuit = "closed" /\ failures = 0 /\ cooled = FALSE
      /\ prim = FS!Absent /\ fall = FS!Absent /\ disk = FS!Absent /\ call = [c \in Goroutines |-> FS!NoCall]
      /\ torn = FALSE /\ opened = TRUE /\ writes = 0 /\ others = 0 /\ restarts = 0
      /\ acked = [k \in StoreKeys |-> 0] /\ solo = StoreKeys /\ clean = StoreKeys BY DEF FS!Init
<1>2. FS!Absent \in [StoreKeys -> FS!Pattern] /\ \A k \in StoreKeys : FS!Absent[k].ver = 0 BY AbsentIs
<1>3. FS!TypeOK
 <2>1. 0 \in 0..MaxWrites /\ 0 \in 0..MaxCalls /\ 0 \in 0..MaxRestarts /\ 0 \in 0..FailureThreshold BY StoreConstants
 <2>2. call \in [Goroutines -> Calls] BY <1>1, NoCallIs
 <2>3. acked \in [StoreKeys -> 0..MaxWrites] BY <1>1, <2>1
 <2> QED BY <1>1, <1>2, <2>1, <2>2, <2>3 DEF FS!TypeOK, Calls
<1>4. FS!CircuitMatchesFailures BY <1>1, StoreConstants DEF FS!CircuitMatchesFailures
<1>5. \A c \in Goroutines : call[c].op = "none" /\ call[c].at = "idle" BY <1>1, NoCallIs
<1>6. ASSUME NEW k \in StoreKeys PROVE Versions(k) /\ Through(k)
 <2>1. prim[k].ver = 0 /\ fall[k].ver = 0 /\ disk[k].ver = 0 /\ acked[k] = 0 /\ writes = 0
       /\ prim[k] = fall[k] BY <1>1, <1>2
 <2>2. \A c \in Goroutines : ~Sets(c, k) /\ call[c].op # "adjust" BY <1>5 DEF Sets
 <2>3. Versions(k) BY <2>1, <2>2 DEF Versions, Kept_
 <2>4. Through(k) BY <2>1, <2>2 DEF Through
 <2> QED BY <2>3, <2>4
<1>7. FileLock BY <1>1, <1>5 DEF FileLock, FS!Saving
<1> QED BY <1>1, <1>3, <1>4, <1>6, <1>7 DEF StoreInv

LEMMA StoreRests == ASSUME StoreInv, UNCHANGED storeVars PROVE StoreInv'
<1>1. /\ UNCHANGED <<circuit, failures, cooled, prim, fall, disk, torn, opened, call, writes, others, restarts, acked,
                     solo, clean>> BY DEF storeVars
<1>2. FileLock' /\ \A k : Versions(k) => Versions(k)' BY <1>1 DEF Versions, Kept_, Sets, StoreInv, FileLock, FS!Saving
<1>3. \A k : Through(k) => Through(k)' BY <1>1 DEF Through, Sets
<1>4. FS!TypeOK' /\ FS!CircuitMatchesFailures' BY <1>1 DEF StoreInv, FS!TypeOK, FS!CircuitMatchesFailures
<1> QED BY <1>1, <1>2, <1>3, <1>4 DEF StoreInv

\* What a call leaves of a store.
LEMMA AppliedIs == ASSUME NEW d \in Calls, NEW kept \in [StoreKeys -> FS!Pattern]
  PROVE  /\ FS!Applied(d, kept) \in [StoreKeys -> FS!Pattern]
         /\ \A k \in StoreKeys :
               /\ d.op = "set" /\ d.key = k => FS!Applied(d, kept)[k] = [ver |-> d.ver, changed |-> FALSE]
               /\ ~(d.op = "set" /\ d.key = k) => FS!Applied(d, kept)[k].ver = kept[k].ver
               /\ ~(d.op \in {"set", "adjust"} /\ d.key = k) => FS!Applied(d, kept)[k] = kept[k]
<1>1. d.key \in StoreKeys /\ d.ver \in 0..MaxWrites /\ kept[d.key] \in FS!Pattern BY DEF Calls
<1>2. /\ FS!Written(d, kept[d.key]) \in FS!Pattern
      /\ d.op = "set" => FS!Written(d, kept[d.key]) = [ver |-> d.ver, changed |-> FALSE]
      /\ d.op # "set" => FS!Written(d, kept[d.key]).ver = kept[d.key].ver
 <2>1. CASE d.op = "set" BY <1>1, <2>1 DEF FS!Written, FS!Pattern
 <2>2. CASE d.op # "set"
  <3>1. (kept[d.key].ver > 0 \/ kept[d.key].changed) \in BOOLEAN OBVIOUS
  <3> QED BY <1>1, <2>2, <3>1 DEF FS!Written, FS!Pattern
 <2> QED BY <2>1, <2>2
<1> DEFINE w == FS!Written(d, kept[d.key])
<1>3. FS!Applied(d, kept) = IF d.op \in {"set", "adjust"} THEN [kept EXCEPT ![d.key] = w] ELSE kept BY DEF FS!Applied
<1> HIDE DEF w
<1>4. w \in FS!Pattern BY <1>2 DEF w
<1>5. CASE d.op \in {"set", "adjust"}
 <2>1. FS!Applied(d, kept) = [kept EXCEPT ![d.key] = w] BY <1>3, <1>5
 <2>2. FS!Applied(d, kept) \in [StoreKeys -> FS!Pattern] BY <1>1, <1>4, <2>1
 <2>3. FS!Applied(d, kept)[d.key] = w /\ \A k \in StoreKeys : k # d.key => FS!Applied(d, kept)[k] = kept[k]
  BY <1>1, <2>1
 <2> HIDE DEF w
 <2> QED BY <1>2, <1>5, <2>2, <2>3 DEF w
<1>6. CASE d.op \notin {"set", "adjust"} BY <1>3, <1>6
<1> QED BY <1>5, <1>6

\* A call that does not save leaves the file to the one that does.
LEMMA LockKeeps ==
  ASSUME StoreInv, NEW c \in Goroutines, ~FS!Saving(c), ~FS!Saving(c)', opened, torn' = torn, opened' = opened,
         \A d \in Goroutines : d # c => call'[d] = call[d] PROVE  FileLock'
<1>1. \A d \in Goroutines : FS!Saving(d)' => FS!Saving(d) /\ d # c /\ call'[d] = call[d] BY DEF FS!Saving
<1> QED BY <1>1 DEF StoreInv, FileLock

\* A call is made by a process that could open its stores.
LEMMA CallIsOpened == ASSUME StoreInv, NEW c \in Goroutines, call[c].at # "idle" PROVE opened
BY DEF StoreInv, FileLock

LEMMA BeginKeeps == ASSUME StoreInv, NEW c \in Goroutines, NEW op \in FS!Ops, NEW k \in StoreKeys, FS!Begin(c, op, k)
  PROVE  StoreInv'
<1> DEFINE e == [op |-> op, key |-> k, ver |-> IF op = "set" THEN writes + 1 ELSE 0,
                 at |-> IF FS!UsesPrimary THEN "primary" ELSE "fallback"]
<1>1. FS!TypeOK /\ FS!CircuitMatchesFailures BY DEF StoreInv
<1>2. /\ circuit' = (IF FS!UsesPrimary /\ circuit = "open" THEN "half" ELSE circuit)
      /\ call' = [call EXCEPT ![c] = e]
      /\ solo' = (IF op = "set" /\ FS!Setting(k) # {} THEN solo \ {k} ELSE solo)
      /\ clean' = (IF FS!UsesPrimary /\ op # "adjust" THEN clean ELSE clean \ {k})
      /\ UNCHANGED <<failures, cooled, prim, fall, disk, torn, opened>> /\ opened /\ call[c].at = "idle"
      /\ restarts' = restarts /\ acked' = acked BY DEF FS!Begin, FS!shouldUsePrimary, FS!stores
<1>3. /\ op = "set" => writes < MaxWrites /\ writes' = writes + 1 /\ others' = others
      /\ op # "set" => others < MaxCalls /\ others' = others + 1 /\ writes' = writes BY DEF FS!Begin
<1>4. /\ call \in [Goroutines -> Calls] /\ writes \in 0..MaxWrites /\ others \in 0..MaxCalls
      /\ prim \in [StoreKeys -> FS!Pattern] /\ fall \in [StoreKeys -> FS!Pattern]
      /\ disk \in [StoreKeys -> FS!Pattern] /\ acked \in [StoreKeys -> 0..MaxWrites]
      /\ solo \subseteq StoreKeys /\ clean \subseteq StoreKeys /\ circuit \in {"closed", "open", "half"}
 BY <1>1 DEF FS!TypeOK, Calls
<1>5. writes' \in 0..MaxWrites /\ others' \in 0..MaxCalls /\ writes <= writes' BY <1>3, <1>4, StoreConstants
<1>6. e \in Calls /\ e.op = op /\ e.key = k /\ (op = "set" => e.ver = writes + 1)
      /\ e.at \in {"primary", "fallback"} /\ (FS!UsesPrimary <=> e.at = "primary")
 <2>1. (IF op = "set" THEN writes + 1 ELSE 0) \in 0..MaxWrites BY <1>3, <1>4, StoreConstants
 <2>2. (IF FS!UsesPrimary THEN "primary" ELSE "fallback") \in {"primary", "fallback"} OBVIOUS
 <2> QED BY <2>1, <2>2 DEF Calls, FS!Places
<1> HIDE DEF e
<1>7. FS!TypeOK'
 <2>1. call' \in [Goroutines -> Calls] BY <1>2, <1>4, <1>6
 <2>2. circuit' \in {"closed", "open", "half"} BY <1>2, <1>4
 <2> QED BY <1>1, <1>2, <1>4, <1>5, <2>1, <2>2 DEF FS!TypeOK, Calls
<1>8. FS!CircuitMatchesFailures' BY <1>1, <1>2 DEF FS!CircuitMatchesFailures
<1>9. call'[c] = e /\ \A d \in Goroutines : d # c => call'[d] = call[d] BY <1>2, <1>4
<1>14. FileLock'
 <2>1. ~FS!Saving(c) /\ ~FS!Saving(c)' BY <1>2, <1>6, <1>9 DEF FS!Saving
 <2> QED BY <1>2, <1>9, <2>1, LockKeeps
<1>10. \A d \in Goroutines, q \in StoreKeys : d # c => (Sets(d, q)' <=> Sets(d, q)) BY <1>9 DEF Sets
<1>11. \A q \in StoreKeys : Sets(c, q)' <=> op = "set" /\ q = k BY <1>6, <1>9 DEF Sets
<1>12. ASSUME NEW q \in solo' PROVE Versions(q)'
 <2>1. q \in solo /\ q \in StoreKeys /\ Versions(q) BY <1>2, <1>4 DEF StoreInv
 <2>2. op = "set" /\ q = k => \A d \in Goroutines : ~Sets(d, q) BY <1>2 DEF FS!Setting, Sets
 <2>3. /\ prim[q].ver \in Nat /\ fall[q].ver \in Nat /\ disk[q].ver \in Nat /\ acked[q] \in Nat
       /\ writes \in Nat /\ writes' \in Nat BY <1>4, <1>5, <2>1, StoreConstants DEF FS!Pattern
 <2>4. prim[q].ver <= writes /\ fall[q].ver <= writes /\ disk[q].ver <= writes /\ acked[q] <= writes
  BY <2>1 DEF Versions
 <2>5. prim[q].ver <= writes' /\ fall[q].ver <= writes' /\ disk[q].ver <= writes' /\ acked[q] <= writes'
  BY <1>5, <2>3, <2>4
 <2>7. Kept_(q)' BY <1>2, <2>1 DEF Versions, Kept_
 <2>6. ASSUME NEW d \in Goroutines, Sets(d, q)'
       PROVE  /\ prim[q].ver <= call'[d].ver /\ fall[q].ver <= call'[d].ver
              /\ acked[q] <= call'[d].ver /\ call'[d].ver <= writes'
              /\ call'[d].at \in {"done", "through", "writeThrough"} => prim[q].ver = call'[d].ver
              /\ call'[d].at \in {"write", "writeThrough"} => fall[q].ver = call'[d].ver
              /\ \A f \in Goroutines : Sets(f, q)' => f = d
  <3>1. CASE d = c
   <4>1. op = "set" /\ q = k BY <1>11, <2>1, <2>6, <3>1
   <4>2. call'[d].ver = writes + 1 /\ call'[d].at \in {"primary", "fallback"} /\ writes' = writes + 1
    BY <1>3, <1>6, <1>9, <3>1, <4>1
   <4>3. \A f \in Goroutines : Sets(f, q)' => f = d BY <1>10, <2>1, <2>2, <3>1, <4>1
   <4> QED BY <2>3, <2>4, <4>2, <4>3
  <3>2. CASE d # c
   <4>1. Sets(d, q) /\ call'[d] = call[d] BY <1>9, <1>10, <2>1, <2>6, <3>2
   <4>2. ~Sets(c, q)' BY <1>11, <2>1, <2>2, <4>1
   <4>3. \A f \in Goroutines : Sets(f, q)' => f = d
    <5>1. \A f \in Goroutines : Sets(f, q)' => Sets(f, q) BY <1>10, <2>1, <4>2
    <5> QED BY <2>1, <4>1, <5>1 DEF Versions
   <4>4. /\ prim[q].ver <= call[d].ver /\ fall[q].ver <= call[d].ver
         /\ acked[q] <= call[d].ver /\ call[d].ver <= writes
         /\ call[d].at \in {"done", "through", "writeThrough"} => prim[q].ver = call[d].ver
         /\ call[d].at \in {"write", "writeThrough"} => fall[q].ver = call[d].ver BY <2>1, <4>1 DEF Versions
   <4>5. call[d].ver \in Nat BY <1>4, StoreConstants DEF Calls
   <4>6. call[d].ver <= writes' BY <1>5, <2>3, <4>4, <4>5
   <4> QED BY <4>1, <4>3, <4>4, <4>6
  <3> QED BY <3>1, <3>2
 <2> QED BY <1>2, <2>1, <2>5, <2>6, <2>7 DEF Versions
<1>13. ASSUME NEW q \in clean' \cap solo' PROVE Through(q)'
 <2>1. q \in clean \cap solo /\ q \in StoreKeys /\ Through(q) BY <1>2, <1>4 DEF StoreInv
 <2>2. q = k => FS!UsesPrimary /\ op # "adjust" BY <1>2
 <2>3. op = "set" /\ q = k => \A d \in Goroutines : ~Sets(d, q) BY <1>2 DEF FS!Setting, Sets
 <2>4. Sets(c, q)' => call'[c].at = "primary" BY <1>6, <1>9, <1>11, <2>1, <2>2
 <2>5. \A d \in Goroutines : call'[d].key = q => call'[d].op # "adjust" BY <1>6, <1>9, <2>1, <2>2 DEF Through
 <2>6. ASSUME NEW d \in Goroutines, Sets(d, q)'
       PROVE  /\ call'[d].at \in {"primary", "done", "through", "writeThrough"}
              /\ call'[d].at # "primary" => prim[q] = [ver |-> call'[d].ver, changed |-> FALSE]
              /\ call'[d].at = "writeThrough" => prim[q] = fall[q]
  <3>1. CASE d = c BY <2>4, <2>6, <3>1
  <3>2. CASE d # c BY <1>9, <1>10, <2>1, <2>6, <3>2 DEF Through
  <3> QED BY <3>1, <3>2
 <2>7. ASSUME \A d \in Goroutines : Sets(d, q)' => call'[d].at = "primary" PROVE  prim[q] = fall[q]
  <3>1. CASE \A d \in Goroutines : Sets(d, q) => call[d].at = "primary" BY <2>1, <3>1 DEF Through
  <3>2. CASE ~\A d \in Goroutines : Sets(d, q) => call[d].at = "primary"
   <4>1. PICK d \in Goroutines : Sets(d, q) /\ call[d].at # "primary" BY <3>2
   <4>2. d = c BY <1>9, <1>10, <2>1, <2>7, <4>1
   <4>3. call[c].at = "idle" BY DEF FS!Begin
   <4> QED BY <2>1, <4>1, <4>2, <4>3 DEF Through
  <3> QED BY <3>1, <3>2
 <2> QED BY <1>2, <2>5, <2>6, <2>7 DEF Through
<1> QED BY <1>7, <1>8, <1>12, <1>13, <1>14 DEF StoreInv

\* The call of c is e now, of the same write or of none.
Moved(c, e) ==
  /\ call' \in [Goroutines -> Calls] /\ call'[c] = e
  /\ \A d \in Goroutines : d # c => call'[d] = call[d]
  /\ \A d \in Goroutines, q \in StoreKeys :
        /\ Sets(d, q)' => Sets(d, q) /\ call'[d].ver = call[d].ver
        /\ d # c => (Sets(d, q)' <=> Sets(d, q))
  /\ \A q \in StoreKeys : Sets(c, q)' <=> e.op # "none" /\ Sets(c, q)

\* A call goes on and the primary may change: what it needs to know.
LEMMA CallMoves ==
  ASSUME StoreInv, NEW c \in Goroutines, NEW e \in Calls, call' = [call EXCEPT ![c] = e],
         e.op \in {call[c].op, "none"}, e.key = call[c].key \/ e.op = "none", e.op # "none" => e.ver = call[c].ver
  PROVE  Moved(c, e)
<1>1. call \in [Goroutines -> Calls] BY DEF StoreInv, FS!TypeOK, Calls
<1>2. /\ call' \in [Goroutines -> Calls] /\ call'[c] = e
      /\ \A d \in Goroutines : d # c => call'[d] = call[d] BY <1>1
<1>3. \A d \in Goroutines, q \in StoreKeys : d # c => (Sets(d, q)' <=> Sets(d, q)) BY <1>2 DEF Sets
<1>4. \A q \in StoreKeys : Sets(c, q)' <=> e.op # "none" /\ Sets(c, q) BY <1>2 DEF Sets
<1>5. \A d \in Goroutines, q \in StoreKeys : Sets(d, q)' => Sets(d, q) /\ call'[d].ver = call[d].ver
 <2>1. ASSUME NEW d \in Goroutines, NEW q \in StoreKeys, Sets(d, q)' PROVE  Sets(d, q) /\ call'[d].ver = call[d].ver
  <3>1. CASE d = c BY <1>2, <1>4, <2>1, <3>1
  <3>2. CASE d # c BY <1>2, <1>3, <2>1, <3>2
  <3> QED BY <3>1, <3>2
 <2> QED BY <2>1
<1> QED BY <1>2, <1>3, <1>4, <1>5 DEF Moved

\* A write that a store took is there.
There(d, q) ==
  /\ call'[d].at \in {"done", "through", "writeThrough"} => prim'[q].ver = call'[d].ver
  /\ call'[d].at \in {"write", "writeThrough"} => fall'[q].ver = call'[d].ver

USE DEF Moved, There

\* What the actions of a call without a new write leave of the versions: the
\* primary may take the version of the call, and so may the fallback and the
\* file, and a write that is acknowledged is on one of them.
LEMMA VersionsKeep ==
  ASSUME StoreInv, NEW q \in solo, q \in StoreKeys,
         prim' \in [StoreKeys -> FS!Pattern], fall' \in [StoreKeys -> FS!Pattern],
         disk' \in [StoreKeys -> FS!Pattern], acked' \in [StoreKeys -> 0..MaxWrites],
         call' \in [Goroutines -> Calls], writes' = writes,
         \A d \in Goroutines : Sets(d, q)' => Sets(d, q) /\ call'[d].ver = call[d].ver,
         prim'[q].ver = prim[q].ver \/ \E d \in Goroutines : Sets(d, q) /\ prim'[q].ver = call[d].ver,
         fall'[q].ver = fall[q].ver \/ \E d \in Goroutines : Sets(d, q) /\ fall'[q].ver = call[d].ver,
         disk'[q].ver \in {disk[q].ver, fall[q].ver},
         acked'[q] = acked[q] \/ \E d \in Goroutines : Sets(d, q) /\ acked'[q] = call[d].ver,
         Kept_(q)' \/ UNCHANGED <<fall, disk, torn, opened, acked>>, \A d \in Goroutines : Sets(d, q)' => There(d, q)
  PROVE  Versions(q)'
<1>1. Versions(q) BY DEF StoreInv
<1>2. /\ prim[q].ver \in Nat /\ fall[q].ver \in Nat /\ disk[q].ver \in Nat /\ acked[q] \in Nat
      /\ prim'[q].ver \in Nat /\ fall'[q].ver \in Nat /\ disk'[q].ver \in Nat /\ acked'[q] \in Nat /\ writes \in Nat
      /\ \A d \in Goroutines : call[d].ver \in Nat BY StoreConstants DEF StoreInv, FS!TypeOK, FS!Pattern
<1>3. \A d \in Goroutines : Sets(d, q) =>
          /\ prim[q].ver <= call[d].ver /\ fall[q].ver <= call[d].ver
          /\ acked[q] <= call[d].ver /\ call[d].ver <= writes
          /\ \A f \in Goroutines : Sets(f, q) => f = d BY <1>1 DEF Versions
<1>4. prim[q].ver <= prim'[q].ver BY <1>2, <1>3
<1>5. prim'[q].ver <= writes /\ fall'[q].ver <= writes /\ disk'[q].ver <= writes /\ acked'[q] <= writes
 <2>1. prim[q].ver <= writes /\ fall[q].ver <= writes /\ disk[q].ver <= writes /\ acked[q] <= writes
  BY <1>1 DEF Versions
 <2> QED BY <1>3, <2>1
<1>6. Kept_(q)'
 <2>1. CASE UNCHANGED <<fall, disk, torn, opened, acked>>
  <3>1. /\ opened => prim[q].ver >= acked[q] \/ fall[q].ver >= acked[q]
        /\ ~torn => prim[q].ver >= acked[q] \/ disk[q].ver >= acked[q] BY <1>1 DEF Versions, Kept_
  <3>2. prim[q].ver >= acked[q] => prim'[q].ver >= acked[q] BY <1>2, <1>4
  <3> QED BY <2>1, <3>1, <3>2 DEF Kept_
 <2> QED BY <2>1
<1>7. ASSUME NEW d \in Goroutines, Sets(d, q)'
      PROVE  /\ prim'[q].ver <= call'[d].ver /\ fall'[q].ver <= call'[d].ver
             /\ acked'[q] <= call'[d].ver /\ call'[d].ver <= writes
             /\ \A f \in Goroutines : Sets(f, q)' => f = d
 <2>1. Sets(d, q) /\ call'[d].ver = call[d].ver BY <1>7
 <2>2. \A f \in Goroutines : Sets(f, q) => f = d BY <1>3, <2>1
 <2>3. /\ prim[q].ver <= call[d].ver /\ fall[q].ver <= call[d].ver
       /\ acked[q] <= call[d].ver /\ call[d].ver <= writes BY <1>3, <2>1
 <2>4. prim'[q].ver = prim[q].ver \/ prim'[q].ver = call[d].ver BY <2>2
 <2>5. fall'[q].ver = fall[q].ver \/ fall'[q].ver = call[d].ver BY <2>2
 <2>6. acked'[q] = acked[q] \/ acked'[q] = call[d].ver BY <2>2
 <2> QED BY <1>2, <2>1, <2>2, <2>3, <2>4, <2>5, <2>6
<1> QED BY <1>5, <1>6, <1>7 DEF Versions

\* A call stays on its way: on the primary, or behind it.
Onward(d) ==
  /\ call'[d].ver = call[d].ver /\ call'[d].at \in {"primary", "done", "through", "writeThrough"}
  /\ call'[d].at = "primary" <=> call[d].at = "primary"
  /\ call'[d].at = "writeThrough" <=> call[d].at = "writeThrough"

\* What a call that goes on, and neither store changes at a key, leaves of it.
LEMMA ThroughKeeps ==
  ASSUME StoreInv, NEW q \in clean \cap solo, prim'[q] = prim[q], fall'[q] = fall[q],
         \A d \in Goroutines : call'[d].key = q => call'[d].op # "adjust",
         \A d \in Goroutines :
            /\ Sets(d, q)' <=> Sets(d, q)
            /\ Sets(d, q) => Onward(d) PROVE  Through(q)'
<1>1. Through(q) BY DEF StoreInv
<1>2. ASSUME NEW d \in Goroutines, Sets(d, q)', call'[d].at # "primary"
      PROVE  prim'[q] = [ver |-> call'[d].ver, changed |-> FALSE] BY <1>1, <1>2 DEF Through, Onward
<1>3. ASSUME \A d \in Goroutines : Sets(d, q)' => call'[d].at = "primary" PROVE  prim'[q] = fall'[q]
 BY <1>1, <1>3 DEF Through, Onward
<1>4. ASSUME NEW d \in Goroutines, Sets(d, q)'
      PROVE  /\ call'[d].at \in {"primary", "done", "through", "writeThrough"}
             /\ call'[d].at = "writeThrough" => prim'[q] = fall'[q] BY <1>1, <1>4 DEF Through, Onward
<1> QED BY <1>2, <1>3, <1>4 DEF Through

LEMMA TimeoutKeeps == ASSUME StoreInv, FS!HalfOpenTimeoutPasses PROVE StoreInv'
<1>1. /\ circuit' = circuit /\ failures' = failures /\ cooled' = TRUE
      /\ UNCHANGED <<prim, fall, disk, torn, opened, call, writes, others, restarts, acked, solo, clean>> BY DEF FS!HalfOpenTimeoutPasses, FS!stores, FS!ghosts
<1>2. FileLock' /\ \A k : Versions(k) => Versions(k)' BY <1>1 DEF Versions, Kept_, Sets, StoreInv, FileLock, FS!Saving
<1>3. \A k : Through(k) => Through(k)' BY <1>1 DEF Through, Sets
<1>4. FS!TypeOK' /\ FS!CircuitMatchesFailures' BY <1>1 DEF StoreInv, FS!TypeOK, FS!CircuitMatchesFailures
<1> QED BY <1>1, <1>2, <1>3, <1>4 DEF StoreInv

LEMMA PrimaryAnswersKeeps == ASSUME StoreInv, NEW c \in Goroutines, FS!PrimaryAnswers(c) PROVE StoreInv'
<1>1. /\ call[c].at = "primary" /\ prim' = FS!Applied(call[c], prim)
      /\ UNCHANGED <<circuit, failures, cooled, fall, disk, torn, opened, writes, others, restarts, acked, solo,
                     clean>> BY DEF FS!PrimaryAnswers, FS!breaker, FS!ghosts
<1>2. FS!TypeOK /\ FS!CircuitMatchesFailures /\ call \in [Goroutines -> Calls] /\ call[c] \in Calls
      /\ prim \in [StoreKeys -> FS!Pattern] /\ solo \subseteq StoreKeys BY DEF StoreInv, FS!TypeOK, Calls
<1>3. PICK e \in Calls :
         /\ call' = [call EXCEPT ![c] = e]
         /\ e = [call[c] EXCEPT !.at = "done"] \/ (call[c].op = "get" /\ e = FS!NoCall)
 <2>1. [call[c] EXCEPT !.at = "done"] \in Calls BY <1>2 DEF Calls, FS!Places
 <2>2. \/ call' = [call EXCEPT ![c] = [call[c] EXCEPT !.at = "done"]]
       \/ call[c].op = "get" /\ call' = [call EXCEPT ![c] = FS!NoCall] BY <1>2 DEF FS!PrimaryAnswers
 <2>3. CASE call' = [call EXCEPT ![c] = [call[c] EXCEPT !.at = "done"]] BY <2>1, <2>3
 <2>4. CASE call[c].op = "get" /\ call' = [call EXCEPT ![c] = FS!NoCall] BY <2>4, NoCallIs
 <2> QED BY <2>2, <2>3, <2>4
<1>4. /\ e.op \in {call[c].op, "none"} /\ (e.key = call[c].key \/ e.op = "none")
      /\ e.op # "none" => e.ver = call[c].ver
      /\ call[c].op = "set" => e.op = "set" /\ e.at = "done"
      /\ e.op # "none" => e.op = call[c].op /\ e.key = call[c].key
      /\ e.at \in {"done", "idle"} BY <1>2, <1>3, NoCallIs DEF Calls
<1>5. Moved(c, e) BY <1>3, <1>4, CallMoves
<1>6. /\ prim' \in [StoreKeys -> FS!Pattern]
      /\ \A k \in StoreKeys :
            /\ Sets(c, k) => prim'[k] = [ver |-> call[c].ver, changed |-> FALSE]
            /\ ~Sets(c, k) => prim'[k].ver = prim[k].ver
            /\ ~Sets(c, k) /\ ~(call[c].op = "adjust" /\ call[c].key = k) => prim'[k] = prim[k]
 BY <1>1, <1>2, AppliedIs DEF Sets
<1>7. FS!TypeOK' /\ FS!CircuitMatchesFailures'
 BY <1>1, <1>2, <1>5, <1>6 DEF FS!TypeOK, FS!CircuitMatchesFailures, Calls
<1>8. ASSUME NEW q \in solo PROVE Versions(q)'
 <2>1. q \in StoreKeys /\ Versions(q) BY <1>2 DEF StoreInv
 <2>2. ASSUME NEW d \in Goroutines, Sets(d, q)' PROVE  There(d, q)
  <3>1. CASE d = c BY <1>4, <1>5, <1>6, <2>1, <2>2, <3>1
  <3>2. CASE d # c
   <4>1. Sets(d, q) /\ call'[d] = call[d] BY <1>5, <2>1, <2>2, <3>2
   <4>2. ~Sets(c, q) BY <2>1, <3>2, <4>1 DEF Versions
   <4> QED BY <1>1, <1>6, <2>1, <2>2, <4>1, <4>2 DEF Versions
  <3> QED BY <3>1, <3>2
 <2>3. prim'[q].ver = prim[q].ver \/ \E d \in Goroutines : Sets(d, q) /\ prim'[q].ver = call[d].ver BY <1>6, <2>1
 <2>4. fall' \in [StoreKeys -> FS!Pattern] /\ disk' \in [StoreKeys -> FS!Pattern]
       /\ acked' \in [StoreKeys -> 0..MaxWrites] BY <1>1, <1>2 DEF FS!TypeOK
 <2> QED BY <1>1, <1>5, <1>6, <2>1, <2>2, <2>3, <2>4, VersionsKeep
<1>9. ASSUME NEW q \in clean \cap solo PROVE Through(q)'
 <2>1. q \in StoreKeys /\ Through(q) /\ Versions(q) BY <1>2 DEF StoreInv
 <2>2. \A d \in Goroutines : call'[d].key = q => call'[d].op # "adjust" BY <1>4, <1>5, <2>1 DEF Through
 <2>3. CASE Sets(c, q)
  <3>1. Sets(c, q)' /\ call'[c].at = "done" /\ call'[c].ver = call[c].ver BY <1>4, <1>5, <2>1, <2>3 DEF Sets
  <3>2. \A d \in Goroutines : Sets(d, q)' => d = c BY <1>5, <2>1, <2>3 DEF Versions
  <3> QED BY <1>6, <2>1, <2>2, <2>3, <3>1, <3>2 DEF Through
 <2>4. CASE ~Sets(c, q)
  <3>1. prim'[q] = prim[q] BY <1>6, <2>1, <2>4 DEF Through
  <3>2. ASSUME NEW d \in Goroutines
        PROVE  /\ Sets(d, q)' <=> Sets(d, q)
               /\ Sets(d, q) => Onward(d)
   <4>1. CASE d = c BY <1>5, <2>1, <2>4, <4>1
   <4>2. CASE d # c BY <1>5, <2>1, <4>2 DEF Through, Onward
   <4> QED BY <4>1, <4>2
  <3> QED BY <1>1, <2>2, <3>1, <3>2, ThroughKeeps
 <2> QED BY <2>3, <2>4
<1>10. FileLock'
 <2>1. ~FS!Saving(c) /\ ~FS!Saving(c)' BY <1>1, <1>4, <1>5 DEF FS!Saving
 <2> QED BY <1>1, <1>5, <2>1, LockKeeps, CallIsOpened
<1> QED BY <1>1, <1>7, <1>8, <1>9, <1>10 DEF StoreInv

LEMMA PrimaryFailsKeeps == ASSUME StoreInv, NEW c \in Goroutines, FS!PrimaryFails(c) PROVE StoreInv'
<1> DEFINE e == [call[c] EXCEPT !.at = "failed"]
<1>1. /\ call[c].at = "primary" /\ prim' \in {prim, FS!Applied(call[c], prim)} /\ call' = [call EXCEPT ![c] = e]
      /\ clean' = (IF call[c].op = "load" THEN clean ELSE clean \ {call[c].key})
      /\ UNCHANGED <<circuit, failures, cooled, fall, disk, torn, opened, writes, others, restarts, acked, solo>>
 BY DEF FS!PrimaryFails, FS!breaker
<1>2. FS!TypeOK /\ FS!CircuitMatchesFailures /\ call \in [Goroutines -> Calls] /\ call[c] \in Calls
      /\ prim \in [StoreKeys -> FS!Pattern] /\ solo \subseteq StoreKeys /\ clean \subseteq StoreKeys
 BY DEF StoreInv, FS!TypeOK, Calls
<1>3. e \in Calls /\ e.op = call[c].op /\ e.key = call[c].key /\ e.ver = call[c].ver /\ e.at = "failed"
 BY <1>2 DEF Calls, FS!Places
<1> HIDE DEF e
<1>5. Moved(c, e) BY <1>1, <1>3, CallMoves
<1>6. /\ prim' \in [StoreKeys -> FS!Pattern]
      /\ \A k \in StoreKeys :
            /\ prim'[k].ver = prim[k].ver \/ (Sets(c, k) /\ prim'[k].ver = call[c].ver)
            /\ call[c].key # k \/ call[c].op = "load" => prim'[k] = prim[k]
 <2>1. CASE prim' = prim BY <1>2, <2>1
 <2>2. CASE prim' = FS!Applied(call[c], prim)
  <3>1. prim' \in [StoreKeys -> FS!Pattern] BY <1>2, <2>2, AppliedIs
  <3>2. ASSUME NEW k \in StoreKeys
        PROVE  /\ prim'[k].ver = prim[k].ver \/ (Sets(c, k) /\ prim'[k].ver = call[c].ver)
               /\ call[c].key # k \/ call[c].op = "load" => prim'[k] = prim[k]
   <4>1. /\ call[c].op = "set" /\ call[c].key = k => prim'[k] = [ver |-> call[c].ver, changed |-> FALSE]
         /\ ~(call[c].op = "set" /\ call[c].key = k) => prim'[k].ver = prim[k].ver
         /\ ~(call[c].op \in {"set", "adjust"} /\ call[c].key = k) => prim'[k] = prim[k] BY <1>2, <2>2, AppliedIs
   <4>2. CASE call[c].op = "set" /\ call[c].key = k BY <4>1, <4>2 DEF Sets
   <4>3. CASE ~(call[c].op = "set" /\ call[c].key = k) BY <4>1, <4>3
   <4> QED BY <4>2, <4>3
  <3> QED BY <3>1, <3>2
 <2> QED BY <1>1, <2>1, <2>2
<1>7. FS!TypeOK' /\ FS!CircuitMatchesFailures'
 <2>1. clean' \subseteq StoreKeys BY <1>1, <1>2
 <2> QED BY <1>1, <1>2, <1>5, <1>6, <2>1 DEF FS!TypeOK, FS!CircuitMatchesFailures, Calls
<1>8. ASSUME NEW q \in solo PROVE Versions(q)'
 <2>1. q \in StoreKeys /\ Versions(q) BY <1>2 DEF StoreInv
 <2>2. ASSUME NEW d \in Goroutines, Sets(d, q)', call'[d].at # "failed" PROVE  There(d, q)
  <3>1. d # c BY <1>3, <1>5, <2>2
  <3>2. Sets(d, q) /\ call'[d] = call[d] BY <1>5, <2>1, <2>2, <3>1
  <3>3. ~Sets(c, q) BY <2>1, <3>1, <3>2 DEF Versions
  <3> QED BY <1>1, <1>6, <2>1, <2>2, <3>2, <3>3 DEF Versions
 <2>3. prim'[q].ver = prim[q].ver \/ \E d \in Goroutines : Sets(d, q) /\ prim'[q].ver = call[d].ver BY <1>6, <2>1
 <2>4. fall' \in [StoreKeys -> FS!Pattern] /\ disk' \in [StoreKeys -> FS!Pattern]
       /\ acked' \in [StoreKeys -> 0..MaxWrites] BY <1>1, <1>2 DEF FS!TypeOK
 <2> QED BY <1>1, <1>5, <1>6, <2>1, <2>2, <2>3, <2>4, VersionsKeep
<1>9. ASSUME NEW q \in clean' \cap solo PROVE Through(q)'
 <2>1. q \in StoreKeys /\ q \in clean \cap solo /\ Through(q) BY <1>1, <1>2 DEF StoreInv
 <2>2. ~Sets(c, q) /\ (call[c].key # q \/ call[c].op = "load") BY <1>1 DEF Sets
 <2>3. prim'[q] = prim[q] BY <1>6, <2>1, <2>2
 <2>4. \A d \in Goroutines : call'[d].key = q => call'[d].op # "adjust" BY <1>3, <1>5, <2>1 DEF Through
 <2>5. ASSUME NEW d \in Goroutines
       PROVE  /\ Sets(d, q)' <=> Sets(d, q)
              /\ Sets(d, q) => Onward(d)
  <3>1. CASE d = c BY <1>5, <2>1, <2>2, <3>1
  <3>2. CASE d # c BY <1>5, <2>1, <3>2 DEF Through, Onward
  <3> QED BY <3>1, <3>2
 <2> QED BY <1>1, <2>1, <2>3, <2>4, <2>5, ThroughKeeps
<1>10. FileLock'
 <2>1. ~FS!Saving(c) /\ ~FS!Saving(c)' BY <1>1, <1>3, <1>5 DEF FS!Saving
 <2> QED BY <1>1, <1>5, <2>1, LockKeeps, CallIsOpened
<1> QED BY <1>1, <1>7, <1>8, <1>9, <1>10 DEF StoreInv

LEMMA RecordFailureKeeps == ASSUME StoreInv, NEW c \in Goroutines, FS!RecordFailure(c) PROVE StoreInv'
<1> DEFINE e == [call[c] EXCEPT !.at = "fallback"]
<1>1. /\ call[c].at = "failed" /\ call' = [call EXCEPT ![c] = e] /\ cooled' = FALSE
      /\ failures' = (IF failures < FailureThreshold THEN failures + 1 ELSE failures)
      /\ circuit' = (IF failures' >= FailureThreshold THEN "open" ELSE circuit)
      /\ UNCHANGED <<prim, fall, disk, torn, opened, writes, others, restarts, acked, solo, clean>>
 BY DEF FS!RecordFailure, FS!recordFailure, FS!stores, FS!ghosts
<1>2. FS!TypeOK /\ FS!CircuitMatchesFailures /\ call \in [Goroutines -> Calls] /\ call[c] \in Calls
      /\ solo \subseteq StoreKeys /\ failures \in 0..FailureThreshold /\ circuit \in {"closed", "open", "half"}
 BY DEF StoreInv, FS!TypeOK, Calls
<1>3. e \in Calls /\ e.op = call[c].op /\ e.key = call[c].key /\ e.ver = call[c].ver /\ e.at = "fallback"
 BY <1>2 DEF Calls, FS!Places
<1> HIDE DEF e
<1>4. Moved(c, e) BY <1>1, <1>3, CallMoves
<1>5. failures' \in 0..FailureThreshold /\ (failures >= FailureThreshold => failures' >= FailureThreshold)
 BY <1>1, <1>2, StoreConstants
<1>6. circuit' \in {"closed", "open", "half"} /\ FS!CircuitMatchesFailures'
 BY <1>1, <1>2, <1>5 DEF FS!CircuitMatchesFailures
<1>7. FS!TypeOK' BY <1>1, <1>2, <1>4, <1>5, <1>6 DEF FS!TypeOK, Calls
<1>8. ASSUME NEW q \in solo PROVE Versions(q)'
 <2>1. q \in StoreKeys /\ Versions(q) BY <1>2 DEF StoreInv
 <2>2. ASSUME NEW d \in Goroutines, Sets(d, q)', call'[d].at # "fallback" PROVE  There(d, q)
  <3>1. d # c BY <1>3, <1>4, <2>2
  <3>2. Sets(d, q) /\ call'[d] = call[d] BY <1>4, <2>1, <2>2, <3>1
  <3> QED BY <1>1, <2>1, <2>2, <3>2 DEF Versions
 <2>3. prim' \in [StoreKeys -> FS!Pattern] /\ fall' \in [StoreKeys -> FS!Pattern]
       /\ disk' \in [StoreKeys -> FS!Pattern] /\ acked' \in [StoreKeys -> 0..MaxWrites] BY <1>1, <1>2 DEF FS!TypeOK
 <2> QED BY <1>1, <1>4, <2>1, <2>2, <2>3, VersionsKeep
<1>9. ASSUME NEW q \in clean \cap solo PROVE Through(q)'
 <2>1. q \in StoreKeys /\ Through(q) BY <1>2 DEF StoreInv
 <2>2. ~Sets(c, q) BY <1>1, <2>1 DEF Through
 <2>3. \A d \in Goroutines : call'[d].key = q => call'[d].op # "adjust" BY <1>3, <1>4, <2>1 DEF Through
 <2>4. ASSUME NEW d \in Goroutines
       PROVE  /\ Sets(d, q)' <=> Sets(d, q)
              /\ Sets(d, q) => Onward(d)
  <3>1. CASE d = c BY <1>4, <2>1, <2>2, <3>1
  <3>2. CASE d # c BY <1>4, <2>1, <3>2 DEF Through, Onward
  <3> QED BY <3>1, <3>2
 <2> QED BY <1>1, <2>3, <2>4, ThroughKeeps
<1>10. FileLock'
 <2>1. ~FS!Saving(c) /\ ~FS!Saving(c)' BY <1>1, <1>3, <1>4 DEF FS!Saving
 <2> QED BY <1>1, <1>4, <2>1, LockKeeps, CallIsOpened
<1> QED BY <1>1, <1>6, <1>7, <1>8, <1>9, <1>10 DEF StoreInv

LEMMA RecordSuccessKeeps == ASSUME StoreInv, NEW c \in Goroutines, FS!RecordSuccess(c) PROVE StoreInv'
<1> DEFINE e == IF call[c].op = "set" THEN [call[c] EXCEPT !.at = "through"] ELSE FS!NoCall
<1>1. /\ call[c].at = "done" /\ call' = [call EXCEPT ![c] = e]
      /\ circuit' = "closed" /\ failures' = 0
      /\ UNCHANGED <<cooled, prim, fall, disk, torn, opened, writes, others, restarts, acked, solo, clean>>
 BY DEF FS!RecordSuccess, FS!recordSuccess, FS!stores, FS!ghosts
<1>2. FS!TypeOK /\ call \in [Goroutines -> Calls] /\ call[c] \in Calls /\ solo \subseteq StoreKeys
 BY DEF StoreInv, FS!TypeOK, Calls
<1>3. /\ e \in Calls /\ e.op \in {call[c].op, "none"} /\ (e.key = call[c].key \/ e.op = "none")
      /\ e.op # "none" => e.op = "set" /\ e.at = "through" /\ e.ver = call[c].ver
      /\ call[c].op = "set" => e.op = "set"
      /\ e.at \in {"through", "idle"}
 <2>1. CASE call[c].op = "set"
  <3>1. e = [call[c] EXCEPT !.at = "through"] BY <2>1
  <3> HIDE DEF e
  <3> QED BY <1>2, <2>1, <3>1 DEF Calls, FS!Places
 <2>2. CASE call[c].op # "set" BY <2>2, NoCallIs
 <2> QED BY <2>1, <2>2
<1> HIDE DEF e
<1>4. Moved(c, e) BY <1>1, <1>3, CallMoves
<1>5. FS!CircuitMatchesFailures' /\ failures' \in 0..FailureThreshold
 BY <1>1, StoreConstants DEF FS!CircuitMatchesFailures
<1>6. FS!TypeOK' BY <1>1, <1>2, <1>4, <1>5 DEF FS!TypeOK, Calls
<1>7. \A d \in Goroutines, q \in StoreKeys : Sets(d, q)' <=> Sets(d, q)
 <2>1. \A q \in StoreKeys : Sets(c, q) => call[c].op = "set" BY DEF Sets
 <2>2. call[c].op = "set" => e.op # "none" BY <1>3
 <2> QED BY <1>4, <2>1, <2>2
<1>8. \A d \in Goroutines, q \in StoreKeys : Sets(d, q) =>
          /\ call'[d].ver = call[d].ver
          /\ call'[d].at = call[d].at \/ (call[d].at = "done" /\ call'[d].at = "through")
 <2>1. ASSUME NEW d \in Goroutines, NEW q \in StoreKeys, Sets(d, q)
       PROVE  /\ call'[d].ver = call[d].ver
              /\ call'[d].at = call[d].at \/ (call[d].at = "done" /\ call'[d].at = "through")
  <3>1. CASE d = c BY <1>1, <1>3, <1>4, <2>1, <3>1 DEF Sets
  <3>2. CASE d # c BY <1>4, <3>2
  <3> QED BY <3>1, <3>2
 <2> QED BY <2>1
<1>9. ASSUME NEW q \in solo PROVE Versions(q)'
 <2>1. q \in StoreKeys /\ Versions(q) BY <1>2 DEF StoreInv
 <2>2. \A d \in Goroutines : Sets(d, q)' => There(d, q) BY <1>1, <1>7, <1>8, <2>1 DEF Versions
 <2>3. prim' \in [StoreKeys -> FS!Pattern] /\ fall' \in [StoreKeys -> FS!Pattern]
       /\ disk' \in [StoreKeys -> FS!Pattern] /\ acked' \in [StoreKeys -> 0..MaxWrites] BY <1>1, <1>2 DEF FS!TypeOK
 <2> QED BY <1>1, <1>4, <2>1, <2>2, <2>3, VersionsKeep
<1>10. ASSUME NEW q \in clean \cap solo PROVE Through(q)'
 <2>1. q \in StoreKeys /\ Through(q) BY <1>2 DEF StoreInv
 <2>2. \A d \in Goroutines : call'[d].key = q => call'[d].op # "adjust" BY <1>3, <1>4, <2>1 DEF Through
 <2>3. ASSUME NEW d \in Goroutines
       PROVE  /\ Sets(d, q)' <=> Sets(d, q)
              /\ Sets(d, q) => Onward(d) BY <1>7, <1>8, <2>1 DEF Through, Onward
 <2> QED BY <1>1, <2>2, <2>3, ThroughKeeps
<1>11. FileLock'
 <2>1. ~FS!Saving(c) /\ ~FS!Saving(c)' BY <1>1, <1>3, <1>4 DEF FS!Saving
 <2> QED BY <1>1, <1>4, <2>1, LockKeeps, CallIsOpened
<1> QED BY <1>1, <1>5, <1>6, <1>9, <1>10, <1>11 DEF StoreInv

LEMMA StoreTypes == ASSUME StoreInv, NEW c \in Goroutines
  PROVE  /\ FS!TypeOK /\ FS!CircuitMatchesFailures /\ call \in [Goroutines -> Calls] /\ call[c] \in Calls
         /\ prim \in [StoreKeys -> FS!Pattern] /\ fall \in [StoreKeys -> FS!Pattern]
         /\ disk \in [StoreKeys -> FS!Pattern] /\ acked \in [StoreKeys -> 0..MaxWrites]
         /\ solo \subseteq StoreKeys /\ call[c].key \in StoreKeys /\ call[c].ver \in 0..MaxWrites
         /\ \A q \in solo : Versions(q) /\ q \in StoreKeys
         /\ \A q \in clean \cap solo : Through(q) /\ Versions(q) /\ q \in StoreKeys
BY DEF StoreInv, FS!TypeOK, Calls

\* What a Set tells its caller.
LEMMA AckedIs == ASSUME StoreInv, NEW c \in Goroutines, NEW good \in BOOLEAN, acked' = FS!Acked(call[c], good)
  PROVE  /\ acked' \in [StoreKeys -> 0..MaxWrites]
         /\ \A k \in StoreKeys : acked'[k] = acked[k]
               \/ /\ Sets(c, k) /\ acked'[k] = call[c].ver
                  /\ good \/ call[c].at \in {"through", "writeThrough"}
<1>1. CASE acked' = acked BY <1>1, StoreTypes
<1>2. CASE acked' # acked
 <2>1. /\ call[c].op = "set" /\ (good \/ call[c].at \in {"through", "writeThrough"})
       /\ acked' = [acked EXCEPT ![call[c].key] = call[c].ver] BY <1>2 DEF FS!Acked
 <2> QED BY <2>1, StoreTypes DEF Sets
<1> QED BY <1>1, <1>2

LEMMA FallbackReadsKeeps == ASSUME StoreInv, NEW c \in Goroutines, FS!FallbackReads(c) PROVE StoreInv'
<1>1. /\ call[c].at = "fallback" /\ call[c].op # "set" /\ call' = [call EXCEPT ![c] = FS!NoCall]
      /\ UNCHANGED <<circuit, failures, cooled, prim, fall, disk, torn, opened, writes, others, restarts, acked, solo,
                     clean>> BY DEF FS!FallbackReads, FS!breaker, FS!stores, FS!ghosts
<1>2. /\ call' \in [Goroutines -> Calls] /\ call'[c] = FS!NoCall
      /\ \A d \in Goroutines : d # c => call'[d] = call[d] BY <1>1, NoCallIs, CallMoves
<1>3. \A d \in Goroutines, q \in StoreKeys : (Sets(d, q)' <=> Sets(d, q)) /\ (Sets(d, q) => d # c)
 BY <1>1, <1>2, NoCallIs DEF Sets
<1>4. FS!TypeOK' /\ FS!CircuitMatchesFailures'
 BY <1>1, <1>2, StoreTypes DEF FS!TypeOK, FS!CircuitMatchesFailures, Calls
<1>5. ASSUME NEW q \in solo PROVE Versions(q)'
 <2>1. q \in StoreKeys /\ Versions(q) BY StoreTypes
 <2> QED BY <1>1, <1>2, <1>3, <2>1 DEF Versions, Kept_
<1>6. ASSUME NEW q \in clean \cap solo PROVE Through(q)'
 <2>1. q \in StoreKeys /\ Through(q) BY StoreTypes
 <2>2. \A d \in Goroutines : call'[d].key = q => call'[d].op # "adjust" BY <1>2, <2>1, NoCallIs DEF Through
 <2>3. ASSUME NEW d \in Goroutines PROVE (Sets(d, q)' <=> Sets(d, q)) /\ (Sets(d, q) => Onward(d))
  BY <1>2, <1>3, <2>1 DEF Through, Onward
 <2> QED BY <1>1, <2>2, <2>3, ThroughKeeps
<1>7. FileLock'
 <2>1. ~FS!Saving(c) /\ ~FS!Saving(c)' BY <1>1, <1>2, NoCallIs DEF FS!Saving
 <2> QED BY <1>1, <1>2, <2>1, LockKeeps, CallIsOpened
<1> QED BY <1>1, <1>4, <1>5, <1>6, <1>7 DEF StoreInv

LEMMA FallbackWritesKeeps == ASSUME StoreInv, NEW c \in Goroutines, FS!FallbackWrites(c) PROVE StoreInv'
<1> DEFINE w == [call[c] EXCEPT !.at = IF call[c].at = "through" THEN "writeThrough" ELSE "write"]
<1>1. /\ call[c].at \in {"fallback", "through"} /\ call[c].op \in {"set", "adjust"}
      /\ \A d \in Goroutines : ~FS!Saving(d)
      /\ fall' = FS!Applied(call[c], fall)
      /\ UNCHANGED <<circuit, failures, cooled, prim, disk, opened, writes, others, restarts, solo, clean>>
 BY DEF FS!FallbackWrites, FS!breaker, FS!Unlocked
<1>2. /\ FS!TypeOK /\ FS!CircuitMatchesFailures /\ call[c] \in Calls
      /\ prim \in [StoreKeys -> FS!Pattern] /\ fall \in [StoreKeys -> FS!Pattern]
      /\ disk \in [StoreKeys -> FS!Pattern] /\ acked \in [StoreKeys -> 0..MaxWrites] BY StoreTypes
<1>3. /\ w \in Calls /\ w.op = call[c].op /\ w.key = call[c].key /\ w.ver = call[c].ver
      /\ w.at = IF call[c].at = "through" THEN "writeThrough" ELSE "write" BY <1>2 DEF Calls, FS!Places
<1>4. PICK e \in Calls :
         /\ call' = [call EXCEPT ![c] = e]
         /\ \/ e = w /\ torn' = TRUE /\ acked' = acked
            \/ e = FS!NoCall /\ torn' = torn /\ acked' = FS!Acked(call[c], FALSE)
 <2>1. \/ call' = [call EXCEPT ![c] = w] /\ torn' = TRUE /\ acked' = acked
       \/ call' = [call EXCEPT ![c] = FS!NoCall] /\ torn' = torn /\ acked' = FS!Acked(call[c], FALSE)
  BY DEF FS!FallbackWrites
 <2> HIDE DEF w
 <2> QED BY <1>3, <2>1, NoCallIs
<1> HIDE DEF w
<1>5. /\ e.op \in {call[c].op, "none"} /\ (e.key = call[c].key \/ e.op = "none")
      /\ e.op # "none" => e = w /\ e.ver = call[c].ver
      /\ e = w => e.op # "none" BY <1>1, <1>3, <1>4, NoCallIs
<1>6. Moved(c, e) BY <1>4, <1>5, CallMoves
<1>7. /\ fall' \in [StoreKeys -> FS!Pattern]
      /\ \A k \in StoreKeys :
            /\ Sets(c, k) => fall'[k] = [ver |-> call[c].ver, changed |-> FALSE]
            /\ ~Sets(c, k) => fall'[k].ver = fall[k].ver
            /\ ~Sets(c, k) /\ ~(call[c].op = "adjust" /\ call[c].key = k) => fall'[k] = fall[k]
 BY <1>1, <1>2, AppliedIs DEF Sets
<1>8. /\ acked' \in [StoreKeys -> 0..MaxWrites]
      /\ \A k \in StoreKeys : acked'[k] = acked[k]
            \/ (Sets(c, k) /\ acked'[k] = call[c].ver /\ call[c].at = "through")
 <2>1. CASE acked' = acked BY <1>2, <2>1
 <2>2. CASE acked' = FS!Acked(call[c], FALSE) BY <1>1, <2>2, AckedIs
 <2> QED BY <1>4, <2>1, <2>2
<1>9. torn' \in BOOLEAN BY <1>2, <1>4 DEF FS!TypeOK
<1>10. FS!TypeOK' /\ FS!CircuitMatchesFailures'
 BY <1>1, <1>2, <1>6, <1>7, <1>8, <1>9 DEF FS!TypeOK, FS!CircuitMatchesFailures, Calls
<1>11. ASSUME NEW q \in solo PROVE Versions(q)'
 <2>1. q \in StoreKeys /\ Versions(q) BY StoreTypes
 <2>2. ASSUME NEW d \in Goroutines, Sets(d, q)' PROVE  There(d, q)
  <3>1. Sets(d, q) /\ call'[d].ver = call[d].ver BY <1>6, <2>1, <2>2
  <3>2. CASE d = c
   <4>1. e = w /\ fall'[q].ver = call[c].ver BY <1>5, <1>6, <1>7, <2>1, <2>2, <3>1, <3>2
   <4>2. call[c].at = "through" => prim[q].ver = call[c].ver BY <2>1, <3>1, <3>2 DEF Versions
   <4> QED BY <1>1, <1>3, <1>6, <3>1, <3>2, <4>1, <4>2
  <3>3. CASE d # c BY <1>1, <1>6, <2>1, <3>1, <3>3 DEF Versions, FS!Saving
  <3> QED BY <3>2, <3>3
 <2>3. fall'[q].ver = fall[q].ver \/ \E d \in Goroutines : Sets(d, q) /\ fall'[q].ver = call[d].ver BY <1>7, <2>1
 <2>4. /\ prim[q].ver \in Nat /\ fall[q].ver \in Nat /\ disk[q].ver \in Nat /\ acked[q] \in Nat
       /\ fall'[q].ver \in Nat /\ call[c].ver \in Nat BY <1>2, <1>7, <2>1, StoreConstants DEF FS!Pattern, Calls
 <2>5. fall'[q].ver >= fall[q].ver
  <3>1. Sets(c, q) => fall[q].ver <= call[c].ver BY <2>1 DEF Versions
  <3> QED BY <1>7, <2>1, <2>4, <3>1
 <2>6. Kept_(q)'
  <3>1. CASE acked'[q] = acked[q]
   <4>1. /\ opened => prim[q].ver >= acked[q] \/ fall[q].ver >= acked[q]
         /\ ~torn => prim[q].ver >= acked[q] \/ disk[q].ver >= acked[q] BY <2>1 DEF Versions, Kept_
   <4>2. fall[q].ver >= acked[q] => fall'[q].ver >= acked[q] BY <2>4, <2>5
   <4>3. ~torn' => ~torn BY <1>4
   <4> QED BY <1>1, <3>1, <4>1, <4>2, <4>3 DEF Kept_
  <3>2. CASE acked'[q] # acked[q]
   <4>1. Sets(c, q) /\ acked'[q] = call[c].ver /\ call[c].at = "through" BY <1>8, <2>1, <3>2
   <4>2. prim[q].ver = acked'[q] BY <2>1, <4>1 DEF Versions
   <4>3. prim'[q].ver >= acked'[q] BY <1>1, <2>4, <4>2
   <4> QED BY <4>3 DEF Kept_
  <3> QED BY <3>1, <3>2
 <2>7. acked'[q] = acked[q] \/ \E d \in Goroutines : Sets(d, q) /\ acked'[q] = call[d].ver BY <1>8, <2>1
 <2> QED BY <1>1, <1>2, <1>6, <1>7, <1>8, <2>1, <2>2, <2>3, <2>6, <2>7, VersionsKeep
<1>12. ASSUME NEW q \in clean \cap solo PROVE Through(q)'
 <2>1. q \in StoreKeys /\ Through(q) /\ Versions(q) BY StoreTypes
 <2>2. \A d \in Goroutines : call'[d].key = q => call'[d].op # "adjust"
  <3>1. e.key = q => e.op # "adjust"
   <4>1. call[c].key = q => call[c].op # "adjust" BY <2>1 DEF Through
   <4> QED BY <1>5, <4>1
  <3> QED BY <1>6, <2>1, <3>1 DEF Through
 <2>3. CASE Sets(c, q)
  <3>1. call[c].at = "through" /\ prim'[q] = fall'[q] /\ prim'[q] = [ver |-> call[c].ver, changed |-> FALSE]
   BY <1>1, <1>7, <2>1, <2>3 DEF Through
  <3>2. \A d \in Goroutines : Sets(d, q)' => d = c /\ e = w BY <1>5, <1>6, <2>1, <2>3 DEF Versions
  <3>3. e = w => call'[c].at = "writeThrough" /\ call'[c].ver = call[c].ver BY <1>3, <1>6, <3>1
  <3> QED BY <2>2, <3>1, <3>2, <3>3 DEF Through
 <2>4. CASE ~Sets(c, q)
  <3>1. fall'[q] = fall[q] BY <1>7, <2>1, <2>4 DEF Through
  <3>2. ASSUME NEW d \in Goroutines PROVE (Sets(d, q)' <=> Sets(d, q)) /\ (Sets(d, q) => Onward(d))
   <4>1. CASE d = c BY <1>6, <2>1, <2>4, <4>1
   <4>2. CASE d # c BY <1>6, <2>1, <4>2 DEF Through, Onward
   <4> QED BY <4>1, <4>2
  <3> QED BY <1>1, <2>2, <3>1, <3>2, ThroughKeeps
 <2> QED BY <2>3, <2>4
<1>13. FileLock'
 <2>1. \A d \in Goroutines : FS!Saving(d)' => d = c /\ call'[c].at # "idle" BY <1>1, <1>6 DEF FS!Saving
 <2>2. FS!Saving(c)' => torn' /\ call'[c].op \in {"set", "adjust"} BY <1>1, <1>3, <1>4, <1>6, NoCallIs DEF FS!Saving
 <2>3. opened' BY <1>1, CallIsOpened
 <2> QED BY <2>1, <2>2, <2>3 DEF FileLock
<1> QED BY <1>1, <1>10, <1>11, <1>12, <1>13 DEF StoreInv

LEMMA SaveKeeps == ASSUME StoreInv, NEW c \in Goroutines, FS!saveToDisk(c) PROVE StoreInv'
<1>1. /\ call[c].at \in {"write", "writeThrough"} /\ call' = [call EXCEPT ![c] = FS!NoCall]
      /\ UNCHANGED <<circuit, failures, cooled, prim, fall, opened, writes, others, restarts, solo, clean>>
 BY DEF FS!saveToDisk, FS!Saving, FS!breaker
<1>2. PICK good \in BOOLEAN :
         torn' = ~good /\ disk' = (IF good THEN fall ELSE disk) /\ acked' = FS!Acked(call[c], good)
 BY Zenon DEF FS!saveToDisk
<1>3. /\ opened /\ call[c].op \in {"set", "adjust"}
      /\ \A d \in Goroutines : FS!Saving(d) => d = c BY <1>1 DEF StoreInv, FileLock, FS!Saving
<1>4. /\ FS!TypeOK /\ FS!CircuitMatchesFailures
      /\ prim \in [StoreKeys -> FS!Pattern] /\ fall \in [StoreKeys -> FS!Pattern]
      /\ disk' \in [StoreKeys -> FS!Pattern] BY <1>2, StoreTypes
<1>5. Moved(c, FS!NoCall) BY <1>1, NoCallIs, CallMoves
<1>6. /\ acked' \in [StoreKeys -> 0..MaxWrites]
      /\ \A k \in StoreKeys : acked'[k] = acked[k]
            \/ (Sets(c, k) /\ acked'[k] = call[c].ver) BY <1>2, AckedIs
<1>7. torn' \in BOOLEAN BY <1>2
<1>8. FS!TypeOK' /\ FS!CircuitMatchesFailures'
 BY <1>1, <1>4, <1>5, <1>6, <1>7 DEF FS!TypeOK, FS!CircuitMatchesFailures, Calls
<1>9. ASSUME NEW q \in solo PROVE Versions(q)'
 <2>1. q \in StoreKeys /\ Versions(q) BY StoreTypes
 <2>2. ASSUME NEW d \in Goroutines, Sets(d, q)' PROVE  There(d, q)
  <3>1. d # c /\ Sets(d, q) /\ call'[d] = call[d] BY <1>5, <2>1, <2>2, NoCallIs
  <3> QED BY <1>1, <2>1, <3>1 DEF Versions
 <2>3. disk'[q].ver \in {disk[q].ver, fall[q].ver} BY <1>2
 <2>4. acked'[q] = acked[q] \/ \E d \in Goroutines : Sets(d, q) /\ acked'[q] = call[d].ver BY <1>6, <2>1
 <2>5. prim[q].ver >= acked'[q] \/ fall[q].ver >= acked'[q]
  <3>1. CASE acked'[q] = acked[q] BY <1>3, <2>1, <3>1 DEF Versions, Kept_
  <3>2. CASE acked'[q] # acked[q]
   <4>1. fall[q].ver = acked'[q] BY <1>1, <1>6, <2>1, <3>2 DEF Versions
   <4>2. acked'[q] \in Nat BY <1>6, <2>1, StoreConstants
   <4> QED BY <4>1, <4>2
  <3> QED BY <3>1, <3>2
 <2>6. ~torn' => disk' = fall BY <1>2
 <2>7. Kept_(q)' BY <1>1, <2>5, <2>6 DEF Kept_
 <2> QED BY <1>1, <1>4, <1>5, <1>6, <2>1, <2>2, <2>3, <2>4, <2>7, VersionsKeep
<1>10. ASSUME NEW q \in clean \cap solo PROVE Through(q)'
 <2>1. q \in StoreKeys /\ Through(q) /\ Versions(q) BY StoreTypes
 <2>2. \A d \in Goroutines : call'[d].key = q => call'[d].op # "adjust" BY <1>5, <2>1, NoCallIs DEF Through
 <2>3. CASE Sets(c, q)
  <3>1. \A d \in Goroutines : ~Sets(d, q)' BY <1>5, <2>1, <2>3, NoCallIs DEF Versions
  <3>2. prim'[q] = fall'[q] BY <1>1, <2>1, <2>3 DEF Through
  <3> QED BY <2>2, <3>1, <3>2 DEF Through
 <2>4. CASE ~Sets(c, q)
  <3>1. ASSUME NEW d \in Goroutines PROVE (Sets(d, q)' <=> Sets(d, q)) /\ (Sets(d, q) => Onward(d))
   <4>1. CASE d = c BY <1>5, <2>1, <2>4, <4>1
   <4>2. CASE d # c BY <1>5, <2>1, <4>2 DEF Through, Onward
   <4> QED BY <4>1, <4>2
  <3> QED BY <1>1, <2>2, <3>1, ThroughKeeps
 <2> QED BY <2>3, <2>4
<1>11. FileLock'
 <2>1. \A d \in Goroutines : ~FS!Saving(d)' BY <1>3, <1>5, NoCallIs DEF FS!Saving
 <2> QED BY <1>1, <1>3, <2>1 DEF FileLock
<1> QED BY <1>1, <1>8, <1>9, <1>10, <1>11 DEF StoreInv

LEMMA RestartKeeps == ASSUME StoreInv, FS!Restart PROVE StoreInv'
<1>1. /\ restarts < MaxRestarts /\ restarts' = restarts + 1 /\ circuit' = "closed" /\ failures' = 0 /\ cooled' = FALSE
      /\ opened' = ~torn /\ fall' = (IF torn THEN FS!Absent ELSE disk)
      /\ call' = [c \in Goroutines |-> FS!NoCall] /\ clean' = {}
      /\ UNCHANGED <<prim, disk, torn, writes, others, acked, solo>> BY DEF FS!Restart
<1>2. FS!TypeOK /\ solo \subseteq StoreKeys /\ restarts \in 0..MaxRestarts
      /\ disk \in [StoreKeys -> FS!Pattern] /\ writes \in 0..MaxWrites BY DEF StoreInv, FS!TypeOK
<1>3. restarts' \in 0..MaxRestarts /\ failures' \in 0..FailureThreshold /\ FS!CircuitMatchesFailures'
 BY <1>1, <1>2, StoreConstants DEF FS!CircuitMatchesFailures
<1>4. call' \in [Goroutines -> Calls] BY <1>1, NoCallIs
<1>5. fall' \in [StoreKeys -> FS!Pattern] BY <1>1, <1>2, AbsentIs
<1>6. opened' \in BOOLEAN BY <1>1
<1>7. FS!TypeOK' BY <1>1, <1>2, <1>3, <1>4, <1>5, <1>6 DEF FS!TypeOK, Calls
<1>8. \A c \in Goroutines : call'[c].op = "none" /\ call'[c].at = "idle" BY <1>1, NoCallIs
<1>9. \A c \in Goroutines, k \in StoreKeys : ~Sets(c, k)' BY <1>8 DEF Sets
<1>10. ASSUME NEW q \in solo PROVE Versions(q)'
 <2>1. q \in StoreKeys /\ Versions(q) BY <1>2 DEF StoreInv
 <2>2. writes \in Nat BY <1>2, StoreConstants
 <2>3. fall'[q].ver <= writes BY <1>1, <2>1, <2>2, AbsentIs DEF Versions
 <2>4. Kept_(q)' BY <1>1, <2>1 DEF Versions, Kept_
 <2> QED BY <1>1, <1>9, <2>1, <2>3, <2>4 DEF Versions
<1>11. FileLock' BY <1>1, <1>8 DEF FileLock, FS!Saving
<1> QED BY <1>1, <1>3, <1>7, <1>10, <1>11 DEF StoreInv

LEMMA StoreNext == ASSUME StoreInv, FS!Next PROVE StoreInv'
<1>1. CASE FS!HalfOpenTimeoutPasses BY <1>1, TimeoutKeeps
<1>2. CASE FS!Restart BY <1>2, RestartKeeps
<1>3. ASSUME NEW c \in Goroutines, NEW op \in FS!Ops, NEW k \in StoreKeys, FS!Begin(c, op, k) PROVE  StoreInv'
 BY <1>3, BeginKeeps
<1>4. ASSUME NEW c \in Goroutines,
             \/ FS!PrimaryAnswers(c) \/ FS!PrimaryFails(c) \/ FS!RecordFailure(c) \/ FS!RecordSuccess(c)
             \/ FS!FallbackReads(c) \/ FS!FallbackWrites(c) \/ FS!saveToDisk(c) PROVE  StoreInv'
 BY <1>4, PrimaryAnswersKeeps, PrimaryFailsKeeps, RecordFailureKeeps, RecordSuccessKeeps,
    FallbackReadsKeeps, FallbackWritesKeeps, SaveKeeps
<1> QED BY <1>1, <1>2, <1>3, <1>4 DEF FS!Next

LEMMA StoreHolds == StoreInv =>
  /\ FS!TypeOK /\ FS!CircuitMatchesFailures /\ FS!AckedIsStored /\ FS!ThroughKeepsAlike
<1> SUFFICES ASSUME StoreInv
             PROVE  FS!TypeOK /\ FS!CircuitMatchesFailures /\ FS!AckedIsStored /\ FS!ThroughKeepsAlike OBVIOUS
<1>1. FS!AckedIsStored BY DEF StoreInv, Versions, Kept_, FS!AckedIsStored
<1>2. ASSUME NEW k \in clean \cap solo, FS!Setting(k) = {} PROVE prim[k] = fall[k]
 <2>1. Through(k) BY DEF StoreInv
 <2>2. \A c \in Goroutines : ~Sets(c, k) BY <1>2 DEF FS!Setting, Sets
 <2> QED BY <2>1, <2>2 DEF Through
<1>3. FS!ThroughKeepsAlike BY <1>2 DEF FS!ThroughKeepsAlike
<1> QED BY <1>1, <1>3 DEF StoreInv

(* The budget: what was spent and what is owed for the calls under way together stay within the caps
   and one call of each of the other users. *)

LEMMA BudgetConstants ==
  /\ IsFiniteSet(Goroutines) /\ Goroutines # {} /\ DailyCap \in Nat /\ MonthlyCap \in Nat /\ MaxSelects \in Nat
  /\ Cardinality(Goroutines) \in Nat /\ Cardinality(Goroutines) >= 1
<1>1. /\ IsFiniteSet(Goroutines) /\ Goroutines # {} /\ DailyCap \in Nat /\ MonthlyCap \in Nat /\ MaxSelects \in Nat
 BY ToolkitAssumption, Cardinalities DEF BA!BudgetAssumption
<1>2. Cardinality(Goroutines) \in Nat /\ Cardinality(Goroutines) # 0 BY <1>1, FS_CardinalityType, FS_EmptySet
<1> QED BY <1>1, <1>2

\* A set of numbers that is finite has a largest one.
LEMMA Largest == ASSUME NEW S \in SUBSET Nat, IsFiniteSet(S), S # {} PROVE  \E n \in S : \A m \in S : n >= m
<1> DEFINE P == {k \in Nat : \A V \in SUBSET S : V # {} /\ Cardinality(V) = k => \E n \in V : \A m \in V : n >= m}
<1>1. 0 \in P
 <2>1. \A V \in SUBSET S : Cardinality(V) = 0 => V = {} BY FS_Subset, FS_EmptySet
 <2> QED BY <2>1
<1>2. ASSUME NEW k \in P PROVE k + 1 \in P
 <2>1. k + 1 \in Nat OBVIOUS
 <2>2. ASSUME NEW V \in SUBSET S, V # {}, Cardinality(V) = k + 1 PROVE \E n \in V : \A m \in V : n >= m
  <3>1. PICK x \in V : TRUE BY <2>2
  <3>2. IsFiniteSet(V) BY FS_Subset
  <3>3. Cardinality(V \ {x}) = k
   <4>1. k \in Nat /\ Cardinality(V \ {x}) = (k + 1) - 1 BY ZenonT(90), <2>2, <3>1, <3>2, FS_RemoveElement
   <4> QED BY <4>1
  <3>4. CASE V \ {x} = {}
   <4>1. \A m \in V : m = x BY <3>4
   <4> QED BY <3>1, <4>1
  <3>5. CASE V \ {x} # {}
   <4>1. PICK y \in V \ {x} : \A m \in V \ {x} : y >= m BY <3>3, <3>5
   <4>2. x \in Nat /\ y \in Nat /\ \A m \in V : m \in Nat /\ (m = x \/ m \in V \ {x}) BY <3>1
   <4>3. CASE x >= y BY <3>1, <4>1, <4>2, <4>3
   <4>4. CASE ~(x >= y) BY <4>1, <4>2, <4>4
   <4> QED BY <4>3, <4>4
  <3> QED BY <3>4, <3>5
 <2> QED BY <2>1, <2>2
<1>3. P = Nat
 <2>1. P \in SUBSET Nat OBVIOUS
 <2> HIDE DEF P
 <2> QED BY <1>1, <1>2, <2>1, Induction
<1> QED BY <1>3, FS_CardinalityType DEF P

LEMMA TierFacts == ASSUME tiers \in TierLists
  PROVE  /\ IsFiniteSet(DOMAIN tiers) /\ DOMAIN tiers \subseteq Nat \ {0}
         /\ \A t \in DOMAIN tiers :
               /\ tiers[t].cost \in Nat /\ tiers[t].cost <= BA!MaxCost
               /\ tiers[t].isLocal \in BOOLEAN /\ (tiers[t].isLocal => tiers[t].cost = 0)
         /\ BA!MaxCost \in Nat /\ Slack \in Nat
<1>1. /\ tiers \in Seq([cost : Nat, isLocal : BOOLEAN]) /\ tiers # <<>>
      /\ \A t \in DOMAIN tiers : tiers[t].isLocal => tiers[t].cost = 0 BY ToolkitAssumption DEF BA!BudgetAssumption
<1>2. /\ Len(tiers) \in Nat /\ DOMAIN tiers = 1..Len(tiers) /\ Len(tiers) >= 1
      /\ \A t \in DOMAIN tiers : tiers[t] \in [cost : Nat, isLocal : BOOLEAN]
 <2> DEFINE Tier == [cost : Nat, isLocal : BOOLEAN]
 <2>1. tiers \in Seq(Tier) /\ tiers # <<>> BY <1>1
 <2> HIDE DEF Tier
 <2>2. /\ Len(tiers) \in Nat /\ DOMAIN tiers = 1..Len(tiers) /\ Len(tiers) >= 1
       /\ \A t \in DOMAIN tiers : tiers[t] \in Tier BY <2>1, Elements, NonEmpty
 <2> QED BY <2>2 DEF Tier
<1>3. IsFiniteSet(DOMAIN tiers) /\ DOMAIN tiers \subseteq Nat \ {0} /\ 1 \in DOMAIN tiers
 <2>1. 1 \in Int /\ Len(tiers) \in Int /\ 1..Len(tiers) \subseteq Nat \ {0} /\ 1 \in 1..Len(tiers) BY <1>2
 <2>2. IsFiniteSet(1..Len(tiers)) BY <2>1, FS_Interval
 <2> QED BY <1>2, <2>1, <2>2
<1> DEFINE C == {tiers[t].cost : t \in DOMAIN tiers}
<1>4. IsFiniteSet(C)
 <2> DEFINE f == [t \in DOMAIN tiers |-> tiers[t].cost]
 <2>1. IsFiniteSet({f[t] : t \in DOMAIN tiers}) BY <1>3, Image
 <2>2. {f[t] : t \in DOMAIN tiers} = C OBVIOUS
 <2> QED BY <2>1, <2>2
<1>5. C \in SUBSET Nat /\ C # {} BY <1>2, <1>3
<1>6. PICK n \in C : \A m \in C : n >= m BY <1>4, <1>5, Largest
<1>7. BA!MaxCost = CHOOSE x \in C : \A y \in C : x >= y BY DEF BA!MaxCost, BA!Max, BA!Index
<1> HIDE DEF C
<1>8. BA!MaxCost \in C /\ \A y \in C : BA!MaxCost >= y BY <1>6, <1>7
<1>9. BA!MaxCost \in Nat BY <1>5, <1>8
<1>10. \A t \in DOMAIN tiers : tiers[t].cost \in Nat /\ tiers[t].cost <= BA!MaxCost BY <1>2, <1>8, <1>9 DEF C
<1>11. Slack \in Nat
 <2>1. Cardinality(Goroutines) - 1 \in Nat BY BudgetConstants
 <2> QED BY <1>9, <2>1 DEF Slack
<1> QED BY <1>1, <1>2, <1>3, <1>9, <1>10, <1>11

LEMMA OwedTypes == ASSUME BA!BudgetTypeOK
  PROVE  /\ Owed \in [Goroutines -> Nat] /\ Spent \in [DOMAIN tiers -> Nat]
         /\ Summed(Goroutines, Owed) \in Nat /\ Summed(DOMAIN tiers, Spent) \in Nat
         /\ \A u \in Goroutines : Owed[u] <= BA!MaxCost
         /\ BA!Pending = Summed(Goroutines, Owed)
<1>1. /\ tiers \in TierLists /\ chosen \in [Goroutines -> DOMAIN tiers \cup {0}]
      /\ counts \in [DOMAIN tiers -> Nat] BY DEF BA!BudgetTypeOK, BA!Index
<1>2. /\ IsFiniteSet(DOMAIN tiers) /\ BA!MaxCost \in Nat
      /\ \A t \in DOMAIN tiers : tiers[t].cost \in Nat /\ tiers[t].cost <= BA!MaxCost BY <1>1, TierFacts
<1>3. \A t \in DOMAIN tiers : counts[t] * tiers[t].cost \in Nat BY <1>1, <1>2
<1>4. Owed \in [Goroutines -> Nat] /\ \A u \in Goroutines : Owed[u] <= BA!MaxCost BY <1>1, <1>2 DEF Owed
<1>5. Spent \in [DOMAIN tiers -> Nat] BY <1>3 DEF Spent
<1>6. Summed(Goroutines, Owed) \in Nat /\ Summed(DOMAIN tiers, Spent) \in Nat
 BY <1>2, <1>4, <1>5, BudgetConstants, SummedNat
<1>7. BA!Pending = Summed(Goroutines, Owed)
 <2> DEFINE raw(iter) == [s \in SUBSET Goroutines |-> IF s = {} THEN 0
                    ELSE (IF chosen[CHOOSE x \in s : TRUE] = 0 THEN 0
                          ELSE tiers[chosen[CHOOSE x \in s : TRUE]].cost) + iter[s \ {CHOOSE x \in s : TRUE}]]
            it == CHOOSE iter : iter = raw(iter)
 <2>1. BA!Pending = it[Goroutines] BY DEF BA!Pending, BA!Sum
 <2>2. \A s \in SUBSET Goroutines : s # {} =>
          Owed[CHOOSE x \in s : TRUE] = IF chosen[CHOOSE x \in s : TRUE] = 0 THEN 0
                                        ELSE tiers[chosen[CHOOSE x \in s : TRUE]].cost BY DEF Owed
 <2>3. \A iter : Folds(Goroutines, Owed, iter) <=> iter = raw(iter) BY <2>2 DEF Folds
 <2> HIDE DEF raw
 <2>4. \E iter : iter = raw(iter) BY <1>4, <2>3, BudgetConstants, FoldExists
 <2>5. it = raw(it) BY <2>4
 <2> HIDE DEF it
 <2>6. it[Goroutines] = Summed(Goroutines, Owed) BY <1>4, <2>3, <2>5, BudgetConstants, FoldIs
 <2> QED BY <2>1, <2>6
<1> QED BY <1>4, <1>5, <1>6, <1>7

LEMMA BudgetInit == ASSUME BA!BudgetInit PROVE BudgetInv
<1>1. /\ tiers \in TierLists /\ daily = 0 /\ monthly = 0 /\ refused = FALSE /\ selects = 0
      /\ counts = [t \in DOMAIN tiers |-> 0] /\ chosen = [u \in Goroutines |-> 0]
      /\ prefer \in BOOLEAN /\ elapsed = FALSE BY DEF BA!BudgetInit, BA!Index
<1>2. BA!BudgetTypeOK
 <2>0. 0 \in 0..MaxSelects /\ 0 \in Nat BY BudgetConstants
 <2>1. 0 \in 0..MaxSelects /\ 0 \in Nat /\ refused \in BOOLEAN /\ elapsed \in BOOLEAN BY <1>1, <2>0
 <2>2. counts \in [DOMAIN tiers -> Nat] /\ chosen \in [Goroutines -> DOMAIN tiers \cup {0}] BY <1>1, <2>1
 <2> QED BY <1>1, <2>1, <2>2 DEF BA!BudgetTypeOK, BA!Index
<1>3. /\ IsFiniteSet(DOMAIN tiers) /\ Slack \in Nat /\ \A t \in DOMAIN tiers : tiers[t].cost \in Nat
 BY <1>1, TierFacts
<1>4. Owed \in [Goroutines -> Nat] /\ Spent \in [DOMAIN tiers -> Nat] BY <1>2, OwedTypes
<1>5. /\ \A u \in Goroutines : Owed[u] = 0
      /\ \A t \in DOMAIN tiers : Spent[t] = 0
 <2>1. \A t \in DOMAIN tiers : 0 * tiers[t].cost = 0 BY <1>3
 <2> QED BY <1>1, <2>1 DEF Owed, Spent
<1>6. Summed(Goroutines, Owed) = 0 BY <1>4, <1>5, BudgetConstants, SummedZero
<1>7. Summed(DOMAIN tiers, Spent) = 0 BY <1>3, <1>4, <1>5, SummedZero
<1> QED BY <1>1, <1>2, <1>3, <1>6, <1>7, BudgetConstants DEF BudgetInv, BA!LocalNeverRefuses

LEMMA BudgetRests == ASSUME BudgetInv, UNCHANGED budgetVars PROVE BudgetInv'
<1>1. /\ UNCHANGED <<tiers, prefer, daily, monthly, elapsed, counts, chosen, refused, selects>> BY DEF budgetVars
<1>2. Owed' = Owed /\ Spent' = Spent /\ BA!MaxCost' = BA!MaxCost /\ BA!Index' = BA!Index
 BY <1>1 DEF Owed, Spent, BA!MaxCost, BA!Index
<1>3. Slack' = Slack /\ Summed(Goroutines, Owed)' = Summed(Goroutines, Owed)
      /\ Summed(DOMAIN tiers, Spent)' = Summed(DOMAIN tiers, Spent) BY <1>1, <1>2 DEF Slack, Summed
<1> QED BY <1>1, <1>2, <1>3 DEF BudgetInv, BA!BudgetTypeOK, BA!LocalNeverRefuses

LEMMA IntervalPassesKeeps == ASSUME BudgetInv, BA!IntervalPasses PROVE  BudgetInv'
<1>1. /\ elapsed' = TRUE /\ UNCHANGED <<tiers, prefer, daily, monthly, counts, chosen, refused, selects>>
 BY DEF BA!IntervalPasses
<1>2. Owed' = Owed /\ Spent' = Spent /\ BA!MaxCost' = BA!MaxCost /\ BA!Index' = BA!Index
 BY <1>1 DEF Owed, Spent, BA!MaxCost, BA!Index
<1>3. Slack' = Slack /\ Summed(Goroutines, Owed)' = Summed(Goroutines, Owed)
      /\ Summed(DOMAIN tiers, Spent)' = Summed(DOMAIN tiers, Spent) BY <1>1, <1>2 DEF Slack, Summed
<1> QED BY <1>1, <1>2, <1>3 DEF BudgetInv, BA!BudgetTypeOK, BA!LocalNeverRefuses

\* A tier that is affordable leaves room for what the others owe.
LEMMA SelectTierKeeps == ASSUME BudgetInv, NEW u \in Goroutines, BA!SelectTier(u) PROVE  BudgetInv'
<1> DEFINE viable == {t \in DOMAIN tiers : (prefer /\ tiers[t].isLocal) \/ BA!canAfford(t, daily')}
           c == chosen'[u]
<1>1. BA!BudgetTypeOK BY DEF BudgetInv
<1>2. /\ chosen[u] = 0 /\ selects < MaxSelects /\ selects' = selects + 1
      /\ daily' = (IF elapsed THEN 0 ELSE daily) /\ elapsed' = FALSE
      /\ chosen' = [chosen EXCEPT ![u] = IF viable = {} THEN 0 ELSE BA!Min(viable)]
      /\ refused' = (viable = {}) /\ UNCHANGED <<tiers, prefer, monthly, counts>>
 BY DEF BA!SelectTier, BA!maybeReset, BA!Index
<1>3. /\ tiers \in TierLists /\ chosen \in [Goroutines -> DOMAIN tiers \cup {0}]
      /\ daily \in Nat /\ monthly \in Nat /\ selects \in 0..MaxSelects /\ prefer \in BOOLEAN
 BY <1>1 DEF BA!BudgetTypeOK, BA!Index
<1>4. /\ DOMAIN tiers \subseteq Nat \ {0} /\ BA!MaxCost \in Nat /\ Slack \in Nat
      /\ \A t \in DOMAIN tiers :
            /\ tiers[t].cost \in Nat /\ tiers[t].cost <= BA!MaxCost
            /\ (tiers[t].isLocal => tiers[t].cost = 0) BY <1>3, TierFacts
<1> HIDE DEF viable
<1>5. c = (IF viable = {} THEN 0 ELSE BA!Min(viable)) BY <1>2, <1>3
<1>6. (c = 0 /\ viable = {}) \/ c \in viable
 <2>1. ASSUME viable # {} PROVE BA!Min(viable) \in viable
  <3>1. viable \in SUBSET Nat BY <1>4 DEF viable
  <3>2. \E n \in viable : \A m \in viable : n <= m BY <2>1, <3>1, Least
  <3> QED BY <3>2 DEF BA!Min
 <2> QED BY <1>5, <2>1
<1>7. viable \subseteq DOMAIN tiers BY DEF viable
<1>8. daily' \in Nat /\ daily' <= daily BY <1>2, <1>3
<1>9. BA!BudgetTypeOK'
 <2>1. BA!Index' = BA!Index BY <1>2 DEF BA!Index
 <2>2. chosen' \in [Goroutines -> DOMAIN tiers \cup {0}] BY <1>2, <1>3, <1>5, <1>6, <1>7
 <2>3. selects' \in 0..MaxSelects BY <1>2, <1>3, BudgetConstants
 <2>4. elapsed' \in BOOLEAN /\ refused' \in BOOLEAN BY <1>2
 <2> QED BY <1>1, <1>2, <1>8, <2>1, <2>2, <2>3, <2>4 DEF BA!BudgetTypeOK, BA!Index
<1> DEFINE w == Owed
           v == Owed'
<1>10. /\ w \in [Goroutines -> Nat] /\ Summed(Goroutines, w) \in Nat
       /\ \A q \in Goroutines : w[q] <= BA!MaxCost BY <1>1, OwedTypes
<1>11. v = [q \in Goroutines |-> IF chosen'[q] = 0 THEN 0 ELSE tiers[chosen'[q]].cost] BY <1>2 DEF Owed
<1>12. w[u] = 0 /\ \A q \in Goroutines : q # u => v[q] = w[q] BY <1>2, <1>3, <1>11 DEF Owed
<1>13. v[u] = IF c = 0 THEN 0 ELSE tiers[c].cost BY <1>11
<1>14. v \in [Goroutines -> Nat]
 <2>1. v[u] \in Nat BY <1>4, <1>6, <1>7, <1>13
 <2>2. \A q \in Goroutines : v[q] \in Nat BY <1>10, <1>12, <2>1
 <2> QED BY <1>11, <2>2
<1> HIDE DEF w, v
<1>15. Summed(Goroutines, v) = Summed(Goroutines, w) + v[u] /\ Summed(Goroutines, v) \in Nat
 <2>1. /\ Summed(Goroutines, v) \in Nat /\ Summed(Goroutines, v) + w[u] = Summed(Goroutines, w) + v[u]
  BY <1>10, <1>12, <1>14, BudgetConstants, SummedMoves
 <2> QED BY <1>12, <2>1
<1>16. Summed(Goroutines, w) <= Slack BY <1>4, <1>10, <1>12, BudgetConstants, SummedBounded DEF Slack
<1>17. /\ daily + Summed(Goroutines, w) <= DailyCap + Slack
       /\ monthly + Summed(Goroutines, w) <= MonthlyCap + Slack /\ monthly = Summed(DOMAIN tiers, Spent)
 BY DEF BudgetInv, w
<1>18. /\ daily' + Summed(Goroutines, v) <= DailyCap + Slack /\ monthly + Summed(Goroutines, v) <= MonthlyCap + Slack
 <2>1. CASE v[u] = 0 BY <1>3, <1>4, <1>8, <1>10, <1>15, <1>17, <2>1, BudgetConstants
 <2>2. CASE v[u] # 0
  <3>1. c \in viable /\ v[u] = tiers[c].cost /\ c \in DOMAIN tiers BY <1>6, <1>7, <1>13, <2>2
  <3>2. ~tiers[c].isLocal BY <1>4, <2>2, <3>1
  <3>3. daily' + v[u] <= DailyCap /\ monthly + v[u] <= MonthlyCap BY <3>1, <3>2 DEF viable, BA!canAfford
  <3>4. v[u] \in Nat BY <1>14
  <3> QED BY <1>3, <1>4, <1>8, <1>10, <1>15, <1>16, <3>3, <3>4, BudgetConstants
 <2> QED BY <2>1, <2>2
<1>19. BA!LocalNeverRefuses'
 <2>1. ASSUME viable = {}, NEW t \in DOMAIN tiers PROVE ~tiers[t].isLocal BY <2>1 DEF viable, BA!canAfford
 <2>2. BA!Index' = DOMAIN tiers BY <1>2 DEF BA!Index
 <2> QED BY <1>2, <2>1, <2>2 DEF BA!LocalNeverRefuses
<1>20. BA!MaxCost' = BA!MaxCost /\ Spent' = Spent BY <1>2 DEF BA!MaxCost, BA!Index, Spent
<1>21. Slack' = Slack /\ Summed(Goroutines, Owed)' = Summed(Goroutines, v)
       /\ Summed(DOMAIN tiers, Spent)' = Summed(DOMAIN tiers, Spent) BY <1>2, <1>20 DEF Slack, Summed, v
<1> QED BY <1>2, <1>9, <1>17, <1>18, <1>19, <1>21 DEF BudgetInv

LEMMA RecordCallKeeps == ASSUME BudgetInv, NEW u \in Goroutines, BA!RecordCall(u) PROVE  BudgetInv'
<1> DEFINE t == chosen[u]
           w == Owed
           v == Owed'
           y == Spent
           z == Spent'
<1>1. BA!BudgetTypeOK BY DEF BudgetInv
<1>2. /\ t # 0 /\ daily' = daily + tiers[t].cost /\ monthly' = monthly + tiers[t].cost
      /\ counts' = [counts EXCEPT ![t] = @ + 1] /\ chosen' = [chosen EXCEPT ![u] = 0]
      /\ UNCHANGED <<tiers, prefer, elapsed, refused, selects>> BY DEF BA!RecordCall
<1>3. /\ tiers \in TierLists /\ chosen \in [Goroutines -> DOMAIN tiers \cup {0}]
      /\ daily \in Nat /\ monthly \in Nat /\ counts \in [DOMAIN tiers -> Nat] /\ t \in DOMAIN tiers
 BY <1>1, <1>2 DEF BA!BudgetTypeOK, BA!Index
<1>4. /\ IsFiniteSet(DOMAIN tiers) /\ BA!MaxCost \in Nat /\ Slack \in Nat
      /\ \A s \in DOMAIN tiers : tiers[s].cost \in Nat BY <1>3, TierFacts
<1>5. BA!BudgetTypeOK'
 <2>1. BA!Index' = BA!Index BY <1>2 DEF BA!Index
 <2>2. chosen' \in [Goroutines -> DOMAIN tiers \cup {0}] /\ counts' \in [DOMAIN tiers -> Nat] BY <1>2, <1>3
 <2>3. daily' \in Nat /\ monthly' \in Nat BY <1>2, <1>3, <1>4
 <2> QED BY <1>1, <1>2, <2>1, <2>2, <2>3 DEF BA!BudgetTypeOK, BA!Index
<1>6. /\ w \in [Goroutines -> Nat] /\ Summed(Goroutines, w) \in Nat
      /\ y \in [DOMAIN tiers -> Nat] /\ Summed(DOMAIN tiers, y) \in Nat BY <1>1, OwedTypes
<1>7. /\ v = [q \in Goroutines |-> IF chosen'[q] = 0 THEN 0 ELSE tiers[chosen'[q]].cost]
      /\ z = [s \in DOMAIN tiers |-> counts'[s] * tiers[s].cost] BY <1>2 DEF Owed, Spent
<1>8. /\ w[u] = tiers[t].cost /\ v[u] = 0
      /\ \A q \in Goroutines : q # u => v[q] = w[q] BY <1>2, <1>3, <1>7 DEF Owed
<1>9. /\ z[t] = y[t] + tiers[t].cost
      /\ \A s \in DOMAIN tiers : s # t => z[s] = y[s]
 <2>1. counts'[t] = counts[t] + 1 /\ \A s \in DOMAIN tiers : s # t => counts'[s] = counts[s] BY <1>2, <1>3
 <2>2. counts[t] \in Nat /\ tiers[t].cost \in Nat BY <1>3, <1>4
 <2>3. (counts[t] + 1) * tiers[t].cost = counts[t] * tiers[t].cost + tiers[t].cost BY <2>2
 <2>4. z[t] = (counts[t] + 1) * tiers[t].cost /\ y[t] = counts[t] * tiers[t].cost BY <1>3, <1>7, <2>1 DEF Spent
 <2>5. \A s \in DOMAIN tiers : s # t => z[s] = y[s] BY <1>7, <2>1 DEF Spent
 <2> QED BY <2>3, <2>4, <2>5
<1>10. v \in [Goroutines -> Nat] /\ z \in [DOMAIN tiers -> Nat]
 <2>1. \A q \in Goroutines : v[q] \in Nat BY <1>6, <1>8
 <2>2. \A s \in DOMAIN tiers : z[s] \in Nat BY <1>3, <1>4, <1>6, <1>9
 <2> QED BY <1>7, <2>1, <2>2
<1> HIDE DEF t, w, v, y, z
<1>11. /\ Summed(Goroutines, v) \in Nat /\ Summed(Goroutines, v) + w[u] = Summed(Goroutines, w) + v[u]
 BY <1>6, <1>8, <1>10, BudgetConstants, SummedMoves
<1>12. /\ Summed(DOMAIN tiers, z) \in Nat /\ Summed(DOMAIN tiers, z) + y[t] = Summed(DOMAIN tiers, y) + z[t]
 BY <1>3, <1>4, <1>6, <1>9, <1>10, SummedMoves
<1>13. /\ daily + Summed(Goroutines, w) <= DailyCap + Slack
       /\ monthly + Summed(Goroutines, w) <= MonthlyCap + Slack /\ monthly = Summed(DOMAIN tiers, y)
       /\ BA!LocalNeverRefuses BY DEF BudgetInv, w, y
<1>14. tiers[t].cost \in Nat /\ y[t] \in Nat BY <1>3, <1>4, <1>6
<1>15. /\ daily' + Summed(Goroutines, v) <= DailyCap + Slack
       /\ monthly' + Summed(Goroutines, v) <= MonthlyCap + Slack /\ monthly' = Summed(DOMAIN tiers, z)
 BY <1>2, <1>3, <1>4, <1>6, <1>8, <1>9, <1>11, <1>12, <1>13, <1>14, BudgetConstants
<1>16. BA!MaxCost' = BA!MaxCost /\ BA!Index' = BA!Index BY <1>2 DEF BA!MaxCost, BA!Index
<1>17. Slack' = Slack /\ Summed(Goroutines, Owed)' = Summed(Goroutines, v)
       /\ Summed(DOMAIN tiers, Spent)' = Summed(DOMAIN tiers, z) BY <1>2, <1>16 DEF Slack, Summed, v, z
<1>18. BA!LocalNeverRefuses' BY <1>2, <1>13, <1>16 DEF BA!LocalNeverRefuses
<1> QED BY <1>5, <1>15, <1>17, <1>18 DEF BudgetInv

LEMMA BudgetNext == BudgetInv /\ BA!BudgetNext => BudgetInv'
BY IntervalPassesKeeps, SelectTierKeeps, RecordCallKeeps DEF BA!BudgetNext

LEMMA BudgetHolds == ASSUME BudgetInv PROVE BA!BudgetTypeOK /\ BA!SpendIsBounded /\ BA!LocalNeverRefuses
<1>1. BA!BudgetTypeOK BY DEF BudgetInv
<1>2. BA!Pending = Summed(Goroutines, Owed) /\ Spent \in [DOMAIN tiers -> Nat] BY <1>1, OwedTypes
<1>3. IsFiniteSet(DOMAIN tiers) BY <1>1, TierFacts DEF BA!BudgetTypeOK
<1> DEFINE raw(iter) == [s \in SUBSET DOMAIN tiers |-> IF s = {} THEN 0
                     ELSE counts[CHOOSE x \in s : TRUE] * tiers[CHOOSE x \in s : TRUE].cost
                          + iter[s \ {CHOOSE x \in s : TRUE}]]
           it == CHOOSE iter : iter = raw(iter)
<1>4. BA!Sum(LAMBDA t : counts[t] * tiers[t].cost, BA!Index) = it[DOMAIN tiers] BY DEF BA!Sum, BA!Index
<1>5. \A s \in SUBSET DOMAIN tiers : s # {} =>
         Spent[CHOOSE x \in s : TRUE] = counts[CHOOSE x \in s : TRUE] * tiers[CHOOSE x \in s : TRUE].cost BY DEF Spent
<1>6. \A iter : Folds(DOMAIN tiers, Spent, iter) <=> iter = raw(iter) BY <1>5 DEF Folds
<1> HIDE DEF raw
<1>7. \E iter : iter = raw(iter) BY <1>2, <1>3, <1>6, FoldExists
<1>8. it = raw(it) BY <1>7
<1> HIDE DEF it
<1>9. it[DOMAIN tiers] = Summed(DOMAIN tiers, Spent) BY <1>2, <1>3, <1>6, <1>8, FoldIs
<1>10. Slack = (BA!Cardinality(Goroutines) - 1) * BA!MaxCost BY Cardinalities DEF Slack
<1> QED BY Zenon, <1>1, <1>2, <1>4, <1>9, <1>10 DEF BudgetInv, BA!SpendIsBounded

(* The bandit: each selection is reported once, a context samples only when it is warm, and a snapshot
   loses no trial that it counted. *)

LEMMA BanditConstants ==
  /\ IsFiniteSet(Goroutines) /\ Goroutines # {} /\ Cardinality(Goroutines) \in Nat /\ Cardinality(Goroutines) >= 1
  /\ Len(Contexts) \in Nat /\ DOMAIN Contexts = 1..Len(Contexts)
  /\ \A j \in DOMAIN Contexts : Contexts[j] \in BA!Keys
  /\ Contexts[1] \in BA!Keys /\ IsFiniteSet(BA!Keys) /\ IsFiniteSet(BA!Arms)
  /\ BA!Arms = 1..NumArms /\ NumArms \in Nat /\ NumArms >= 1
  /\ WarmupRounds \in Nat /\ MaxPulls \in Nat /\ MaxResets \in Nat /\ MaxSnapshots \in Nat
<1>1. /\ IsFiniteSet(Goroutines) /\ Goroutines # {} /\ Contexts # <<>> /\ Contexts \in Seq(BA!Keys)
      /\ NumArms \in Nat \ {0} /\ WarmupRounds \in Nat
      /\ MaxPulls \in Nat /\ MaxResets \in Nat /\ MaxSnapshots \in Nat
 BY ToolkitAssumption, Cardinalities DEF BA!BanditAssumption, BA!Keys
<1>2. Cardinality(Goroutines) \in Nat /\ Cardinality(Goroutines) >= 1
 <2>1. Cardinality(Goroutines) \in Nat /\ Cardinality(Goroutines) # 0 BY <1>1, FS_CardinalityType, FS_EmptySet
 <2> QED BY <2>1
<1>3. /\ Len(Contexts) \in Nat /\ DOMAIN Contexts = 1..Len(Contexts)
      /\ \A j \in DOMAIN Contexts : Contexts[j] \in BA!Keys
      /\ Contexts[1] \in BA!Keys BY <1>1, Elements, NonEmpty
<1>4. IsFiniteSet(DOMAIN Contexts) BY <1>3, FS_Interval
<1>5. IsFiniteSet(BA!Keys) BY <1>4, Image DEF BA!Keys
<1>6. BA!Arms = 1..NumArms /\ NumArms \in Nat /\ NumArms >= 1 BY <1>1 DEF BA!Arms
<1>7. IsFiniteSet(BA!Arms) BY <1>6, FS_Interval
<1> QED BY <1>1, <1>2, <1>3, <1>5, <1>6, <1>7

LEMMA TriedTypes == ASSUME NEW t \in Trials
  PROVE  /\ Tried(t) \in [BA!Keys -> Nat] /\ AllTried(t) \in Nat
         /\ \A c \in BA!Keys, a \in BA!Arms : t[c][a] \in Nat /\ t[c][a] <= AllTried(t)
<1>1. \A c \in BA!Keys : t[c] \in [BA!Arms -> Nat] BY DEF Trials
<1>2. \A c \in BA!Keys : Summed(BA!Arms, t[c]) \in Nat BY <1>1, BanditConstants, SummedNat
<1>3. Tried(t) \in [BA!Keys -> Nat] BY <1>2 DEF Tried
<1>4. AllTried(t) \in Nat BY <1>3, BanditConstants, SummedNat DEF AllTried
<1>5. ASSUME NEW c \in BA!Keys, NEW a \in BA!Arms PROVE t[c][a] \in Nat /\ t[c][a] <= AllTried(t)
 <2>1. t[c][a] \in Nat BY <1>1
 <2>2. t[c][a] <= Summed(BA!Arms, t[c]) BY <1>1, BanditConstants, SummedCovers
 <2>3. Tried(t)[c] <= AllTried(t) BY <1>3, BanditConstants, SummedCovers DEF AllTried
 <2>4. Tried(t)[c] = Summed(BA!Arms, t[c]) BY DEF Tried
 <2> QED BY <1>2, <1>4, <2>1, <2>2, <2>3, <2>4
<1> QED BY <1>3, <1>4, <1>5

LEMMA TriedGrows == ASSUME NEW s \in Trials, NEW t \in Trials, Below(s, t)
  PROVE  AllTried(s) \in Nat /\ AllTried(t) \in Nat /\ AllTried(s) <= AllTried(t)
<1>1. Tried(s) \in [BA!Keys -> Nat] /\ Tried(t) \in [BA!Keys -> Nat] BY TriedTypes
<1>2. ASSUME NEW c \in BA!Keys PROVE Tried(s)[c] <= Tried(t)[c]
 <2>1. s[c] \in [BA!Arms -> Nat] /\ t[c] \in [BA!Arms -> Nat] BY DEF Trials
 <2>2. \A a \in BA!Arms : s[c][a] <= t[c][a] BY DEF Below
 <2>3. Summed(BA!Arms, s[c]) <= Summed(BA!Arms, t[c]) BY <2>1, <2>2, BanditConstants, SummedGrows
 <2> QED BY <2>3 DEF Tried
<1> QED BY <1>1, <1>2, BanditConstants, SummedGrows DEF AllTried

LEMMA TriedAdds ==
  ASSUME NEW t \in Trials, NEW c \in BA!Keys, NEW a \in BA!Arms, NEW s, s = [t EXCEPT ![c][a] = t[c][a] + 1]
  PROVE  s \in Trials /\ AllTried(s) = AllTried(t) + 1 /\ Below(t, s)
<1>1. t[c] \in [BA!Arms -> Nat] /\ t[c][a] \in Nat BY DEF Trials
<1>2. /\ s[c] \in [BA!Arms -> Nat] /\ s[c][a] = t[c][a] + 1
      /\ \A b \in BA!Arms : b # a => s[c][b] = t[c][b] BY <1>1 DEF Trials
<1>3. \A d \in BA!Keys : d # c => s[d] = t[d] BY DEF Trials
<1>4. s \in Trials
 <2>1. \A d \in BA!Keys : s[d] \in [BA!Arms -> Nat] BY <1>2, <1>3 DEF Trials
 <2>2. s = [d \in BA!Keys |-> s[d]] BY DEF Trials
 <2> QED BY <2>1, <2>2 DEF Trials
<1>5. /\ Summed(BA!Arms, s[c]) \in Nat /\ Summed(BA!Arms, t[c]) \in Nat
      /\ Summed(BA!Arms, s[c]) + t[c][a] = Summed(BA!Arms, t[c]) + s[c][a]
 <2> DEFINE v == s[c]
            w == t[c]
 <2>1. /\ v \in [BA!Arms -> Nat] /\ w \in [BA!Arms -> Nat]
       /\ \A b \in BA!Arms : b # a => v[b] = w[b] BY <1>1, <1>2
 <2> HIDE DEF v, w
 <2>2. /\ Summed(BA!Arms, v) \in Nat /\ Summed(BA!Arms, w) \in Nat
       /\ Summed(BA!Arms, v) + w[a] = Summed(BA!Arms, w) + v[a] BY ZenonT(90), <2>1, BanditConstants, SummedMoves
 <2> QED BY <2>2 DEF v, w
<1>6. Summed(BA!Arms, s[c]) = Summed(BA!Arms, t[c]) + 1 BY <1>1, <1>2, <1>5
<1>7. Tried(s)[c] = Tried(t)[c] + 1 /\ \A d \in BA!Keys : d # c => Tried(s)[d] = Tried(t)[d] BY <1>3, <1>6 DEF Tried
<1>8. Tried(s) \in [BA!Keys -> Nat] /\ Tried(t) \in [BA!Keys -> Nat] BY <1>4, TriedTypes
<1>9. /\ AllTried(s) \in Nat /\ AllTried(t) \in Nat /\ AllTried(s) + Tried(t)[c] = AllTried(t) + Tried(s)[c]
 <2> DEFINE v == Tried(s)
            w == Tried(t)
 <2>1. /\ v \in [BA!Keys -> Nat] /\ w \in [BA!Keys -> Nat]
       /\ \A d \in BA!Keys : d # c => v[d] = w[d] BY <1>7, <1>8
 <2> HIDE DEF v, w
 <2>2. /\ Summed(BA!Keys, v) \in Nat /\ Summed(BA!Keys, w) \in Nat
       /\ Summed(BA!Keys, v) + w[c] = Summed(BA!Keys, w) + v[c] BY ZenonT(90), <2>1, BanditConstants, SummedMoves
 <2> QED BY <2>2 DEF v, w, AllTried
<1>10. Tried(t)[c] \in Nat BY <1>8
<1>11. Below(t, s)
 <2>1. ASSUME NEW d \in BA!Keys, NEW b \in BA!Arms PROVE t[d][b] <= s[d][b]
  <3>1. t[d][b] \in Nat BY DEF Trials
  <3>2. CASE d = c /\ b = a BY <1>2, <3>1, <3>2
  <3>3. CASE ~(d = c /\ b = a)
   <4>1. s[d][b] = t[d][b] BY <1>2, <1>3, <3>3
   <4> QED BY <3>1, <4>1
  <3> QED BY <3>2, <3>3
 <2> QED BY <2>1 DEF Below
<1> QED BY <1>4, <1>7, <1>9, <1>10, <1>11

LEMMA TriedZero == ASSUME NEW t, t = [c \in BA!Keys |-> BA!Fresh]
  PROVE  t \in Trials /\ AllTried(t) = 0 /\ \A c \in BA!Keys, a \in BA!Arms : t[c][a] = 0
<1>1. t \in Trials /\ \A c \in BA!Keys : t[c] \in [BA!Arms -> Nat] /\ \A a \in BA!Arms : t[c][a] = 0
 BY DEF Trials, BA!Fresh
<1>2. \A c \in BA!Keys : Summed(BA!Arms, t[c]) = 0 BY <1>1, BanditConstants, SummedZero
<1>3. Tried(t) \in [BA!Keys -> Nat] /\ \A c \in BA!Keys : Tried(t)[c] = 0 BY <1>2 DEF Tried
<1> QED BY <1>1, <1>3, BanditConstants, SummedZero DEF AllTried

LEMMA TriedIs == ASSUME NEW t \in Trials PROVE BA!SumTrials(t) = AllTried(t)
<1> DEFINE inner(c) == BA!Sum(LAMBDA a : t[c][a], BA!Arms)
<1>1. ASSUME NEW c \in BA!Keys PROVE inner(c) = Summed(BA!Arms, t[c])
 <2> DEFINE raw(iter) == [s \in SUBSET BA!Arms |-> IF s = {} THEN 0
                    ELSE t[c][CHOOSE x \in s : TRUE] + iter[s \ {CHOOSE x \in s : TRUE}]]
            it == CHOOSE iter : iter = raw(iter)
 <2>1. inner(c) = it[BA!Arms] BY DEF BA!Sum
 <2> HIDE DEF inner
 <2>2. t[c] \in [BA!Arms -> Nat] BY DEF Trials
 <2>3. \A iter : Folds(BA!Arms, t[c], iter) <=> iter = raw(iter) BY DEF Folds
 <2> HIDE DEF raw
 <2>4. \E iter : iter = raw(iter) BY <2>2, <2>3, BanditConstants, FoldExists
 <2>5. it = raw(it) BY <2>4
 <2> HIDE DEF it
 <2> QED BY <2>1, <2>2, <2>3, <2>5, BanditConstants, FoldIs
<1> DEFINE raw(iter) == [s \in SUBSET BA!Keys |-> IF s = {} THEN 0
                     ELSE inner(CHOOSE x \in s : TRUE) + iter[s \ {CHOOSE x \in s : TRUE}]]
           it == CHOOSE iter : iter = raw(iter)
<1>2. BA!SumTrials(t) = it[BA!Keys] BY DEF BA!SumTrials, BA!Sum
<1> HIDE DEF inner
<1>3. \A s \in SUBSET BA!Keys : s # {} => Tried(t)[CHOOSE x \in s : TRUE] = inner(CHOOSE x \in s : TRUE)
 BY <1>1 DEF Tried
<1>4. \A iter : Folds(BA!Keys, Tried(t), iter) <=> iter = raw(iter) BY ZenonT(90), <1>3 DEF Folds
<1> HIDE DEF raw
<1>5. Tried(t) \in [BA!Keys -> Nat] BY TriedTypes
<1>6. \E iter : iter = raw(iter) BY <1>4, <1>5, BanditConstants, FoldExists
<1>7. it = raw(it) BY <1>6
<1> HIDE DEF it
<1> QED BY <1>2, <1>4, <1>5, <1>7, BanditConstants, FoldIs DEF AllTried

LEMMA BanditInit == ASSUME BA!Init PROVE BanditInv
<1>1. /\ trials = [c \in BA!Keys |-> BA!Fresh] /\ pulls = 0
      /\ holding = [u \in Goroutines |-> BA!None] /\ draws = [c \in BA!Keys |-> "none"]
      /\ snapshot = BA!Empty /\ written = BA!Empty /\ selected = 0 /\ resets = 0 /\ snapshots = 0 /\ calm = TRUE
 BY DEF BA!Init
<1>2. trials \in Trials /\ AllTried(trials) = 0 /\ \A c \in BA!Keys, a \in BA!Arms : trials[c][a] = 0
 BY <1>1, TriedZero
<1>3. /\ BA!Empty.next = 0 /\ BA!Empty \in [total : 0..MaxPulls, next : {0}, seen : Trials]
      /\ BA!Empty \in [total : 0..MaxPulls, next : 0..(Len(Contexts) + 1), seen : Trials]
 <2>1. 0 \in 0..MaxPulls /\ 0 \in 0..(Len(Contexts) + 1) BY BanditConstants
 <2>2. [c \in BA!Keys |-> BA!Fresh] \in Trials BY <1>1, <1>2
 <2> QED BY <2>1, <2>2 DEF BA!Empty
<1>4. BA!None \in [key : BA!Keys, arm : 0..NumArms] /\ BA!None.arm = 0
 <2>1. 0 \in 0..NumArms BY BanditConstants
 <2> QED BY <2>1, BanditConstants DEF BA!None
<1>5. BanditTypes
 <2>1. 0 \in 0..MaxPulls /\ 0 \in 0..MaxResets /\ 0 \in 0..MaxSnapshots /\ 0 \in Nat BY BanditConstants
 <2>2. holding \in [Goroutines -> [key : BA!Keys, arm : 0..NumArms]] BY <1>1, <1>4
 <2>3. draws \in [BA!Keys -> {"none", "warmup", "sampled"}] BY <1>1
 <2> QED BY <1>1, <1>2, <1>3, <2>1, <2>2, <2>3 DEF BanditTypes
<1>6. InHand = {} /\ \A c \in BA!Keys, a \in BA!Arms : Holders(c, a) = {}
 <2>1. \A u \in Goroutines : holding[u].arm = 0 BY <1>1, <1>4
 <2>2. \A a \in BA!Arms : a # 0 BY BanditConstants
 <2> QED BY <2>1, <2>2 DEF InHand, Holders
<1>7. BanditCounts
 <2>1. Cardinality({}) = 0 BY FS_EmptySet
 <2> QED BY <1>1, <1>2, <1>6, <2>1 DEF BanditCounts
<1>8. BanditWarms
 <2>1. Cardinality({}) = 0 /\ 0 + 0 < WarmLimit
  <3>1. WarmLimit = WarmupRounds + Cardinality(Goroutines) * (1 + 0) BY <1>1 DEF WarmLimit
  <3> QED BY <3>1, FS_EmptySet, BanditConstants
 <2>2. \A c \in BA!Keys : draws[c] # "sampled" BY <1>1
 <2>3. ASSUME NEW c \in BA!Keys, NEW a \in BA!Arms PROVE  trials[c][a] + Cardinality(Holders(c, a)) < WarmLimit
  BY <1>2, <1>6, <2>1
 <2> QED BY <2>2, <2>3 DEF BanditWarms
<1>9. SnapshotKeeps
 <2>1. ~(snapshot.next > 0) BY <1>1, <1>3
 <2> QED BY <2>1 DEF SnapshotKeeps
<1> QED BY <1>5, <1>7, <1>8, <1>9 DEF BanditInv

LEMMA BanditRests == ASSUME BanditInv, UNCHANGED banditVars PROVE BanditInv'
<1>1. /\ UNCHANGED <<trials, pulls, holding, draws, snapshot, written, selected, resets, snapshots, calm>> BY DEF banditVars
<1>2. UNCHANGED <<InHand, Merged, WarmLimit>>
      /\ \A c, a : Holders(c, a)' = Holders(c, a) BY <1>1 DEF InHand, Merged, Looked, WarmLimit, Holders
<1>3. BanditTypes' /\ BanditCounts' /\ BanditWarms' /\ SnapshotKeeps'
 BY <1>1, <1>2 DEF BanditInv, BanditTypes, BanditCounts, BanditWarms, SnapshotKeeps
<1> QED BY <1>3 DEF BanditInv

\* Who holds a selection is one of finitely many users.
LEMMA HoldersCount ==
  /\ IsFiniteSet(InHand) /\ Cardinality(InHand) \in Nat
  /\ \A c, a : /\ IsFiniteSet(Holders(c, a)) /\ Cardinality(Holders(c, a)) \in Nat
               /\ Cardinality(Holders(c, a)) <= Cardinality(Goroutines)
<1>1. InHand \subseteq Goroutines /\ \A c, a : Holders(c, a) \subseteq Goroutines BY DEF InHand, Holders
<1>2. ASSUME NEW S \in SUBSET Goroutines
      PROVE  IsFiniteSet(S) /\ Cardinality(S) \in Nat /\ Cardinality(S) <= Cardinality(Goroutines)
 BY BanditConstants, FS_Subset, FS_CardinalityType
<1> QED BY <1>1, <1>2

LEMMA WarmLimitGrows == ASSUME BanditTypes
  PROVE  /\ WarmLimit \in Nat /\ WarmLimit >= WarmupRounds + Cardinality(Goroutines)
         /\ resets' = resets => WarmLimit' = WarmLimit
         /\ resets' = resets + 1 => WarmLimit' > Cardinality(Goroutines)
<1> DEFINE n == Cardinality(Goroutines)
           m == resets
<1>1. n \in Nat /\ n >= 1 /\ WarmupRounds \in Nat /\ m \in Nat BY BanditConstants DEF BanditTypes
<1> HIDE DEF n, m
<1>2. n * m \in Nat /\ n * (1 + m) = n + n * m /\ n * (1 + (m + 1)) = n + n + n * m BY <1>1
<1>3. WarmLimit = WarmupRounds + n * (1 + m) BY DEF WarmLimit, n, m
<1>4. resets' = resets + 1 => WarmLimit' = WarmupRounds + n * (1 + (m + 1)) BY DEF WarmLimit, n, m
<1>5. resets' = resets => WarmLimit' = WarmLimit BY DEF WarmLimit
<1>6. /\ WarmLimit \in Nat /\ WarmLimit >= WarmupRounds + n BY <1>1, <1>2, <1>3
<1>7. resets' = resets + 1 => WarmLimit' > n BY <1>1, <1>2, <1>4
<1> QED BY <1>5, <1>6, <1>7 DEF n

LEMMA SelectArmKeeps == ASSUME BanditInv, NEW u \in Goroutines, NEW k \in BA!Keys, BA!SelectArm(u, k)
  PROVE  BanditInv'
<1>1. BanditTypes /\ BanditCounts /\ BanditWarms /\ SnapshotKeeps BY DEF BanditInv
<1> DEFINE warm == BA!Warming(k)
<1>2. PICK a \in IF warm # {} THEN {BA!Min(warm)} ELSE BA!Arms :
         holding' = [holding EXCEPT ![u] = [key |-> k, arm |-> a]] BY DEF BA!SelectArm
<1>3. /\ holding[u].arm = 0 /\ selected < MaxPulls /\ selected' = selected + 1
      /\ draws' = [draws EXCEPT ![k] = IF warm # {} THEN "warmup" ELSE "sampled"]
      /\ UNCHANGED <<trials, pulls, snapshot, written, resets, snapshots, calm>> BY DEF BA!SelectArm
<1>4. warm = {b \in BA!Arms : trials[k][b] < WarmupRounds} BY DEF BA!Warming
<1>5. /\ trials \in Trials /\ pulls \in Nat /\ selected \in 0..MaxPulls
      /\ holding \in [Goroutines -> [key : BA!Keys, arm : 0..NumArms]]
      /\ draws \in [BA!Keys -> {"none", "warmup", "sampled"}] BY <1>1 DEF BanditTypes
<1>6. \A c \in BA!Keys, b \in BA!Arms : trials[c][b] \in Nat BY <1>5, TriedTypes
<1> HIDE DEF warm
<1>7. a \in BA!Arms /\ (warm # {} => a \in warm)
 <2>1. CASE warm = {} BY <2>1
 <2>2. CASE warm # {}
  <3>1. warm \in SUBSET Nat BY <1>4, BanditConstants
  <3>2. \E b \in warm : \A d \in warm : b <= d BY <2>2, <3>1, Least
  <3>3. BA!Min(warm) \in warm BY <3>2 DEF BA!Min
  <3> QED BY <1>2, <1>4, <2>2, <3>3
 <2> QED BY <2>1, <2>2
<1>8. a \in 1..NumArms /\ a \in 0..NumArms /\ a # 0 /\ \A b \in BA!Arms : b # 0 BY <1>7, BanditConstants
<1>9. BanditTypes'
 <2>1. holding' \in [Goroutines -> [key : BA!Keys, arm : 0..NumArms]]
  <3>1. [key |-> k, arm |-> a] \in [key : BA!Keys, arm : 0..NumArms] BY <1>8
  <3> QED BY <1>2, <1>5, <3>1
 <2>2. draws' \in [BA!Keys -> {"none", "warmup", "sampled"}] BY <1>3, <1>5
 <2>3. selected' \in 0..MaxPulls BY <1>3, <1>5, BanditConstants
 <2> QED BY <1>1, <1>3, <2>1, <2>2, <2>3 DEF BanditTypes
<1>10. BanditCounts'
 <2>1. u \notin InHand /\ InHand' = InHand \cup {u} BY <1>2, <1>3, <1>5, <1>8 DEF InHand
 <2>2. Cardinality(InHand') = Cardinality(InHand) + 1 BY <2>1, HoldersCount, FS_AddElement
 <2> QED BY <1>1, <1>3, <1>5, <2>2, HoldersCount DEF BanditCounts
<1>11. \A c \in BA!Keys, b \in BA!Arms : ~(c = k /\ b = a) => Holders(c, b)' = Holders(c, b)
 <2>1. ASSUME NEW c \in BA!Keys, NEW b \in BA!Arms, ~(c = k /\ b = a) PROVE  Holders(c, b)' = Holders(c, b)
  <3>1. ~(holding[u].key = c /\ holding[u].arm = b) /\ ~(holding'[u].key = c /\ holding'[u].arm = b)
   BY <1>2, <1>3, <1>5, <1>8, <2>1
  <3>2. \A q \in Goroutines : q # u => holding'[q] = holding[q] BY <1>2, <1>5
  <3> QED BY <3>1, <3>2 DEF Holders
 <2> QED BY <2>1
<1>12. WarmLimit' = WarmLimit /\ WarmLimit \in Nat /\ WarmLimit >= WarmupRounds + Cardinality(Goroutines)
 BY <1>1, <1>3, WarmLimitGrows
<1>13. BanditWarms'
 <2>1. ASSUME NEW c \in BA!Keys, draws'[c] = "sampled", NEW b \in BA!Arms PROVE  trials[c][b] >= WarmupRounds
  <3>1. CASE c = k
   <4>1. warm = {} BY <1>3, <1>5, <2>1, <3>1
   <4>2. ~(trials[c][b] < WarmupRounds) BY <1>4, <3>1, <4>1
   <4> QED BY <1>6, <4>2, BanditConstants
  <3>2. CASE c # k
   <4>1. draws[c] = "sampled" BY <1>3, <1>5, <2>1, <3>2
   <4> QED BY <1>1, <4>1 DEF BanditWarms
  <3> QED BY <3>1, <3>2
 <2>2. ASSUME NEW c \in BA!Keys, draws'[c] # "sampled", NEW b \in BA!Arms
       PROVE  trials[c][b] + Cardinality(Holders(c, b)') < WarmLimit
  <3>1. ASSUME c = k PROVE warm # {} /\ trials[c][a] < WarmupRounds /\ draws[c] # "sampled"
   <4>1. warm # {} BY <1>3, <1>5, <2>2, <3>1
   <4>2. trials[c][a] < WarmupRounds BY <1>4, <1>7, <3>1, <4>1
   <4>3. ASSUME draws[c] = "sampled" PROVE FALSE
    <5>1. trials[c][a] >= WarmupRounds BY <1>1, <1>7, <4>3 DEF BanditWarms
    <5>2. trials[c][a] \in Nat BY <1>6, <1>7
    <5> QED BY <4>2, <5>1, <5>2, BanditConstants
   <4> QED BY <4>1, <4>2, <4>3
  <3>2. CASE c = k /\ b = a
   <4>1. Cardinality(Holders(c, b)') \in Nat /\ Cardinality(Holders(c, b)') <= Cardinality(Goroutines)
    <5> DEFINE H == Holders(c, b)'
    <5>1. H \subseteq Goroutines BY DEF Holders
    <5> HIDE DEF H
    <5>2. Cardinality(H) \in Nat /\ Cardinality(H) <= Cardinality(Goroutines)
     BY <5>1, BanditConstants, FS_Subset, FS_CardinalityType
    <5> QED BY <5>2 DEF H
   <4>2. trials[c][b] < WarmupRounds /\ trials[c][b] \in Nat BY <1>6, <3>1, <3>2
   <4> QED BY <1>12, <4>1, <4>2, BanditConstants
  <3>3. CASE ~(c = k /\ b = a)
   <4>1. draws[c] # "sampled"
    <5>1. c # k => draws'[c] = draws[c] BY <1>3, <1>5
    <5> QED BY <2>2, <3>1, <5>1
   <4>2. trials[c][b] + Cardinality(Holders(c, b)) < WarmLimit BY <1>1, <4>1 DEF BanditWarms
   <4> QED BY <1>11, <3>3, <4>2
  <3> QED BY <3>2, <3>3
 <2>3. \A c \in BA!Keys, b \in BA!Arms : Cardinality(Holders(c, b))' = Cardinality(Holders(c, b)') OBVIOUS
 <2> QED BY <1>3, <1>12, <2>1, <2>2, <2>3 DEF BanditWarms
<1>14. Merged' = Merged BY <1>3 DEF Merged, Looked
<1>15. SnapshotKeeps' BY <1>1, <1>3, <1>14 DEF SnapshotKeeps
<1> QED BY <1>9, <1>10, <1>13, <1>15 DEF BanditInv

LEMMA UpdateKeeps == ASSUME BanditInv, NEW u \in Goroutines, BA!Update(u) PROVE  BanditInv'
<1> DEFINE k == holding[u].key
           a == holding[u].arm
<1>1. BanditTypes /\ BanditCounts /\ BanditWarms /\ SnapshotKeeps BY DEF BanditInv
<1>2. /\ a # 0 /\ trials' = [trials EXCEPT ![k][a] = trials[k][a] + 1]
      /\ pulls' = pulls + 1 /\ holding' = [holding EXCEPT ![u] = BA!None]
      /\ UNCHANGED <<draws, snapshot, written, selected, resets, snapshots, calm>> BY DEF BA!Update
<1>3. /\ trials \in Trials /\ pulls \in Nat /\ selected \in 0..MaxPulls
      /\ holding \in [Goroutines -> [key : BA!Keys, arm : 0..NumArms]]
      /\ snapshot \in [total : 0..MaxPulls, next : 0..(Len(Contexts) + 1), seen : Trials] BY <1>1 DEF BanditTypes
<1>4. k \in BA!Keys /\ a \in BA!Arms /\ a # 0 BY <1>2, <1>3, BanditConstants
<1> HIDE DEF k, a
<1>5. trials' \in Trials /\ AllTried(trials') = AllTried(trials) + 1 /\ Below(trials, trials')
 BY ZenonT(90), <1>2, <1>3, <1>4, TriedAdds
<1>6. BA!None \in [key : BA!Keys, arm : 0..NumArms] /\ BA!None.arm = 0
 <2>1. 0 \in 0..NumArms BY BanditConstants
 <2> QED BY <2>1, BanditConstants DEF BA!None
<1>7. BanditTypes'
 <2>1. holding' \in [Goroutines -> [key : BA!Keys, arm : 0..NumArms]] BY <1>2, <1>3, <1>6
 <2>2. pulls' \in Nat BY <1>2, <1>3
 <2> QED BY <1>1, <1>2, <1>5, <2>1, <2>2 DEF BanditTypes
<1>8. BanditCounts'
 <2>1. u \in InHand /\ InHand' = InHand \ {u} BY <1>2, <1>3, <1>6 DEF InHand, a
 <2>2. Cardinality(InHand') = Cardinality(InHand) - 1 BY <2>1, HoldersCount, FS_RemoveElement
 <2>3. AllTried(trials)' = AllTried(trials') BY DEF AllTried, Tried
 <2> QED BY <1>1, <1>2, <1>3, <1>5, <2>2, <2>3, HoldersCount DEF BanditCounts
<1>9. \A c \in BA!Keys, b \in BA!Arms :
         /\ ~(c = k /\ b = a) => Holders(c, b)' = Holders(c, b) /\ trials'[c][b] = trials[c][b]
         /\ c = k /\ b = a => u \in Holders(c, b) /\ Holders(c, b)' = Holders(c, b) \ {u}
                              /\ trials'[c][b] = trials[c][b] + 1
 <2>1. \A b \in BA!Arms : b # 0 BY BanditConstants
 <2>2. ASSUME NEW c \in BA!Keys, NEW b \in BA!Arms
       PROVE  /\ ~(c = k /\ b = a) => Holders(c, b)' = Holders(c, b)
              /\ c = k /\ b = a => u \in Holders(c, b) /\ Holders(c, b)' = Holders(c, b) \ {u}
  BY <1>2, <1>3, <1>6, <2>1 DEF Holders, k, a
 <2>3. ASSUME NEW c \in BA!Keys, NEW b \in BA!Arms
       PROVE  /\ ~(c = k /\ b = a) => trials'[c][b] = trials[c][b]
              /\ c = k /\ b = a => trials'[c][b] = trials[c][b] + 1 BY <1>2, <1>3, <1>4 DEF Trials
 <2> QED BY <2>2, <2>3
<1>10. WarmLimit' = WarmLimit /\ WarmLimit \in Nat BY <1>1, <1>2, WarmLimitGrows
<1>11. BanditWarms'
 <2>1. ASSUME NEW c \in BA!Keys, draws[c] = "sampled", NEW b \in BA!Arms PROVE  trials'[c][b] >= WarmupRounds
  <3>1. trials[c][b] >= WarmupRounds /\ trials[c][b] <= trials'[c][b] BY <1>1, <1>5, <2>1 DEF BanditWarms, Below
  <3>2. trials[c][b] \in Nat /\ trials'[c][b] \in Nat BY <1>3, <1>5 DEF Trials
  <3> QED BY <3>1, <3>2, BanditConstants
 <2>2. ASSUME NEW c \in BA!Keys, draws[c] # "sampled", NEW b \in BA!Arms
       PROVE  trials'[c][b] + Cardinality(Holders(c, b)') < WarmLimit
  <3>1. trials[c][b] + Cardinality(Holders(c, b)) < WarmLimit BY <1>1, <2>2 DEF BanditWarms
  <3>2. trials[c][b] \in Nat BY <1>3 DEF Trials
  <3>3. CASE c = k /\ b = a
   <4>1. Cardinality(Holders(c, b)') = Cardinality(Holders(c, b)) - 1 BY <1>9, <3>3, HoldersCount, FS_RemoveElement
   <4>2. Cardinality(Holders(c, b)) \in Nat BY HoldersCount
   <4> QED BY <1>9, <3>1, <3>2, <3>3, <4>1, <4>2
  <3>4. CASE ~(c = k /\ b = a) BY <1>9, <3>1, <3>4
  <3> QED BY <3>3, <3>4
 <2> QED BY <1>2, <1>10, <2>1, <2>2 DEF BanditWarms
<1>12. SnapshotKeeps'
 <2>1. SUFFICES ASSUME snapshot.next > 0, calm PROVE  Below(Merged', trials') /\ snapshot.total <= AllTried(Merged')
  BY <1>2 DEF SnapshotKeeps, AllTried, Tried, Below
 <2>2. Below(Merged, trials) /\ snapshot.total <= AllTried(Merged) BY <1>1, <2>1 DEF SnapshotKeeps
 <2>3. Merged \in Trials /\ Merged' \in Trials BY <1>2, <1>3, <1>5 DEF Merged, Trials
 <2>4. \A c \in BA!Keys : /\ Looked(c)' <=> Looked(c)
                          /\ Looked(c) => Merged'[c] = Merged[c]
                          /\ ~Looked(c) => Merged'[c] = trials'[c] /\ Merged[c] = trials[c] BY <1>2 DEF Merged, Looked
 <2>5. ASSUME NEW c \in BA!Keys, NEW b \in BA!Arms
       PROVE  Merged[c][b] <= Merged'[c][b] /\ Merged'[c][b] <= trials'[c][b]
  <3>1. /\ Merged[c][b] \in Nat /\ trials[c][b] \in Nat /\ trials'[c][b] \in Nat BY <1>3, <1>5, <2>3 DEF Trials
  <3>2. Merged[c][b] <= trials[c][b] /\ trials[c][b] <= trials'[c][b] BY <1>5, <2>2 DEF Below
  <3>3. CASE Looked(c) BY <2>4, <3>1, <3>2, <3>3
  <3>4. CASE ~Looked(c) BY <2>4, <3>1, <3>2, <3>4
  <3> QED BY <3>3, <3>4
 <2> DEFINE m == Merged
            mm == Merged'
 <2>6. m \in Trials /\ mm \in Trials /\ Below(m, mm) /\ Below(mm, trials') BY <2>3, <2>5 DEF Below
 <2> HIDE DEF m, mm
 <2>7. AllTried(m) \in Nat /\ AllTried(mm) \in Nat /\ AllTried(m) <= AllTried(mm) BY <2>6, TriedGrows
 <2>8. snapshot.total \in Nat /\ snapshot.total <= AllTried(m) BY <1>3, <2>2, BanditConstants DEF m
 <2>9. snapshot.total <= AllTried(mm) BY <2>7, <2>8
 <2> QED BY <2>6, <2>9 DEF mm
<1> QED BY <1>7, <1>8, <1>11, <1>12 DEF BanditInv

LEMMA ResetKeeps == ASSUME BanditInv, BA!Reset PROVE BanditInv'
<1>1. BanditTypes /\ BanditCounts BY DEF BanditInv
<1>2. /\ resets < MaxResets /\ resets' = resets + 1 /\ trials' = [c \in BA!Keys |-> BA!Fresh]
      /\ pulls' = 0 /\ draws' = [c \in BA!Keys |-> "none"] /\ calm' = FALSE
      /\ UNCHANGED <<holding, snapshot, written, selected, snapshots>> BY DEF BA!Reset
<1>3. /\ trials' \in Trials /\ AllTried(trials') = 0
      /\ \A c \in BA!Keys, a \in BA!Arms : trials'[c][a] = 0 BY <1>2, TriedZero
<1>4. BanditTypes'
 <2>1. resets' \in 0..MaxResets BY <1>1, <1>2, BanditConstants DEF BanditTypes
 <2>2. draws' \in [BA!Keys -> {"none", "warmup", "sampled"}] /\ pulls' \in Nat BY <1>2
 <2> QED BY <1>1, <1>2, <1>3, <2>1, <2>2 DEF BanditTypes
<1>5. InHand' = InHand /\ \A c, a : Holders(c, a)' = Holders(c, a) BY <1>2 DEF InHand, Holders
<1>6. BanditCounts'
 <2>1. AllTried(trials)' = AllTried(trials') BY DEF AllTried, Tried
 <2>2. pulls \in Nat /\ pulls + Cardinality(InHand) <= selected /\ selected \in Nat
  BY <1>1, BanditConstants DEF BanditTypes, BanditCounts
 <2>3. 0 + Cardinality(InHand) <= selected BY <2>2, HoldersCount
 <2> QED BY <1>2, <1>3, <1>5, <2>1, <2>3 DEF BanditCounts
<1>7. BanditWarms'
 <2>1. \A c \in BA!Keys : draws'[c] # "sampled" BY <1>2
 <2>2. ASSUME NEW c \in BA!Keys, NEW a \in BA!Arms PROVE  trials'[c][a] + Cardinality(Holders(c, a)') < WarmLimit'
  <3>1. WarmLimit' > Cardinality(Goroutines) BY <1>1, <1>2, WarmLimitGrows
  <3>2. WarmLimit' \in Nat
   <4>1. resets \in Nat /\ resets' \in Nat BY <1>1, <1>2, BanditConstants DEF BanditTypes
   <4> QED BY <4>1, BanditConstants DEF WarmLimit
  <3>3. Cardinality(Holders(c, a)) \in Nat /\ Cardinality(Holders(c, a)) <= Cardinality(Goroutines) BY HoldersCount
  <3> QED BY <1>3, <1>5, <3>1, <3>2, <3>3, BanditConstants
 <2> QED BY <2>1, <2>2 DEF BanditWarms
<1>8. SnapshotKeeps' BY <1>2 DEF SnapshotKeeps
<1> QED BY <1>4, <1>6, <1>7, <1>8 DEF BanditInv

LEMMA SnapshotActionKeeps == ASSUME BanditInv, UNCHANGED <<trials, pulls, holding, draws, selected, resets>>
  PROVE  BanditCounts' /\ BanditWarms'
<1>1. BanditCounts /\ BanditWarms BY DEF BanditInv
<1>2. /\ UNCHANGED <<trials, pulls, holding, draws, selected, resets>> OBVIOUS
<1>3. InHand' = InHand /\ WarmLimit' = WarmLimit /\ \A c, a : Holders(c, a)' = Holders(c, a)
 BY <1>2 DEF InHand, Holders, WarmLimit
<1> QED BY <1>1, <1>2, <1>3 DEF BanditCounts, BanditWarms

LEMMA SnapshotBeginsKeeps == ASSUME BanditInv, BA!SnapshotBegins PROVE BanditInv'
<1>1. BanditTypes /\ BanditCounts BY DEF BanditInv
<1>2. /\ snapshots < MaxSnapshots /\ snapshots' = snapshots + 1
      /\ snapshot' = [total |-> pulls, next |-> 1, seen |-> [c \in BA!Keys |-> BA!Fresh]] /\ calm' = TRUE
      /\ UNCHANGED <<trials, pulls, holding, draws, written, selected, resets>> BY DEF BA!SnapshotBegins, BA!Empty
<1>3. BanditTypes'
 <2>1. snapshots' \in 0..MaxSnapshots BY <1>1, <1>2, BanditConstants DEF BanditTypes
 <2>2. pulls \in 0..MaxPulls /\ 1 \in 0..(Len(Contexts) + 1)
  <3>1. pulls \in Nat /\ pulls + Cardinality(InHand) <= selected /\ selected \in 0..MaxPulls
   BY <1>1 DEF BanditTypes, BanditCounts
  <3> QED BY <3>1, HoldersCount, BanditConstants
 <2>3. [c \in BA!Keys |-> BA!Fresh] \in Trials BY TriedZero
 <2>4. snapshot' \in [total : 0..MaxPulls, next : 0..(Len(Contexts) + 1), seen : Trials] BY <1>2, <2>2, <2>3
 <2> QED BY <1>1, <1>2, <2>1, <2>4 DEF BanditTypes
<1>4. Merged' = trials
 <2>1. \A c \in BA!Keys : ~Looked(c)'
  <3>1. snapshot'.next - 1 = 0 /\ 1..0 = {} BY <1>2
  <3> QED BY <3>1 DEF Looked
 <2>2. trials = [c \in BA!Keys |-> trials[c]] BY <1>1 DEF BanditTypes, Trials
 <2> QED BY <1>2, <2>1, <2>2 DEF Merged
<1>5. SnapshotKeeps'
 <2>1. Below(trials, trials)
  <3>1. \A c \in BA!Keys, a \in BA!Arms : trials[c][a] \in Nat BY <1>1 DEF BanditTypes, Trials
  <3> QED BY <3>1 DEF Below
 <2>2. pulls = AllTried(trials) /\ pulls <= pulls BY <1>1 DEF BanditCounts, BanditTypes
 <2>3. AllTried(Merged)' = AllTried(trials) /\ Below(Merged, trials)' BY <1>2, <1>4, <2>1 DEF AllTried, Tried, Below
 <2> QED BY <1>2, <2>2, <2>3 DEF SnapshotKeeps
<1> QED BY <1>2, <1>3, <1>5, SnapshotActionKeeps DEF BanditInv

LEMMA StatsKeeps == ASSUME BanditInv, BA!Stats PROVE BanditInv'
<1> DEFINE n == snapshot.next
           k == Contexts[n]
<1>1. BanditTypes /\ SnapshotKeeps BY DEF BanditInv
<1>2. /\ n \in DOMAIN Contexts /\ snapshot' = [snapshot EXCEPT !.seen[k] = trials[k], !.next = n + 1]
      /\ UNCHANGED <<trials, pulls, holding, draws, written, selected, resets, snapshots, calm>> BY DEF BA!Stats
<1>3. /\ trials \in Trials /\ snapshot \in [total : 0..MaxPulls, next : 0..(Len(Contexts) + 1), seen : Trials]
 BY <1>1 DEF BanditTypes
<1>4. n \in Nat /\ n >= 1 /\ n + 1 \in 0..(Len(Contexts) + 1) /\ k \in BA!Keys BY <1>2, BanditConstants
<1>5. /\ snapshot'.total = snapshot.total /\ snapshot'.next = n + 1
      /\ snapshot'.seen = [snapshot.seen EXCEPT ![k] = trials[k]]
      /\ snapshot.seen \in Trials /\ snapshot.total \in 0..MaxPulls
      /\ snapshot' = [total |-> snapshot'.total, next |-> snapshot'.next, seen |-> snapshot'.seen] BY <1>2, <1>3
<1> HIDE DEF n, k
<1>6. /\ snapshot'.seen \in Trials /\ snapshot'.seen[k] = trials[k]
      /\ \A c \in BA!Keys : c # k => snapshot'.seen[c] = snapshot.seen[c] BY <1>3, <1>4, <1>5 DEF Trials
<1>7. BanditTypes'
 <2>1. snapshot' \in [total : 0..MaxPulls, next : 0..(Len(Contexts) + 1), seen : Trials] BY <1>4, <1>5, <1>6
 <2> QED BY <1>1, <1>2, <2>1 DEF BanditTypes
<1>8. \A c \in BA!Keys : Looked(c)' <=> Looked(c) \/ c = k
 <2>1. \A j \in 1..n : j \in 1..(n - 1) \/ j = n BY <1>4
 <2>2. n \in 1..n /\ \A j \in 1..(n - 1) : j \in 1..n BY <1>4
 <2>3. (n + 1) - 1 = n BY <1>4
 <2>4. \A c : Looked(c)' <=> \E j \in 1..n : Contexts[j] = c BY <1>5, <2>3 DEF Looked
 <2>5. \A c : Looked(c) <=> \E j \in 1..(n - 1) : Contexts[j] = c BY DEF Looked, n
 <2> QED BY <2>1, <2>2, <2>4, <2>5 DEF k
<1>9. SnapshotKeeps'
 <2>1. SUFFICES ASSUME calm PROVE Below(Merged', trials) /\ snapshot.total <= AllTried(Merged')
  BY <1>2, <1>5 DEF SnapshotKeeps, AllTried, Tried, Below
 <2>2. Below(Merged, trials) /\ snapshot.total <= AllTried(Merged) BY <1>1, <1>4, <2>1 DEF SnapshotKeeps, n
 <2>3. Merged \in Trials /\ Merged' \in Trials BY <1>2, <1>3, <1>5, <1>6 DEF Merged, Trials
 <2>4. \A c \in BA!Keys : /\ c = k => Merged'[c] = trials[c]
                          /\ c # k => Merged'[c] = Merged[c]
  <3>1. \A c \in BA!Keys : Merged[c] = IF Looked(c) THEN snapshot.seen[c] ELSE trials[c] BY DEF Merged
  <3>2. \A c \in BA!Keys : Merged'[c] = IF Looked(c)' THEN snapshot'.seen[c] ELSE trials[c] BY <1>2 DEF Merged
  <3> QED BY <1>6, <1>8, <3>1, <3>2
 <2>5. ASSUME NEW c \in BA!Keys, NEW b \in BA!Arms
       PROVE  Merged[c][b] <= Merged'[c][b] /\ Merged'[c][b] <= trials[c][b]
  <3>1. Merged[c][b] \in Nat /\ trials[c][b] \in Nat /\ Merged[c][b] <= trials[c][b]
   BY <1>3, <2>2, <2>3 DEF Trials, Below
  <3> QED BY <2>4, <3>1
 <2> DEFINE m == Merged
            mm == Merged'
 <2>6. m \in Trials /\ mm \in Trials /\ Below(m, mm) /\ Below(mm, trials) BY <2>3, <2>5 DEF Below
 <2> HIDE DEF m, mm
 <2>7. AllTried(m) \in Nat /\ AllTried(mm) \in Nat /\ AllTried(m) <= AllTried(mm) BY <2>6, TriedGrows
 <2>8. snapshot.total \in Nat /\ snapshot.total <= AllTried(m) BY <1>5, <2>2, BanditConstants DEF m
 <2>9. snapshot.total <= AllTried(mm) BY <2>7, <2>8
 <2> QED BY <2>6, <2>9 DEF mm
<1> QED BY <1>2, <1>7, <1>9, SnapshotActionKeeps DEF BanditInv

LEMMA SnapshotEndsKeeps == ASSUME BanditInv, BA!SnapshotEnds PROVE BanditInv'
<1>1. BanditTypes BY DEF BanditInv
<1>2. /\ written' \in {[snapshot EXCEPT !.next = 0], written}
      /\ snapshot' = [total |-> 0, next |-> 0, seen |-> [c \in BA!Keys |-> BA!Fresh]]
      /\ UNCHANGED <<trials, pulls, holding, draws, selected, resets, snapshots, calm>>
 BY DEF BA!SnapshotEnds, BA!Empty
<1>3. [c \in BA!Keys |-> BA!Fresh] \in Trials /\ 0 \in 0..MaxPulls /\ 0 \in 0..(Len(Contexts) + 1)
 BY TriedZero, BanditConstants
<1>4. snapshot' \in [total : 0..MaxPulls, next : 0..(Len(Contexts) + 1), seen : Trials] BY <1>2, <1>3
<1>5. written' \in [total : 0..MaxPulls, next : {0}, seen : Trials] BY <1>1, <1>2 DEF BanditTypes
<1>6. BanditTypes' BY <1>1, <1>2, <1>4, <1>5 DEF BanditTypes
<1>7. SnapshotKeeps'
 <2>1. ~(snapshot'.next > 0) BY <1>2
 <2> QED BY <2>1 DEF SnapshotKeeps
<1> QED BY <1>2, <1>6, <1>7, SnapshotActionKeeps DEF BanditInv

LEMMA BanditNext == BanditInv /\ BA!Next => BanditInv'
BY UpdateKeeps, SelectArmKeeps, ResetKeeps, SnapshotBeginsKeeps, StatsKeeps, SnapshotEndsKeeps DEF BA!Next

LEMMA BanditHolds == ASSUME BanditInv PROVE BA!TypeOK /\ BA!WarmupIsBounded /\ BA!SnapshotCovers
<1>1. BanditTypes /\ BanditCounts /\ BanditWarms /\ SnapshotKeeps BY DEF BanditInv
<1>2. pulls \in 0..MaxPulls /\ selected \in 0..MaxPulls /\ trials \in Trials
 <2>1. pulls \in Nat /\ pulls + Cardinality(InHand) <= selected /\ selected \in 0..MaxPulls
       /\ trials \in Trials BY <1>1 DEF BanditTypes, BanditCounts
 <2> QED BY <2>1, HoldersCount, BanditConstants
<1>3. \A c \in BA!Keys, a \in BA!Arms : trials[c][a] \in Nat /\ trials[c][a] <= pulls
 BY <1>1, <1>2, TriedTypes DEF BanditCounts
<1>4. trials \in [BA!Keys -> [BA!Arms -> 0..MaxPulls]]
 <2>1. \A c \in BA!Keys, a \in BA!Arms : trials[c][a] \in 0..MaxPulls BY <1>2, <1>3, BanditConstants
 <2>2. \A c \in BA!Keys : trials[c] \in [BA!Arms -> Nat] BY <1>2 DEF Trials
 <2>3. \A c \in BA!Keys : trials[c] \in [BA!Arms -> 0..MaxPulls] BY <2>1, <2>2
 <2>4. trials = [c \in BA!Keys |-> trials[c]] BY <1>2 DEF Trials
 <2> QED BY <2>3, <2>4
<1>5. BA!TypeOK BY <1>1, <1>2, <1>4 DEF BA!TypeOK, BanditTypes
<1>6. BA!WarmupIsBounded
 <2>1. ASSUME NEW c \in BA!Keys, draws[c] # "sampled", NEW a \in BA!Arms
       PROVE  trials[c][a] < WarmupRounds + BA!Cardinality(Goroutines) * (1 + resets)
  <3>1. trials[c][a] + Cardinality(Holders(c, a)) < WarmLimit BY <1>1, <2>1 DEF BanditWarms
  <3>2. trials[c][a] \in Nat /\ Cardinality(Holders(c, a)) \in Nat /\ WarmLimit \in Nat
   BY <1>1, <1>3, HoldersCount, WarmLimitGrows
  <3>3. trials[c][a] < WarmLimit BY <3>1, <3>2
  <3> QED BY <3>3, Cardinalities DEF WarmLimit
 <2> QED BY <1>1, <2>1 DEF BanditWarms, BA!WarmupIsBounded
<1>7. BA!SnapshotCovers
 <2>1. pulls = BA!SumTrials(trials) BY <1>1, <1>2, TriedIs DEF BanditCounts
 <2>2. ASSUME snapshot.next > Len(Contexts), calm PROVE  snapshot.total <= BA!SumTrials(snapshot.seen)
  <3>1. snapshot \in [total : 0..MaxPulls, next : 0..(Len(Contexts) + 1), seen : Trials] BY <1>1 DEF BanditTypes
  <3>2. snapshot.next > 0 /\ snapshot.next - 1 = Len(Contexts) BY <2>2, <3>1, BanditConstants
  <3>3. \A c \in BA!Keys : Looked(c) BY <3>2, BanditConstants DEF Looked, BA!Keys
  <3>4. Merged = snapshot.seen
   <4>1. snapshot.seen = [c \in BA!Keys |-> snapshot.seen[c]] BY <3>1 DEF Trials
   <4> QED BY <3>3, <4>1 DEF Merged
  <3>5. snapshot.total <= AllTried(snapshot.seen) BY <1>1, <2>2, <3>2, <3>4 DEF SnapshotKeeps
  <3>6. snapshot.seen \in Trials BY <3>1
  <3> QED BY <3>5, <3>6, TriedIs
 <2> QED BY <2>1, <2>2 DEF BA!SnapshotCovers
<1> QED BY <1>5, <1>6, <1>7

(* The signals: what passed is counted, an interval lets one pass, and the signals of emitters at work
   have numbers of their own, of which no handler that is still to be called has heard. *)

LEMMA SignalConstants == MaxEmits \in Nat /\ MaxIntervals \in Nat
BY ToolkitAssumption DEF SE!EmitterAssumption

LEMMA Ranges == ASSUME NEW s PROVE \A x : x \in SE!Range(s) <=> Has(s, x)
BY DEF SE!Range, Has

LEMMA NoneEmitted ==
  /\ <<>> \in Seq(Handlers) /\ <<>> \in Seq(1..MaxEmits) /\ Once(<<>>) /\ \A x : ~Has(<<>>, x)
  /\ SE!NoEmit \in Emissions /\ SE!NoEmit.at = "idle"
BY DEF Once, Has, SE!NoEmit, Emissions

LEMMA SignalInit == ASSUME SE!Init PROVE SignalInv
<1>1. SignalTypes
 <2>1. /\ debounced \in BOOLEAN /\ unheard = FALSE /\ handlers = <<>> /\ resting = {}
       /\ suppressed = 0 /\ emits = 0 /\ passed = {}
       /\ emit = [e \in Goroutines |-> SE!NoEmit] /\ received = [h \in Handlers |-> <<>>]
       /\ intervals = [c \in SE!Category |-> 0] BY DEF SE!Init
 <2>2. /\ emit \in [Goroutines -> Emissions] /\ received \in [Handlers -> Seq(1..MaxEmits)]
       /\ intervals \in [SE!Category -> 0..MaxIntervals] BY <2>1, NoneEmitted, SignalConstants
 <2>3. IsFiniteSet(passed) BY <2>1, FS_EmptySet
 <2> QED BY <2>1, <2>2, <2>3, NoneEmitted, SignalConstants DEF SignalTypes
<1>2. passed = {} /\ Cardinality({}) = 0 /\ \A c : Numbered(c) = {} BY FS_EmptySet DEF SE!Init, Numbered
<1>3. /\ emits = 0 /\ suppressed = 0 /\ \A c \in SE!Category : intervals[c] = 0
      /\ Cardinality(passed) = 0 /\ \A c : Cardinality(Numbered(c)) = 0 BY <1>2 DEF SE!Init
<1>4. SignalPaths BY NoneEmitted DEF SignalPaths, SE!Init
<1>5. SignalCounts BY <1>3 DEF SignalCounts
<1> QED BY <1>1, <1>4, <1>5 DEF SignalInv

LEMMA SignalRests == ASSUME SignalInv, UNCHANGED signalVars PROVE SignalInv'
<1>1. \A c : Numbered(c)' = Numbered(c) BY DEF signalVars, Numbered
<1> QED BY <1>1 DEF SignalInv, SignalTypes, SignalCounts, SignalPaths, signalVars

LEMMA OnKeeps == ASSUME SignalInv, NEW h \in Handlers, SE!On(h) PROVE  SignalInv'
<1>1. SignalTypes /\ SignalCounts /\ SignalPaths BY DEF SignalInv
<1>2. /\ ~Has(handlers, h) /\ handlers' = Append(handlers, h)
      /\ UNCHANGED <<debounced, resting, emit, received, suppressed, emits, intervals, passed, unheard>>
 BY Ranges DEF SE!On
<1>3. handlers \in Seq(Handlers) /\ Once(handlers) BY <1>1 DEF SignalTypes
<1>4. /\ handlers' \in Seq(Handlers) /\ Once(handlers')
      /\ \A y : Has(handlers, y) => Has(handlers', y) BY <1>2, <1>3, OnceAppended, Appends
<1>5. \A c : Numbered(c)' = Numbered(c) BY <1>2 DEF Numbered
<1>6. SignalTypes' BY <1>1, <1>2, <1>4 DEF SignalTypes
<1>7. SignalCounts' BY <1>1, <1>2, <1>5 DEF SignalCounts
<1>8. SignalPaths' BY <1>1, <1>2, <1>4 DEF SignalPaths
<1> QED BY <1>6, <1>7, <1>8 DEF SignalInv

LEMMA EmitKeeps == ASSUME SignalInv, NEW e \in Goroutines, NEW s \in SE!Signals, SE!Emit(e, s) PROVE  SignalInv'
<1> DEFINE d == [at |-> "copy", n |-> emits + 1, left |-> <<>>, owed |-> SE!Range(handlers)]
           p == [n |-> emits + 1, signal |-> s]
<1>1. SignalTypes /\ SignalCounts /\ SignalPaths BY DEF SignalInv
<1>2. /\ emit[e].at = "idle" /\ emits < MaxEmits /\ emits' = emits + 1
      /\ UNCHANGED <<debounced, handlers, received, intervals, unheard>> BY DEF SE!Emit
<1>3. emits \in Nat /\ suppressed \in Nat /\ emits' \in 0..MaxEmits BY <1>1, <1>2, SignalConstants DEF SignalTypes
<1>4. IsFiniteSet(passed) /\ Cardinality(passed) \in Nat BY <1>1, FS_CardinalityType DEF SignalTypes
<1>5. CASE SE!Suppresses(s)
 <2>1. suppressed' = suppressed + 1 /\ UNCHANGED <<resting, emit, passed>> BY <1>5 DEF SE!Emit
 <2>2. \A c : Numbered(c)' = Numbered(c) BY <2>1 DEF Numbered
 <2>3. suppressed' \in 0..MaxEmits BY <1>1, <1>2, <1>3, <1>4, <2>1, SignalConstants DEF SignalCounts
 <2>4. 1..emits \subseteq 1..emits' BY <1>2, <1>3
 <2>5. SignalTypes' BY <1>1, <1>2, <1>3, <2>1, <2>3, <2>4 DEF SignalTypes
 <2>6. SignalCounts' BY <1>1, <1>2, <1>3, <1>4, <2>1, <2>2 DEF SignalCounts
 <2>7. SignalPaths' BY <1>1, <1>2, <2>1, <2>4 DEF SignalPaths
 <2> QED BY <2>5, <2>6, <2>7 DEF SignalInv
<1>6. CASE ~SE!Suppresses(s)
 <2>1. /\ resting' = IF debounced THEN resting \cup {s.category} ELSE resting
       /\ emit' = [emit EXCEPT ![e] = d] /\ passed' = passed \cup {p} /\ UNCHANGED suppressed
       /\ debounced => s.category \notin resting BY <1>6 DEF SE!Emit, SE!Suppresses
 <2>2. p \notin passed BY <1>1, <1>3 DEF SignalTypes
 <2>3. IsFiniteSet(passed') /\ Cardinality(passed') = Cardinality(passed) + 1 BY <1>4, <2>1, <2>2, FS_AddElement
 <2>4. s.category \in SE!Category BY DEF SE!Category
 <2>5. \A x : x \in SE!Range(handlers) <=> Has(handlers, x) BY Ranges
 <2>6. SE!Range(handlers) \subseteq Handlers BY <1>1, <2>5 DEF SignalTypes, Has
 <2>7. d \in Emissions /\ d.at = "copy" /\ d.n = emits + 1 /\ Once(d.left) /\ d.owed = SE!Range(handlers)
  BY <1>3, <2>6, NoneEmitted DEF Emissions
 <2>8. p \in [n : 1..emits', signal : SE!Signals] /\ p.signal.category = s.category BY <1>2, <1>3
 <2> HIDE DEF d, p
 <2>9. emit' \in [Goroutines -> Emissions] /\ \A f \in Goroutines : emit'[f] = IF f = e THEN d ELSE emit[f]
  BY <1>1, <2>1, <2>7 DEF SignalTypes
 <2>10. SignalTypes' BY <1>1, <1>2, <1>3, <2>1, <2>3, <2>4, <2>8, <2>9 DEF SignalTypes
 <2>11. ASSUME debounced', NEW c \in SE!Category
        PROVE  Cardinality(Numbered(c)') <= intervals'[c] + (IF c \in resting' THEN 1 ELSE 0)
  <3>1. IsFiniteSet(Numbered(c)) /\ Cardinality(Numbered(c)) \in Nat /\ p \notin Numbered(c)
   BY <1>4, <2>2, FS_Subset, FS_CardinalityType DEF Numbered
  <3>2. Cardinality(Numbered(c)) <= intervals[c] + (IF c \in resting THEN 1 ELSE 0) /\ intervals[c] \in Nat
   BY <1>1, <1>2, <2>11, SignalConstants DEF SignalCounts, SignalTypes
  <3>3. CASE c = s.category
   <4>1. Numbered(c)' = Numbered(c) \cup {p} BY <2>1, <2>8, <3>3 DEF Numbered
   <4>2. Cardinality(Numbered(c)') = Cardinality(Numbered(c)) + 1 BY <3>1, <4>1, FS_AddElement
   <4> QED BY <1>2, <2>1, <2>11, <3>1, <3>2, <3>3, <4>2
  <3>4. CASE c # s.category
   <4>1. Numbered(c)' = Numbered(c) BY <2>1, <2>8, <3>4 DEF Numbered
   <4> QED BY <1>2, <2>1, <2>11, <3>2, <3>4, <4>1
  <3> QED BY <3>3, <3>4
 <2>12. SignalCounts' BY <1>1, <1>2, <1>3, <1>4, <2>1, <2>3, <2>11 DEF SignalCounts
 <2>13. 1..emits \subseteq 1..emits' /\ emits + 1 \in 1..emits' /\ emits + 1 \notin 1..emits BY <1>2, <1>3
 <2>14. SignalPaths'
  <3>1. \A h \in Handlers : Once(received'[h]) /\ \A n : Has(received'[h], n) => n \in 1..emits'
   BY <1>1, <1>2, <2>13 DEF SignalPaths
  <3>2. \A f \in Goroutines : emit'[f].at # "idle" =>
          /\ emit'[f].n \in 1..emits'
          /\ \A g \in Goroutines : emit'[g].at # "idle" /\ emit'[g].n = emit'[f].n => g = f
          /\ Once(emit'[f].left)
          /\ \A h \in emit'[f].owed : Has(handlers', h) BY <1>1, <1>2, <2>5, <2>7, <2>9, <2>13 DEF SignalPaths
  <3>3. \A f \in Goroutines : emit'[f].at = "copy" => \A h \in Handlers : ~Has(received'[h], emit'[f].n)
   BY <1>1, <1>2, <2>7, <2>9, <2>13 DEF SignalPaths
  <3>4. \A f \in Goroutines : emit'[f].at = "call" => f # e BY <2>7, <2>9
  <3>5. \A f \in Goroutines : emit'[f].at = "call" =>
          /\ \A h \in Handlers : Has(emit'[f].left, h) => ~Has(received'[h], emit'[f].n)
          /\ \A h \in emit'[f].owed : Has(emit'[f].left, h) \/ Has(received'[h], emit'[f].n)
   BY <1>1, <1>2, <2>9, <3>4 DEF SignalPaths
  <3> QED BY <3>1, <3>2, <3>3, <3>5 DEF SignalPaths
 <2> QED BY <2>10, <2>12, <2>14 DEF SignalInv
<1> QED BY <1>5, <1>6

LEMMA CopyKeeps == ASSUME SignalInv, NEW e \in Goroutines, SE!CopyHandlers(e) PROVE  SignalInv'
<1>1. SignalTypes /\ SignalCounts /\ SignalPaths BY DEF SignalInv
<1>2. /\ emit[e].at = "copy" /\ emit' = [emit EXCEPT ![e].at = "call", ![e].left = handlers]
      /\ UNCHANGED <<debounced, handlers, resting, received, suppressed, emits, intervals, passed, unheard>>
 BY DEF SE!CopyHandlers
<1>3. emit \in [Goroutines -> Emissions] /\ handlers \in Seq(Handlers) /\ Once(handlers) BY <1>1 DEF SignalTypes
<1>4. /\ emit' \in [Goroutines -> Emissions]
      /\ \A f \in Goroutines : f # e => emit'[f] = emit[f]
      /\ emit'[e].at = "call" /\ emit'[e].left = handlers /\ emit'[e].n = emit[e].n
      /\ emit'[e].owed = emit[e].owed BY <1>2, <1>3 DEF Emissions
<1>5. \A c : Numbered(c)' = Numbered(c) BY <1>2 DEF Numbered
<1>6. SignalTypes' BY <1>1, <1>2, <1>4 DEF SignalTypes
<1>7. SignalCounts' BY <1>1, <1>2, <1>5 DEF SignalCounts
<1>8. SignalPaths'
 <2>1. \A h \in Handlers : Once(received'[h]) /\ \A n : Has(received'[h], n) => n \in 1..emits'
  BY <1>1, <1>2 DEF SignalPaths
 <2>2. \A f \in Goroutines : emit'[f].at # "idle" =>
         /\ emit'[f].n \in 1..emits'
         /\ \A g \in Goroutines : emit'[g].at # "idle" /\ emit'[g].n = emit'[f].n => g = f
         /\ Once(emit'[f].left)
         /\ \A h \in emit'[f].owed : Has(handlers', h) BY <1>1, <1>2, <1>3, <1>4 DEF SignalPaths
 <2>3. \A f \in Goroutines : emit'[f].at = "copy" => \A h \in Handlers : ~Has(received'[h], emit'[f].n)
  BY <1>1, <1>2, <1>4 DEF SignalPaths
 <2>4. \A f \in Goroutines : emit'[f].at = "call" =>
         /\ \A h \in Handlers : Has(emit'[f].left, h) => ~Has(received'[h], emit'[f].n)
         /\ \A h \in emit'[f].owed : Has(emit'[f].left, h) \/ Has(received'[h], emit'[f].n)
  BY <1>1, <1>2, <1>4 DEF SignalPaths
 <2> QED BY <2>1, <2>2, <2>3, <2>4 DEF SignalPaths
<1> QED BY <1>6, <1>7, <1>8 DEF SignalInv

LEMMA CallHandlerKeeps == ASSUME SignalInv, NEW e \in Goroutines, SE!CallHandler(e) PROVE  SignalInv'
<1> DEFINE l == emit[e].left
           h == Head(l)
           n == emit[e].n
<1>1. SignalTypes /\ SignalCounts /\ SignalPaths BY DEF SignalInv
<1>2. /\ emit[e].at = "call" /\ l # <<>> /\ received' = [received EXCEPT ![h] = Append(@, n)]
      /\ emit' = [emit EXCEPT ![e].left = Tail(@)]
      /\ UNCHANGED <<debounced, handlers, resting, suppressed, emits, intervals, passed, unheard>>
 BY DEF SE!CallHandler
<1>3. emit \in [Goroutines -> Emissions] /\ received \in [Handlers -> Seq(1..MaxEmits)] BY <1>1 DEF SignalTypes
<1>4. l \in Seq(Handlers) /\ Once(l) /\ n \in 1..emits /\ 1..emits \subseteq 1..MaxEmits
 BY <1>1, <1>2, <1>3, SignalConstants DEF SignalPaths, SignalTypes, Emissions
<1>5. /\ h \in Handlers /\ Tail(l) \in Seq(Handlers) /\ Has(l, h) /\ Once(Tail(l))
      /\ ~Has(Tail(l), h) /\ \A y : Has(l, y) <=> Has(Tail(l), y) \/ y = h BY <1>2, <1>4, OnceTail
<1>6. /\ emit' \in [Goroutines -> Emissions]
      /\ \A f \in Goroutines : f # e => emit'[f] = emit[f]
      /\ emit'[e].at = "call" /\ emit'[e].left = Tail(l) /\ emit'[e].n = n /\ emit'[e].owed = emit[e].owed
 BY <1>2, <1>3, <1>5 DEF Emissions
<1>7. ~Has(received[h], n) BY <1>1, <1>2, <1>5 DEF SignalPaths
<1>8. /\ Append(received[h], n) \in Seq(1..MaxEmits)
      /\ \A y : Has(Append(received[h], n), y) <=> Has(received[h], y) \/ y = n
      /\ Once(received[h]) => Once(Append(received[h], n))
 <2>1. received[h] \in Seq(1..MaxEmits) /\ n \in 1..MaxEmits BY <1>3, <1>4, <1>5
 <2> DEFINE s == received[h]
 <2>2. ~Has(s, n) BY <1>7
 <2> HIDE DEF s, n, h
 <2>3. Append(s, n) \in Seq(1..MaxEmits) BY <2>1, Appends DEF s
 <2>4. /\ \A y : Has(Append(s, n), y) <=> Has(s, y) \/ y = n
       /\ Once(s) => Once(Append(s, n)) BY <2>1, <2>2, OnceAppended DEF s
 <2> QED BY <2>3, <2>4 DEF s
<1> HIDE DEF l, h, n
<1>9. /\ received' \in [Handlers -> Seq(1..MaxEmits)]
      /\ \A x \in Handlers : received'[x] = IF x = h THEN Append(received[h], n) ELSE received[x]
 BY <1>2, <1>3, <1>5, <1>8
<1>10. \A x \in Handlers : \A y : Has(received'[x], y) <=> Has(received[x], y) \/ (x = h /\ y = n) BY <1>8, <1>9
<1>11. \A c : Numbered(c)' = Numbered(c) BY <1>2 DEF Numbered
<1>12. SignalTypes' BY <1>1, <1>2, <1>6, <1>9 DEF SignalTypes
<1>13. SignalCounts' BY <1>1, <1>2, <1>11 DEF SignalCounts
<1>14. SignalPaths'
 <2>1. \A x \in Handlers : Once(received'[x]) /\ \A y : Has(received'[x], y) => y \in 1..emits'
  BY <1>1, <1>2, <1>4, <1>8, <1>9, <1>10 DEF SignalPaths
 <2>2. \A f \in Goroutines : emit'[f].at # "idle" =>
         /\ emit'[f].n \in 1..emits'
         /\ \A g \in Goroutines : emit'[g].at # "idle" /\ emit'[g].n = emit'[f].n => g = f
         /\ Once(emit'[f].left)
         /\ \A x \in emit'[f].owed : Has(handlers', x)
  <3>1. \A f \in Goroutines : emit'[f].n = emit[f].n /\ emit'[f].at = emit[f].at /\ emit'[f].owed = emit[f].owed
   BY <1>2, <1>6 DEF n
  <3>2. \A f \in Goroutines : emit'[f].at # "idle" => Once(emit'[f].left)
   <4>1. \A f \in Goroutines : emit[f].at # "idle" => Once(emit[f].left) BY <1>1 DEF SignalPaths
   <4> QED BY <1>5, <1>6, <4>1
  <3>3. \A f \in Goroutines : emit[f].at # "idle" =>
          /\ emit[f].n \in 1..emits
          /\ \A g \in Goroutines : emit[g].at # "idle" /\ emit[g].n = emit[f].n => g = f
          /\ \A x \in emit[f].owed : Has(handlers, x) BY <1>1 DEF SignalPaths
  <3>4. emits' = emits /\ handlers' = handlers BY <1>2
  <3> QED BY <3>1, <3>2, <3>3, <3>4
 <2>3. \A f \in Goroutines : emit[f].at # "idle" /\ emit[f].n = n => f = e BY <1>1, <1>2 DEF SignalPaths, n
 <2>4. \A f \in Goroutines : emit'[f].at = "copy" => \A x \in Handlers : ~Has(received'[x], emit'[f].n)
  <3>1. \A f \in Goroutines : emit'[f].at = "copy" => f # e /\ emit'[f] = emit[f] /\ emit[f].n # n BY <1>6, <2>3
  <3> QED BY <1>1, <1>10, <3>1 DEF SignalPaths
 <2>5. ASSUME NEW f \in Goroutines, emit'[f].at = "call"
       PROVE  /\ \A x \in Handlers : Has(emit'[f].left, x) => ~Has(received'[x], emit'[f].n)
              /\ \A x \in emit'[f].owed : Has(emit'[f].left, x) \/ Has(received'[x], emit'[f].n)
  <3>0. \A x \in emit'[f].owed : x \in Handlers BY <1>6 DEF Emissions
  <3>1. CASE f = e
   <4>1. /\ \A x \in Handlers : Has(l, x) => ~Has(received[x], n)
         /\ \A x \in emit[e].owed : Has(l, x) \/ Has(received[x], n) BY <1>1, <1>2 DEF SignalPaths, l, n
   <4>2. \A x \in Handlers : Has(Tail(l), x) => ~Has(received'[x], n)
    <5> SUFFICES ASSUME NEW x \in Handlers, Has(Tail(l), x) PROVE ~Has(received'[x], n) OBVIOUS
    <5>1. x # h /\ Has(l, x) BY <1>5
    <5>2. ~Has(received[x], n) BY <4>1, <5>1
    <5> QED BY <1>10, <5>1, <5>2
   <4>3. \A x \in emit[e].owed : Has(Tail(l), x) \/ Has(received'[x], n)
    <5> SUFFICES ASSUME NEW x \in emit[e].owed PROVE Has(Tail(l), x) \/ Has(received'[x], n) OBVIOUS
    <5>1. x \in Handlers /\ (Has(l, x) \/ Has(received[x], n)) BY <1>6, <3>0, <3>1, <4>1
    <5>2. Has(l, x) => Has(Tail(l), x) \/ x = h BY <1>5
    <5> QED BY <1>10, <5>1, <5>2
   <4> QED BY <1>6, <3>1, <4>2, <4>3
  <3>2. CASE f # e
   <4>1. emit'[f] = emit[f] /\ emit[f].n # n BY <1>6, <2>3, <2>5, <3>2
   <4> QED BY <1>1, <1>10, <2>5, <3>0, <4>1 DEF SignalPaths
  <3> QED BY <3>1, <3>2
 <2> QED BY <2>1, <2>2, <2>4, <2>5 DEF SignalPaths
<1> QED BY <1>12, <1>13, <1>14 DEF SignalInv

LEMMA EmitReturnKeeps == ASSUME SignalInv, NEW e \in Goroutines, SE!EmitReturns(e) PROVE  SignalInv'
<1>1. SignalTypes /\ SignalCounts /\ SignalPaths BY DEF SignalInv
<1>2. /\ emit[e].at = "call" /\ emit[e].left = <<>> /\ emit' = [emit EXCEPT ![e] = SE!NoEmit]
      /\ unheard' = (unheard \/ \E h \in emit[e].owed : emit[e].n \notin SE!Range(received[h]))
      /\ UNCHANGED <<debounced, handlers, resting, received, suppressed, emits, intervals, passed>>
 BY DEF SE!EmitReturns
<1>3. \A h \in emit[e].owed : Has(received[h], emit[e].n) BY <1>1, <1>2, NoneEmitted DEF SignalPaths
<1>4. unheard' = FALSE
 <2>1. ~(\E h \in emit[e].owed : emit[e].n \notin SE!Range(received[h])) BY <1>3, Ranges
 <2>2. unheard = FALSE BY <1>1 DEF SignalTypes
 <2> QED BY <1>2, <2>1, <2>2
<1>5. /\ emit' \in [Goroutines -> Emissions] /\ emit'[e].at = "idle"
      /\ \A f \in Goroutines : f # e => emit'[f] = emit[f] BY <1>1, <1>2, NoneEmitted DEF SignalTypes
<1>6. \A c : Numbered(c)' = Numbered(c) BY <1>2 DEF Numbered
<1>7. SignalTypes' BY <1>1, <1>2, <1>4, <1>5 DEF SignalTypes
<1>8. SignalCounts' BY <1>1, <1>2, <1>6 DEF SignalCounts
<1>9. SignalPaths'
 <2>1. \A f \in Goroutines : emit'[f].at # "idle" => f # e /\ emit'[f] = emit[f] BY <1>5
 <2> QED BY <1>1, <1>2, <2>1 DEF SignalPaths
<1> QED BY <1>7, <1>8, <1>9 DEF SignalInv

LEMMA IntervalKeeps == ASSUME SignalInv, NEW c \in SE!Category, SE!IntervalPasses(c) PROVE  SignalInv'
<1>1. SignalTypes /\ SignalCounts /\ SignalPaths BY DEF SignalInv
<1>2. /\ c \in resting /\ intervals[c] < MaxIntervals
      /\ resting' = resting \ {c} /\ intervals' = [intervals EXCEPT ![c] = @ + 1]
      /\ UNCHANGED <<debounced, handlers, emit, received, suppressed, emits, passed, unheard>>
 BY DEF SE!IntervalPasses
<1>3. intervals \in [SE!Category -> 0..MaxIntervals] BY <1>1 DEF SignalTypes
<1>4. /\ intervals' \in [SE!Category -> 0..MaxIntervals]
      /\ \A x \in SE!Category : intervals'[x] = IF x = c THEN intervals[x] + 1 ELSE intervals[x]
 <2>1. intervals[c] + 1 \in 0..MaxIntervals BY <1>2, <1>3, SignalConstants
 <2> QED BY <1>2, <1>3, <2>1
<1>5. \A x : Numbered(x)' = Numbered(x) BY <1>2 DEF Numbered
<1>6. SignalTypes' BY <1>1, <1>2, <1>4 DEF SignalTypes
<1>7. SignalCounts'
 <2>1. \A x \in SE!Category : intervals[x] \in Nat BY <1>3, SignalConstants
 <2> QED BY <1>1, <1>2, <1>4, <1>5, <2>1 DEF SignalCounts
<1>8. SignalPaths' BY <1>1, <1>2 DEF SignalPaths
<1> QED BY <1>6, <1>7, <1>8 DEF SignalInv

LEMMA SignalNext == SignalInv /\ SE!Next => SignalInv'
BY OnKeeps, EmitKeeps, CopyKeeps, CallHandlerKeeps, EmitReturnKeeps, IntervalKeeps DEF SE!Next

LEMMA SignalHolds == ASSUME SignalInv PROVE SE!TypeOK /\ SE!DebounceHolds /\ SE!HandlersHearOnce
<1>1. SignalTypes /\ SignalCounts /\ SignalPaths BY DEF SignalInv
<1>2. SE!TypeOK
 <2>1. SE!Range(handlers) \subseteq Handlers BY <1>1, Ranges DEF SignalTypes, Has
 <2>2. ASSUME NEW h \in Handlers PROVE SE!Range(received[h]) \subseteq 1..MaxEmits
  <3>1. received[h] \in Seq(1..MaxEmits) BY <1>1 DEF SignalTypes
  <3>2. \A j \in DOMAIN received[h] : received[h][j] \in 1..MaxEmits BY <3>1, Elements
  <3> QED BY <3>2 DEF SE!Range
 <2>3. \A p \in passed : p.n \in 1..MaxEmits /\ p.signal \in SE!Signals BY <1>1, SignalConstants DEF SignalTypes
 <2>4. \A e \in Goroutines : emit[e].at \in {"idle", "copy", "call"} BY <1>1 DEF SignalTypes, Emissions
 <2>5. unheard \in BOOLEAN
  <3>1. unheard = FALSE BY <1>1 DEF SignalTypes
  <3> QED BY <3>1
 <2>6. /\ debounced \in BOOLEAN /\ resting \subseteq SE!Category
       /\ suppressed \in 0..MaxEmits /\ emits \in 0..MaxEmits /\ intervals \in [SE!Category -> 0..MaxIntervals]
  BY <1>1 DEF SignalTypes
 <2> QED BY <2>1, <2>2, <2>3, <2>4, <2>5, <2>6 DEF SE!TypeOK
<1>3. SE!DebounceHolds
 <2>1. emits = suppressed + SE!Cardinality(passed) BY <1>1, Cardinalities DEF SignalCounts
 <2>2. ASSUME debounced, NEW c \in SE!Category
       PROVE  SE!Cardinality({p \in passed : p.signal.category = c}) <= intervals[c] + 1
  <3>1. Cardinality(Numbered(c)) <= intervals[c] + (IF c \in resting THEN 1 ELSE 0) BY <1>1, <2>2 DEF SignalCounts
  <3>2. Cardinality(Numbered(c)) \in Nat /\ intervals[c] \in Nat
   BY <1>1, FS_Subset, FS_CardinalityType, SignalConstants DEF SignalTypes, Numbered
  <3>3. Cardinality(Numbered(c)) <= intervals[c] + 1 BY <3>1, <3>2
  <3> QED BY <3>3, Cardinalities DEF Numbered
 <2> QED BY <2>1, <2>2 DEF SE!DebounceHolds
<1>4. SE!HandlersHearOnce
 <2>1. ASSUME NEW h \in Handlers PROVE SE!Cardinality(SE!Range(received[h])) = Len(received[h])
  <3>1. received[h] \in Seq(1..MaxEmits) /\ Once(received[h]) BY <1>1 DEF SignalTypes, SignalPaths
  <3>2. Cardinality({received[h][j] : j \in DOMAIN received[h]}) = Len(received[h]) BY <3>1, OnceCounts
  <3> QED BY <3>2, Cardinalities DEF SE!Range
 <2> QED BY <1>1, <2>1 DEF SE!HandlersHearOnce, SignalTypes
<1> QED BY <1>2, <1>3, <1>4

(* The maturity of patterns: what each level has behind it. *)

LEMMA MaturityConstants == TestingSuccesses \in Nat /\ StableSuccesses \in Nat /\ TrustedSuccesses \in Nat
  /\ DegradedFailures \in Nat /\ DegradedFailures >= 1
BY ToolkitAssumption DEF LE!MaturityAssumption

LEMMA MaturityInit == ASSUME LE!MaturityInit PROVE MaturityInv
<1>1. /\ known = {} /\ level = [p \in Patterns |-> "new"] /\ picture = level /\ gaps = FALSE
      /\ total = [p \in Patterns |-> 0] /\ wins = [p \in Patterns |-> 0] /\ losses = [p \in Patterns |-> 0]
      /\ regained = [p \in Patterns |-> TestingSuccesses + 1] BY DEF LE!MaturityInit
<1>2. /\ 0 \in 0..TrustedSuccesses /\ 0 \in 0..TestingSuccesses /\ 0 \in 0..DegradedFailures
      /\ TestingSuccesses + 1 \in 0..(TestingSuccesses + 1) /\ "new" \in LE!Levels BY MaturityConstants DEF LE!Levels
<1>3. LE!MaturityTypeOK /\ LE!ListenersKnow BY <1>1, <1>2 DEF LE!MaturityTypeOK, LE!ListenersKnow
<1>4. ASSUME NEW p \in Patterns PROVE  level[p] = "new" /\ losses[p] = 0 /\ regained[p] = TestingSuccesses + 1 BY <1>1
<1> QED BY <1>3, <1>4, MaturityConstants DEF MaturityInv

LEMMA MaturityRests == MaturityInv /\ UNCHANGED maturityVars => MaturityInv'
BY DEF maturityVars, MaturityInv, LE!MaturityTypeOK, LE!ListenersKnow

\* A record changes the level of one pattern, and the listener hears of it.
LEMMA EmitKnows ==
  ASSUME LE!MaturityTypeOK, LE!ListenersKnow, NEW p \in Patterns, NEW new \in LE!Levels,
         level' = [level EXCEPT ![p] = new], LE!emit(p)
  PROVE  level' \in [Patterns -> LE!Levels] /\ LE!ListenersKnow' /\ gaps' \in BOOLEAN
<1>1. level \in [Patterns -> LE!Levels] /\ picture = level /\ gaps = FALSE BY DEF LE!MaturityTypeOK, LE!ListenersKnow
<1>2. level' \in [Patterns -> LE!Levels] /\ level'[p] = new BY <1>1
<1>3. CASE level'[p] = level[p]
 <2>1. picture' = picture /\ gaps' = gaps BY <1>3 DEF LE!emit
 <2>2. level' = level BY <1>1, <1>2, <1>3
 <2> QED BY <1>1, <1>2, <2>1, <2>2 DEF LE!ListenersKnow
<1>4. CASE level'[p] # level[p]
 <2>1. picture' = [picture EXCEPT ![p] = new] /\ gaps' = FALSE BY <1>1, <1>2, <1>4 DEF LE!emit
 <2> QED BY <1>1, <1>2, <2>1 DEF LE!ListenersKnow
<1> QED BY <1>3, <1>4

LEMMA SuccessKeeps == ASSUME MaturityInv, NEW p \in Patterns, LE!RecordSuccess(p) PROVE MaturityInv'
<1> DEFINE n == LE!Upto(TrustedSuccesses, total[p] + 1)
           w == LE!Upto(TestingSuccesses, wins[p] + 1)
           r == LE!Upto(TestingSuccesses + 1, regained[p] + 1)
           new == LE!maybePromote(level[p], n, w)
<1>1. /\ known \subseteq Patterns /\ level \in [Patterns -> LE!Levels]
      /\ picture \in [Patterns -> LE!Levels] /\ gaps \in BOOLEAN
      /\ total \in [Patterns -> 0..TrustedSuccesses] /\ wins \in [Patterns -> 0..TestingSuccesses]
      /\ losses \in [Patterns -> 0..DegradedFailures] /\ regained \in [Patterns -> 0..(TestingSuccesses + 1)]
      /\ LE!MaturityTypeOK /\ LE!ListenersKnow BY DEF MaturityInv, LE!MaturityTypeOK
<1>2. /\ n \in 0..TrustedSuccesses /\ n >= total[p]
      /\ w \in 0..TestingSuccesses /\ (wins[p] < TestingSuccesses => w = wins[p] + 1)
      /\ r \in 0..(TestingSuccesses + 1)
      /\ regained[p] <= TestingSuccesses => r = regained[p] + 1
      /\ regained[p] > TestingSuccesses => r = TestingSuccesses + 1 BY <1>1, MaturityConstants DEF LE!Upto
<1>3. /\ known' = known \cup {p} /\ losses' = [losses EXCEPT ![p] = 0]
      /\ total' = [total EXCEPT ![p] = n] /\ wins' = [wins EXCEPT ![p] = w]
      /\ regained' = [regained EXCEPT ![p] = r] /\ LE!emit(p) BY DEF LE!RecordSuccess
<1>4. level' = [level EXCEPT ![p] = LE!maybePromote(level[p], total'[p], wins'[p])] BY DEF LE!RecordSuccess
<1>5. total'[p] = n /\ wins'[p] = w BY <1>1, <1>3
<1>6. level' = [level EXCEPT ![p] = new] BY <1>4, <1>5
<1> HIDE DEF n, w, r
<1>7. /\ new \in LE!Levels
      /\ new = "testing" => \/ level[p] \in {"new", "testing"}
                            \/ level[p] = "degraded" /\ w >= TestingSuccesses
      /\ new = "stable" => \/ level[p] = "stable"
                           \/ level[p] = "testing" /\ n >= StableSuccesses
      /\ new = "trusted" => level[p] \in {"stable", "trusted"}
      /\ new \in {"new", "degraded"} => new = level[p]
 <2>1. level[p] \in LE!Levels BY <1>1
 <2> QED BY <2>1 DEF LE!maybePromote, LE!Levels
<1> HIDE DEF new
<1>8. level' \in [Patterns -> LE!Levels] /\ LE!ListenersKnow' /\ gaps' \in BOOLEAN
 BY <1>1, <1>3, <1>6, <1>7, EmitKnows
<1>9. LE!MaturityTypeOK'
 <2>1. known' \subseteq Patterns /\ total' \in [Patterns -> 0..TrustedSuccesses] BY <1>1, <1>2, <1>3
 <2>2. wins' \in [Patterns -> 0..TestingSuccesses] BY <1>1, <1>2, <1>3
 <2>3. 0 \in 0..DegradedFailures BY MaturityConstants
 <2>4. losses' \in [Patterns -> 0..DegradedFailures] BY <1>1, <1>3, <2>3
 <2>5. regained' \in [Patterns -> 0..(TestingSuccesses + 1)] BY <1>1, <1>2, <1>3
 <2> QED BY <1>8, <2>1, <2>2, <2>4, <2>5 DEF LE!MaturityTypeOK, LE!ListenersKnow
<1>10. ASSUME NEW q \in Patterns
       PROVE  /\ level'[q] # "new" => q \in known'
              /\ level'[q] # "degraded" => losses'[q] < DegradedFailures
              /\ level'[q] = "degraded" => wins'[q] <= regained'[q]
              /\ level'[q] = "testing" => regained'[q] >= TestingSuccesses
              /\ level'[q] \in {"new", "stable", "trusted"} => regained'[q] > TestingSuccesses
              /\ level'[q] \in {"stable", "trusted"} => total'[q] >= StableSuccesses
 <2>1. /\ level[q] # "new" => q \in known
       /\ level[q] # "degraded" => losses[q] < DegradedFailures
       /\ level[q] = "degraded" => wins[q] <= regained[q]
       /\ level[q] = "testing" => regained[q] >= TestingSuccesses
       /\ level[q] \in {"new", "stable", "trusted"} => regained[q] > TestingSuccesses
       /\ level[q] \in {"stable", "trusted"} => total[q] >= StableSuccesses BY DEF MaturityInv
 <2>2. CASE q # p BY <1>1, <1>3, <1>6, <2>1, <2>2
 <2>3. CASE q = p
  <3>1. level'[q] = new /\ q \in known' /\ losses'[q] = 0 /\ wins'[q] = w /\ regained'[q] = r
        /\ total'[q] = n BY <1>1, <1>3, <1>6, <2>3
  <3>2. wins[p] \in Nat /\ regained[p] \in Nat /\ total[p] \in Nat BY <1>1, MaturityConstants
  <3>3. level[p] = "degraded" => w <= r BY <1>2, <2>1, <2>3, <3>2, MaturityConstants
  <3> QED BY <1>2, <1>7, <2>1, <2>3, <3>1, <3>2, <3>3, MaturityConstants
 <2> QED BY <2>2, <2>3
<1> QED BY <1>8, <1>9, <1>10 DEF MaturityInv

LEMMA FailureKeeps == ASSUME MaturityInv, NEW p \in Patterns, LE!RecordFailure(p) PROVE MaturityInv'
<1> DEFINE l == LE!Upto(DegradedFailures, losses[p] + 1)
           new == IF l >= DegradedFailures THEN "degraded" ELSE level[p]
<1>1. /\ known \subseteq Patterns /\ level \in [Patterns -> LE!Levels]
      /\ picture \in [Patterns -> LE!Levels] /\ gaps \in BOOLEAN
      /\ total \in [Patterns -> 0..TrustedSuccesses] /\ wins \in [Patterns -> 0..TestingSuccesses]
      /\ losses \in [Patterns -> 0..DegradedFailures] /\ regained \in [Patterns -> 0..(TestingSuccesses + 1)]
      /\ LE!MaturityTypeOK /\ LE!ListenersKnow BY DEF MaturityInv, LE!MaturityTypeOK
<1>2. l \in 0..DegradedFailures BY <1>1, MaturityConstants DEF LE!Upto
<1>3. /\ known' = known \cup {p} /\ losses' = [losses EXCEPT ![p] = l]
      /\ total' = total /\ wins' = [wins EXCEPT ![p] = 0] /\ LE!emit(p)
      /\ level' = [level EXCEPT ![p] = IF losses'[p] >= DegradedFailures THEN "degraded" ELSE @]
      /\ regained' = [regained EXCEPT ![p] = IF level'[p] = "degraded" THEN 0 ELSE @] BY DEF LE!RecordFailure
<1> HIDE DEF l
<1>4. losses'[p] = l BY <1>1, <1>3
<1>5. level' = [level EXCEPT ![p] = new] /\ new \in LE!Levels BY <1>1, <1>3, <1>4 DEF LE!Levels
<1>6. level'[p] = new BY <1>1, <1>5
<1> HIDE DEF new
<1>7. regained' \in [Patterns -> 0..(TestingSuccesses + 1)]
      /\ regained'[p] = (IF new = "degraded" THEN 0 ELSE regained[p]) BY <1>1, <1>3, <1>6, MaturityConstants
<1>8. level' \in [Patterns -> LE!Levels] /\ LE!ListenersKnow' /\ gaps' \in BOOLEAN BY <1>1, <1>3, <1>5, EmitKnows
<1>9. LE!MaturityTypeOK' BY <1>1, <1>2, <1>3, <1>7, <1>8, MaturityConstants DEF LE!MaturityTypeOK, LE!ListenersKnow
<1>10. ASSUME NEW q \in Patterns
       PROVE  /\ level'[q] # "new" => q \in known'
              /\ level'[q] # "degraded" => losses'[q] < DegradedFailures
              /\ level'[q] = "degraded" => wins'[q] <= regained'[q]
              /\ level'[q] = "testing" => regained'[q] >= TestingSuccesses
              /\ level'[q] \in {"new", "stable", "trusted"} => regained'[q] > TestingSuccesses
              /\ level'[q] \in {"stable", "trusted"} => total'[q] >= StableSuccesses
 <2>1. /\ level[q] # "new" => q \in known
       /\ level[q] # "degraded" => losses[q] < DegradedFailures
       /\ level[q] = "degraded" => wins[q] <= regained[q]
       /\ level[q] = "testing" => regained[q] >= TestingSuccesses
       /\ level[q] \in {"new", "stable", "trusted"} => regained[q] > TestingSuccesses
       /\ level[q] \in {"stable", "trusted"} => total[q] >= StableSuccesses BY DEF MaturityInv
 <2>2. CASE q # p BY <1>1, <1>3, <1>5, <2>1, <2>2
 <2>3. CASE q = p
  <3>1. level'[q] = new /\ q \in known' /\ losses'[q] = l /\ wins'[q] = 0 /\ total'[q] = total[q]
   BY <1>1, <1>3, <1>5, <2>3
  <3>2. new # level[p] => new = "degraded" BY DEF new
  <3>3. new # "degraded" => l < DegradedFailures BY <1>2, MaturityConstants DEF new
  <3>4. new # "degraded" => regained'[q] = regained[q] BY <1>7, <2>3
  <3>5. new = "degraded" => regained'[q] = 0 BY <1>7, <2>3
  <3> QED BY <2>1, <2>3, <3>1, <3>2, <3>3, <3>4, <3>5
 <2> QED BY <2>2, <2>3
<1> QED BY <1>8, <1>9, <1>10 DEF MaturityInv

LEMMA MaturityNext == MaturityInv /\ LE!MaturityNext => MaturityInv'
BY SuccessKeeps, FailureKeeps DEF LE!MaturityNext

LEMMA MaturityHolds == MaturityInv => LE!MaturityTypeOK /\ LE!LightIsEarned /\ LE!ListenersKnow
<1> SUFFICES ASSUME MaturityInv, NEW p \in Patterns, LE!SuggestTier(p) = "light"
             PROVE  /\ p \in known /\ total[p] >= StableSuccesses
                    /\ losses[p] < DegradedFailures /\ regained[p] > TestingSuccesses
 BY DEF MaturityInv, LE!LightIsEarned
<1>1. level[p] \in {"stable", "trusted"} BY DEF LE!SuggestTier
<1> QED BY <1>1 DEF MaturityInv

(* The learning loop: histories are the latest entries in order, and the calls of the tickers are
   counted by what they filed. *)

USE DEF Ticks, Tells, Imports

LEMMA LearnConstants ==
  /\ IsFiniteSet(Goroutines) /\ RepeatThreshold \in Nat /\ MaxActions \in Nat /\ MaxTicks \in Nat /\ MaxLoads \in Nat
  /\ MaxHist \in Nat /\ MaxHist >= 1
<1>1. LE!LearningAssumption BY ToolkitAssumption
<1>2. LE!IsFiniteSet(Goroutines) => IsFiniteSet(Goroutines) BY DEF LE!IsFiniteSet, IsFiniteSet
<1> QED BY <1>1, <1>2 DEF LE!LearningAssumption

LEMMA LearnInit == ASSUME LE!Init PROVE LearnInv
<1>1. /\ acts = [all |-> 0, failed |-> 0] /\ filed = 0 /\ ended = 0 /\ loads = 0
      /\ scores = <<>> /\ loop = <<>> /\ file = <<>>
      /\ \A t \in Goroutines : tick[t] = LE!NoTick
      /\ tick = [t \in Goroutines |-> LE!NoTick]
      /\ fed = [t \in Goroutines |-> [own |-> 0, used |-> 0, did |-> "none"]] BY DEF LE!Init
<1>2. /\ LE!NoTick \in Ticks
      /\ [own |-> 0, used |-> 0, did |-> "none"]
             \in [own : 0..MaxTicks, used : 0..MaxTicks, did : {"none", "decay", "boost"}]
      /\ acts \in [all : 0..MaxActions, failed : 0..MaxActions] /\ LE!NoTick.at = "idle"
 BY <1>1, LearnConstants DEF LE!NoTick, LE!NoScore, LE!Score
<1>3. LE!TypeOK BY <1>1, <1>2, LearnConstants DEF LE!TypeOK
<1>4. Past = {} /\ Running = {} BY <1>1, <1>2 DEF Past, Running
<1>5. Cardinality(Past) = 0 /\ Cardinality(Running) = 0 BY <1>4, FS_EmptySet
<1>6. LE!FeedbackIsCurrent BY <1>1, LearnConstants DEF LE!FeedbackIsCurrent
<1>7. LE!SignalsFollowScore BY <1>1 DEF LE!SignalsFollowScore
<1> QED BY <1>1, <1>2, <1>3, <1>5, <1>6, <1>7, LearnConstants DEF LearnInv

LEMMA LearnRests == LearnInv /\ UNCHANGED learningVars => LearnInv'
BY DEF learningVars, LearnInv, LE!TypeOK, LE!FeedbackIsCurrent, LE!SignalsFollowScore, Past, Running

\* A history is cut from the front.
Follows(r, s, x, U) ==
  /\ r \in Seq(U) /\ Len(r) \in 1..MaxHist /\ Len(r) <= Len(s) + 1 /\ r[Len(r)] = x
  /\ \A j \in 1..(Len(r) - 1) : /\ Len(s) + 1 - Len(r) + j \in 1..Len(s)
                               /\ r[j] = s[Len(s) + 1 - Len(r) + j]

LEMMA RecentKept == ASSUME NEW U, NEW s \in Seq(U), NEW x \in U, Len(s) <= MaxHist
  PROVE  Follows(LE!Recent(Append(s, x)), s, x, U)
<1> SUFFICES ASSUME NEW a, a = Append(s, x), NEW r, r = LE!Recent(a) PROVE  Follows(r, s, x, U) OBVIOUS
<1>1. /\ a \in Seq(U) /\ Len(s) \in Nat /\ Len(a) = Len(s) + 1
      /\ \A j \in 1..Len(s) : a[j] = s[j]
      /\ a[Len(s) + 1] = x BY Appends
<1>2. MaxHist \in Nat /\ MaxHist >= 1 BY LearnConstants
<1>3. CASE Len(a) > MaxHist
 <2>1. r = SubSeq(a, Len(a) - MaxHist + 1, Len(a)) BY <1>3 DEF LE!Recent
 <2>2. Len(s) = MaxHist BY <1>1, <1>2, <1>3
 <2>3. /\ r \in Seq(U) /\ Len(r) = MaxHist
       /\ \A j \in 1..MaxHist : r[j] = a[Len(a) - MaxHist + j] BY <1>1, <1>2, <2>1, <2>2
 <2> QED BY <1>1, <1>2, <2>2, <2>3 DEF Follows
<1>4. CASE Len(a) <= MaxHist
 <2>1. r = a BY <1>1, <1>2, <1>4 DEF LE!Recent
 <2> QED BY <1>1, <1>2, <1>4, <2>1 DEF Follows
<1> QED BY <1>1, <1>2, <1>3, <1>4

\* What a ticker holds.
LEMMA TickTyped == ASSUME LearnInv, NEW t \in Goroutines
  PROVE  /\ tick \in [Goroutines -> Ticks] /\ tick[t].score \in LE!Score /\ tick[t].mined \in 0..MaxActions
         /\ tick[t].score.failed \in 0..MaxActions /\ acts.all \in 0..MaxActions /\ acts.failed \in 0..MaxActions
BY DEF LearnInv, LE!TypeOK, LE!Score

\* The tickers at work, by the place of each.
LEMMA Tickers == ASSUME NEW t \in Goroutines
  PROVE  /\ IsFiniteSet(Past) /\ Cardinality(Past) \in Nat /\ IsFiniteSet(Running) /\ Cardinality(Running) \in Nat
         /\ Cardinality(Past \ {t}) = Cardinality(Past) - (IF t \in Past THEN 1 ELSE 0)
         /\ Cardinality(Past \cup {t}) = Cardinality(Past) + (IF t \in Past THEN 0 ELSE 1)
         /\ Cardinality(Running \ {t}) = Cardinality(Running) - (IF t \in Running THEN 1 ELSE 0)
         /\ Cardinality(Running \cup {t}) = Cardinality(Running) + (IF t \in Running THEN 0 ELSE 1)
         /\ t \in Running /\ t \notin Past => Cardinality(Past) < Cardinality(Running)
<1>1. Past \subseteq Running /\ Running \subseteq Goroutines /\ IsFiniteSet(Goroutines)
 BY LearnConstants DEF Past, Running
<1>2. IsFiniteSet(Running) /\ IsFiniteSet(Past) BY <1>1, FS_Subset
<1>3. Cardinality(Past) \in Nat /\ Cardinality(Running) \in Nat BY <1>2, FS_CardinalityType
<1>4. t \in Running /\ t \notin Past => Cardinality(Past) < Cardinality(Running) BY <1>1, <1>2, <1>3, FS_Subset
<1>5. /\ Cardinality(Past \ {t}) = (IF t \in Past THEN Cardinality(Past) - 1 ELSE Cardinality(Past))
      /\ Cardinality(Running \ {t}) = (IF t \in Running THEN Cardinality(Running) - 1 ELSE Cardinality(Running))
 BY <1>2, FS_RemoveElement
<1>6. /\ Cardinality(Past \cup {t}) = (IF t \in Past THEN Cardinality(Past) ELSE Cardinality(Past) + 1)
      /\ Cardinality(Running \cup {t}) = (IF t \in Running THEN Cardinality(Running)
                                          ELSE Cardinality(Running) + 1) BY <1>2, FS_AddElement
<1> QED BY <1>2, <1>3, <1>4, <1>5, <1>6

LEMMA ActLearns == ASSUME LearnInv, NEW failed \in {0, 1}, LE!Act(failed) PROVE LearnInv'
<1>1. /\ acts.all < MaxActions /\ acts' = [all |-> acts.all + 1, failed |-> acts.failed + failed]
      /\ UNCHANGED <<filed, scores, tick, ended, loop, file, loads, fed>> BY DEF LE!Act
<1>2. /\ acts.all \in 0..MaxActions /\ acts.failed \in 0..MaxActions /\ acts.failed <= acts.all
      /\ MaxActions \in Nat BY LearnConstants DEF LearnInv, LE!TypeOK
<1>3. acts' \in [all : 0..MaxActions, failed : 0..MaxActions] /\ acts'.failed <= acts'.all BY <1>1, <1>2
<1>4. LE!TypeOK' BY <1>1, <1>3 DEF LearnInv, LE!TypeOK
<1>5. LE!FeedbackIsCurrent' /\ LE!SignalsFollowScore'
 BY <1>1 DEF LearnInv, LE!FeedbackIsCurrent, LE!SignalsFollowScore
<1>6. Past' = Past /\ Running' = Running BY <1>1 DEF Past, Running
<1>7. \A t \in Goroutines : tick[t].at # "idle" => tick[t].score.failed <= acts'.failed
 <2> SUFFICES ASSUME NEW t \in Goroutines, tick[t].at # "idle" PROVE  tick[t].score.failed <= acts'.failed OBVIOUS
 <2>1. tick[t].score.failed <= acts.failed /\ tick[t].score.failed \in 0..MaxActions BY TickTyped DEF LearnInv
 <2>2. acts'.failed = acts.failed + failed BY <1>1
 <2> QED BY <1>2, <2>1, <2>2
<1> QED BY <1>1, <1>3, <1>4, <1>5, <1>6, <1>7 DEF LearnInv

LEMMA EvaluateLearns == ASSUME LearnInv, NEW t \in Goroutines, LE!Evaluate(t) PROVE LearnInv'
<1>1. PICK h \in {"often", "some", "rare"} :
          tick' = [tick EXCEPT ![t] = [at |-> "measured", mined |-> 0,
                      score |-> [n |-> 0, all |-> acts.all, failed |-> acts.failed, heals |-> h]]] BY DEF LE!Evaluate
<1>2. /\ tick[t].at = "idle" /\ acts' = acts /\ ended + Cardinality(Running) < MaxTicks
      /\ UNCHANGED <<filed, scores, ended, loop, file, loads, fed>> BY DEF LE!Evaluate, LE!Cardinality, Cardinality, Running
<1> DEFINE s == [n |-> 0, all |-> acts.all, failed |-> acts.failed, heals |-> h]
<1>3. s \in LE!Score /\ 0 \in 0..MaxActions /\ s.failed = acts.failed BY TickTyped, LearnConstants DEF LE!Score
<1> HIDE DEF s
<1>4. tick' = [tick EXCEPT ![t] = [at |-> "measured", mined |-> 0, score |-> s]] BY <1>1 DEF s
<1>5. /\ tick' \in [Goroutines -> Ticks] /\ tick'[t].at = "measured" /\ tick'[t].score = s
      /\ \A u \in Goroutines : u # t => tick'[u] = tick[u] BY <1>3, <1>4, TickTyped
<1>6. LE!TypeOK' BY <1>2, <1>5 DEF LearnInv, LE!TypeOK
<1>7. LE!FeedbackIsCurrent' /\ LE!SignalsFollowScore'
 BY <1>2 DEF LearnInv, LE!FeedbackIsCurrent, LE!SignalsFollowScore
<1>8. Past' = Past BY <1>2, <1>5 DEF Past
<1>9. Running' = Running \cup {t} /\ t \notin Running BY <1>2, <1>5 DEF Running
<1>10. ended' + Cardinality(Running') <= MaxTicks
 <2>1. ended \in Nat /\ MaxTicks \in Nat BY LearnConstants DEF LearnInv, LE!TypeOK
 <2>2. Cardinality(Running') = Cardinality(Running) + 1 /\ Cardinality(Running) \in Nat BY <1>9, Tickers
 <2> QED BY <1>2, <2>1, <2>2
<1>11. \A u \in Goroutines : Tells(u)'
 <2> TAKE u \in Goroutines
 <2>1. CASE u = t BY <1>2, <1>3, <1>5, <2>1, TickTyped
 <2>2. CASE u # t BY <1>2, <1>5, <2>2 DEF LearnInv
 <2> QED BY <2>1, <2>2
<1> QED BY <1>2, <1>6, <1>7, <1>8, <1>10, <1>11 DEF LearnInv

LEMMA FilesScore == ASSUME LearnInv, NEW t \in Goroutines, LE!FileScore(t) PROVE LearnInv'
<1> DEFINE s == [tick[t].score EXCEPT !.n = filed + 1]
<1>1. /\ tick[t].at = "measured" /\ filed' = filed + 1 /\ scores' = LE!Recent(Append(scores, s))
      /\ tick' = [tick EXCEPT ![t].at = "filed", ![t].score = s] /\ UNCHANGED <<acts, ended, loop, file, loads, fed>>
 BY DEF LE!FileScore
<1>2. t \in Running /\ t \notin Past BY <1>1 DEF Running, Past
<1>3. /\ filed \in 0..MaxTicks /\ ended \in 0..MaxTicks /\ MaxTicks \in Nat
      /\ filed = ended + Cardinality(Past) /\ ended + Cardinality(Running) <= MaxTicks
 BY LearnConstants DEF LearnInv, LE!TypeOK
<1>4. filed + 1 \in 0..MaxTicks
 <2>1. /\ Cardinality(Past) < Cardinality(Running) /\ Cardinality(Past) \in Nat /\ Cardinality(Running) \in Nat
  BY <1>2, Tickers
 <2> QED BY <1>3, <2>1
<1>5. s \in LE!Score /\ s.n = filed + 1 /\ s.failed = tick[t].score.failed BY <1>4, TickTyped DEF LE!Score
<1> HIDE DEF s
<1>6. /\ tick' \in [Goroutines -> Ticks] /\ tick'[t].at = "filed" /\ tick'[t].score = s
      /\ \A u \in Goroutines : u # t => tick'[u] = tick[u] BY <1>1, <1>5, TickTyped
<1>7. scores \in Seq(LE!Score) /\ Len(scores) <= MaxHist BY DEF LearnInv, LE!FeedbackIsCurrent
<1>8. /\ scores' \in Seq(LE!Score) /\ Len(scores') \in 1..MaxHist /\ Len(scores') <= Len(scores) + 1
      /\ scores'[Len(scores')] = s
      /\ \A j \in 1..(Len(scores') - 1) :
            /\ Len(scores) + 1 - Len(scores') + j \in 1..Len(scores)
            /\ scores'[j] = scores[Len(scores) + 1 - Len(scores') + j]
 <2>1. scores \in Seq(LE!Score) /\ s \in LE!Score /\ Len(scores) <= MaxHist BY  <1>5, <1>7
 <2>2. Follows(LE!Recent(Append(scores, s)), scores, s, LE!Score) BY <2>1, RecentKept
 <2>3. scores' = LE!Recent(Append(scores, s)) BY <1>1
 <2>4. Follows(scores', scores, s, LE!Score) BY <2>2, <2>3
 <2> QED BY <2>4 DEF Follows
<1>9. LE!TypeOK'
 <2>1. \A j \in DOMAIN scores' : scores'[j] \in LE!Score BY <1>8, Elements
 <2> QED BY <1>1, <1>4, <1>6, <2>1 DEF LearnInv, LE!TypeOK
<1>10. LE!FeedbackIsCurrent'
 <2>1. /\ \A k \in DOMAIN loop' : loop'[k].n = ended' - Len(loop') + k
       /\ Len(loop') <= MaxHist BY <1>1 DEF LearnInv, LE!FeedbackIsCurrent
 <2>2. Len(scores') <= MaxHist BY <1>8, LearnConstants
 <2>3. loads' = 0 => \A u \in Goroutines : fed'[u].used >= fed'[u].own BY <1>1 DEF LearnInv, LE!FeedbackIsCurrent
 <2>4. ASSUME loads' = 0, NEW k \in DOMAIN scores' PROVE scores'[k].n = filed' - Len(scores') + k
  <3>1. DOMAIN scores' = 1..Len(scores') /\ DOMAIN scores = 1..Len(scores) /\ Len(scores) \in Nat BY <1>7, <1>8
  <3>2. \A j \in 1..Len(scores) : scores[j].n = filed - Len(scores) + j
   BY <1>1, <2>4, <3>1 DEF LearnInv, LE!FeedbackIsCurrent
  <3>3. CASE k = Len(scores') BY <1>1, <1>3, <1>5, <1>8, <3>3
  <3>4. CASE k # Len(scores')
   <4>1. k \in 1..(Len(scores') - 1) BY <1>8, <3>1, <3>4
   <4>2. scores'[k].n = filed - Len(scores) + (Len(scores) + 1 - Len(scores') + k) BY <1>8, <3>2, <4>1
   <4> QED BY <1>1, <1>3, <1>8, <3>1, <4>1, <4>2
  <3> QED BY <3>3, <3>4
 <2> QED BY <2>1, <2>2, <2>3, <2>4 DEF LE!FeedbackIsCurrent
<1>11. LE!SignalsFollowScore' BY <1>1 DEF LearnInv, LE!SignalsFollowScore
<1>12. Past' = Past \cup {t} /\ Running' = Running BY <1>1, <1>6 DEF Past, Running
<1>13. filed' = ended' + Cardinality(Past') /\ ended' + Cardinality(Running') <= MaxTicks
 <2>1. Cardinality(Past') = Cardinality(Past) + 1 /\ Cardinality(Past) \in Nat BY <1>2, <1>12, Tickers
 <2> QED BY <1>1, <1>3, <1>12, <2>1
<1>14. \A u \in Goroutines : Tells(u)'
 <2> TAKE u \in Goroutines
 <2>1. CASE u = t BY SMTT(60), <1>1, <1>3, <1>5, <1>6, <2>1 DEF LearnInv
 <2>2. CASE u # t BY <1>1, <1>3, <1>6, <2>2 DEF LearnInv
 <2> QED BY <2>1, <2>2
<1> QED BY <1>1, <1>8, <1>9, <1>10, <1>11, <1>13, <1>14 DEF LearnInv

LEMMA MineLearns == ASSUME LearnInv, NEW t \in Goroutines, LE!Mine(t) PROVE LearnInv'
<1>1. /\ tick[t].at = "filed" /\ tick' = [tick EXCEPT ![t].at = "mined", ![t].mined = acts.failed]
      /\ UNCHANGED <<acts, filed, scores, ended, loop, file, loads, fed>> BY DEF LE!Mine
<1>2. /\ tick' \in [Goroutines -> Ticks]
      /\ tick'[t].at = "mined" /\ tick'[t].score = tick[t].score /\ tick'[t].mined = acts.failed
      /\ \A u \in Goroutines : u # t => tick'[u] = tick[u] BY <1>1, TickTyped
<1>3. LE!TypeOK' BY <1>1, <1>2 DEF LearnInv, LE!TypeOK
<1>4. LE!FeedbackIsCurrent' /\ LE!SignalsFollowScore'
 BY <1>1 DEF LearnInv, LE!FeedbackIsCurrent, LE!SignalsFollowScore
<1>5. Past' = Past /\ Running' = Running BY <1>1, <1>2 DEF Past, Running
<1>6. \A u \in Goroutines : Tells(u)'
 <2> TAKE u \in Goroutines
 <2>1. CASE u = t BY <1>1, <1>2, <2>1 DEF LearnInv
 <2>2. CASE u # t BY <1>1, <1>2, <2>2 DEF LearnInv
 <2> QED BY <2>1, <2>2
<1> QED BY <1>1, <1>3, <1>4, <1>5, <1>6 DEF LearnInv

LEMMA FeedLearns == ASSUME LearnInv, NEW t \in Goroutines, LE!FeedbackToTracker(t) PROVE LearnInv'
<1>1. /\ tick[t].at = "mined" /\ tick' = [tick EXCEPT ![t].at = "fed"]
      /\ UNCHANGED <<acts, filed, scores, ended, loop, file, loads>> BY DEF LE!FeedbackToTracker
<1>2. /\ tick' \in [Goroutines -> Ticks]
      /\ tick'[t].at = "fed" /\ tick'[t].score = tick[t].score /\ tick'[t].mined = tick[t].mined
      /\ \A u \in Goroutines : u # t => tick'[u] = tick[u] BY <1>1, TickTyped
<1> DEFINE F == [own : 0..MaxTicks, used : 0..MaxTicks, did : {"none", "decay", "boost"}]
<1>3. fed \in [Goroutines -> F] BY DEF LearnInv, LE!TypeOK
<1>4. /\ fed' \in [Goroutines -> F]
      /\ loads = 0 => \A u \in Goroutines : fed'[u].used >= fed'[u].own
 <2>1. CASE scores = <<>>
  <3>1. fed' = fed BY <2>1 DEF LE!FeedbackToTracker
  <3> QED BY <1>3, <3>1 DEF LearnInv, LE!FeedbackIsCurrent
 <2>2. CASE scores # <<>>
  <3> DEFINE did == CASE LE!Latest.heals = "often" -> "decay"
                      [] LE!Latest.heals = "rare" /\ LE!Latest.failed * 20 < LE!Latest.all -> "boost"
                      [] OTHER -> "none"
             new == [own |-> tick[t].score.n, used |-> LE!Latest.n, did |-> did]
  <3>1. fed' = [fed EXCEPT ![t] = new] BY <2>2 DEF LE!FeedbackToTracker
  <3>2. did \in {"none", "decay", "boost"} OBVIOUS
  <3>3. Len(scores) \in DOMAIN scores /\ LE!Latest \in LE!Score /\ Len(scores) \in Nat
   BY <2>2, NonEmpty, Elements DEF LearnInv, LE!Latest
  <3>4. LE!Latest.n \in 0..MaxTicks /\ tick[t].score.n \in 0..MaxTicks BY <3>3, TickTyped DEF LE!Score
  <3> HIDE DEF did
  <3>5. new \in F /\ new.own = tick[t].score.n /\ new.used = LE!Latest.n BY <3>2, <3>4
  <3> HIDE DEF new, F
  <3>6. fed' \in [Goroutines -> F] /\ fed'[t] = new /\ \A u \in Goroutines : u # t => fed'[u] = fed[u]
   BY <1>3, <3>1, <3>5
  <3>7. ASSUME loads = 0 PROVE \A u \in Goroutines : fed'[u].used >= fed'[u].own
   <4>1. LE!Latest.n = filed - Len(scores) + Len(scores) BY <3>3, <3>7 DEF LearnInv, LE!FeedbackIsCurrent, LE!Latest
   <4>2. tick[t].score.n <= filed /\ filed \in Nat BY <1>1, LearnConstants DEF LearnInv, LE!TypeOK
   <4>3. new.used >= new.own BY <3>3, <3>4, <3>5, <4>1, <4>2, LearnConstants
   <4> QED BY <3>6, <3>7, <4>3 DEF LearnInv, LE!FeedbackIsCurrent
  <3> QED BY <3>6, <3>7
 <2> QED BY <2>1, <2>2
<1>5. LE!TypeOK' BY <1>1, <1>2, <1>4 DEF LearnInv, LE!TypeOK
<1>6. LE!FeedbackIsCurrent' /\ LE!SignalsFollowScore'
 BY <1>1, <1>4 DEF LearnInv, LE!FeedbackIsCurrent, LE!SignalsFollowScore
<1>7. Past' = Past /\ Running' = Running BY <1>1, <1>2 DEF Past, Running
<1>8. \A u \in Goroutines : Tells(u)'
 <2> TAKE u \in Goroutines
 <2>1. CASE u = t BY <1>1, <1>2, <2>1 DEF LearnInv
 <2>2. CASE u # t BY <1>1, <1>2, <2>2 DEF LearnInv
 <2> QED BY <2>1, <2>2
<1> QED BY <1>1, <1>5, <1>6, <1>7, <1>8 DEF LearnInv

LEMMA EndLearns == ASSUME LearnInv, NEW t \in Goroutines, LE!TickEnds(t) PROVE LearnInv'
<1> DEFINE x == [n |-> ended + 1, failed |-> tick[t].score.failed, signals |-> tick[t].mined >= RepeatThreshold]
<1>1. /\ tick[t].at = "fed" /\ ended' = ended + 1 /\ loop' = LE!Recent(Append(loop, x))
      /\ tick' = [tick EXCEPT ![t] = LE!NoTick] /\ UNCHANGED <<acts, filed, scores, file, loads, fed>>
 BY DEF LE!TickEnds
<1>2. t \in Past /\ t \in Running BY <1>1 DEF Past, Running
<1>3. /\ filed \in 0..MaxTicks /\ ended \in 0..MaxTicks /\ MaxTicks \in Nat
      /\ filed = ended + Cardinality(Past) /\ ended + Cardinality(Running) <= MaxTicks
 BY LearnConstants DEF LearnInv, LE!TypeOK
<1>4. ended + 1 \in 1..MaxTicks
 <2>1. Cardinality(Past) - 1 \in Nat
  <3>1. Cardinality(Past \ {t}) \in Nat BY Tickers, FS_Subset, FS_CardinalityType
  <3> QED BY <1>2, <3>1, Tickers
 <2>2. Cardinality(Past) \in Nat BY Tickers
 <2> QED BY <1>3, <2>1, <2>2
<1>5. /\ x \in LoopItem /\ x.n = ended + 1
      /\ x.failed >= RepeatThreshold => x.signals
 <2>1. tick[t].score.failed <= tick[t].mined BY <1>1 DEF LearnInv
 <2>2. tick[t].score.failed \in 0..MaxActions /\ tick[t].mined \in 0..MaxActions BY TickTyped
 <2> DEFINE b == tick[t].mined >= RepeatThreshold
 <2>3. b \in BOOLEAN /\ (tick[t].score.failed >= RepeatThreshold => b) BY <2>1, <2>2, LearnConstants
 <2> HIDE DEF b
 <2>4. x = [n |-> ended + 1, failed |-> tick[t].score.failed, signals |-> b] BY DEF b, x
 <2> HIDE DEF x
 <2>5. x \in LoopItem /\ x.n = ended + 1 /\ x.failed = tick[t].score.failed /\ x.signals = b
  BY <1>4, <2>2, <2>3, <2>4 DEF LoopItem
 <2> QED BY <2>3, <2>5
<1> HIDE DEF x
<1>6. /\ LE!NoTick \in Ticks /\ LE!NoTick.at = "idle" BY LearnConstants DEF LE!NoTick, LE!NoScore, LE!Score
<1>7. /\ tick' \in [Goroutines -> Ticks] /\ tick'[t].at = "idle"
      /\ \A u \in Goroutines : u # t => tick'[u] = tick[u] BY <1>1, <1>6, TickTyped
<1>8. loop \in Seq(LoopItem) /\ Len(loop) <= MaxHist BY DEF LearnInv, LE!FeedbackIsCurrent
<1>9. /\ loop' \in Seq(LoopItem) /\ Len(loop') \in 1..MaxHist /\ Len(loop') <= Len(loop) + 1 /\ loop'[Len(loop')] = x
      /\ \A j \in 1..(Len(loop') - 1) :
            /\ Len(loop) + 1 - Len(loop') + j \in 1..Len(loop) /\ loop'[j] = loop[Len(loop) + 1 - Len(loop') + j]
 <2>1. loop \in Seq(LoopItem) /\ x \in LoopItem /\ Len(loop) <= MaxHist BY  <1>5, <1>8
 <2>2. Follows(LE!Recent(Append(loop, x)), loop, x, LoopItem) BY <2>1, RecentKept
 <2>3. loop' = LE!Recent(Append(loop, x)) BY <1>1
 <2>4. Follows(loop', loop, x, LoopItem) BY <2>2, <2>3
 <2> QED BY <2>4 DEF Follows
<1>10. DOMAIN loop' = 1..Len(loop') /\ DOMAIN loop = 1..Len(loop) /\ Len(loop) \in Nat BY <1>8, <1>9
<1>11. LE!TypeOK'
 <2>1. \A j \in DOMAIN loop' : loop'[j].n \in 1..MaxTicks
  <3>1. \A j \in DOMAIN loop' : loop'[j] \in LoopItem BY <1>9, Elements
  <3> QED BY <3>1 DEF LoopItem
 <2>2. ended' \in 0..MaxTicks BY <1>1, <1>3, <1>4
 <2> QED BY <1>1, <1>7, <2>1, <2>2 DEF LearnInv, LE!TypeOK
<1>12. LE!FeedbackIsCurrent' /\ LE!SignalsFollowScore'
 <2>1. ASSUME NEW k \in DOMAIN loop'
       PROVE  /\ loop'[k].n = ended' - Len(loop') + k
              /\ loop'[k].failed >= RepeatThreshold => loop'[k].signals
  <3>1. CASE k = Len(loop') BY <1>1, <1>3, <1>5, <1>9, <3>1
  <3>2. CASE k # Len(loop')
   <4> DEFINE j == Len(loop) + 1 - Len(loop') + k
   <4>1. k \in 1..(Len(loop') - 1) BY <1>9, <1>10, <3>2
   <4>2. j \in DOMAIN loop /\ loop'[k] = loop[j] BY <1>9, <1>10, <4>1
   <4>3. loop[j].n = ended - Len(loop) + j /\ (loop[j].failed >= RepeatThreshold => loop[j].signals)
    BY <4>2 DEF LearnInv, LE!FeedbackIsCurrent, LE!SignalsFollowScore
   <4> QED BY <1>1, <1>3, <1>9, <1>10, <4>1, <4>2, <4>3
  <3> QED BY <3>1, <3>2
 <2>2. Len(loop') <= MaxHist BY <1>9, LearnConstants
 <2>3. /\ Len(scores') <= MaxHist
       /\ loads' = 0 => /\ \A k \in DOMAIN scores' : scores'[k].n = filed' - Len(scores') + k
                        /\ \A u \in Goroutines : fed'[u].used >= fed'[u].own
  BY <1>1 DEF LearnInv, LE!FeedbackIsCurrent
 <2> QED BY <2>1, <2>2, <2>3 DEF LE!FeedbackIsCurrent, LE!SignalsFollowScore
<1>13. Past' = Past \ {t} /\ Running' = Running \ {t} BY <1>1, <1>7 DEF Past, Running
<1>14. filed' = ended' + Cardinality(Past') /\ ended' + Cardinality(Running') <= MaxTicks
 <2>1. /\ Cardinality(Past') = Cardinality(Past) - 1 /\ Cardinality(Past) \in Nat
       /\ Cardinality(Running') = Cardinality(Running) - 1 /\ Cardinality(Running) \in Nat BY <1>2, <1>13, Tickers
 <2> QED BY <1>1, <1>3, <2>1
<1>15. \A u \in Goroutines : Tells(u)'
 <2> TAKE u \in Goroutines
 <2>1. CASE u = t BY <1>7, <2>1
 <2>2. CASE u # t BY <1>1, <1>7, <2>2 DEF LearnInv
 <2> QED BY <2>1, <2>2
<1> QED BY <1>1, <1>9, <1>11, <1>12, <1>14, <1>15 DEF LearnInv

LEMMA HistoryLearns == ASSUME LearnInv, LE!SaveHistory \/ LE!LoadHistory PROVE LearnInv'
<1>1. /\ UNCHANGED <<acts, filed, tick, ended, loop, fed>>
      /\ \/ file' = scores /\ scores' = scores /\ loads' = loads
         \/ loads < MaxLoads /\ loads' = loads + 1 /\ scores' = file /\ file' = file
 BY DEF LE!SaveHistory, LE!LoadHistory
<1>2. Past' = Past /\ Running' = Running BY <1>1 DEF Past, Running
<1>3. /\ scores \in Seq(LE!Score) /\ file \in Seq(LE!Score) /\ Len(file) <= MaxHist
      /\ Len(scores) <= MaxHist /\ loads \in 0..MaxLoads /\ MaxLoads \in Nat
 BY LearnConstants DEF LearnInv, LE!FeedbackIsCurrent, LE!TypeOK
<1>4. /\ scores' \in Seq(LE!Score) /\ file' \in Seq(LE!Score) /\ Len(file') <= MaxHist
      /\ Len(scores') <= MaxHist /\ loads' \in 0..MaxLoads
      /\ loads' = 0 => loads = 0 /\ scores' = scores BY <1>1, <1>3
<1>5. \A j \in DOMAIN scores' : scores'[j] \in LE!Score BY <1>4, Elements
<1>6. LE!TypeOK' BY <1>1, <1>4, <1>5 DEF LearnInv, LE!TypeOK
<1>7. LE!FeedbackIsCurrent' BY <1>1, <1>4 DEF LearnInv, LE!FeedbackIsCurrent
<1>8. LE!SignalsFollowScore' BY <1>1 DEF LearnInv, LE!SignalsFollowScore
<1> QED BY <1>1, <1>2, <1>4, <1>6, <1>7, <1>8 DEF LearnInv

LEMMA LearnNext == LearnInv /\ LE!Next => LearnInv'
BY ActLearns, EvaluateLearns, FilesScore, MineLearns, FeedLearns, EndLearns, HistoryLearns DEF LE!Next

LEMMA LearnHolds == LearnInv => LE!TypeOK /\ LE!FeedbackIsCurrent /\ LE!SignalsFollowScore
BY DEF LearnInv

(* The import: what an import nobody disturbs has merged so far. *)

LEMMA ImportConstants ==
  /\ MaxConf \in Nat /\ MaxLearned \in Nat /\ Len(Imported) \in Nat /\ DOMAIN Imported = 1..Len(Imported)
  /\ \A j \in DOMAIN Imported : Imported[j].id \in LE!Ids /\ Imported[j].conf \in 1..MaxConf
  /\ \A j, k \in DOMAIN Imported : Imported[j].id = Imported[k].id => j = k
  /\ \A k \in LE!Ids : \E j \in DOMAIN Imported : k = Imported[j].id
  /\ IsFiniteSet(DOMAIN Imported)
<1>1. /\ MaxConf \in Nat /\ MaxLearned \in Nat
      /\ Imported \in Seq([id : {Imported[i].id : i \in DOMAIN Imported}, conf : 1..MaxConf])
      /\ \A j, k \in DOMAIN Imported : Imported[j].id = Imported[k].id => j = k
 BY ToolkitAssumption DEF LE!ImportAssumption
<1>2. /\ Len(Imported) \in Nat /\ DOMAIN Imported = 1..Len(Imported)
      /\ \A j \in DOMAIN Imported :
            Imported[j] \in [id : {Imported[i].id : i \in DOMAIN Imported}, conf : 1..MaxConf] BY <1>1, Elements
<1>3. /\ \A j \in DOMAIN Imported : Imported[j].id \in LE!Ids /\ Imported[j].conf \in 1..MaxConf
      /\ \A k \in LE!Ids : \E j \in DOMAIN Imported : k = Imported[j].id BY <1>2 DEF LE!Ids
<1>4. IsFiniteSet(DOMAIN Imported) BY <1>2, FS_Interval
<1> QED BY <1>1, <1>2, <1>3, <1>4

LEMMA ImportInit == ASSUME LE!ImportInit PROVE ImportInv
<1>1. /\ confs \in [LE!Ids -> 0..MaxConf] /\ learned = 0 /\ start = confs /\ alone = TRUE
      /\ import = [at |-> "idle", i |-> 1, seen |-> [k \in LE!Ids |-> 0], merged |-> 0]
 BY DEF LE!ImportInit, LE!NoImport
<1>2. [k \in LE!Ids |-> 0] \in [LE!Ids -> 0..MaxConf] /\ 1 \in 1..(Len(Imported) + 1)
      /\ 0 \in 0..MaxLearned BY ImportConstants
<1>3. import \in Imports
      /\ import.at = "idle" /\ import.i = 1 /\ import.merged = 0 BY <1>1, <1>2
<1>4. Differ = {} BY <1>1 DEF Differ
<1>5. Cardinality(Differ) = 0 BY <1>4, FS_EmptySet
<1>6. \A j \in DOMAIN Imported : Taken(j) BY <1>1, <1>3, ImportConstants DEF Taken
<1> QED BY <1>1, <1>2, <1>3, <1>5, <1>6 DEF ImportInv

LEMMA ImportRests == ImportInv /\ UNCHANGED importVars => ImportInv'
BY DEF importVars, ImportInv, Differ, Taken, Better

LEMMA ImportBeginKeeps == ASSUME ImportInv, LE!ImportBegins PROVE ImportInv'
<1>1. /\ import.at = "idle" /\ import' = [import EXCEPT !.at = "merging", !.seen = confs]
      /\ start' = confs /\ alone' = TRUE /\ confs' = confs /\ learned' = learned BY DEF LE!ImportBegins
<1>2. import' \in Imports
      /\ import'.at = "merging" /\ import'.seen = confs /\ import'.i = 1 /\ import'.merged = 0 BY <1>1 DEF ImportInv
<1>3. Differ' = {} BY <1>1 DEF Differ
<1>4. Cardinality(Differ') = 0 BY <1>3, FS_EmptySet
<1>5. \A j \in DOMAIN Imported : Taken(j)' BY <1>1, <1>2, ImportConstants DEF Taken
<1> QED BY <1>1, <1>2, <1>4, <1>5 DEF ImportInv

LEMMA FailKeeps == ASSUME ImportInv, LE!ImportFails \/ LE!ImportEnds PROVE ImportInv'
<1>1. /\ \/ import.at = "idle" /\ import' = [import EXCEPT !.at = "failed"]
         \/ import.at = "merging" /\ import' = [import EXCEPT !.at = "done"]
      /\ UNCHANGED <<start, alone, confs, learned>> BY DEF LE!ImportFails, LE!ImportEnds
<1>2. import' \in Imports
      /\ import'.at \in {"done", "failed"} /\ import'.i = import.i /\ import'.merged = import.merged
 BY <1>1 DEF ImportInv
<1>3. Differ' = Differ BY <1>1, <1>2 DEF Differ
<1>4. \A j \in DOMAIN Imported : Taken(j) => Taken(j)' BY <1>1, <1>2 DEF Taken, Better
<1> QED BY <1>1, <1>2, <1>3, <1>4 DEF ImportInv

LEMMA SkipKeeps == ASSUME ImportInv, LE!ImportSkips PROVE ImportInv'
<1>1. /\ import.at = "merging" /\ import.i <= Len(Imported) /\ LE!Skips(Imported[import.i])
      /\ import' = [import EXCEPT !.i = import.i + 1]
      /\ UNCHANGED <<start, alone, confs, learned>> BY DEF LE!ImportSkips
<1>2. import' \in Imports
      /\ import'.at = "merging" /\ import'.i = import.i + 1 /\ import'.merged = import.merged
      /\ import'.seen = import.seen /\ import.i \in 1..Len(Imported)
 <2>1. import \in Imports BY DEF ImportInv
 <2>2. import.i \in 1..Len(Imported) /\ import.i + 1 \in 1..(Len(Imported) + 1) BY <1>1, <2>1, ImportConstants
 <2> QED BY <1>1, <2>1, <2>2
<1>3. ~Better(import.i)
 <2> DEFINE p == Imported[import.i]
 <2>1. start[p.id] >= p.conf BY <1>1 DEF ImportInv, LE!Skips
 <2>2. start[p.id] \in 0..MaxConf /\ p.conf \in 1..MaxConf BY <1>2, ImportConstants DEF ImportInv
 <2> QED BY <2>1, <2>2, ImportConstants DEF Better
<1>4. \A j \in DOMAIN Imported : j # import.i => (j < import'.i <=> j < import.i) BY <1>2, ImportConstants
<1>5. \A j \in DOMAIN Imported : Taken(j) => Taken(j)' BY <1>1, <1>3, <1>4 DEF Taken, Better
<1>6. ASSUME alone PROVE Differ' = Differ
 <2>1. Taken(import.i) BY <1>2, <1>6, ImportConstants DEF ImportInv
 <2>2. confs[Imported[import.i].id] = start[Imported[import.i].id] BY <1>3, <2>1 DEF Taken
 <2> QED BY <1>1, <1>4, <2>2 DEF Differ
<1> QED BY <1>1, <1>2, <1>5, <1>6 DEF ImportInv

LEMMA SetKeeps == ASSUME ImportInv, LE!ImportSets PROVE ImportInv'
<1> DEFINE n == import.i
           p == Imported[n]
           replaced == [confs EXCEPT ![p.id] = p.conf]
<1>1. /\ import.at = "merging" /\ n <= Len(Imported) /\ ~LE!Skips(p)
      /\ UNCHANGED <<start, alone, learned>>
      /\ \/ confs' = replaced /\ import' = [import EXCEPT !.i = n + 1, !.merged = import.merged + 1]
         \/ confs' \in {confs, replaced} /\ import' = [import EXCEPT !.at = "failed"] BY DEF LE!ImportSets
<1>2. /\ import \in Imports
      /\ confs \in [LE!Ids -> 0..MaxConf] /\ start \in [LE!Ids -> 0..MaxConf] /\ import.seen = start
 BY <1>1 DEF ImportInv
<1>3. n \in DOMAIN Imported /\ n \in 1..Len(Imported) BY <1>1, <1>2, ImportConstants
<1>4. p.id \in LE!Ids /\ p.conf \in 1..MaxConf /\ start[p.id] \in 0..MaxConf BY <1>2, <1>3, ImportConstants
<1>5. p.conf > start[p.id] /\ Better(n) BY <1>1, <1>2, <1>4, ImportConstants DEF LE!Skips, Better
<1>6. /\ replaced \in [LE!Ids -> 0..MaxConf] /\ replaced[p.id] = p.conf
      /\ \A k \in LE!Ids : k # p.id => replaced[k] = confs[k] BY <1>2, <1>4, ImportConstants
<1>7. \A j \in DOMAIN Imported : j # n => Imported[j].id # p.id /\ Imported[j].id \in LE!Ids BY <1>3, ImportConstants
<1> HIDE DEF replaced
<1>8. CASE import' = [import EXCEPT !.at = "failed"] /\ confs' \in {confs, replaced}
 <2>1. import' \in Imports
       /\ import'.at = "failed" /\ import'.i = n /\ import'.merged = import.merged BY <1>2, <1>8
 <2>2. confs' \in [LE!Ids -> 0..MaxConf] BY <1>2, <1>6, <1>8
 <2>3. \A j \in DOMAIN Imported : j # n => confs'[Imported[j].id] = confs[Imported[j].id] BY <1>6, <1>7, <1>8
 <2>4. Differ' = Differ
  <3>1. \A j \in DOMAIN Imported : j < n => j # n BY <1>3, ImportConstants
  <3> QED BY <1>1, <2>1, <2>3, <3>1 DEF Differ
 <2>5. ASSUME NEW j \in DOMAIN Imported, Taken(j) PROVE Taken(j)'
  <3>1. CASE j = n
   <4>1. ~(n < n) BY <1>3
   <4>2. confs[p.id] = start[p.id] BY <1>1, <2>5, <3>1, <4>1 DEF Taken
   <4> QED BY <1>1, <1>5, <1>6, <1>8, <2>1, <3>1, <4>1, <4>2 DEF Taken, Better
  <3>2. CASE j # n BY <1>1, <2>1, <2>3, <2>5, <3>2 DEF Taken, Better
  <3> QED BY <3>1, <3>2
 <2> QED BY <1>1, <2>1, <2>2, <2>4, <2>5 DEF ImportInv
<1>9. CASE confs' = replaced /\ import' = [import EXCEPT !.i = n + 1, !.merged = import.merged + 1]
 <2>1. import' \in Imports
       /\ import'.at = "merging" /\ import'.i = n + 1 /\ import'.merged = import.merged + 1 /\ import'.seen = start
  <3>1. n + 1 \in 1..(Len(Imported) + 1) /\ import.merged \in Nat /\ import.merged + 1 \in Nat
   BY <1>2, <1>3, ImportConstants
  <3> QED BY <1>1, <1>2, <1>9, <3>1
 <2>2. \A j \in DOMAIN Imported :
          /\ j < n + 1 <=> j < n \/ j = n
          /\ j # n => confs'[Imported[j].id] = confs[Imported[j].id] BY <1>3, <1>6, <1>7, <1>9, ImportConstants
 <2>3. ASSUME alone PROVE \A j \in DOMAIN Imported : Taken(j)'
  <3>1. TAKE j \in DOMAIN Imported
  <3>2. CASE j = n BY <1>1, <1>5, <1>6, <1>9, <2>1, <2>2, <3>2 DEF Taken, Better
  <3>3. CASE j # n
   <4>1. Taken(j) BY <2>3 DEF ImportInv
   <4> QED BY <1>1, <2>1, <2>2, <3>3, <4>1 DEF Taken, Better
  <3> QED BY <3>2, <3>3
 <2>4. ASSUME alone PROVE import'.merged = Cardinality(Differ')
  <3>1. Cardinality(Differ) = import.merged /\ IsFiniteSet(Differ)
   BY <2>4, ImportConstants, FS_Subset DEF ImportInv, Differ
  <3>2. n \notin Differ BY <1>3 DEF Differ
  <3>3. confs'[p.id] # start[p.id] BY <1>4, <1>5, <1>6, <1>9, ImportConstants
  <3>4. Differ' = Differ \cup {n} BY <1>1, <1>3, <2>1, <2>2, <3>3 DEF Differ
  <3>5. Cardinality(Differ') = Cardinality(Differ) + 1 BY <3>1, <3>2, <3>4, FS_AddElement
  <3> QED BY <2>1, <3>1, <3>5
 <2> QED BY <1>1, <1>2, <1>6, <1>9, <2>1, <2>3, <2>4 DEF ImportInv
<1> QED BY <1>1, <1>8, <1>9

LEMMA LearnedKeeps == ASSUME ImportInv, NEW k \in LE!Ids, NEW c \in 1..MaxConf, LE!Learn(k, c) PROVE ImportInv'
<1>1. /\ learned < MaxLearned /\ learned' = learned + 1 /\ confs' = [confs EXCEPT ![k] = c]
      /\ alone' = FALSE /\ import' = import /\ start' = start BY DEF LE!Learn
<1>2. confs' \in [LE!Ids -> 0..MaxConf] /\ learned' \in 0..MaxLearned BY <1>1, ImportConstants DEF ImportInv
<1> QED BY <1>1, <1>2 DEF ImportInv

LEMMA ImportNext == ImportInv /\ LE!ImportNext => ImportInv'
BY ImportBeginKeeps, FailKeeps, SkipKeeps, SetKeeps, LearnedKeeps DEF LE!ImportNext

LEMMA ImportHolds == ASSUME ImportInv PROVE LE!ImportTypeOK /\ LE!ImportMerges
<1>1. LE!ImportTypeOK BY DEF ImportInv, LE!ImportTypeOK
<1>2. LE!Cardinality(Differ) = Cardinality(Differ) BY DEF LE!Cardinality, Cardinality
<1>3. LE!ImportMerges BY <1>2 DEF ImportInv, LE!ImportMerges, Taken, Differ, Better
<1> QED BY <1>1, <1>3

(* The waits: which strategy a call is at, and what its results tell. *)

LEMMA WaitConstants == StableFor \in Nat /\ StableFor >= 1 /\ MaxMutations \in Nat
BY ToolkitAssumption DEF PW!WaiterAssumption

LEMMA Places ==
  /\ PW!Strategies = {"network", "dom", "visible", "enabled"} /\ PW!Place["network"] = 1 /\ PW!Place["dom"] = 2
  /\ PW!Place["visible"] = 3 /\ PW!Place["enabled"] = 4
BY DEF PW!Strategies, PW!Place

LEMMA WaitInit == ASSUME PW!Init PROVE WaitInv
<1>1. /\ at = "begin" /\ mutations = 0 /\ last = 0 /\ stable = 0 /\ quietFor = 0
      /\ listening = FALSE /\ heard = FALSE /\ expired = FALSE /\ results = <<>> /\ outcome = "none"
      /\ page \in [complete : BOOLEAN, idle : BOOLEAN, visible : {FALSE}, enabled : {FALSE}, moved : {FALSE}]
      /\ page.idle => page.complete
      /\ mode.call = "navigate" => ~page.complete BY DEF PW!Init
<1>2. mode \in [call : {"navigate", "ready", "route"}, strategies : SUBSET PW!Strategies, continueOnErr : BOOLEAN]
 <2>1. mode \in PW!Modes BY DEF PW!Init
 <2>2. CASE mode = [call |-> "route", strategies |-> {"dom"}, continueOnErr |-> FALSE] BY <2>2 DEF PW!Strategies
 <2>3. CASE mode # [call |-> "route", strategies |-> {"dom"}, continueOnErr |-> FALSE]
  <3>1. PICK c \in {"navigate", "ready"}, e \in BOOLEAN,
             s \in {{"network", "dom"}, {"dom", "visible"}, {"network", "enabled"}} :
                mode = [call |-> c, strategies |-> s, continueOnErr |-> e] BY <2>1, <2>3 DEF PW!Modes
  <3>2. s \in SUBSET PW!Strategies BY DEF PW!Strategies
  <3> QED BY <3>1, <3>2
 <2> QED BY <2>2, <2>3
<1>3. page \in [complete : BOOLEAN, idle : BOOLEAN, visible : BOOLEAN, enabled : BOOLEAN, moved : BOOLEAN] BY <1>1
<1>4. WaitTyped
 <2>1. results \in Seq(PW!Result) /\ DOMAIN results = {} BY <1>1
 <2>2. 0 \in 0..MaxMutations /\ 0 \in 0..StableFor BY WaitConstants
 <2> QED BY <1>1, <1>2, <1>3, <2>1, <2>2 DEF WaitTyped, PW!TypeOK
<1>5. WaitQuiet BY <1>1 DEF WaitQuiet
<1>6. WaitHears BY <1>1 DEF WaitHears
<1>7. WaitTells
 <2>1. Refused = {} /\ Underway(at) = "none" /\ DOMAIN results = {} BY <1>1 DEF Refused, Underway
 <2> QED BY <1>1, <2>1 DEF WaitTells
<1> QED BY <1>4, <1>5, <1>6, <1>7 DEF WaitInv

LEMMA WaitRests == ASSUME WaitInv, UNCHANGED waiterVars PROVE WaitInv'
<1>1. /\ UNCHANGED <<mode, at, page, mutations, listening, heard, expired, stable, last, results, outcome, quietFor>>
 BY DEF waiterVars
<1>2. WaitTyped' /\ WaitQuiet' /\ WaitHears' BY <1>1 DEF WaitInv, WaitTyped, PW!TypeOK, WaitQuiet, WaitHears
<1>3. WaitTells'
 <2>1. WaitTells BY DEF WaitInv
 <2>2. /\ Refused' = Refused /\ PW!Todo' = PW!Todo
       /\ \A n : TriedTo(n)' = TriedTo(n)
       /\ \A s : Cheaper(s)' = Cheaper(s) BY <1>1 DEF Refused, PW!Todo, TriedTo, Cheaper
 <2> QED BY <1>1, <2>1, <2>2 DEF WaitTells, Underway
<1> QED BY <1>2, <1>3 DEF WaitInv

\* Nothing of a call moves but its place, within a strategy or to another one.
LEMMA ToldStays == ASSUME WaitInv, mode' = mode, results' = results
  PROVE  /\ Refused' = Refused /\ PW!Todo' = PW!Todo
         /\ \A n : TriedTo(n)' = TriedTo(n)
         /\ \A s : Cheaper(s)' = Cheaper(s)
BY DEF Refused, PW!Todo, TriedTo, Cheaper

\* The events of the page and of the context.
LEMMA EventsKeep ==
  ASSUME WaitInv, PW!Completes \/ PW!FallsIdle \/ PW!Changes \/ PW!Mutates \/ PW!Expires PROVE  WaitInv'
<1>1. /\ UNCHANGED <<mode, at, listening, stable, last, results, outcome>>
 BY DEF PW!Completes, PW!FallsIdle, PW!Changes, PW!Mutates, PW!Expires, PW!wait
<1>2. WaitTells'
 <2>1. WaitTells BY DEF WaitInv
 <2> QED BY <1>1, <2>1, ToldStays DEF WaitTells, Underway
<1>3. WaitTyped'
 <2>1. /\ page' \in [complete : BOOLEAN, idle : BOOLEAN, visible : BOOLEAN, enabled : BOOLEAN, moved : BOOLEAN]
       /\ heard' \in BOOLEAN /\ expired' \in BOOLEAN
  BY ZenonT(90) DEF WaitInv, WaitTyped, PW!TypeOK, PW!Completes, PW!FallsIdle, PW!Changes, PW!Mutates, PW!Expires
 <2>2. mutations' \in 0..MaxMutations /\ quietFor' \in 0..StableFor
  BY WaitConstants DEF WaitInv, WaitTyped, PW!TypeOK, PW!Completes, PW!FallsIdle, PW!Changes, PW!Mutates, PW!Expires
 <2> QED BY <1>1, <2>1, <2>2 DEF WaitInv, WaitTyped, PW!TypeOK
<1>4. WaitQuiet'
 <2>1. \/ mutations' = mutations /\ quietFor' = quietFor
       \/ at = "poll" /\ mutations' = mutations + 1
  BY DEF PW!Completes, PW!FallsIdle, PW!Changes, PW!Mutates, PW!Expires
 <2>2. mutations \in Nat /\ last \in Nat /\ stable \in Nat BY WaitConstants DEF WaitInv, WaitTyped, PW!TypeOK
 <2> QED BY <1>1, <2>1, <2>2 DEF WaitInv, WaitQuiet
<1>5. WaitHears'
 <2>1. CASE PW!Completes BY <1>1, <2>1 DEF WaitInv, WaitTyped, PW!TypeOK, WaitHears, PW!Completes, PW!Loading
 <2>2. CASE PW!FallsIdle BY <1>1, <2>2 DEF WaitInv, WaitTyped, PW!TypeOK, WaitHears, PW!FallsIdle
 <2>3. CASE PW!Changes
  <3>1. page'.complete = page.complete /\ page'.idle = page.idle /\ heard' = heard
   BY <2>3 DEF WaitInv, WaitTyped, PW!TypeOK, PW!Changes
  <3> QED BY <1>1, <3>1 DEF WaitInv, WaitHears
 <2>4. CASE PW!Mutates \/ PW!Expires BY <1>1, <2>4 DEF WaitInv, WaitHears, PW!Mutates, PW!Expires
 <2> QED BY <2>1, <2>2, <2>3, <2>4
<1> QED BY <1>2, <1>3, <1>4, <1>5 DEF WaitInv

\* A strategy ends: its result is told, and the call goes on or fails.
LEMMA EndedTells ==
  ASSUME WaitInv, NEW s \in PW!Strategies, s = Underway(at), mode.call # "route",
         NEW good \in BOOLEAN, mode' = mode, PW!Ended(s, good)
  PROVE  /\ WaitTells' /\ results' \in Seq(PW!Result) /\ at' \in {"next", "returned"}
         /\ outcome' \in {"none", "ok", "error"} /\ results' = Append(results, [strategy |-> s, ok |-> good])
<1> DEFINE x == [strategy |-> s, ok |-> good]
<1>1. /\ results' = Append(results, x)
      /\ \/ (good \/ mode.continueOnErr) /\ at' = "next" /\ outcome' = outcome
         \/ ~(good \/ mode.continueOnErr) /\ at' = "returned" /\ outcome' = "error" BY DEF PW!Ended, PW!Return
<1>2. x \in PW!Result /\ x.strategy = s /\ x.ok = good BY DEF PW!Result
<1> HIDE DEF x
<1>3. results \in Seq(PW!Result) /\ outcome \in {"none", "ok", "error"} /\ WaitTells
 BY DEF WaitInv, WaitTyped, PW!TypeOK
<1>4. /\ results' \in Seq(PW!Result) /\ Len(results) \in Nat /\ Len(results') = Len(results) + 1
      /\ DOMAIN results = 1..Len(results) /\ DOMAIN results' = 1..(Len(results) + 1)
      /\ \A j \in 1..Len(results) : results'[j] = results[j]
      /\ results'[Len(results) + 1] = x BY <1>1, <1>2, <1>3, Appends
<1>5. s \in {"network", "dom", "visible", "enabled"} /\ at \notin {"begin", "navigate", "returned", "url"}
      /\ outcome = "none" /\ s \in mode.strategies /\ TriedTo(Len(results)) = Cheaper(s)
 BY <1>3, Places DEF WaitTells, Underway
<1>6. \A r : Cheaper(r)' = Cheaper(r) BY DEF Cheaper
<1>7. \A n \in 0..Len(results) : TriedTo(n)' = TriedTo(n)
 <2>1. TAKE n \in 0..Len(results)
 <2>2. \A j \in 1..n : results'[j] = results[j] BY <1>4
 <2> QED BY <2>2 DEF TriedTo
<1>8. ASSUME NEW n \in DOMAIN results'
      PROVE  results'[n].strategy \in mode.strategies /\ TriedTo(n - 1)' = Cheaper(results'[n].strategy)
 <2>1. CASE n \in DOMAIN results
  <3>1. results'[n] = results[n] /\ n - 1 \in 0..Len(results) BY <1>4, <2>1
  <3>2. results[n].strategy \in mode.strategies /\ TriedTo(n - 1) = Cheaper(results[n].strategy)
   BY <1>3, <2>1 DEF WaitTells
  <3> QED BY <1>7, <3>1, <3>2
 <2>2. CASE n = Len(results) + 1
  <3>1. n - 1 = Len(results) /\ results'[n] = x BY <1>4, <2>2
  <3> QED BY <1>2, <1>4, <1>5, <1>7, <3>1
 <2> QED BY <1>4, <2>1, <2>2
<1>9. /\ Refused' = (IF good THEN Refused ELSE Refused \cup {Len(results')}) BY <1>2, <1>4 DEF Refused
<1>10. ~mode.continueOnErr => Refused = {} BY <1>3, <1>5 DEF WaitTells
<1>11. results' # <<>> BY <1>4
<1>12. Underway(at') = "none" BY <1>1 DEF Underway
<1>13. WaitTells' BY <1>1, <1>5, <1>6, <1>8, <1>9, <1>10, <1>12 DEF WaitTells
<1> QED BY <1>1, <1>3, <1>4, <1>13 DEF x

\* Where a call may be, without what it is about.
LEMMA WaitTypes == ASSUME WaitInv
  PROVE  /\ WaitTyped /\ WaitQuiet /\ WaitHears /\ WaitTells /\ PW!TypeOK /\ results \in Seq(PW!Result)
         /\ stable \in 0..StableFor /\ quietFor \in 0..StableFor
         /\ mutations \in 0..MaxMutations /\ last \in 0..MaxMutations
BY DEF WaitInv, WaitTyped, PW!TypeOK

\* A call ends before it waited for anything, or a route's call does.
LEMMA EndTells ==
  ASSUME WaitInv, mode' = mode, results' = results, results = <<>>, outcome = "none",
         at' = "returned", outcome' \in {"ok", "error"}, mode.call = "route" \/ outcome' = "error" PROVE  WaitTells'
<1>1. WaitTells BY DEF WaitInv
<1>2. Refused' = {} /\ Underway(at') = "none" /\ DOMAIN results' = {} BY DEF Refused, Underway
<1> QED BY <1>1, <1>2 DEF WaitTells

\* A call goes from one place to the next one.
LEMMA GoTells ==
  ASSUME WaitInv, mode' = mode, results' = results, outcome' = outcome, outcome = "none",
         at' \notin {"begin", "returned"}, at' = "navigate" => mode.call = "navigate" /\ results = <<>>,
         mode.call = "route" <=> at' = "url" \/ (mode.call = "route" /\ at' = "inject"),
         Underway(at') \in {"none", Underway(at)} \/ mode.call = "route" PROVE  WaitTells'
<1>1. WaitTells BY DEF WaitInv
<1> QED BY <1>1, ToldStays DEF WaitTells

LEMMA StartKeeps == ASSUME WaitInv, PW!Prepare \/ PW!Navigate \/ PW!Begin PROVE WaitInv'
<1>1. /\ UNCHANGED <<mode, page, mutations, heard, expired, quietFor, stable, last, results>> /\ listening' \in {listening, TRUE} /\ at \in {"begin", "navigate"}
      /\ \/ at' = "returned" /\ outcome' = "error"
         \/ outcome' = outcome /\ at' = "url" /\ mode.call = "route"
         \/ outcome' = outcome /\ at' = "next" /\ mode.call = "ready"
         \/ outcome' = outcome /\ at' = "navigate" /\ mode.call = "navigate"
         \/ outcome' = outcome /\ at' = "next" /\ at = "navigate"
 BY WaitTypes DEF PW!Prepare, PW!Navigate, PW!Begin, PW!events, PW!Return, PW!TypeOK
<1>2. results = <<>> /\ outcome = "none" /\ (at = "navigate" => mode.call = "navigate")
 BY <1>1, WaitTypes DEF WaitTells
<1>3. WaitTells'
 <2>1. CASE at' = "returned" BY <1>1, <1>2, <2>1, EndTells
 <2>2. CASE at' # "returned" BY <1>1, <1>2, <2>2, GoTells DEF Underway
 <2> QED BY <2>1, <2>2
<1>4. WaitTyped' BY ZenonT(90), <1>1, WaitTypes DEF WaitTyped, PW!TypeOK
<1>5. WaitQuiet' BY <1>1, <1>2, WaitTypes DEF WaitQuiet
<1>6. WaitHears'
 <2>1. CASE PW!Prepare BY <1>1, <2>1, WaitTypes DEF WaitHears, PW!Prepare, PW!Return
 <2>2. CASE PW!Navigate BY <1>1, <2>2, WaitTypes DEF WaitHears, PW!Navigate, PW!Return
 <2>3. CASE PW!Begin BY <1>1, <2>3, WaitTypes DEF WaitHears, PW!Begin
 <2> QED BY <2>1, <2>2, <2>3
<1> QED BY <1>3, <1>4, <1>5, <1>6 DEF WaitInv

\* The first strategy that is still to be tried follows those that were.
LEMMA TriedBelow == ASSUME WaitInv, at = "next", NEW s \in PW!Todo, \A r \in PW!Todo : PW!Place[s] <= PW!Place[r]
  PROVE  s \in mode.strategies /\ TriedTo(Len(results)) = Cheaper(s)
<1>1. /\ WaitTells /\ mode.call \in {"navigate", "ready"} /\ mode.strategies \subseteq PW!Strategies
      /\ DOMAIN results = 1..Len(results) /\ Len(results) \in Nat BY WaitTypes DEF WaitTells, PW!TypeOK
<1>2. /\ s \in mode.strategies /\ s \in PW!Strategies
      /\ \A j \in DOMAIN results : results[j].strategy # s
      /\ mode.call = "ready" => s \in {"network", "dom"} BY <1>1 DEF PW!Todo
<1>3. \A j \in DOMAIN results : /\ results[j].strategy \in mode.strategies
                                /\ TriedTo(j - 1) = Cheaper(results[j].strategy) BY <1>1 DEF WaitTells
<1>4. ASSUME NEW j \in DOMAIN results PROVE results[j].strategy \in Cheaper(s)
 <2> DEFINE r == results[j].strategy
 <2>1. r \in PW!Strategies /\ r # s BY <1>1, <1>2, <1>3
 <2>2. CASE PW!Place[r] < PW!Place[s] BY <1>3, <2>2 DEF Cheaper
 <2>3. CASE ~(PW!Place[r] < PW!Place[s])
  <3>1. PW!Place[s] < PW!Place[r] BY <1>2, <2>1, <2>3, Places
  <3>2. s \in TriedTo(j - 1) BY <1>2, <1>3, <3>1 DEF Cheaper
  <3> QED BY <1>1, <1>2, <3>2 DEF TriedTo
 <2> QED BY <2>2, <2>3
<1>5. ASSUME NEW r \in Cheaper(s) PROVE r \in TriedTo(Len(results))
 <2>1. r \in mode.strategies /\ r \in PW!Strategies /\ PW!Place[r] < PW!Place[s] BY <1>1 DEF Cheaper
 <2>2. mode.call = "ready" => r \in {"network", "dom"} BY <1>2, <2>1, Places
 <2>3. r \notin PW!Todo BY <1>2, <2>1, Places
 <2>4. \E j \in DOMAIN results : results[j].strategy = r BY <2>1, <2>2, <2>3 DEF PW!Todo
 <2> QED BY <1>1, <2>4 DEF TriedTo
<1>6. TriedTo(Len(results)) \subseteq Cheaper(s) BY <1>1, <1>4 DEF TriedTo
<1> QED BY <1>2, <1>5, <1>6

LEMMA NextKeeps == ASSUME WaitInv, PW!NextStrategy PROVE WaitInv'
<1>1. /\ at = "next"
      /\ UNCHANGED <<mode, page, mutations, heard, expired, quietFor, listening, stable, last, results>>
 BY DEF PW!NextStrategy, PW!events
<1>2. /\ WaitTells /\ outcome = "none" /\ mode.call \in {"navigate", "ready"}
      /\ mode.strategies \subseteq PW!Strategies BY <1>1, WaitTypes DEF WaitTells, PW!TypeOK
<1>3. CASE PW!Todo = {}
 <2>1. at' = "returned" /\ outcome' = "ok" BY <1>3 DEF PW!NextStrategy, PW!Return
 <2>2. WaitTells'
  <3>1. mode.continueOnErr \/ Refused = {} BY <1>1, <1>2 DEF WaitTells
  <3>2. PW!Todo' = {} /\ Refused' = Refused BY <1>1, <1>3, ToldStays
  <3>3. Underway(at') = "none" BY <2>1 DEF Underway
  <3> QED BY <1>1, <1>2, <2>1, <3>1, <3>2, <3>3, ToldStays DEF WaitTells
 <2>3. WaitTyped' /\ WaitQuiet' /\ WaitHears' BY <1>1, <2>1, WaitTypes DEF WaitTyped, PW!TypeOK, WaitQuiet, WaitHears
 <2> QED BY <2>2, <2>3 DEF WaitInv
<1>4. CASE PW!Todo # {}
 <2>1. outcome' = outcome /\ at' = IF "network" \in PW!Todo THEN IF mode.call = "navigate" THEN "idle" ELSE "enable"
                    ELSE IF "dom" \in PW!Todo THEN "inject"
                    ELSE IF "visible" \in PW!Todo THEN "visible" ELSE "appear" BY <1>4 DEF PW!NextStrategy
 <2>2. PW!Todo \subseteq PW!Strategies BY <1>2 DEF PW!Todo
 <2>3. /\ Underway(at') \in PW!Todo
       /\ \A r \in PW!Todo : PW!Place[Underway(at')] <= PW!Place[r]
  <3>1. CASE "network" \in PW!Todo
   <4>1. Underway(at') = "network" BY <2>1, <3>1 DEF Underway
   <4> QED BY <2>2, <3>1, <4>1, Places
  <3>2. CASE "network" \notin PW!Todo /\ "dom" \in PW!Todo
   <4>1. Underway(at') = "dom" BY <2>1, <3>2 DEF Underway
   <4> QED BY <2>2, <3>2, <4>1, Places
  <3>3. CASE "network" \notin PW!Todo /\ "dom" \notin PW!Todo /\ "visible" \in PW!Todo
   <4>1. Underway(at') = "visible" BY <2>1, <3>3 DEF Underway
   <4> QED BY <2>2, <3>3, <4>1, Places
  <3>4. CASE "network" \notin PW!Todo /\ "dom" \notin PW!Todo /\ "visible" \notin PW!Todo
   <4>1. Underway(at') = "enabled" BY <2>1, <3>4 DEF Underway
   <4>2. PW!Todo = {"enabled"} BY <1>4, <2>2, <3>4, Places
   <4> QED BY <4>1, <4>2, Places
  <3> QED BY <3>1, <3>2, <3>3, <3>4
 <2>4. Underway(at') \in mode.strategies /\ TriedTo(Len(results)) = Cheaper(Underway(at')) BY <1>1, <2>3, TriedBelow
 <2>5. \A j \in DOMAIN results : results[j].strategy # Underway(at') BY <2>3 DEF PW!Todo
 <2>6. at' \in {"idle", "enable", "inject", "visible", "appear"} BY <2>1
 <2>7. WaitTells'
  <3> DEFINE s == Underway(at')
  <3>1. s \in mode.strategies /\ TriedTo(Len(results)) = Cheaper(s) BY <2>4
  <3>2. at' \notin {"begin", "navigate", "returned", "url"} BY <2>6
  <3> QED BY <1>1, <1>2, <2>1, <3>1, <3>2, ToldStays DEF WaitTells
 <2>8. WaitTyped' /\ WaitHears' BY <1>1, <2>1, <2>6, WaitTypes DEF WaitTyped, PW!TypeOK, WaitHears
 <2>9. WaitQuiet'
  <3>1. at' = "inject" => Underway(at') = "dom" BY DEF Underway
  <3> QED BY <1>1, <2>5, <2>6, <3>1, WaitTypes DEF WaitQuiet
 <2> QED BY <2>7, <2>8, <2>9 DEF WaitInv
<1> QED BY <1>3, <1>4

LEMMA HearsStays ==
  ASSUME WaitHears, mode' = mode, page' = page, heard' = heard, listening' \in {listening, TRUE},
         at' \notin {"begin", "navigate"}, at \notin {"begin", "returned"} PROVE  WaitHears'
<1>1. page'.idle = page.idle /\ page'.complete = page.complete /\ mode'.call = mode.call
      /\ mode'.strategies = mode.strategies OBVIOUS
<1>2. mode.call = "navigate" /\ "network" \in mode.strategies => listening' /\ (page.idle => heard) BY DEF WaitHears
<1> QED BY <1>1, <1>2 DEF WaitHears

\* What ends a strategy other than the DOM's, and what leads on within one.
LEMMA StrategyKeeps ==
  ASSUME WaitInv, mode' = mode, page' = page, mutations' = mutations, heard' = heard, expired' = expired,
         quietFor' = quietFor, stable' = stable, last' = last, listening' \in {listening, TRUE},
         at \in {"enable", "check", "subscribe", "idle", "visible", "appear", "enabled"},
         \/ /\ results' = results /\ outcome' = outcome /\ Underway(at') = Underway(at)
            /\ at' \in {"check", "subscribe", "idle", "enabled"}
         \/ \E good \in BOOLEAN : PW!Ended(Underway(at), good) PROVE  WaitInv'
<1>1. /\ mode.call \in {"navigate", "ready"} /\ outcome = "none"
      /\ Underway(at) \in {"network", "visible", "enabled"} /\ Underway(at) \in PW!Strategies
 BY WaitTypes DEF WaitTells, PW!TypeOK, Underway, PW!Strategies
<1>2. CASE /\ results' = results /\ outcome' = outcome /\ Underway(at') = Underway(at)
           /\ at' \in {"check", "subscribe", "idle", "enabled"}
 <2>1. WaitTells' BY <1>1, <1>2, GoTells
 <2>2. WaitTyped' /\ WaitQuiet' BY ZenonT(90), <1>1, <1>2, WaitTypes DEF WaitTyped, PW!TypeOK, WaitQuiet
 <2>3. WaitHears' BY <1>2, WaitTypes, HearsStays
 <2> QED BY <2>1, <2>2, <2>3 DEF WaitInv
<1>3. CASE \E good \in BOOLEAN : PW!Ended(Underway(at), good)
 <2>1. PICK good \in BOOLEAN : PW!Ended(Underway(at), good) BY <1>3
 <2> DEFINE s == Underway(at)
 <2>2. /\ WaitTells' /\ results' \in Seq(PW!Result) /\ at' \in {"next", "returned"}
       /\ outcome' \in {"none", "ok", "error"} /\ results' = Append(results, [strategy |-> s, ok |-> good])
  BY <1>1, <2>1, EndedTells
 <2>3. \A j \in DOMAIN results' : results'[j] \in PW!Result BY <2>2, Elements
 <2>4. WaitTyped' BY ZenonT(90), <2>2, <2>3, WaitTypes DEF WaitTyped, PW!TypeOK
 <2>5. /\ [strategy |-> s, ok |-> good] \in PW!Result /\ [strategy |-> s, ok |-> good].strategy = s
  BY <1>1 DEF PW!Result
 <2>6. \A j \in DOMAIN results' : results'[j].strategy = "dom" => j \in DOMAIN results /\ results'[j] = results[j]
  BY <1>1, <2>2, <2>5, WaitTypes, Appends
 <2>7. WaitQuiet' BY <2>2, <2>6, WaitTypes DEF WaitQuiet
 <2>8. WaitHears' BY <2>2, WaitTypes, HearsStays
 <2> QED BY <2>2, <2>4, <2>7, <2>8 DEF WaitInv
<1> QED BY <1>2, <1>3

LEMMA OthersKeep ==
  ASSUME WaitInv,
         \/ PW!EnableLifecycleEvents \/ PW!PreCheck \/ PW!Subscribe \/ PW!AwaitIdle
         \/ PW!WaitForElement \/ PW!WaitForElementEnabled PROVE  WaitInv'
<1>1. /\ UNCHANGED <<mode, page, mutations, heard, expired, quietFor, stable, last>>
 BY DEF PW!EnableLifecycleEvents, PW!PreCheck, PW!Subscribe, PW!AwaitIdle, PW!WaitForElement,
    PW!WaitForElementEnabled, PW!events
<1>2. listening' \in {listening, TRUE}
 BY DEF PW!EnableLifecycleEvents, PW!PreCheck, PW!Subscribe, PW!AwaitIdle, PW!WaitForElement, PW!WaitForElementEnabled
<1>3. at \in {"enable", "check", "subscribe", "idle", "visible", "appear", "enabled"}
 BY DEF PW!EnableLifecycleEvents, PW!PreCheck, PW!Subscribe, PW!AwaitIdle, PW!WaitForElement, PW!WaitForElementEnabled
<1>4. \/ /\ results' = results /\ outcome' = outcome /\ Underway(at') = Underway(at)
         /\ at' \in {"check", "subscribe", "idle", "enabled"}
      \/ \E good \in BOOLEAN : PW!Ended(Underway(at), good)
 <2>1. CASE PW!EnableLifecycleEvents BY <2>1 DEF PW!EnableLifecycleEvents, Underway
 <2>2. CASE PW!PreCheck BY <2>2 DEF PW!PreCheck, Underway
 <2>3. CASE PW!Subscribe BY <2>3 DEF PW!Subscribe, Underway
 <2>4. CASE PW!AwaitIdle BY <2>4 DEF PW!AwaitIdle, Underway
 <2>5. CASE PW!WaitForElement BY <2>5 DEF PW!WaitForElement, Underway
 <2>6. CASE PW!WaitForElementEnabled BY <2>6 DEF PW!WaitForElementEnabled, Underway
 <2> QED BY <2>1, <2>2, <2>3, <2>4, <2>5, <2>6
<1> QED BY <1>1, <1>2, <1>3, <1>4, StrategyKeeps

\* The wait for a quiet DOM is over, with or without success.
LEMMA DoneKeeps ==
  ASSUME WaitInv, NEW good \in BOOLEAN, PW!Done(good), at \in {"inject", "poll"},
         mode' = mode, page' = page, mutations' \in 0..MaxMutations, heard' = heard,
         expired' = expired, listening' = listening, last' \in 0..MaxMutations,
         stable' \in 0..StableFor, quietFor' \in 0..StableFor,
         good => stable' >= StableFor /\ quietFor' >= StableFor PROVE  WaitInv'
<1>1. outcome = "none" /\ Underway(at) = "dom" /\ "dom" \in PW!Strategies
      /\ \A j \in DOMAIN results : results[j].strategy # "dom" BY WaitTypes, Places DEF WaitTells, WaitQuiet, Underway
<1>2. CASE mode.call = "route"
 <2>1. results' = results /\ results = <<>> /\ at' = "returned" /\ outcome' \in {"ok", "error"}
  BY <1>2, WaitTypes DEF PW!Done, PW!Return, WaitTells
 <2>2. WaitTells' BY <1>1, <1>2, <2>1, EndTells
 <2>3. WaitTyped' BY <2>1, WaitTypes DEF WaitTyped, PW!TypeOK
 <2>4. WaitQuiet' BY <2>1 DEF WaitQuiet
 <2>5. WaitHears' BY <2>1, WaitTypes, HearsStays
 <2> QED BY <2>2, <2>3, <2>4, <2>5 DEF WaitInv
<1>3. CASE mode.call # "route"
 <2>1. PW!Ended("dom", good) BY <1>3 DEF PW!Done
 <2> DEFINE x == [strategy |-> "dom", ok |-> good]
 <2>2. /\ WaitTells' /\ results' \in Seq(PW!Result) /\ at' \in {"next", "returned"}
       /\ outcome' \in {"none", "ok", "error"} /\ results' = Append(results, x) BY <1>1, <1>3, <2>1, EndedTells
 <2>3. \A j \in DOMAIN results' : results'[j] \in PW!Result BY <2>2, Elements
 <2>4. WaitTyped' BY <2>2, <2>3, WaitTypes DEF WaitTyped, PW!TypeOK
 <2>5. x \in PW!Result /\ x.ok = good BY <1>1 DEF PW!Result
 <2> HIDE DEF x
 <2>6. \A j \in DOMAIN results' : results'[j] = x \/ (j \in DOMAIN results /\ results'[j] = results[j])
  BY <2>2, <2>5, WaitTypes, Appends
 <2>7. WaitQuiet' BY <1>1, <2>2, <2>5, <2>6 DEF WaitQuiet
 <2>8. WaitHears' BY <2>2, WaitTypes, HearsStays
 <2> QED BY <2>2, <2>4, <2>7, <2>8 DEF WaitInv
<1> QED BY <1>2, <1>3

LEMMA InjectKeeps == ASSUME WaitInv, PW!Inject PROVE WaitInv'
<1>1. /\ at = "inject" /\ UNCHANGED <<mode, page, heard, expired, listening>> BY DEF PW!Inject
<1>2. 0 \in 0..MaxMutations /\ 0 \in 0..StableFor /\ 0 < StableFor BY WaitConstants
<1>3. CASE PW!Done(FALSE) /\ UNCHANGED <<mutations, last, stable, quietFor>> BY <1>1, <1>3, WaitTypes, DoneKeeps
<1>4. CASE /\ at' = "poll" /\ mutations' = 0 /\ last' = 0 /\ stable' = 0 /\ quietFor' = 0
           /\ UNCHANGED <<results, outcome>>
 <2>1. /\ outcome = "none" /\ Underway(at') = Underway(at)
       /\ \A j \in DOMAIN results : results[j].strategy # "dom"
  BY <1>1, <1>4, WaitTypes DEF WaitTells, WaitQuiet, Underway
 <2>2. WaitTells'
  <3>1. WaitTells /\ at' = "poll" BY <1>4, WaitTypes
  <3> QED BY <1>1, <1>4, <2>1, <3>1, ToldStays DEF WaitTells
 <2>3. WaitTyped' BY <1>1, <1>2, <1>4, WaitTypes DEF WaitTyped, PW!TypeOK
 <2>4. WaitQuiet' BY <1>2, <1>4, <2>1 DEF WaitQuiet
 <2>5. WaitHears' BY <1>1, <1>4, WaitTypes, HearsStays
 <2> QED BY <2>2, <2>3, <2>4, <2>5 DEF WaitInv
<1> QED BY <1>3, <1>4 DEF PW!Inject

\* The polls that go on.
LEMMA PollGoesOn ==
  ASSUME WaitInv, at = "poll", at' = at, mode' = mode, page' = page, mutations' = mutations,
         heard' = heard, expired' = expired, listening' = listening, results' = results,
         outcome' = outcome, last' \in {last, mutations},
         stable' \in 0..StableFor, stable' < StableFor, quietFor' \in 0..StableFor,
         mutations = last' => quietFor' >= stable' PROVE  WaitInv'
<1>1. \A j \in DOMAIN results : results[j].strategy # "dom" BY WaitTypes DEF WaitQuiet
<1>2. last' \in 0..MaxMutations /\ last' <= mutations BY WaitTypes, WaitConstants DEF WaitQuiet
<1>3. WaitTells'
 <2>1. WaitTells BY WaitTypes
 <2> QED BY <2>1, ToldStays DEF WaitTells
<1>4. WaitTyped' BY <1>2, WaitTypes DEF WaitTyped, PW!TypeOK
<1>5. WaitQuiet' BY <1>1, <1>2 DEF WaitQuiet
<1>6. WaitHears' BY WaitTypes, HearsStays
<1> QED BY <1>3, <1>4, <1>5, <1>6 DEF WaitInv

LEMMA PollKeeps == ASSUME WaitInv, PW!Poll \/ PW!PollFails \/ PW!PollExpires PROVE WaitInv'
<1>1. StableFor \in Nat /\ StableFor >= 1 /\ MaxMutations \in Nat
      /\ stable \in 0..StableFor /\ quietFor \in 0..StableFor
      /\ mutations \in 0..MaxMutations /\ last \in 0..MaxMutations BY WaitConstants, WaitTypes
<1>2. CASE PW!Poll
 <2>1. /\ at = "poll" /\ UNCHANGED <<mode, page, mutations, heard, expired, listening>>
       /\ quietFor' = (IF quietFor < StableFor THEN quietFor + 1 ELSE quietFor)
       /\ stable < StableFor /\ (mutations = last => quietFor >= stable) BY <1>2, WaitTypes DEF PW!Poll, WaitQuiet
 <2>2. quietFor' \in 0..StableFor BY <1>1, <2>1
 <2>3. CASE mutations = last
  <3>1. last' = last /\ stable' = stable + 1 BY <1>2, <2>3 DEF PW!Poll
  <3>2. stable' \in 0..StableFor /\ quietFor' >= stable' BY <1>1, <2>1, <2>3, <3>1
  <3>3. CASE stable + 1 >= StableFor
   <4>1. PW!Done(TRUE) BY <1>2, <2>3, <3>3 DEF PW!Poll
   <4>2. stable' >= StableFor /\ quietFor' >= StableFor BY <1>1, <2>2, <3>1, <3>2, <3>3
   <4> QED BY <1>1, <2>1, <2>2, <3>1, <3>2, <4>1, <4>2, DoneKeeps
  <3>4. CASE ~(stable + 1 >= StableFor)
   <4>1. UNCHANGED <<at, results, outcome>> BY <1>2, <2>3, <3>4 DEF PW!Poll
   <4>2. stable' < StableFor BY <1>1, <3>1, <3>4
   <4> QED BY <2>1, <2>2, <3>1, <3>2, <4>1, <4>2, PollGoesOn
  <3> QED BY <3>3, <3>4
 <2>4. CASE mutations # last
  <3>1. last' = mutations /\ stable' = 0 /\ UNCHANGED <<at, results, outcome>> BY <1>2, <2>4 DEF PW!Poll, PW!Moved
  <3>2. stable' \in 0..StableFor /\ stable' < StableFor /\ quietFor' >= stable' BY <1>1, <2>2, <3>1
  <3> QED BY <2>1, <2>2, <3>1, <3>2, PollGoesOn
 <2> QED BY <2>3, <2>4
<1>3. CASE PW!PollFails
 <2>1. /\ at = "poll" /\ UNCHANGED <<at, mode, page, mutations, heard, expired, listening, last, quietFor>> /\ stable' = 0 /\ results' = results /\ outcome' = outcome
  BY <1>3 DEF PW!PollFails, PW!events
 <2>2. stable' \in 0..StableFor /\ stable' < StableFor /\ quietFor' >= stable' BY <1>1, <2>1
 <2> QED BY <1>1, <2>1, <2>2, PollGoesOn
<1>4. CASE PW!PollExpires
 <2>1. /\ at = "poll" /\ UNCHANGED <<mode, page, mutations, heard, expired, listening, last, quietFor, stable>> /\ PW!Done(FALSE) BY Zenon, <1>4 DEF PW!PollExpires, PW!events
 <2> QED BY <1>1, <2>1, DoneKeeps
<1> QED BY <1>2, <1>3, <1>4

LEMMA RouteKeeps == ASSUME WaitInv, PW!WaitForSPARouteChange PROVE WaitInv'
<1>1. /\ at = "url" /\ UNCHANGED <<mode, page, mutations, heard, expired, listening, last, stable, quietFor, results>>
      /\ \/ at' = "inject" /\ outcome' = outcome
         \/ at' = "returned" /\ outcome' = "error" BY DEF PW!WaitForSPARouteChange, PW!events, PW!Return
<1>2. mode.call = "route" /\ results = <<>> /\ outcome = "none" BY <1>1, WaitTypes DEF WaitTells
<1>3. WaitTells'
 <2>1. CASE at' = "returned" BY <1>1, <1>2, <2>1, EndTells
 <2>2. CASE at' # "returned" BY <1>1, <1>2, <2>2, GoTells
 <2> QED BY <2>1, <2>2
<1>4. WaitTyped' BY <1>1, WaitTypes DEF WaitTyped, PW!TypeOK
<1>5. WaitQuiet' BY <1>1, <1>2 DEF WaitQuiet
<1>6. WaitHears' BY <1>1, WaitTypes, HearsStays
<1> QED BY <1>3, <1>4, <1>5, <1>6 DEF WaitInv

LEMMA WaitNext == WaitInv /\ PW!Next => WaitInv'
BY EventsKeep, StartKeeps, NextKeeps, OthersKeep, InjectKeeps, PollKeeps, RouteKeeps DEF PW!Next, PW!Goes

LEMMA WaitHolds == ASSUME WaitInv PROVE /\ PW!TypeOK /\ PW!StableIsQuiet /\ PW!NavigationHearsIdle
  /\ PW!ResultsTellTheCall
<1>1. PW!TypeOK /\ PW!StableIsQuiet BY WaitTypes DEF WaitQuiet, PW!StableIsQuiet
<1>2. PW!NavigationHearsIdle
 <2>1. ASSUME mode.call = "navigate", at = "idle" PROVE page.idle => heard
  <3>1. "network" \in mode.strategies BY <2>1, WaitTypes DEF WaitTells, Underway
  <3> QED BY <2>1, <3>1, WaitTypes DEF WaitHears
 <2> QED BY <2>1 DEF PW!NavigationHearsIdle
<1>3. PW!ResultsTellTheCall BY WaitTypes DEF WaitTells, PW!ResultsTellTheCall, TriedTo, Cheaper, Refused
<1> QED BY <1>1, <1>2, <1>3

(* The pool: the tasks that ran are with a worker, in the channel of the results, or collected. *)

LEMMA PoolConstants ==
  /\ IsFiniteSet(Goroutines) /\ Goroutines # {}
  /\ Tasks \in Seq(PR!Numbers) /\ Len(Tasks) \in Nat /\ DOMAIN Tasks = 1..Len(Tasks)
  /\ \A k \in 1..Len(Tasks) : Tasks[k] \in PR!Numbers
  /\ \A j, k \in 1..Len(Tasks) : Tasks[j] = Tasks[k] => j = k
  /\ Null \notin PR!Numbers
<1>1. PR!WorkersAssumption BY ToolkitAssumption
<1>2. PR!IsFiniteSet(Goroutines) => IsFiniteSet(Goroutines) BY DEF PR!IsFiniteSet, IsFiniteSet
<1>3. Tasks \in Seq(PR!Numbers) BY <1>1 DEF PR!WorkersAssumption
<1>4. Len(Tasks) \in Nat /\ DOMAIN Tasks = 1..Len(Tasks) /\ \A k \in DOMAIN Tasks : Tasks[k] \in PR!Numbers
 BY <1>3, Elements
<1>5. \A j, k \in DOMAIN Tasks : Tasks[j] = Tasks[k] => j = k BY <1>1 DEF PR!WorkersAssumption, PR!IsInjective
<1> QED BY <1>1, <1>2, <1>3, <1>4, <1>5 DEF PR!WorkersAssumption

\* As many workers are started as there are goroutines for tasks.
LEMMA WantedIs ==
  /\ PR!Wanted \in Nat
  /\ Len(Tasks) = 0 => PR!Wanted = 0
  /\ Len(Tasks) > 0 => PR!Wanted > 0
<1>1. PR!Cardinality(Goroutines) = Cardinality(Goroutines) BY DEF PR!Cardinality, Cardinality
<1>2. Cardinality(Goroutines) \in Nat /\ Cardinality(Goroutines) # 0 BY PoolConstants, FS_CardinalityType, FS_EmptySet
<1> QED BY <1>1, <1>2, PoolConstants DEF PR!Wanted

LEMMA PoolInit == ASSUME PR!PoolInit PROVE PoolInv
<1>1. /\ started = {} /\ gone = {} /\ sent = 0 /\ queue = <<>> /\ shut = FALSE
      /\ doing = [w \in Goroutines |-> Null] /\ resultCh = <<>> /\ collected = <<>>
      /\ cancelled = FALSE /\ ran = <<>> /\ over = FALSE BY DEF PR!PoolInit
<1>2. Busy = {} BY <1>1 DEF Busy
<1>3. Cardinality(Busy) = 0 BY <1>2, FS_EmptySet
<1>4. 0 \in 0..Len(Tasks) BY PoolConstants
<1>5. /\ queue \in Seq(PR!Numbers) /\ ran \in Seq(PR!Numbers)
      /\ resultCh \in Seq(Outcome) /\ collected \in Seq(Outcome)
      /\ Len(ran) = 0 /\ Len(queue) = 0 /\ Len(resultCh) = 0 /\ Len(collected) = 0 BY <1>1
<1>6. 1..Len(ran) = {} /\ 1..Len(queue) = {} BY <1>5
<1>7. doing \in [Goroutines -> PR!Numbers \cup {Null}] BY <1>1
<1>8. /\ started \subseteq Goroutines /\ gone \subseteq started /\ sent \in 0..Len(Tasks)
      /\ shut \in BOOLEAN /\ cancelled \in BOOLEAN /\ over \in BOOLEAN
      /\ ~(sent > 0) /\ ~shut /\ gone = {} /\ ~over
 <2>1. sent \in 0..Len(Tasks) /\ ~(sent > 0) BY <1>1, <1>4
 <2>2. started \subseteq Goroutines /\ gone \subseteq started BY <1>1
 <2>3. shut \in BOOLEAN /\ cancelled \in BOOLEAN /\ over \in BOOLEAN /\ ~shut /\ ~over BY <1>1
 <2> QED BY <1>1, <2>1, <2>2, <2>3
<1>9. Len(ran) + Len(queue) = sent /\ Len(ran) = Cardinality(Busy) + Len(resultCh) + Len(collected)
 BY <1>1, <1>3, <1>5
<1> QED BY <1>2, <1>5, <1>6, <1>7, <1>8, <1>9 DEF PoolInv

LEMMA PoolRests == ASSUME PoolInv, UNCHANGED poolVars PROVE PoolInv'
<1>1. /\ UNCHANGED <<started, sent, queue, shut, doing, gone, resultCh, collected, cancelled, ran, over>> BY DEF poolVars
<1>2. Busy' = Busy BY <1>1 DEF Busy
<1> QED BY <1>1, <1>2 DEF PoolInv

\* The workers at a task.
LEMMA BusyCounts == ASSUME NEW w \in Goroutines
  PROVE  /\ IsFiniteSet(Busy) /\ Cardinality(Busy) \in Nat
         /\ w \in Busy => Cardinality(Busy \ {w}) = Cardinality(Busy) - 1
         /\ w \notin Busy => Cardinality(Busy \cup {w}) = Cardinality(Busy) + 1
<1>1. Busy \subseteq Goroutines /\ IsFiniteSet(Goroutines) BY PoolConstants DEF Busy
<1>2. IsFiniteSet(Busy) BY <1>1, FS_Subset
<1>3. Cardinality(Busy) \in Nat BY <1>2, FS_CardinalityType
<1>4. w \in Busy => Cardinality(Busy \ {w}) = Cardinality(Busy) - 1 BY <1>2, FS_RemoveElement
<1>5. w \notin Busy => Cardinality(Busy \cup {w}) = Cardinality(Busy) + 1 BY <1>2, FS_AddElement
<1> QED BY <1>2, <1>3, <1>4, <1>5

LEMMA StartPools == ASSUME PoolInv, NEW w \in Goroutines, PR!StartWorker(w) PROVE PoolInv'
<1>1. /\ PR!Cardinality(started) < PR!Wanted /\ started' = started \cup {w}
      /\ UNCHANGED <<sent, queue, shut, doing, gone, resultCh, collected, cancelled, ran, over>> BY DEF PR!StartWorker
<1>2. PR!Cardinality(started) = Cardinality(started) BY SMTT(60) DEF PR!Cardinality, Cardinality
<1>3. started \subseteq Goroutines /\ IsFiniteSet(started) BY Zenon, PoolConstants, FS_Subset DEF PoolInv
<1>4. Cardinality(started) \in Nat BY <1>3, FS_CardinalityType
<1>5. sent = 0 /\ Len(Tasks) # 0 BY <1>1, <1>2, <1>4, WantedIs, PoolConstants DEF PoolInv
<1>6. ~over BY <1>5 DEF PoolInv
<1>7. Busy' = Busy BY <1>1 DEF Busy
<1> QED BY <1>1, <1>5, <1>6, <1>7 DEF PoolInv

LEMMA SendPools == ASSUME PoolInv, PR!Send PROVE PoolInv'
<1>1. /\ PR!Cardinality(started) = PR!Wanted /\ sent < Len(Tasks) /\ sent' = sent + 1
      /\ queue' = Append(queue, Tasks[sent + 1])
      /\ UNCHANGED <<started, shut, doing, gone, resultCh, collected, cancelled, ran, over>> BY DEF PR!Send
<1>2. PR!Cardinality(started) = Cardinality(started) BY DEF PR!Cardinality, Cardinality
<1>3. /\ sent \in 0..Len(Tasks) /\ queue \in Seq(PR!Numbers) /\ ran \in Seq(PR!Numbers)
      /\ Len(ran) + Len(queue) = sent /\ \A k \in 1..Len(queue) : queue[k] = Tasks[Len(ran) + k] BY DEF PoolInv
<1>4. sent + 1 \in 1..Len(Tasks) /\ Tasks[sent + 1] \in PR!Numbers BY <1>1, <1>3, PoolConstants
<1>5. /\ queue' \in Seq(PR!Numbers) /\ Len(queue) \in Nat /\ Len(queue') = Len(queue) + 1
      /\ \A k \in 1..Len(queue) : queue'[k] = queue[k]
      /\ queue'[Len(queue) + 1] = Tasks[sent + 1] BY <1>1, <1>3, <1>4, Appends
<1>6. Len(ran) \in Nat BY <1>3
<1>7. Len(ran') + Len(queue') = sent' BY <1>1, <1>3, <1>5, <1>6
<1>8. \A k \in 1..Len(queue') : queue'[k] = Tasks[Len(ran') + k]
 <2>1. TAKE k \in 1..Len(queue')
 <2>2. CASE k \in 1..Len(queue) BY <1>1, <1>3, <1>5, <2>2
 <2>3. CASE k = Len(queue) + 1
  <3>1. Len(ran) + k = sent + 1 BY <1>3, <1>5, <1>6, <2>3
  <3> QED BY <1>1, <1>5, <2>3, <3>1
 <2> QED BY <1>5, <2>2, <2>3
<1>9. ~shut
 <2>1. sent # Len(Tasks)
  <3>1. sent < Len(Tasks) /\ sent \in Nat /\ Len(Tasks) \in Nat BY <1>1, <1>3, PoolConstants
  <3> QED BY <3>1
 <2> QED BY <2>1 DEF PoolInv
<1>10. sent' \in 0..Len(Tasks) BY <1>1, <1>4
<1>11. Busy' = Busy BY <1>1 DEF Busy
<1> QED BY ZenonT(90), <1>1, <1>2, <1>5, <1>7, <1>8, <1>9, <1>10, <1>11 DEF PoolInv

LEMMA TakePools == ASSUME PoolInv, NEW w \in Goroutines, PR!Take(w) PROVE PoolInv'
<1> DEFINE t == Head(queue)
<1>1. /\ w \in started \ gone /\ doing[w] = Null /\ queue # <<>>
      /\ doing' = [doing EXCEPT ![w] = t] /\ queue' = Tail(queue) /\ ran' = Append(ran, t)
      /\ UNCHANGED <<started, sent, shut, gone, resultCh, collected, cancelled, over>> BY DEF PR!Take
<1>2. /\ sent \in 0..Len(Tasks) /\ queue \in Seq(PR!Numbers) /\ ran \in Seq(PR!Numbers)
      /\ doing \in [Goroutines -> PR!Numbers \cup {Null}]
      /\ Len(ran) + Len(queue) = sent /\ \A k \in 1..Len(queue) : queue[k] = Tasks[Len(ran) + k]
      /\ \A k \in 1..Len(ran) : ran[k] = Tasks[k]
      /\ resultCh \in Seq(Outcome) /\ collected \in Seq(Outcome) BY DEF PoolInv
<1>3. /\ Len(queue) \in Nat /\ Len(queue) >= 1 /\ t = queue[1] /\ t \in PR!Numbers
      /\ queue' \in Seq(PR!Numbers) /\ Len(queue') = Len(queue) - 1
      /\ \A k \in 1..(Len(queue) - 1) : queue'[k] = queue[k + 1] BY <1>1, <1>2, NonEmpty
<1> HIDE DEF t
<1>4. /\ ran' \in Seq(PR!Numbers) /\ Len(ran) \in Nat /\ Len(ran') = Len(ran) + 1
      /\ \A k \in 1..Len(ran) : ran'[k] = ran[k]
      /\ ran'[Len(ran) + 1] = t BY <1>1, <1>2, <1>3, Appends
<1>5. t = Tasks[Len(ran) + 1] /\ t # Null BY <1>2, <1>3, PoolConstants
<1>6. /\ doing' \in [Goroutines -> PR!Numbers \cup {Null}] /\ doing'[w] = t
      /\ \A v \in Goroutines : v # w => doing'[v] = doing[v] BY <1>1, <1>2, <1>3
<1>7. Busy' = Busy \cup {w} /\ w \notin Busy BY <1>1, <1>5, <1>6 DEF Busy
<1>8. Len(ran') = Cardinality(Busy') + Len(resultCh') + Len(collected')
 <2>1. Len(ran) = Cardinality(Busy) + Len(resultCh) + Len(collected) BY DEF PoolInv
 <2>2. Cardinality(Busy') = Cardinality(Busy) + 1 /\ Cardinality(Busy) \in Nat BY <1>7, BusyCounts
 <2>3. Len(resultCh) \in Nat /\ Len(collected) \in Nat BY <1>2
 <2> QED BY <1>1, <1>4, <2>1, <2>2, <2>3
<1>9. \A k \in 1..Len(ran') : ran'[k] = Tasks[k]
 <2>1. TAKE k \in 1..Len(ran')
 <2>2. CASE k \in 1..Len(ran) BY <1>2, <1>4, <2>2
 <2>3. CASE k = Len(ran) + 1 BY <1>4, <1>5, <2>3
 <2> QED BY <1>4, <2>2, <2>3
<1>10. \A k \in 1..Len(queue') : queue'[k] = Tasks[Len(ran') + k]
 <2>1. TAKE k \in 1..Len(queue')
 <2>2. k + 1 \in 1..Len(queue) /\ Len(ran) + (k + 1) = Len(ran') + k BY <1>3, <1>4
 <2> QED BY <1>2, <1>3, <2>2
<1>11. Len(ran') + Len(queue') = sent'
 <2>1. sent' = sent /\ Len(ran) + Len(queue) = sent BY <1>1, <1>2
 <2> QED BY <1>3, <1>4, <2>1
<1>12. ASSUME NEW k \in 1..Len(ran')
       PROVE  \/ \E v \in Busy' : doing'[v] = ran'[k]
              \/ \E j \in 1..Len(resultCh') : resultCh'[j].task = ran'[k]
              \/ \E j \in 1..Len(collected') : collected'[j].task = ran'[k]
 <2>1. CASE k = Len(ran) + 1 BY <1>4, <1>6, <1>7, <2>1
 <2>2. CASE k \in 1..Len(ran)
  <3>1. \/ \E v \in Busy : doing[v] = ran[k]
        \/ \E j \in 1..Len(resultCh) : resultCh[j].task = ran[k]
        \/ \E j \in 1..Len(collected) : collected[j].task = ran[k] BY <2>2 DEF PoolInv
  <3>2. \A v \in Busy : v \in Goroutines /\ v # w BY <1>7 DEF Busy
  <3> QED BY <1>1, <1>4, <1>6, <1>7, <2>2, <3>1, <3>2
 <2> QED BY <1>4, <2>1, <2>2
<1>13. \A v \in Busy' : v \in started' \ gone' BY <1>1, <1>7 DEF PoolInv
<1>14. gone' = {} /\ ~over' BY <1>1, <1>3 DEF PoolInv
<1> QED BY <1>1, <1>3, <1>4, <1>6, <1>8, <1>9, <1>10, <1>11, <1>12, <1>13, <1>14 DEF PoolInv

LEMMA FinishPools == ASSUME PoolInv, NEW w \in Goroutines, PR!Finish(w) PROVE PoolInv'
<1>1. PICK good \in BOOLEAN : resultCh' = Append(resultCh, [task |-> doing[w], success |-> good]) BY DEF PR!Finish
<1> DEFINE x == [task |-> doing[w], success |-> good]
<1>2. /\ doing[w] # Null /\ doing' = [doing EXCEPT ![w] = Null]
      /\ UNCHANGED <<started, sent, queue, shut, gone, collected, cancelled, ran, over>> BY DEF PR!Finish
<1>3. /\ doing \in [Goroutines -> PR!Numbers \cup {Null}] /\ resultCh \in Seq(Outcome)
      /\ collected \in Seq(Outcome) /\ ran \in Seq(PR!Numbers) BY DEF PoolInv
<1>4. x \in Outcome /\ x.task = doing[w] BY <1>2, <1>3 DEF Outcome
<1> HIDE DEF x
<1>5. /\ resultCh' \in Seq(Outcome) /\ Len(resultCh) \in Nat /\ Len(resultCh') = Len(resultCh) + 1
      /\ \A k \in 1..Len(resultCh) : resultCh'[k] = resultCh[k]
      /\ resultCh'[Len(resultCh) + 1] = x
 <2>1. resultCh' = Append(resultCh, x) BY <1>1 DEF x
 <2> QED BY <1>3, <1>4, <2>1, Appends
<1>6. /\ doing' \in [Goroutines -> PR!Numbers \cup {Null}] /\ doing'[w] = Null
      /\ \A v \in Goroutines : v # w => doing'[v] = doing[v] BY <1>2, <1>3
<1>7. Busy' = Busy \ {w} /\ w \in Busy BY <1>2, <1>6 DEF Busy
<1>8. Len(ran') = Cardinality(Busy') + Len(resultCh') + Len(collected')
 <2>1. Len(ran) = Cardinality(Busy) + Len(resultCh) + Len(collected) BY DEF PoolInv
 <2>2. Cardinality(Busy') = Cardinality(Busy) - 1 /\ Cardinality(Busy) \in Nat BY <1>7, BusyCounts
 <2>3. Len(collected) \in Nat BY <1>3
 <2> QED BY <1>2, <1>5, <2>1, <2>2, <2>3
<1>9. ASSUME NEW k \in 1..Len(ran')
       PROVE  \/ \E v \in Busy' : doing'[v] = ran'[k]
              \/ \E j \in 1..Len(resultCh') : resultCh'[j].task = ran'[k]
              \/ \E j \in 1..Len(collected') : collected'[j].task = ran'[k]
 <2>1. k \in 1..Len(ran) /\ ran'[k] = ran[k] BY <1>2
 <2>2. CASE \E v \in Busy : doing[v] = ran[k]
  <3>1. PICK v \in Busy : doing[v] = ran[k] BY <2>2
  <3>2. CASE v = w
   <4>1. Len(resultCh) + 1 \in 1..Len(resultCh') /\ resultCh'[Len(resultCh) + 1].task = ran[k]
    BY <1>4, <1>5, <3>1, <3>2
   <4> QED BY <2>1, <4>1
  <3>3. CASE v # w BY <1>6, <1>7, <2>1, <3>1, <3>3 DEF Busy
  <3> QED BY <3>2, <3>3
 <2>3. CASE \E j \in 1..Len(resultCh) : resultCh[j].task = ran[k] BY <1>5, <2>1, <2>3
 <2>4. CASE \E j \in 1..Len(collected) : collected[j].task = ran[k] BY <1>2, <2>1, <2>4
 <2> QED BY <2>1, <2>2, <2>3, <2>4 DEF PoolInv
<1>10. \A v \in Busy' : v \in started' \ gone' BY <1>2, <1>7 DEF PoolInv
<1>11. ~over BY <1>7 DEF PoolInv
<1> QED BY <1>2, <1>5, <1>6, <1>8, <1>9, <1>10, <1>11 DEF PoolInv

LEMMA CollectPools == ASSUME PoolInv, PR!Collect PROVE PoolInv'
<1> DEFINE x == Head(resultCh)
<1>1. /\ resultCh # <<>> /\ collected' = Append(collected, x) /\ resultCh' = Tail(resultCh)
      /\ UNCHANGED <<started, sent, queue, shut, doing, gone, cancelled, ran, over>> BY DEF PR!Collect
<1>2. resultCh \in Seq(Outcome) /\ collected \in Seq(Outcome) /\ ran \in Seq(PR!Numbers) BY DEF PoolInv
<1>3. /\ Len(resultCh) \in Nat /\ Len(resultCh) >= 1 /\ x = resultCh[1] /\ x \in Outcome
      /\ resultCh' \in Seq(Outcome) /\ Len(resultCh') = Len(resultCh) - 1
      /\ \A k \in 1..(Len(resultCh) - 1) : resultCh'[k] = resultCh[k + 1] BY <1>1, <1>2, NonEmpty
<1> HIDE DEF x
<1>4. /\ collected' \in Seq(Outcome) /\ Len(collected) \in Nat /\ Len(collected') = Len(collected) + 1
      /\ \A k \in 1..Len(collected) : collected'[k] = collected[k]
      /\ collected'[Len(collected) + 1] = x BY <1>1, <1>2, <1>3, Appends
<1>5. Busy' = Busy BY <1>1 DEF Busy
<1>6. Len(ran') = Cardinality(Busy') + Len(resultCh') + Len(collected')
 <2>1. Len(ran) = Cardinality(Busy) + Len(resultCh) + Len(collected) BY DEF PoolInv
 <2>2. Cardinality(Busy) \in Nat BY BusyCounts, PoolConstants
 <2> QED BY <1>1, <1>3, <1>4, <1>5, <2>1, <2>2
<1>7. ASSUME NEW k \in 1..Len(ran')
       PROVE  \/ \E v \in Busy' : doing'[v] = ran'[k]
              \/ \E j \in 1..Len(resultCh') : resultCh'[j].task = ran'[k]
              \/ \E j \in 1..Len(collected') : collected'[j].task = ran'[k]
 <2>1. k \in 1..Len(ran) /\ ran'[k] = ran[k] BY <1>1
 <2>2. CASE \E v \in Busy : doing[v] = ran[k] BY <1>1, <1>5, <2>1, <2>2
 <2>3. CASE \E j \in 1..Len(resultCh) : resultCh[j].task = ran[k]
  <3>1. PICK j \in 1..Len(resultCh) : resultCh[j].task = ran[k] BY <2>3
  <3>2. CASE j = 1
   <4>1. Len(collected) + 1 \in 1..Len(collected') /\ collected'[Len(collected) + 1].task = ran[k]
    BY <1>3, <1>4, <3>1, <3>2
   <4> QED BY <2>1, <4>1
  <3>3. CASE j # 1
   <4>1. j - 1 \in 1..Len(resultCh') /\ j - 1 \in 1..(Len(resultCh) - 1) /\ (j - 1) + 1 = j BY <1>3, <3>3
   <4>2. resultCh'[j - 1] = resultCh[j] BY <1>3, <4>1
   <4> QED BY <2>1, <3>1, <4>1, <4>2
  <3> QED BY <3>2, <3>3
 <2>4. CASE \E j \in 1..Len(collected) : collected[j].task = ran[k] BY <1>4, <2>1, <2>4
 <2> QED BY <2>1, <2>2, <2>3, <2>4 DEF PoolInv
<1>8. ~over BY <1>1 DEF PoolInv
<1> QED BY <1>1, <1>3, <1>4, <1>5, <1>6, <1>7, <1>8 DEF PoolInv

LEMMA FlagsPool ==
  ASSUME PoolInv,
         \/ PR!CloseTasks \/ PR!RunReturns \/ PR!Cancel
         \/ \E w \in Goroutines : PR!WorkerReturns(w) PROVE  PoolInv'
<1>1. /\ UNCHANGED <<started, sent, queue, doing, resultCh, collected, ran>>
 BY DEF PR!CloseTasks, PR!RunReturns, PR!Cancel, PR!WorkerReturns
<1>2. Busy' = Busy BY <1>1 DEF Busy
<1>3. CASE PR!CloseTasks BY ZenonT(90), <1>1, <1>2, <1>3 DEF PR!CloseTasks, PoolInv
<1>4. CASE PR!RunReturns BY ZenonT(90), <1>1, <1>2, <1>4 DEF PR!RunReturns, PoolInv
<1>5. CASE PR!Cancel BY ZenonT(90), <1>1, <1>2, <1>5 DEF PR!Cancel, PoolInv
<1>6. CASE \E w \in Goroutines : PR!WorkerReturns(w)
 <2>1. PICK w \in Goroutines : PR!WorkerReturns(w) BY <1>6
 <2>2. /\ w \in started \ gone /\ doing[w] = Null /\ queue = <<>> /\ shut /\ gone' = gone \cup {w}
       /\ UNCHANGED <<shut, cancelled, over>> BY <2>1 DEF PR!WorkerReturns
 <2>3. w \notin Busy BY <2>2 DEF Busy
 <2> QED BY ZenonT(90), <1>1, <1>2, <2>2, <2>3 DEF PoolInv
<1> QED BY <1>3, <1>4, <1>5, <1>6

LEMMA PoolNext == PoolInv /\ PR!PoolNext => PoolInv'
BY StartPools, SendPools, TakePools, FinishPools, CollectPools, FlagsPool DEF PR!PoolNext, PR!PoolProgress

LEMMA PoolHolds == ASSUME PoolInv PROVE PR!PoolTypeOK /\ PR!EveryTaskHasResult
<1>1. /\ sent \in 0..Len(Tasks) /\ Len(ran) + Len(queue) = sent
      /\ Len(ran) = Cardinality(Busy) + Len(resultCh) + Len(collected)
      /\ Len(queue) \in Nat /\ Len(ran) \in Nat /\ Len(resultCh) \in Nat /\ Len(collected) \in Nat
      /\ DOMAIN ran = 1..Len(ran) /\ DOMAIN collected = 1..Len(collected)
      /\ \A k \in 1..Len(ran) : ran[k] = Tasks[k]
      /\ \A k \in 1..Len(collected) : collected[k] \in Outcome BY DEF PoolInv
<1>2. Cardinality(Busy) \in Nat BY BusyCounts, PoolConstants
<1>3. Len(queue) + Len(resultCh) + Len(collected) <= Len(Tasks) BY <1>1, <1>2, PoolConstants
<1>4. PR!PoolTypeOK BY <1>3 DEF PoolInv, PR!PoolTypeOK
<1>5. PR!IsInjective(ran)
 <2>1. \A j, k \in 1..Len(ran) : ran[j] = ran[k] => j = k BY <1>1, PoolConstants
 <2> QED BY <1>1, <2>1 DEF PR!IsInjective
<1>6. ASSUME over PROVE  /\ Len(collected) = Len(Tasks) /\ {collected[k].task : k \in DOMAIN collected} = PR!Numbers
 <2>1. shut /\ gone = started /\ resultCh = <<>> /\ sent = Len(Tasks) BY <1>6 DEF PoolInv
 <2>2. Busy = {} BY <2>1 DEF PoolInv
 <2>3. Cardinality(Busy) = 0 /\ Len(resultCh) = 0 BY <2>1, <2>2, FS_EmptySet
 <2>4. Len(queue) = 0
  <3>1. CASE Len(Tasks) = 0 BY <1>1, <2>1, <3>1
  <3>2. CASE Len(Tasks) # 0
   <4>1. Cardinality(started) # 0 BY <2>1, <3>2, WantedIs, PoolConstants DEF PoolInv
   <4>2. gone # {} BY <2>1, <4>1, FS_EmptySet
   <4> QED BY <4>2 DEF PoolInv
  <3> QED BY <3>1, <3>2
 <2>5. Len(collected) = Len(Tasks) /\ Len(ran) = Len(Tasks) BY <1>1, <2>1, <2>3, <2>4
 <2>6. \A k \in 1..Len(Tasks) : \E j \in 1..Len(collected) : collected[j].task = Tasks[k]
  <3>1. TAKE k \in 1..Len(Tasks)
  <3>2. k \in 1..Len(ran) /\ ran[k] = Tasks[k] BY <1>1, <2>5
  <3>3. 1..Len(resultCh) = {} BY <2>3
  <3> QED BY <2>2, <3>2, <3>3 DEF PoolInv
 <2>7. \A j \in 1..Len(collected) : collected[j].task \in PR!Numbers BY <1>1 DEF Outcome
 <2> QED
  <3>1. \A m \in PR!Numbers : \E k \in 1..Len(Tasks) : m = Tasks[k] BY PoolConstants DEF PR!Numbers
  <3>2. ASSUME NEW m \in PR!Numbers PROVE m \in {collected[k].task : k \in DOMAIN collected}
   <4>1. PICK j \in 1..Len(collected) : collected[j].task = m BY <2>6, <3>1
   <4>2. j \in DOMAIN collected BY <1>1
   <4> QED BY <4>1, <4>2
  <3>3. \A m \in {collected[k].task : k \in DOMAIN collected} : m \in PR!Numbers BY <1>1, <2>7
  <3> QED BY <2>5, <3>2, <3>3
<1> QED BY <1>4, <1>5, <1>6 DEF PR!EveryTaskHasResult

(* The procedures step by step: what the log of each tells of its counts. *)

LEMMA StepConstants == Length \in Nat /\ MaxScanned \in Nat /\ MaxRuns \in Nat /\ MaxRuns >= 1
BY ToolkitAssumption DEF PR!ProceduresAssumption

LEMMA CountIsNumber == ASSUME NEW s \in Seq(Entry), NEW S
  PROVE  IsFiniteSet(Where(s, S)) /\ Cardinality(Where(s, S)) \in Nat
<1>1. Len(s) \in Nat /\ Len(s) \in Int /\ 1 \in Int /\ DOMAIN s = 1..Len(s) OBVIOUS
<1>2. Where(s, S) \subseteq 1..Len(s) BY <1>1 DEF Where
<1>3. IsFiniteSet(1..Len(s)) BY <1>1, FS_Interval
<1> QED BY <1>2, <1>3, FS_Subset, FS_CardinalityType

\* What an entry more changes of the counts.
LEMMA CountGrows == ASSUME NEW s \in Seq(Entry), NEW x \in Entry, NEW S
  PROVE  Cardinality(Where(Append(s, x), S))
            = (IF x \in S THEN Cardinality(Where(s, S)) + 1 ELSE Cardinality(Where(s, S)))
<1> SUFFICES ASSUME NEW a, a = Append(s, x)
             PROVE  Cardinality(Where(a, S))
                       = (IF x \in S THEN Cardinality(Where(s, S)) + 1 ELSE Cardinality(Where(s, S))) OBVIOUS
<1>1. /\ Len(s) \in Nat /\ DOMAIN s = 1..Len(s) /\ DOMAIN a = 1..(Len(s) + 1)
      /\ \A n \in 1..Len(s) : a[n] = s[n]
      /\ a[Len(s) + 1] = x BY Appends
<1>2. IsFiniteSet(Where(s, S)) /\ Len(s) + 1 \notin Where(s, S)
 <2>1. Len(s) + 1 \notin 1..Len(s) BY <1>1
 <2> QED BY <1>1, <2>1, CountIsNumber DEF Where
<1>3. Where(a, S) = (IF x \in S THEN Where(s, S) \cup {Len(s) + 1} ELSE Where(s, S)) BY <1>1 DEF Where
<1>4. Cardinality(Where(s, S) \cup {Len(s) + 1}) = Cardinality(Where(s, S)) + 1 BY <1>2, FS_AddElement
<1> QED BY <1>3, <1>4

LEMMA CountNone == ASSUME log = <<>>, NEW S PROVE Count(S) = 0
<1>1. Where(log, S) = {} BY DEF Where
<1> QED BY <1>1, FS_EmptySet DEF Count

LEMMA StepInit == ASSUME PR!Init PROVE StepInv
<1>1. /\ way \in PR!Ways /\ index = 0 /\ status = "pending" /\ log = <<>> /\ result = PR!Nothing
      /\ handoffs = <<>> /\ late = FALSE /\ runs = 0 BY DEF PR!Init
<1>2. /\ result \in Tally /\ result.total = 0 /\ result.passed = 0 /\ result.failed = 0 /\ result.violations = 0
 BY <1>1 DEF PR!Nothing, Tally
<1>3. StepTyped
 <2>1. log \in Seq(Entry) /\ handoffs \in Seq(Hand) BY <1>1
 <2>2. index \in 0..(Length + 1) /\ runs \in 0..MaxRuns /\ runs < MaxRuns BY <1>1, StepConstants
 <2> QED BY <1>1, <1>2, <2>1, <2>2 DEF StepTyped
<1>4. \A S : Count(S) = 0 BY <1>1, CountNone
<1>5. Len(log) = 0 /\ DOMAIN log = {} /\ DOMAIN handoffs = {} /\ Len(handoffs) = 0 BY <1>1
<1>6. SequenceInv BY <1>1, <1>5 DEF SequenceInv
<1>7. HarnessInv BY <1>1, <1>2, <1>4, <1>5, StepConstants DEF HarnessInv
<1>8. ChainInv BY <1>1, <1>2, <1>4, <1>5, StepConstants DEF ChainInv
<1>9. ScanInv
 <2>1. MaxScanned \in Nat BY ToolkitAssumption DEF PR!ProceduresAssumption
 <2>2. Count(Kind("type", {"registered"})) = 0
       /\ Count(Kind("type", {"candidate", "unregistered", "registered"})) = 0 BY <1>4
 <2> QED BY <1>1, <1>2, <2>1, <2>2 DEF ScanInv
<1> QED BY <1>3, <1>6, <1>7, <1>8, <1>9 DEF StepInv

LEMMA StepRests == ASSUME StepInv, UNCHANGED stepVars PROVE StepInv'
<1>1. /\ UNCHANGED <<way, index, status, log, result, handoffs, late, runs>> BY DEF stepVars
<1>2. \A S : Count(S)' = Count(S) BY <1>1 DEF Count, Where
<1>3. StepTyped' /\ (way = "sequence" => SequenceInv') BY <1>1 DEF StepInv, StepTyped, SequenceInv
<1>4. (way = "endurance" => HarnessInv') BY <1>1 DEF StepInv, HarnessInv, Count, Where
<1>5. (way = "chain" => ChainInv') /\ (way = "scan" => ScanInv') BY <1>1 DEF StepInv, ChainInv, ScanInv, Count, Where
<1> QED BY <1>1, <1>3, <1>4, <1>5 DEF StepInv

\* What is done is written down.
LEMMA DidTyped ==
  ASSUME StepTyped, NEW did \in {"step", "undo", "cycle", "try", "type"},
         NEW how \in {"ok", "error", "candidate", "unregistered", "registered"}, index \in 1..Length, PR!Did(did, how)
  PROVE  LET x == [did |-> did, item |-> index, how |-> how] IN
         /\ x \in Entry /\ x.did = did /\ x.item = index /\ x.how = how
         /\ log' = Append(log, x) /\ log' \in Seq(Entry) /\ Len(log) \in Nat /\ Len(log') = Len(log) + 1
         /\ DOMAIN log = 1..Len(log) /\ DOMAIN log' = 1..(Len(log) + 1)
         /\ \A n \in DOMAIN log : log'[n] = log[n]
         /\ log'[Len(log) + 1] = x
<1> DEFINE x == [did |-> did, item |-> index, how |-> how]
<1>1. x \in Entry /\ x.did = did /\ x.item = index /\ x.how = how /\ log' = Append(log, x) BY DEF Entry, PR!Did
<1>2. log \in Seq(Entry) BY DEF StepTyped
<1> HIDE DEF x
<1>3. /\ log' \in Seq(Entry) /\ Len(log) \in Nat /\ Len(log') = Len(log) + 1
      /\ DOMAIN log = 1..Len(log) /\ DOMAIN log' = 1..(Len(log) + 1)
      /\ \A n \in DOMAIN log : log'[n] = log[n]
      /\ log'[Len(log) + 1] = x BY <1>1, <1>2, Appends
<1> QED BY <1>1, <1>3 DEF x

\* The counts after an entry more.
LEMMA DidCounts == ASSUME StepTyped, NEW x \in Entry, log' = Append(log, x), NEW S
  PROVE  /\ Count(S) \in Nat
         /\ Cardinality(Where(log', S)) = (IF x \in S THEN Count(S) + 1 ELSE Count(S))
BY CountGrows, CountIsNumber DEF StepTyped, Count

\* Sequence.Run.
LEMMA SequenceSteps == ASSUME StepInv, way = "sequence", PR!Next PROVE StepInv'
<1>1. /\ StepTyped /\ SequenceInv /\ log \in Seq(Entry) /\ index \in 0..(Length + 1)
      /\ Length \in Nat /\ MaxRuns \in Nat /\ runs \in 0..MaxRuns
      /\ DOMAIN log = 1..Len(log) /\ Len(log) \in Nat BY StepConstants DEF StepInv, StepTyped
<1>2. SUFFICES /\ StepTyped' /\ SequenceInv' /\ way' = way BY DEF StepInv
<1>3. CASE PR!Begin
 <2>1. /\ status = "pending" /\ index' = 1 /\ status' = "running" /\ runs' = runs + 1
       /\ UNCHANGED <<way, log, result, handoffs, late>> BY <1>3 DEF PR!Begin
 <2>2. runs' \in 0..MaxRuns /\ runs' >= 1 /\ index' \in 0..(Length + 1) BY <1>1, <2>1 DEF StepTyped
 <2>3. log = <<>> BY <1>1, <2>1 DEF SequenceInv
 <2> QED BY <1>1, <2>1, <2>2, <2>3 DEF StepTyped, SequenceInv
<1>4. CASE PR!Expires
 <2>1. /\ late' = TRUE /\ UNCHANGED <<way, index, status, log, result, handoffs, runs>> BY <1>4 DEF PR!Expires
 <2> QED BY <1>1, <2>1 DEF StepTyped, SequenceInv
<1>5. CASE PR!RunStep
 <2>1. PICK good \in BOOLEAN :
          /\ PR!Did("step", IF good THEN "ok" ELSE "error")
          /\ IF good THEN index' = index + 1 /\ UNCHANGED status ELSE status' = "failed" /\ UNCHANGED index
  BY <1>5 DEF PR!RunStep
 <2>2. /\ status = "running" /\ index <= Length /\ UNCHANGED <<way, result, handoffs, late, runs>> BY <1>5 DEF PR!RunStep
 <2>3. index \in 1..Length /\ Len(log) = index - 1 BY <1>1, <2>2 DEF StepTyped, SequenceInv
 <2> DEFINE how == IF good THEN "ok" ELSE "error"
            x == [did |-> "step", item |-> index, how |-> how]
 <2>4. /\ x.did = "step" /\ x.item = index /\ x.how = how /\ log' \in Seq(Entry) /\ Len(log') = Len(log) + 1
       /\ DOMAIN log' = 1..(Len(log) + 1)
       /\ \A n \in DOMAIN log : log'[n] = log[n]
       /\ log'[Len(log) + 1] = x BY <1>1, <2>1, <2>3, DidTyped
 <2> HIDE DEF x
 <2>5. \A n \in DOMAIN log : log[n].did = "step" /\ log[n].how = "ok" BY <1>1, <2>2 DEF SequenceInv
 <2>6. CASE good
  <3>1. index' = index + 1 /\ status' = "running" /\ how = "ok" BY <2>1, <2>2, <2>6
  <3> QED BY <1>1, <2>2, <2>3, <2>4, <2>5, <3>1 DEF StepTyped, SequenceInv
 <2>7. CASE ~good
  <3>1. index' = index /\ status' = "failed" /\ how = "error" BY <2>1, <2>2, <2>7
  <3>2. StepTyped' BY <1>1, <2>2, <2>3, <2>4, <3>1 DEF StepTyped
  <3>3. SequenceInv'
   <4>1. /\ index \in DOMAIN log' /\ log'[index].item = index
         /\ \A n \in DOMAIN log' :
               /\ n < index => log'[n].did # "undo" /\ log'[n].how # "error"
               /\ n = index => log'[n].did # "undo" /\ log'[n].how = "error"
               /\ ~(n > index) BY <1>1, <2>3, <2>4, <2>5, <3>1
   <4>2. \A s \in (index' + 1)..index : FALSE BY <1>1, <3>1
   <4> QED BY <1>1, <2>2, <2>3, <3>1, <4>1, <4>2 DEF SequenceInv
  <3> QED BY <2>2, <3>2, <3>3
 <2> QED BY <2>6, <2>7
<1>6. CASE PR!rollback
 <2>1. /\ status = "failed" /\ index >= 1 /\ index' = index - 1
       /\ UNCHANGED <<way, status, result, handoffs, late, runs>> BY <1>6 DEF PR!rollback
 <2>2. PICK f \in 1..Length :
            /\ f \in DOMAIN log /\ index <= f /\ log[f].item = f
            /\ \A n \in DOMAIN log :
                  /\ n < f => log[n].did # "undo" /\ log[n].how # "error"
                  /\ n = f => log[n].did # "undo" /\ log[n].how = "error"
                  /\ n > f => log[n].did = "undo" /\ log[n].item \in Undoable
                              /\ log[n].item \in (index + 1)..f
            /\ \A s \in Undoable : s \in (index + 1)..f => \E n \in DOMAIN log : n > f /\ log[n].item = s
            /\ \A m, n \in DOMAIN log : f < m /\ m < n => log[m].item > log[n].item BY <1>1, <2>1 DEF SequenceInv
 <2>3. index \in 1..Length /\ index' \in 0..(Length + 1) BY <1>1, <2>1, <2>2
 <2>4. CASE index \notin Undoable
  <3>1. log' = log BY <1>6, <2>4 DEF PR!rollback
  <3>2. StepTyped' BY <1>1, <2>1, <2>3, <3>1 DEF StepTyped
  <3>3. \A s \in Undoable : s \in (index' + 1)..f => s \in (index + 1)..f BY <1>1, <2>1, <2>3, <2>4
  <3>4. \A s \in (index + 1)..f : s \in (index' + 1)..f BY <1>1, <2>1, <2>3
  <3>5. index' <= f BY <2>1, <2>2, <2>3
  <3> QED BY <1>1, <2>1, <2>2, <3>1, <3>2, <3>3, <3>4, <3>5 DEF SequenceInv
 <2>5. CASE index \in Undoable
  <3>1. PICK good \in BOOLEAN : PR!Did("undo", IF good THEN "ok" ELSE "error") BY <1>6, <2>5 DEF PR!rollback
  <3> DEFINE how == IF good THEN "ok" ELSE "error"
             x == [did |-> "undo", item |-> index, how |-> how]
  <3>2. /\ x.did = "undo" /\ x.item = index /\ log' \in Seq(Entry) /\ Len(log') = Len(log) + 1
        /\ DOMAIN log' = 1..(Len(log) + 1)
        /\ \A n \in DOMAIN log : log'[n] = log[n]
        /\ log'[Len(log) + 1] = x BY <1>1, <2>3, <3>1, DidTyped
  <3> HIDE DEF x
  <3>3. StepTyped' BY <1>1, <2>1, <2>3, <3>2 DEF StepTyped
  <3>4. f \in DOMAIN log' /\ index' <= f /\ log'[f].item = f /\ f < Len(log) + 1 BY <1>1, <2>1, <2>2, <2>3, <3>2
  <3>5. ASSUME NEW n \in DOMAIN log'
        PROVE  /\ n < f => log'[n].did # "undo" /\ log'[n].how # "error"
               /\ n = f => log'[n].did # "undo" /\ log'[n].how = "error"
               /\ n > f => log'[n].did = "undo" /\ log'[n].item \in Undoable
                           /\ log'[n].item \in (index' + 1)..f
   <4>1. CASE n \in DOMAIN log
    <5>1. \A s \in (index + 1)..f : s \in (index' + 1)..f BY <1>1, <2>1, <2>3
    <5> QED BY <2>2, <3>2, <4>1, <5>1
   <4>2. CASE n = Len(log) + 1
    <5>1. index \in (index' + 1)..f BY <2>1, <2>2, <2>3
    <5> QED BY <1>1, <2>5, <3>2, <3>4, <4>2, <5>1
   <4> QED BY <1>1, <3>2, <4>1, <4>2
  <3>6. ASSUME NEW s \in Undoable, s \in (index' + 1)..f PROVE  \E n \in DOMAIN log' : n > f /\ log'[n].item = s
   <4>1. CASE s = index BY <1>1, <3>2, <3>4, <4>1
   <4>2. CASE s # index
    <5>1. s \in (index + 1)..f BY <2>1, <2>3, <3>6, <4>2
    <5> QED BY <1>1, <2>2, <3>2, <5>1
   <4> QED BY <4>1, <4>2
  <3>7. ASSUME NEW m \in DOMAIN log', NEW n \in DOMAIN log', f < m, m < n PROVE  log'[m].item > log'[n].item
   <4>1. m \in DOMAIN log /\ log'[m] = log[m] BY <1>1, <3>2, <3>7
   <4>2. CASE n \in DOMAIN log BY <2>2, <3>2, <3>7, <4>1, <4>2
   <4>3. CASE n = Len(log) + 1
    <5>1. log[m].item \in (index + 1)..f BY <2>2, <3>7, <4>1
    <5> QED BY <2>3, <3>2, <4>1, <4>3, <5>1
   <4> QED BY <1>1, <3>2, <4>2, <4>3
  <3> QED BY <1>1, <2>1, <3>3, <3>4, <3>5, <3>6, <3>7 DEF SequenceInv
 <2> QED BY <2>4, <2>5
<1>7. CASE PR!RolledBack
 <2>1. /\ status = "failed" /\ index = 0 /\ status' = "rolled_back"
       /\ UNCHANGED <<way, index, log, result, handoffs, late, runs>>
  BY <1>7 DEF PR!RolledBack
 <2> QED BY ZenonT(90), <1>1, <2>1 DEF StepTyped, SequenceInv
<1>8. CASE PR!Ends
 <2>1. /\ status = "running" /\ status' = "completed" /\ UNCHANGED <<way, index, log, result, handoffs, late, runs>>
  BY <1>8 DEF PR!Ends
 <2> QED BY <1>1, <2>1 DEF StepTyped, SequenceInv
<1>9. ~PR!Cycle /\ ~PR!HarnessReturns /\ ~PR!Skip /\ ~PR!Succeeds /\ ~PR!Fails /\ ~PR!Scan
      /\ ~PR!ScanTimesOut BY DEF PR!Cycle, PR!HarnessReturns, PR!Skip, PR!Succeeds, PR!Fails, PR!Scan, PR!ScanTimesOut
<1> QED BY <1>3, <1>4, <1>5, <1>6, <1>7, <1>8, <1>9 DEF PR!Next, PR!Progress

\* In its run a harness is within the cycles of its runs.
LEMMA HarnessBound ==
  ASSUME Length \in Nat, runs \in Nat, index \in 0..(Length + 1), result.total \in Nat,
         result.total <= (runs - 1) * Length + (index - 1) \/ result.total <= runs * Length
  PROVE  result.total <= runs * Length
<1> SUFFICES ASSUME NEW r \in Nat, NEW c \in Nat, NEW t \in Nat, NEW j \in 0..(c + 1),
                    t <= (r - 1) * c + (j - 1) PROVE  t <= r * c OBVIOUS
<1>1. (r - 1) * c + c = r * c /\ (r - 1) * c \in Int OBVIOUS
<1>2. j - 1 <= c /\ j \in Int OBVIOUS
<1> QED BY <1>1, <1>2

\* Harness.Run.
LEMMA HarnessSteps == ASSUME StepInv, way = "endurance", PR!Next PROVE StepInv'
<1>1. /\ StepTyped /\ HarnessInv /\ log \in Seq(Entry) /\ index \in 0..(Length + 1)
      /\ Length \in Nat /\ MaxRuns \in Nat /\ runs \in 0..MaxRuns /\ result \in Tally /\ Len(log) \in Nat
 BY StepConstants DEF StepInv, StepTyped
<1>2. SUFFICES StepTyped' /\ HarnessInv' /\ way' = way BY DEF StepInv
<1> DEFINE errors == Kind("cycle", {"error"})
<1>3. Count(errors) \in Nat BY <1>1, CountIsNumber DEF Count
<1>4. /\ result.total \in Nat /\ result.passed \in Nat /\ result.failed \in Nat
      /\ result.violations = 0 /\ handoffs = <<>> /\ result.total = result.passed + result.failed
      /\ result.total = Len(log) /\ result.failed = Count(errors)
      /\ status = "running" => result.total <= (runs - 1) * Length + (index - 1)
      /\ status # "running" => result.total <= runs * Length BY <1>1 DEF HarnessInv, Tally
<1>5. CASE PR!Begin
 <2>1. /\ status = "pending" /\ index' = 1 /\ status' = "running" /\ runs' = runs + 1
       /\ UNCHANGED <<way, log, result, handoffs, late>> BY <1>5 DEF PR!Begin
 <2>2. runs' \in 0..MaxRuns /\ runs' >= 1 /\ index' \in 0..(Length + 1) BY <1>1, <2>1 DEF StepTyped
 <2>3. Count(errors)' = Count(errors) BY <2>1 DEF Count, Where
 <2>4. result.total <= (runs' - 1) * Length + (index' - 1)
  <3>1. runs' - 1 = runs /\ index' - 1 = 0 /\ result.total <= runs * Length BY <1>1, <1>4, <2>1
  <3>2. runs * Length \in Nat BY <1>1
  <3> QED BY <3>1, <3>2
 <2>5. StepTyped' BY <1>1, <2>1, <2>2 DEF StepTyped
 <2> HIDE DEF errors
 <2>6. HarnessInv' BY <1>4, <2>1, <2>3, <2>4 DEF HarnessInv, errors
 <2> QED BY <2>1, <2>5, <2>6
<1>6. CASE PR!Expires
 <2>1. /\ late' = TRUE /\ UNCHANGED <<way, index, status, log, result, handoffs, runs>> BY <1>6 DEF PR!Expires
 <2> QED BY <1>1, <2>1 DEF StepTyped, HarnessInv, Count, Where
<1>7. CASE PR!Cycle
 <2>1. PICK good \in BOOLEAN :
          /\ result' = [result EXCEPT !.total = @ + 1, !.passed = IF good THEN @ + 1 ELSE @,
                                      !.failed = IF good THEN @ ELSE @ + 1]
          /\ PR!Did("cycle", IF good THEN "ok" ELSE "error") BY Zenon, <1>7 DEF PR!Cycle
 <2>2. /\ status = "running" /\ index <= Length /\ index' = index + 1
       /\ UNCHANGED <<way, status, handoffs, late, runs>> BY <1>7 DEF PR!Cycle
 <2>3. index \in 1..Length BY <1>1, <2>2 DEF StepTyped
 <2> DEFINE how == IF good THEN "ok" ELSE "error"
            x == [did |-> "cycle", item |-> index, how |-> how]
 <2>4. x \in Entry /\ x.did = "cycle" /\ x.how = how /\ log' = Append(log, x)
       /\ log' \in Seq(Entry) /\ Len(log') = Len(log) + 1 BY <1>1, <2>1, <2>3, DidTyped
 <2> HIDE DEF x
 <2>5. x \in errors <=> ~good BY <2>4 DEF Kind
 <2> HIDE DEF errors
 <2>6. Cardinality(Where(log', errors)) = (IF good THEN Count(errors) ELSE Count(errors) + 1)
  BY <1>1, <2>4, <2>5, DidCounts
 <2>7. /\ result' \in Tally /\ result'.total = result.total + 1 /\ result'.violations = 0
       /\ result'.passed = (IF good THEN result.passed + 1 ELSE result.passed)
       /\ result'.failed = (IF good THEN result.failed ELSE result.failed + 1)
  <3>0. /\ result \in Tally /\ result.total \in Nat /\ result.passed \in Nat /\ result.failed \in Nat
        /\ result.violations = 0 BY <1>1, <1>4
  <3>1. CASE good
   <4>1. result' = [result EXCEPT !.total = @ + 1, !.passed = @ + 1] BY <1>1, <2>1, <3>1 DEF Tally
   <4>2. result' = [total |-> result.total + 1, passed |-> result.passed + 1,
                    failed |-> result.failed, violations |-> 0] BY <3>0, <4>1 DEF Tally
   <4> QED BY <3>0, <3>1, <4>2 DEF Tally
  <3>2. CASE ~good
   <4>1. result' = [result EXCEPT !.total = @ + 1, !.failed = @ + 1] BY <1>1, <2>1, <3>2 DEF Tally
   <4>2. result' = [total |-> result.total + 1, passed |-> result.passed,
                    failed |-> result.failed + 1, violations |-> 0] BY <3>0, <4>1 DEF Tally
   <4> QED BY <3>0, <3>2, <4>2 DEF Tally
  <3> QED BY <3>1, <3>2
 <2>8. StepTyped' BY <1>1, <2>2, <2>3, <2>4, <2>7 DEF StepTyped
 <2>9. result'.total <= (runs' - 1) * Length + (index' - 1)
  <3>1. (runs - 1) * Length \in Int BY <1>1
  <3>2. result'.total <= (runs - 1) * Length + (index' - 1) BY <1>1, <1>4, <2>2, <2>7, <3>1
  <3> QED BY <2>2, <3>2
 <2>10. HarnessInv'
  <3>1. result'.total = result'.passed + result'.failed /\ result'.total = Len(log') BY SMTT(60), <1>3, <1>4, <2>4, <2>7
  <3>2. result'.failed = Cardinality(Where(log', errors)) BY <1>4, <2>6, <2>7
  <3>3. status' = "running" BY <2>2
  <3> QED BY <1>4, <2>2, <2>7, <2>9, <3>1, <3>2, <3>3 DEF HarnessInv, Count, errors
 <2> QED BY <2>2, <2>8, <2>10
<1>8. CASE PR!HarnessReturns
 <2>1. /\ status = "running" /\ late' = FALSE /\ UNCHANGED <<way, index, log>>
       /\ status' = (IF runs < MaxRuns THEN "pending" ELSE "completed")
       /\ UNCHANGED <<result, handoffs, runs>> BY <1>8 DEF PR!HarnessReturns
 <2>2. StepTyped' BY <1>1, <2>1 DEF StepTyped
 <2>3. result.total <= runs * Length BY <1>1, <1>4, <2>1, HarnessBound
 <2>4. Count(errors)' = Count(errors) BY <2>1 DEF Count, Where
 <2>5. status' # "running" BY <2>1
 <2> HIDE DEF errors
 <2>6. HarnessInv' BY <1>4, <2>1, <2>3, <2>4, <2>5 DEF HarnessInv, errors
 <2> QED BY <2>1, <2>2, <2>6
<1>9. ~PR!RunStep /\ ~PR!rollback /\ ~PR!RolledBack /\ ~PR!Skip /\ ~PR!Succeeds /\ ~PR!Fails
      /\ ~PR!Scan /\ ~PR!ScanTimesOut /\ ~PR!Ends
 BY DEF PR!RunStep, PR!rollback, PR!RolledBack, PR!Skip, PR!Succeeds, PR!Fails, PR!Scan, PR!ScanTimesOut, PR!Ends
<1> QED BY <1>5, <1>6, <1>7, <1>8, <1>9 DEF PR!Next, PR!Progress

\* Does the try hand over?
HandedOn(how) == (how = "error" /\ index < Length) \/ (how = "ok" /\ index > 1)

\* A try of a tier that is written down, with its hand-over.
LEMMA TryKeeps ==
  ASSUME StepTyped, ChainInv, way = "chain", status = "running", index \in 1..Length,
         NEW how \in {"ok", "error"}, PR!Did("try", how), NEW slow \in BOOLEAN, PR!Record(slow),
         handoffs' \in Seq(Hand), \A n \in DOMAIN handoffs' : handoffs'[n].to = handoffs'[n].from + 1,
         Len(handoffs') = Len(handoffs) + (IF HandedOn(how) THEN 1 ELSE 0),
         how = "ok" => status' = "completed" /\ index' = index,
         how = "error" => status' = "running" /\ index' = index + 1, way' = way, late' = late, runs' = runs
  PROVE  StepTyped' /\ ChainInv'
<1>1. /\ log \in Seq(Entry) /\ Length \in Nat /\ MaxRuns \in Nat /\ runs \in 0..MaxRuns
      /\ result \in Tally /\ runs >= 1 BY StepConstants DEF StepTyped
<1> DEFINE x == [did |-> "try", item |-> index, how |-> how]
<1>2. /\ x \in Entry /\ x.item = index /\ x.how = how /\ log' = Append(log, x) /\ log' \in Seq(Entry)
      /\ Len(log) \in Nat /\ Len(log') = Len(log) + 1 /\ DOMAIN log = 1..Len(log) /\ DOMAIN log' = 1..(Len(log) + 1)
      /\ \A n \in DOMAIN log : log'[n] = log[n]
      /\ log'[Len(log) + 1] = x BY DidTyped
<1> HIDE DEF x
<1>3. /\ Len(log) <= index - 1 /\ Len(handoffs) = Count(HandsOver)
      /\ \A n \in DOMAIN log : log[n].how = "error"
      /\ result.total = 0 /\ result.passed = 0 /\ result.failed = 0 /\ result.violations <= Len(log) BY DEF ChainInv
<1>4. /\ result' \in Tally /\ result'.total = 0 /\ result'.passed = 0 /\ result'.failed = 0
      /\ result'.violations <= Len(log')
 <2>1. result' = [result EXCEPT !.violations = IF slow THEN @ + 1 ELSE @] BY DEF PR!Record
 <2>2. /\ result' \in Tally /\ result'.violations <= result.violations + 1
       /\ result'.total = result.total /\ result'.passed = result.passed /\ result'.failed = result.failed
  BY SMTT(60), <1>1, <2>1 DEF Tally
 <2>3. result.violations \in Nat /\ result'.violations \in Nat BY <1>1, <2>2 DEF Tally
 <2> QED BY <1>2, <1>3, <2>2, <2>3
<1>5. StepTyped'
 <2>1. index' \in 0..(Length + 1) /\ index' >= 1 BY <1>1
 <2> QED BY <1>1, <1>2, <1>4, <2>1 DEF StepTyped
<1>6. Len(handoffs') = Cardinality(Where(log', HandsOver))
 <2>1. Count(HandsOver) \in Nat
       /\ Cardinality(Where(log', HandsOver))
             = (IF x \in HandsOver THEN Count(HandsOver) + 1 ELSE Count(HandsOver)) BY <1>2, DidCounts
 <2>2. x \in HandsOver <=> HandedOn(how) BY <1>2 DEF HandsOver, HandedOn
 <2> QED BY <1>3, <2>1, <2>2
<1>7. ASSUME NEW n \in DOMAIN log'
      PROVE  /\ log'[n].how \in {"ok", "error"}
             /\ log'[n].how = "ok" <=> status' = "completed" /\ n = Len(log')
 <2>1. CASE n \in DOMAIN log BY <1>2, <1>3, <2>1
 <2>2. CASE n = Len(log) + 1 BY <1>2, <2>2
 <2> QED BY <1>2, <2>1, <2>2
<1>8. Len(log') <= Length /\ (status' = "running" => Len(log') <= index' - 1) /\ status' # "pending"
 BY <1>1, <1>2, <1>3
<1> QED BY <1>4, <1>5, <1>6, <1>7, <1>8 DEF ChainInv, Count

\* FallbackChain.Execute.
LEMMA ChainSteps == ASSUME StepInv, way = "chain", PR!Next PROVE StepInv'
<1>1. /\ StepTyped /\ ChainInv /\ log \in Seq(Entry) /\ index \in 0..(Length + 1)
      /\ Length \in Nat /\ MaxRuns \in Nat /\ runs \in 0..MaxRuns /\ handoffs \in Seq(Hand)
      /\ DOMAIN log = 1..Len(log) /\ Len(log) \in Nat BY StepConstants DEF StepInv, StepTyped
<1>2. SUFFICES StepTyped' /\ ChainInv' /\ way' = way BY DEF StepInv
<1>3. CASE PR!Begin
 <2>1. /\ status = "pending" /\ index' = 1 /\ status' = "running" /\ runs' = runs + 1
       /\ UNCHANGED <<way, log, result, handoffs, late>> BY <1>3 DEF PR!Begin
 <2>2. runs' \in 0..MaxRuns /\ runs' >= 1 /\ index' \in 0..(Length + 1) BY <1>1, <2>1 DEF StepTyped
 <2>3. log = <<>> /\ Len(log) = 0 /\ DOMAIN log = {} BY <1>1, <2>1 DEF ChainInv
 <2>4. StepTyped' BY <1>1, <2>1, <2>2 DEF StepTyped
 <2>5. ChainInv' BY <1>1, <2>1, <2>3 DEF ChainInv, Count, Where
 <2> QED BY <2>1, <2>4, <2>5
<1>4. CASE PR!Expires
 <2>1. /\ late' = TRUE /\ UNCHANGED <<way, index, status, log, result, handoffs, runs>> BY <1>4 DEF PR!Expires
 <2> QED BY <1>1, <2>1 DEF StepTyped, ChainInv, Count, Where
<1>5. CASE PR!Skip
 <2>1. /\ status = "running" /\ index <= Length /\ index' = index + 1
       /\ UNCHANGED <<way, log, result, handoffs, late, status, runs>> BY <1>5 DEF PR!Skip
 <2>2. index' \in 0..(Length + 1) /\ index' >= 1 /\ index \in Nat BY <1>1, <2>1 DEF StepTyped
 <2>3. StepTyped' BY <1>1, <2>1, <2>2 DEF StepTyped
 <2>4. Len(log) <= index' - 1 BY <1>1, <2>1, <2>2 DEF ChainInv
 <2>5. ChainInv' BY <1>1, <2>1, <2>4 DEF ChainInv, Count, Where
 <2> QED BY <2>1, <2>3, <2>5
<1>6. CASE PR!Succeeds \/ PR!Fails
 <2>1. PICK slow \in BOOLEAN : PR!Record(slow) BY <1>6 DEF PR!Succeeds, PR!Fails
 <2>2. status = "running" /\ index \in 1..Length /\ UNCHANGED <<way, late, runs>>
  <3>1. status = "running" /\ index <= Length /\ UNCHANGED <<way, late, runs>> BY <1>6 DEF PR!Succeeds, PR!Fails
  <3> QED BY <1>1, <3>1 DEF StepTyped
 <2>3. \A n \in DOMAIN handoffs : handoffs[n].to = handoffs[n].from + 1 BY <1>1 DEF ChainInv
 <2>4. ASSUME NEW h \in Hand, h.to = h.from + 1
       PROVE  /\ Append(handoffs, h) \in Seq(Hand) /\ Len(Append(handoffs, h)) = Len(handoffs) + 1
              /\ \A n \in DOMAIN Append(handoffs, h) :
                    Append(handoffs, h)[n].to = Append(handoffs, h)[n].from + 1 BY <1>1, <2>3, <2>4, Appends
 <2>5. Len(handoffs) \in Nat BY <1>1
 <2>6. CASE PR!Succeeds
  <3> DEFINE h == [from |-> index - 1, to |-> index, success |-> TRUE]
  <3>1. /\ PR!Did("try", "ok") /\ status' = "completed" /\ index' = index
        /\ handoffs' = (IF index > 1 THEN Append(handoffs, h) ELSE handoffs) BY <2>6 DEF PR!Succeeds
  <3>2. index > 1 => h \in Hand /\ h.to = h.from + 1 BY <1>1, <2>2 DEF Hand
  <3> HIDE DEF h
  <3>3. /\ handoffs' \in Seq(Hand) /\ \A n \in DOMAIN handoffs' : handoffs'[n].to = handoffs'[n].from + 1
        /\ Len(handoffs') = Len(handoffs) + (IF index > 1 THEN 1 ELSE 0) BY <1>1, <2>3, <2>4, <2>5, <3>1, <3>2
  <3>4. HandedOn("ok") <=> index > 1 BY DEF HandedOn
  <3> QED BY <1>1, <2>1, <2>2, <3>1, <3>3, <3>4, TryKeeps
 <2>7. CASE PR!Fails
  <3> DEFINE h == [from |-> index, to |-> index + 1, success |-> FALSE]
  <3>1. /\ PR!Did("try", "error") /\ status' = "running" /\ index' = index + 1
        /\ handoffs' = (IF index < Length THEN Append(handoffs, h) ELSE handoffs) BY <2>2, <2>7 DEF PR!Fails
  <3>2. index < Length => h \in Hand /\ h.to = h.from + 1 BY <1>1, <2>2 DEF Hand
  <3> HIDE DEF h
  <3>3. /\ handoffs' \in Seq(Hand) /\ \A n \in DOMAIN handoffs' : handoffs'[n].to = handoffs'[n].from + 1
        /\ Len(handoffs') = Len(handoffs) + (IF index < Length THEN 1 ELSE 0) BY <1>1, <2>3, <2>4, <2>5, <3>1, <3>2
  <3>4. HandedOn("error") <=> index < Length BY DEF HandedOn
  <3> QED BY <1>1, <2>1, <2>2, <3>1, <3>3, <3>4, TryKeeps
 <2> QED BY <1>6, <2>6, <2>7
<1>7. CASE PR!Ends
 <2>1. /\ status = "running" /\ status' = "failed" /\ UNCHANGED <<way, index, log, result, handoffs, late, runs>>
  BY <1>7 DEF PR!Ends
 <2> QED BY <1>1, <2>1 DEF StepTyped, ChainInv, Count, Where
<1>8. ~PR!RunStep /\ ~PR!rollback /\ ~PR!RolledBack /\ ~PR!Cycle /\ ~PR!HarnessReturns
      /\ ~PR!Scan /\ ~PR!ScanTimesOut
 BY DEF PR!RunStep, PR!rollback, PR!RolledBack, PR!Cycle, PR!HarnessReturns, PR!Scan, PR!ScanTimesOut
<1> QED BY <1>3, <1>4, <1>5, <1>6, <1>7, <1>8 DEF PR!Next, PR!Progress

\* DiscoveryMode.Scan.
LEMMA ScanSteps == ASSUME StepInv, way = "scan", PR!Next PROVE StepInv'
<1>1. /\ StepTyped /\ ScanInv /\ log \in Seq(Entry) /\ index \in 0..(Length + 1)
      /\ Length \in Nat /\ MaxRuns \in Nat /\ runs \in 0..MaxRuns /\ result \in Tally /\ Len(log) \in Nat
 BY StepConstants DEF StepInv, StepTyped
<1>2. SUFFICES StepTyped' /\ ScanInv' /\ way' = way BY DEF StepInv
<1>3. MaxScanned \in Nat BY ToolkitAssumption DEF PR!ProceduresAssumption
<1> DEFINE found  == Kind("type", {"candidate", "unregistered", "registered"})
           taken  == Kind("type", {"registered"})
           errors == Kind("type", {"error", "unregistered"})
<1>4. Count(found) \in Nat /\ Count(taken) \in Nat /\ Count(errors) \in Nat BY <1>1, CountIsNumber DEF Count
<1>5. /\ result.total \in Nat /\ result.passed \in Nat /\ result.failed \in Nat
      /\ result.violations = 0 /\ handoffs = <<>>
      /\ result.passed <= MaxScanned /\ result.passed = Count(taken) /\ result.total = Count(found)
 BY <1>1 DEF ScanInv, Tally
<1>6. CASE PR!Begin
 <2>1. /\ status = "pending" /\ runs' = runs + 1 /\ UNCHANGED <<way, log, result, handoffs, late>>
       /\ \/ index' = 1 /\ status' = "running"
          \/ index' = index /\ status' = "failed" BY <1>6 DEF PR!Begin
 <2>2. runs' \in 0..MaxRuns /\ runs' >= 1 /\ index' \in 0..(Length + 1)
       /\ (status' = "running" => index' >= 1) /\ status' \in {"running", "failed"} BY <1>1, <2>1 DEF StepTyped
 <2>3. log = <<>> /\ Len(log) = 0 /\ result.total = 0 /\ result.passed = 0 /\ result.failed = 0
  BY <1>1, <2>1 DEF ScanInv
 <2>4. \A S : Count(S)' = Count(S) /\ Count(S) = 0 BY <2>1, <2>3, CountNone DEF Count, Where
 <2>5. StepTyped' BY <1>1, <2>1, <2>2 DEF StepTyped
 <2>6. Count(found)' = 0 /\ Count(taken)' = 0 /\ Count(errors)' = 0 BY <2>4
 <2> HIDE DEF found, taken, errors
 <2>7. ScanInv'
  <3>1. /\ result'.total = 0 /\ result'.passed = 0 /\ result'.failed = 0 /\ Len(log') = 0
        /\ 0 <= MaxScanned /\ result'.violations = 0 /\ handoffs' = <<>> BY <1>3, <1>5, <2>1, <2>3
  <3>2. status' = "running" => index' = 1 /\ 0 <= index' - 1 /\ 0 = index' - 1 BY <2>1
  <3>3. status' \notin {"pending", "completed", "rolled_back"} BY <2>2
  <3> QED BY <2>6, <3>1, <3>2, <3>3 DEF ScanInv, found, taken, errors
 <2> QED BY <2>1, <2>5, <2>7
<1>7. CASE PR!Expires
 <2>1. /\ late = FALSE /\ late' = TRUE /\ UNCHANGED <<way, index, status, log, result, handoffs, runs>>
  BY <1>1, <1>7 DEF PR!Expires, StepTyped
 <2>2. Count(found)' = Count(found) /\ Count(taken)' = Count(taken) /\ Count(errors)' = Count(errors)
  BY <2>1 DEF Count, Where
 <2>3. StepTyped' BY <1>1, <2>1 DEF StepTyped
 <2> HIDE DEF found, taken, errors
 <2>4. ScanInv' BY <1>1, <2>1, <2>2 DEF ScanInv, found, taken, errors
 <2> QED BY <2>1, <2>3, <2>4
<1>8. CASE PR!Scan
 <2>1. /\ status = "running" /\ index <= Length /\ late = FALSE /\ index' = index + 1
       /\ UNCHANGED <<way, status, handoffs, late, runs>>
  BY <1>1, <1>8 DEF PR!Scan, StepTyped
 <2>2. PICK how \in {"error", "candidate", "unregistered", "registered"} :
          /\ PR!Did("type", how)
          /\ how = "error" => result' = [result EXCEPT !.failed = @ + 1]
          /\ how = "candidate" => result' = [result EXCEPT !.total = @ + 1]
          /\ how = "unregistered" => result' = [result EXCEPT !.total = @ + 1, !.failed = @ + 1]
          /\ how = "registered" => /\ result.passed < MaxScanned
                                   /\ result' = [result EXCEPT !.total = @ + 1, !.passed = @ + 1]
  BY <1>8 DEF PR!Scan, PR!Registers
 <2>3. index \in 1..Length BY <1>1, <2>1 DEF StepTyped
 <2> DEFINE x == [did |-> "type", item |-> index, how |-> how]
 <2>4. x \in Entry /\ x.did = "type" /\ x.how = how /\ log' = Append(log, x)
       /\ log' \in Seq(Entry) /\ Len(log') = Len(log) + 1 BY <1>1, <2>2, <2>3, DidTyped
 <2> HIDE DEF x
 <2>5. /\ x \in found <=> how # "error"
       /\ x \in taken <=> how = "registered"
       /\ x \in errors <=> how \in {"error", "unregistered"} BY <2>4 DEF Kind
 <2> HIDE DEF found, taken, errors
 <2>6. /\ Cardinality(Where(log', found)) = (IF how # "error" THEN Count(found) + 1 ELSE Count(found))
       /\ Cardinality(Where(log', taken)) = (IF how = "registered" THEN Count(taken) + 1 ELSE Count(taken))
       /\ Cardinality(Where(log', errors))
             = (IF how \in {"error", "unregistered"} THEN Count(errors) + 1 ELSE Count(errors))
  BY <1>1, <2>4, <2>5, DidCounts
 <2>7. /\ result' \in Tally /\ result'.violations = 0
       /\ result'.total = (IF how # "error" THEN result.total + 1 ELSE result.total)
       /\ result'.passed = (IF how = "registered" THEN result.passed + 1 ELSE result.passed)
       /\ result'.failed = (IF how \in {"error", "unregistered"} THEN result.failed + 1 ELSE result.failed)
  <3>1. /\ result \in Tally /\ result.total \in Nat /\ result.passed \in Nat /\ result.failed \in Nat
        /\ result.violations = 0 BY <1>1, <1>5
  <3>2. result' = [total  |-> IF how # "error" THEN result.total + 1 ELSE result.total,
                   passed |-> IF how = "registered" THEN result.passed + 1 ELSE result.passed,
                   failed |-> IF how \in {"error", "unregistered"} THEN result.failed + 1 ELSE result.failed,
                   violations |-> 0]
   <4>1. CASE how = "error" BY <2>2, <3>1, <4>1 DEF Tally
   <4>2. CASE how = "candidate" BY <2>2, <3>1, <4>2 DEF Tally
   <4>3. CASE how = "unregistered" BY <2>2, <3>1, <4>3 DEF Tally
   <4>4. CASE how = "registered" BY <2>2, <3>1, <4>4 DEF Tally
   <4> QED BY <4>1, <4>2, <4>3, <4>4
  <3> QED BY <3>1, <3>2 DEF Tally
 <2>8. StepTyped'
  <3>1. index' \in 0..(Length + 1) /\ index' >= 1 BY <1>1, <2>1, <2>3
  <3> QED BY <1>1, <2>1, <2>4, <2>7, <3>1 DEF StepTyped
 <2>9. /\ result.total <= index - 1 /\ result.passed <= index - 1 /\ result.failed <= index - 1
       /\ Len(log) = index - 1 /\ result.failed = Count(errors) BY <1>1, <2>1 DEF ScanInv, errors
 <2>10. /\ result'.total <= index' - 1 /\ result'.passed <= index' - 1 /\ result'.failed <= index' - 1
        /\ Len(log') = index' - 1 /\ result'.passed <= MaxScanned BY <1>3, <1>5, <2>1, <2>2, <2>3, <2>4, <2>7, <2>9
 <2>11. /\ result'.failed = Cardinality(Where(log', errors)) /\ result'.total = Cardinality(Where(log', found))
        /\ result'.passed = Cardinality(Where(log', taken)) BY <1>5, <2>6, <2>7, <2>9
 <2>12. ScanInv' BY <1>5, <2>1, <2>7, <2>10, <2>11 DEF ScanInv, Count, found, taken, errors
 <2> QED BY <2>1, <2>8, <2>12
<1>9. CASE PR!ScanTimesOut
 <2>1. /\ status = "running" /\ index <= Length /\ late = TRUE /\ index' = Length + 1
       /\ UNCHANGED <<way, status, log, handoffs, late, runs>>
       /\ result' = [result EXCEPT !.failed = @ + 1] BY <1>1, <1>9 DEF PR!ScanTimesOut, StepTyped
 <2>2. Count(found)' = Count(found) /\ Count(taken)' = Count(taken) /\ Count(errors)' = Count(errors)
  BY <2>1 DEF Count, Where
 <2>3. /\ result' \in Tally /\ result'.total = result.total /\ result'.passed = result.passed
       /\ result'.failed = result.failed + 1 /\ result'.violations = 0 BY <1>1, <1>5, <2>1 DEF Tally
 <2>4. index' \in 0..(Length + 1) /\ index' >= 1 /\ index \in 1..Length BY <1>1, <2>1 DEF StepTyped
 <2>5. StepTyped' BY <1>1, <2>1, <2>3, <2>4 DEF StepTyped
 <2> HIDE DEF found, taken, errors
 <2>6. /\ result.total <= index - 1 /\ result.passed <= index - 1 /\ result.failed <= index - 1
       /\ result.failed = Count(errors) BY <1>1, <2>1, <2>4 DEF ScanInv, errors
 <2>7. /\ result'.total <= index' - 1 /\ result'.passed <= index' - 1 /\ result'.failed <= index' - 1
       /\ result'.failed > Count(errors) BY <1>1, <1>5, <2>1, <2>3, <2>4, <2>6
 <2>8. ScanInv' BY <1>5, <2>1, <2>2, <2>3, <2>7 DEF ScanInv, found, taken, errors
 <2> QED BY <2>1, <2>5, <2>8
<1>10. CASE PR!Ends
 <2>1. /\ status = "running" /\ status' = "completed" /\ index = Length + 1
       /\ UNCHANGED <<way, index, log, result, handoffs, late, runs>> BY <1>10 DEF PR!Ends
 <2>2. Count(found)' = Count(found) /\ Count(taken)' = Count(taken) /\ Count(errors)' = Count(errors)
  BY <2>1 DEF Count, Where
 <2>3. StepTyped' BY <1>1, <2>1 DEF StepTyped
 <2> HIDE DEF found, taken, errors
 <2>4. ScanInv' BY <1>1, <2>1, <2>2 DEF ScanInv, found, taken, errors
 <2> QED BY <2>1, <2>3, <2>4
<1>11. ~PR!RunStep /\ ~PR!rollback /\ ~PR!RolledBack /\ ~PR!Cycle /\ ~PR!HarnessReturns
       /\ ~PR!Skip /\ ~PR!Succeeds /\ ~PR!Fails
 BY DEF PR!RunStep, PR!rollback, PR!RolledBack, PR!Cycle, PR!HarnessReturns, PR!Skip, PR!Succeeds, PR!Fails
<1> QED BY <1>6, <1>7, <1>8, <1>9, <1>10, <1>11 DEF PR!Next, PR!Progress

LEMMA StepNext == StepInv /\ PR!Next => StepInv'
<1>1. StepInv => way \in {"sequence", "endurance", "chain", "scan"} BY DEF StepInv, StepTyped, PR!Ways
<1> QED BY <1>1, SequenceSteps, HarnessSteps, ChainSteps, ScanSteps

\* What is written down was done to an item of the list, and nothing is counted
\* more often than every run allows.
LEMMA StepIsTyped == ASSUME StepInv PROVE PR!TypeOK
<1>1. /\ StepTyped /\ log \in Seq(Entry) /\ handoffs \in Seq(Hand) /\ result \in Tally
      /\ Length \in Nat /\ MaxRuns \in Nat /\ runs \in 0..MaxRuns /\ MaxRuns >= 1
 BY StepConstants DEF StepInv, StepTyped
<1>2. \A n \in DOMAIN log : log[n] \in Entry BY <1>1, Elements
<1>3. \A n \in DOMAIN handoffs : handoffs[n] \in Hand BY <1>1, Elements
<1>4. /\ 1 * Length \in Nat /\ MaxRuns * Length \in Nat /\ Length <= MaxRuns * Length
      /\ runs * Length <= MaxRuns * Length /\ runs * Length \in Nat
 <2>1. 1 * Length = Length /\ 1 \in Nat /\ runs \in Nat BY <1>1
 <2> QED BY <1>1, <2>1, Product
<1>5. /\ result.total \in 0..(MaxRuns * Length) /\ result.passed \in 0..(MaxRuns * Length)
      /\ result.failed \in 0..(MaxRuns * Length) /\ result.violations \in 0..(MaxRuns * Length)
 <2>1. /\ result.total \in Nat /\ result.passed \in Nat /\ result.failed \in Nat
       /\ result.violations \in Nat /\ Len(log) \in Nat BY <1>1 DEF Tally
 <2>2. CASE way = "sequence"
  <3>1. result.total = 0 /\ result.passed = 0 /\ result.failed = 0 /\ result.violations = 0
   BY <2>2 DEF StepInv, SequenceInv, PR!Nothing
  <3> QED BY <1>4, <3>1
 <2>3. CASE way = "endurance"
  <3>1. /\ result.violations = 0 /\ result.total = result.passed + result.failed
        /\ status = "running" => result.total <= (runs - 1) * Length + (index - 1)
        /\ status # "running" => result.total <= runs * Length BY <2>3 DEF StepInv, HarnessInv
  <3>2. result.total <= runs * Length BY <1>1, <2>1, <3>1, HarnessBound DEF StepTyped
  <3> QED BY <1>4, <2>1, <3>1, <3>2
 <2>4. CASE way = "chain"
  <3>1. /\ result.total = 0 /\ result.passed = 0 /\ result.failed = 0
        /\ result.violations <= Len(log) /\ Len(log) <= Length BY <2>4 DEF StepInv, ChainInv
  <3> QED BY <1>1, <1>4, <2>1, <3>1
 <2>5. CASE way = "scan"
  <3>1. /\ result.violations = 0 /\ result.total <= Length /\ result.passed <= Length /\ result.failed <= Length
   <4>1. /\ status \in {"pending", "failed", "running", "completed"} /\ result.violations = 0
         /\ status \in {"pending", "failed"} => result.total = 0 /\ result.passed = 0 /\ result.failed = 0
         /\ status \in {"running", "completed"} =>
               /\ result.total <= index - 1 /\ result.passed <= index - 1 /\ result.failed <= index - 1
    <5>1. ScanInv BY <2>5 DEF StepInv
    <5>2. status \in {"pending", "running", "failed", "completed"} BY <1>1, <5>1, <2>5 DEF StepInv, ScanInv, StepTyped
    <5> QED BY <5>1, <5>2 DEF ScanInv
   <4>2. index - 1 <= Length /\ index \in Int BY <1>1 DEF StepTyped
   <4> QED BY <1>1, <2>1, <4>1, <4>2
  <3> QED BY <1>1, <1>4, <2>1, <3>1
 <2> QED BY <1>1, <2>2, <2>3, <2>4, <2>5 DEF StepTyped, PR!Ways
<1>6. \A f \in DOMAIN result : result[f] \in 0..(MaxRuns * Length) BY <1>1, <1>5 DEF Tally
<1> QED BY <1>1, <1>2, <1>3, <1>6 DEF PR!TypeOK, StepTyped, Entry, Hand

\* What the properties count is what the invariants count.
LEMMA EntriesAre == ASSUME log \in Seq(Entry), NEW did, NEW how PROVE PR!Entries(did, how) = Count(Kind(did, how))
<1>1. \A n \in DOMAIN log : log[n] \in Entry BY Elements
<1>2. {n \in DOMAIN log : log[n].did = did /\ log[n].how \in how} = Where(log, Kind(did, how)) BY <1>1 DEF Where, Kind
<1> QED BY <1>2 DEF PR!Entries, Count, PR!Cardinality, Cardinality

LEMMA StepHolds ==
  StepInv => /\ PR!TypeOK /\ PR!RollbackIsComplete /\ PR!HarnessCounts /\ PR!ChainIsOrdered /\ PR!ScanAccounts
<1> SUFFICES ASSUME StepInv PROVE  PR!RollbackIsComplete /\ PR!HarnessCounts /\ PR!ChainIsOrdered /\ PR!ScanAccounts
 BY StepIsTyped
<1>1. /\ StepTyped /\ log \in Seq(Entry) /\ Length \in Nat /\ MaxRuns \in Nat /\ runs \in 0..MaxRuns
      /\ DOMAIN log = 1..Len(log) /\ Len(log) \in Nat /\ index \in 0..(Length + 1)
 BY StepConstants DEF StepInv, StepTyped
<1>2. \A n \in DOMAIN log : log[n] \in Entry BY <1>1, Elements
<1>3. ASSUME way = "sequence" PROVE PR!RollbackIsComplete
 <2>1. SequenceInv BY <1>3 DEF StepInv
 <2>2. status = "completed" => PR!Undos = {} /\ PR!Failures = {} BY <2>1 DEF SequenceInv, PR!Undos, PR!Failures
 <2>3. ASSUME status = "rolled_back"
       PROVE  \E f \in PR!Failures :
                 /\ PR!Failures = {f} /\ {log[n].item : n \in PR!Undos} = {s \in Undoable : s \in 1..log[f].item}
                 /\ \A m, n \in PR!Undos : m < n => log[m].item > log[n].item
  <3>1. index = 0 BY <2>1, <2>3 DEF SequenceInv
  <3>2. PICK f \in 1..Length :
           /\ f \in DOMAIN log /\ index <= f /\ log[f].item = f
           /\ \A n \in DOMAIN log :
                 /\ n < f => log[n].did # "undo" /\ log[n].how # "error"
                 /\ n = f => log[n].did # "undo" /\ log[n].how = "error"
                 /\ n > f => log[n].did = "undo" /\ log[n].item \in Undoable
                             /\ log[n].item \in (index + 1)..f
           /\ \A s \in Undoable : s \in (index + 1)..f => \E n \in DOMAIN log : n > f /\ log[n].item = s
           /\ \A m, n \in DOMAIN log : f < m /\ m < n => log[m].item > log[n].item BY <2>1, <2>3 DEF SequenceInv
  <3>3. \A n \in DOMAIN log : n < f \/ n = f \/ n > f BY <1>1, <3>2
  <3>4. PR!Failures = {f} BY <1>1, <3>2, <3>3 DEF PR!Failures
  <3>5. PR!Undos = {n \in DOMAIN log : n > f} BY <1>1, <3>2, <3>3 DEF PR!Undos
  <3>6. index + 1 = 1 /\ log[f].item = f BY <3>1, <3>2
  <3>7. {log[n].item : n \in PR!Undos} = {s \in Undoable : s \in 1..log[f].item} BY <3>2, <3>5, <3>6
  <3>8. \A m, n \in PR!Undos : m < n => log[m].item > log[n].item BY <3>2, <3>5
  <3> QED BY <3>4, <3>7, <3>8
 <2> QED BY <2>2, <2>3 DEF PR!RollbackIsComplete
<1>4. ASSUME way = "endurance" PROVE PR!HarnessCounts
 <2>1. HarnessInv BY <1>4 DEF StepInv
 <2>2. result.total <= runs * Length BY <1>1, <2>1, HarnessBound DEF HarnessInv, StepTyped, Tally
 <2>3. PR!Entries("cycle", {"error"}) = Count(Kind("cycle", {"error"})) BY <1>1, EntriesAre
 <2> QED BY <2>1, <2>2, <2>3 DEF PR!HarnessCounts, HarnessInv
<1>5. ASSUME way = "chain" PROVE PR!ChainIsOrdered
 <2>1. ChainInv BY <1>5 DEF StepInv
 <2>2. {n \in DOMAIN log : \/ log[n].how = "error" /\ log[n].item < Length
                           \/ log[n].how = "ok" /\ log[n].item > 1} = Where(log, HandsOver)
  BY <1>2 DEF Where, HandsOver
 <2>3. PR!Cardinality(Where(log, HandsOver)) = Count(HandsOver) BY DEF PR!Cardinality, Cardinality, Count
 <2> QED BY <2>1, <2>2, <2>3 DEF PR!ChainIsOrdered, ChainInv
<1>6. ASSUME way = "scan" PROVE PR!ScanAccounts
 <2>1. ScanInv BY <1>6 DEF StepInv
 <2>2. /\ PR!Entries("type", {"registered"}) = Count(Kind("type", {"registered"}))
       /\ PR!Entries("type", {"candidate", "unregistered", "registered"})
             = Count(Kind("type", {"candidate", "unregistered", "registered"}))
       /\ PR!Entries("type", {"error", "unregistered"}) = Count(Kind("type", {"error", "unregistered"}))
  BY <1>1, EntriesAre
 <2>3. status = "completed" =>
             \/ Len(log) = Length
             \/ late /\ result.failed > Count(Kind("type", {"error", "unregistered"}))
  <3>1. (Length + 1) - 1 = Length BY <1>1
  <3> QED BY <2>1, <3>1 DEF ScanInv
 <2> QED BY <2>1, <2>2, <2>3 DEF PR!ScanAccounts, ScanInv
<1> QED BY <1>3, <1>4, <1>5, <1>6 DEF PR!RollbackIsComplete, PR!HarnessCounts, PR!ChainIsOrdered, PR!ScanAccounts

(* The frames: the tree, and where the browser is. *)

LEMMA FrameConstants ==
  /\ IsFiniteSet(Frames) /\ Top \notin Frames /\ MaxHeals \in Nat /\ Scores \subseteq Nat /\ Height \in Nat
<1>1. IsFiniteSet(Frames) BY ToolkitAssumption DEF FH!FrameAssumption, FH!IsFiniteSet, IsFiniteSet
<1> QED BY <1>1, ToolkitAssumption, FS_CardinalityType DEF FH!FrameAssumption, Height

\* The tree is finite, and its frames beside the top are at most Height.
LEMMA TreeIsFinite == ASSUME NEW t, t \subseteq Frames \cup {Top}
  PROVE  IsFiniteSet(t) /\ Cardinality(t) \in Nat /\ Cardinality(t) <= Height + 1
<1>1. /\ IsFiniteSet(Frames \cup {Top}) /\ Cardinality(Frames \cup {Top}) = Height + 1
 BY FrameConstants, FS_AddElement DEF Height
<1>2. IsFiniteSet(t) /\ Cardinality(t) <= Cardinality(Frames \cup {Top}) BY <1>1, FS_Subset
<1> QED BY <1>1, <1>2, FS_CardinalityType

\* The paths of length n at most, going up from every frame.
Ups(U) ==
  U = [n \in 0..Height |-> [g \in FH!Tree |-> IF g = Top \/ n = 0 THEN <<>> ELSE Append(U[n - 1][parent[g]], g)]]

LEMMA UpsExist == ASSUME FrameTyped PROVE \E U : Ups(U)
<1> DEFINE body(V, n) == [g \in FH!Tree |-> IF g = Top \/ n = 0 THEN <<>> ELSE Append(V[n - 1][parent[g]], g)]
           upTo(V, m) == \A n \in 0..m : V[n] = body(V, n)
           P == {m \in Nat : \E V : upTo(V, m)}
<1>1. 0 \in P
 <2> DEFINE V == [n \in {0} |-> [g \in FH!Tree |-> <<>>]]
 <2>1. upTo(V, 0) OBVIOUS
 <2> QED BY <2>1
<1>2. ASSUME NEW m \in P PROVE m + 1 \in P
 <2>1. m \in Nat OBVIOUS
 <2>2. PICK V : upTo(V, m) OBVIOUS
 <2> DEFINE W == [n \in 0..(m + 1) |-> IF n = m + 1 THEN body(V, m + 1) ELSE V[n]]
 <2>3. \A n \in 0..m : W[n] = V[n] BY <2>1
 <2>4. ASSUME NEW n \in 0..(m + 1) PROVE W[n] = body(W, n)
  <3>1. CASE n = 0
   <4>1. W[n] = V[n] /\ V[n] = body(V, n) BY <2>1, <2>2, <3>1
   <4> QED BY <3>1, <4>1
  <3>2. CASE n # 0
   <4>1. n - 1 \in 0..m /\ W[n - 1] = V[n - 1] BY <2>1, <2>3, <3>2
   <4>2. W[n] = body(V, n)
    <5>1. CASE n = m + 1 BY <5>1
    <5>2. CASE n # m + 1
     <6>1. n \in 0..m BY <2>1, <5>2
     <6> QED BY <2>2, <2>3, <6>1
    <5> QED BY <5>1, <5>2
   <4> HIDE DEF W
   <4>3. body(W, n) = body(V, n) BY <4>1
   <4> QED BY <4>2, <4>3
  <3> QED BY <3>1, <3>2
 <2> HIDE DEF W
 <2>5. upTo(W, m + 1) BY <2>4
 <2> HIDE DEF upTo
 <2> QED BY <2>1, <2>5
<1> HIDE DEF P
<1>3. P = Nat
 <2>1. P \subseteq Nat BY DEF P
 <2> QED BY <1>1, <1>2, <2>1, Induction
<1>4. PICK V : upTo(V, Height) BY <1>3, FrameConstants DEF P
<1> DEFINE U == [n \in 0..Height |-> V[n]]
<1>5. ASSUME NEW n \in 0..Height PROVE U[n] = body(U, n)
 <2>1. U[n] = body(V, n) BY <1>4
 <2>2. CASE n = 0 BY <2>1, <2>2
 <2>3. CASE n # 0
  <3>1. n - 1 \in 0..Height BY <2>3, FrameConstants
  <3>2. U[n - 1] = V[n - 1] BY <3>1
  <3> HIDE DEF U
  <3> QED BY <2>1, <3>2
 <2> QED BY <2>2, <2>3
<1>6. U = [n \in 0..Height |-> body(U, n)]
 <2>1. U = [n \in 0..Height |-> U[n]] OBVIOUS
 <2> HIDE DEF U
 <2> QED BY <1>5, <2>1
<1> QED BY <1>6 DEF Ups

\* The path to a frame is as long as the frame is deep.
LEMMA PathIs == ASSUME FrameTyped, Rooted, NEW f \in FH!Tree
  PROVE  FH!Path(f) \in Seq(Frames) /\ Len(FH!Path(f)) = depth[f]
<1> DEFINE U == CHOOSE V : Ups(V)
<1>1. Ups(U)
 <2>1. \E V : Ups(V) BY UpsExist
 <2> QED BY <2>1
<1>2. FH!Path(f) = U[Height][f]
 <2>1. FH!Cardinality(Frames) = Height BY DEF Height, Cardinality, FH!Cardinality
 <2> QED BY <2>1 DEF FH!Path, Ups
<1> HIDE DEF U
<1>3. /\ FH!Tree \subseteq Frames \cup {Top} /\ Top \in FH!Tree
      /\ depth \in [FH!Tree -> Nat] /\ parent \in [FH!Tree \ {Top} -> FH!Tree] BY DEF FrameTyped
<1>4. Height \in Nat BY FrameConstants
<1>5. ASSUME NEW n \in 0..Height, NEW g \in FH!Tree
      PROVE  U[n][g] = IF g = Top \/ n = 0 THEN <<>> ELSE Append(U[n - 1][parent[g]], g)
 <2>1. U[n] = [h \in FH!Tree |-> IF h = Top \/ n = 0 THEN <<>> ELSE Append(U[n - 1][parent[h]], h)] BY <1>1 DEF Ups
 <2> QED BY <2>1
<1> DEFINE least(a, b) == IF a <= b THEN a ELSE b
           P == {n \in Nat : n <= Height =>
                    \A g \in FH!Tree : /\ U[n][g] \in Seq(Frames) /\ Len(U[n][g]) = least(depth[g], n)}
<1>6. 0 \in P
 <2>1. 0 \in 0..Height BY <1>4
 <2>2. ASSUME NEW g \in FH!Tree PROVE U[0][g] \in Seq(Frames) /\ Len(U[0][g]) = least(depth[g], 0)
  <3>1. U[0][g] = <<>> BY <1>5, <2>1
  <3>2. depth[g] \in Nat BY <1>3
  <3>3. Len(U[0][g]) = 0 /\ U[0][g] \in Seq(Frames) BY <3>1
  <3>4. least(depth[g], 0) = 0 BY <3>2
  <3> QED BY <3>3, <3>4
 <2> QED BY <2>2
<1>7. ASSUME NEW n \in P PROVE n + 1 \in P
 <2>1. n \in Nat OBVIOUS
 <2>2. ASSUME n + 1 <= Height, NEW g \in FH!Tree
       PROVE  U[n + 1][g] \in Seq(Frames) /\ Len(U[n + 1][g]) = least(depth[g], n + 1)
  <3>1. n + 1 \in 0..Height /\ n <= Height /\ n + 1 # 0 /\ (n + 1) - 1 = n BY <1>4, <2>1, <2>2
  <3>2. U[n + 1][g] = IF g = Top THEN <<>> ELSE Append(U[n][parent[g]], g) BY <1>5, <3>1
  <3>3. CASE g = Top
   <4>1. depth[g] = 0 /\ U[n + 1][g] = <<>> BY <3>2, <3>3 DEF Rooted
   <4>2. Len(U[n + 1][g]) = 0 /\ U[n + 1][g] \in Seq(Frames) BY <4>1
   <4>3. least(depth[g], n + 1) = 0 BY <2>1, <4>1
   <4> QED BY <4>2, <4>3
  <3>4. CASE g # Top
   <4>1. /\ parent[g] \in FH!Tree /\ depth[g] = depth[parent[g]] + 1 /\ depth[parent[g]] \in Nat /\ g \in Frames
    BY <1>3, <3>4 DEF Rooted
   <4>2. U[n][parent[g]] \in Seq(Frames) /\ Len(U[n][parent[g]]) = least(depth[parent[g]], n) BY <3>1, <4>1
   <4> HIDE DEF P
   <4> DEFINE s == U[n][parent[g]]
   <4>3. U[n + 1][g] = Append(s, g) /\ s \in Seq(Frames) BY <3>2, <3>4, <4>2
   <4>4. Append(s, g) \in Seq(Frames) /\ Len(Append(s, g)) = Len(s) + 1 BY <4>1, <4>3, Appends
   <4>5. least(depth[parent[g]], n) + 1 = least(depth[g], n + 1) BY <2>1, <4>1
   <4> HIDE DEF least
   <4> QED BY <4>2, <4>3, <4>4, <4>5
  <3> QED BY <3>3, <3>4
 <2> QED BY <2>1, <2>2
<1> HIDE DEF P
<1>8. P = Nat
 <2>1. P \subseteq Nat BY DEF P
 <2> QED BY <1>6, <1>7, <2>1, Induction
<1>9. U[Height][f] \in Seq(Frames) /\ Len(U[Height][f]) = least(depth[f], Height)
 <2>1. Height <= Height BY <1>4
 <2> QED BY <1>4, <1>8, <2>1 DEF P
<1>10. depth[f] <= Height BY <1>3, <1>4, TreeIsFinite DEF Rooted
<1> QED BY <1>2, <1>9, <1>10

LEMMA FrameInit == ASSUME FH!Init PROVE FrameInv
<1>1. /\ parent = [f \in {} |-> Top] /\ depth = [f \in {Top} |-> 0] /\ place = <<>>
      /\ heal = FH!NoHeal /\ heals = 0 /\ stuck = FALSE BY DEF FH!Init
<1>2. FH!Tree = {Top} BY <1>1 DEF FH!Tree
<1>3. /\ heal.at = "idle" /\ heal.found = <<>> /\ heal.success = FALSE /\ heal \in Call
 <2>1. <<>> \in Seq(Scores) OBVIOUS
 <2> QED BY <1>1, <1>2, <2>1 DEF FH!NoHeal, Call
<1>4. FrameTyped
 <2>1. parent \in [FH!Tree \ {Top} -> FH!Tree] BY <1>1, <1>2
 <2>2. depth \in [FH!Tree -> Nat] BY <1>1, <1>2
 <2>3. heals \in 0..MaxHeals BY <1>1, FrameConstants
 <2>4. stuck \in BOOLEAN BY <1>1
 <2> QED BY <1>2, <1>3, <2>1, <2>2, <2>3, <2>4 DEF FrameTyped
<1>5. Rooted
 <2>1. Cardinality({Top}) = 1 BY FS_Singleton
 <2> QED BY <1>1, <1>2, <2>1 DEF Rooted
<1>6. DOMAIN heal.found = {} BY <1>3
<1> QED BY <1>1, <1>3, <1>4, <1>5, <1>6 DEF FrameInv, FH!HealsInItsFrame, FH!HealIsJustified

LEMMA FrameRests == ASSUME FrameInv, UNCHANGED frameVars PROVE FrameInv'
<1>1. /\ UNCHANGED <<parent, depth, place, heal, heals, stuck>> BY DEF frameVars
<1>2. FH!Tree' = FH!Tree /\ FrameTyped' BY <1>1 DEF FH!Tree, FrameInv, FrameTyped, Call
<1>3. Rooted' BY SMTT(60), <1>1, <1>2 DEF FrameInv, Rooted
<1>4. FH!HealsInItsFrame' /\ FH!HealIsJustified'
 BY <1>1 DEF FrameInv, FH!HealsInItsFrame, FH!HealIsJustified, FH!Path, FH!Tree
<1> QED BY <1>2, <1>3, <1>4 DEF FrameInv

\* A frame more, one below its parent.
LEMMA AddFrameKeeps == ASSUME FrameInv, NEW f \in Frames, NEW p \in Frames \cup {Top}, FH!AddFrame(p, f)
  PROVE  FrameInv'
<1>1. /\ heal.at = "idle" /\ p \in FH!Tree /\ f \notin FH!Tree
      /\ parent' = [g \in DOMAIN parent \cup {f} |-> IF g = f THEN p ELSE parent[g]]
      /\ depth' = [g \in FH!Tree \cup {f} |-> IF g = f THEN depth[p] + 1 ELSE depth[g]]
      /\ UNCHANGED <<place, heal, heals, stuck>> BY DEF FH!AddFrame
<1>2. /\ FH!Tree \subseteq Frames \cup {Top} /\ Top \in FH!Tree
      /\ depth \in [FH!Tree -> Nat] /\ parent \in [FH!Tree \ {Top} -> FH!Tree]
      /\ heal \in Call /\ heals \in 0..MaxHeals /\ stuck \in BOOLEAN /\ f # Top
 BY FrameConstants DEF FrameInv, FrameTyped
<1>3. FH!Tree' = FH!Tree \cup {f} BY <1>1 DEF FH!Tree
<1>4. DOMAIN parent \cup {f} = FH!Tree' \ {Top} BY <1>2, <1>3
<1>5. FrameTyped'
 <2>1. depth' \in [FH!Tree' -> Nat] BY <1>1, <1>2, <1>3
 <2>2. parent' \in [FH!Tree' \ {Top} -> FH!Tree'] BY <1>1, <1>2, <1>3, <1>4
 <2>3. heal' \in Call' BY <1>1, <1>2, <1>3 DEF Call
 <2>4. FH!Tree' \subseteq Frames \cup {Top} /\ Top \in FH!Tree' BY <1>2, <1>3
 <2> QED BY <1>1, <1>2, <2>1, <2>2, <2>3, <2>4 DEF FrameTyped
<1>6. Rooted'
 <2>1. /\ depth[Top] = 0 /\ \A g \in FH!Tree \ {Top} : depth[g] = depth[parent[g]] + 1
       /\ \A g \in FH!Tree : depth[g] < Cardinality(FH!Tree) BY DEF FrameInv, Rooted
 <2>2. depth'[Top] = 0 BY <1>1, <1>2, <2>1
 <2>3. ASSUME NEW g \in FH!Tree' \ {Top} PROVE depth'[g] = depth'[parent'[g]] + 1
  <3>1. CASE g = f BY <1>1, <1>2, <1>3, <3>1
  <3>2. CASE g # f
   <4>1. g \in FH!Tree \ {Top} /\ parent'[g] = parent[g] /\ parent[g] \in FH!Tree /\ parent[g] # f
    BY <1>1, <1>2, <1>3, <3>2
   <4> QED BY <1>1, <2>1, <3>2, <4>1
  <3> QED BY <3>1, <3>2
 <2>4. /\ Cardinality(FH!Tree \cup {f}) = Cardinality(FH!Tree) + 1 /\ Cardinality(FH!Tree) \in Nat
  BY <1>1, <1>2, TreeIsFinite, FS_AddElement
 <2>5. ASSUME NEW g \in FH!Tree' PROVE depth'[g] < Cardinality(FH!Tree) + 1
  <3>1. CASE g = f BY <1>1, <1>2, <1>3, <2>1, <2>4, <3>1
  <3>2. CASE g # f BY <1>1, <1>2, <1>3, <2>1, <2>4, <3>2
  <3> QED BY <3>1, <3>2
 <2>6. Cardinality(FH!Tree)' = Cardinality(FH!Tree) + 1 BY <1>3, <2>4
 <2> QED BY <2>2, <2>3, <2>5, <2>6 DEF Rooted
<1>7. FH!HealsInItsFrame' /\ FH!HealIsJustified' BY <1>1 DEF FrameInv, FH!HealsInItsFrame, FH!HealIsJustified
<1> QED BY <1>5, <1>6, <1>7 DEF FrameInv

\* The candidate of the highest confidence is confident enough if some is.
LEMMA BestIsBest == ASSUME NEW found \in FH!Finds
  PROVE  /\ found \in Seq(Scores)
         /\ (found # <<>> /\ FH!Best(found) >= 5) <=> \E n \in DOMAIN found : found[n] >= 5
<1>1. CASE found = <<>>
 <2>1. DOMAIN found = {} /\ found \in Seq(Scores) BY <1>1
 <2> QED BY <1>1, <2>1
<1>2. CASE found # <<>>
 <2>1. PICK a \in Scores, b \in Scores : found = <<a>> \/ found = <<a, b>> BY <1>2 DEF FH!Finds
 <2>2. a \in Nat /\ b \in Nat BY <2>1, FrameConstants
 <2>3. /\ found \in Seq(Scores) /\ 1 \in DOMAIN found /\ found[1] = a
       /\ \A n \in DOMAIN found : found[n] \in {a, b}
       /\ found = <<a, b>> => 2 \in DOMAIN found /\ found[2] = b
       /\ found = <<a>> => \A n \in DOMAIN found : found[n] = a
  <3>1. CASE found = <<a>> BY <2>1, <3>1
  <3>2. CASE found = <<a, b>> BY <2>1, <3>2
  <3> QED BY <2>1, <3>1, <3>2
 <2>4. \E m \in {found[n] : n \in DOMAIN found} : \A n \in DOMAIN found : found[n] <= m
  <3>1. CASE found = <<a, b>> /\ a <= b
   <4>1. b \in {found[n] : n \in DOMAIN found} BY <2>3, <3>1
   <4> QED BY <2>2, <2>3, <3>1, <4>1
  <3>2. CASE ~(found = <<a, b>> /\ a <= b)
   <4>1. a \in {found[n] : n \in DOMAIN found} BY <2>3
   <4>2. \A n \in DOMAIN found : found[n] <= a
    <5>1. CASE found = <<a>> BY <2>2, <2>3, <5>1
    <5>2. CASE found = <<a, b>> /\ b < a BY <2>2, <2>3, <5>2
    <5> QED BY <2>1, <2>2, <3>2, <5>1, <5>2
   <4> QED BY <4>1, <4>2
  <3> QED BY <3>1, <3>2
 <2>5. /\ FH!Best(found) \in {found[n] : n \in DOMAIN found}
       /\ \A n \in DOMAIN found : found[n] <= FH!Best(found) BY <2>4 DEF FH!Best
 <2>6. \A n \in DOMAIN found : found[n] \in Nat BY <2>2, <2>3
 <2> QED BY <1>2, <2>3, <2>5, <2>6
<1> QED BY <1>1, <1>2

LEMMA FrameNext == ASSUME FrameInv, FH!Next PROVE FrameInv'
<1>1. CASE \E f \in Frames, p \in Frames \cup {Top} : FH!AddFrame(p, f) BY <1>1, AddFrameKeeps
<1>2. CASE ~\E f \in Frames, p \in Frames \cup {Top} : FH!AddFrame(p, f)
 <2>1. parent' = parent /\ depth' = depth
  <3>1. CASE \E f \in Frames \cup {Top} : FH!HealBegins(f) BY <3>1 DEF FH!HealBegins
  <3>2. CASE FH!EnterFrame \/ FH!EnterFrameFails BY <3>2 DEF FH!EnterFrame, FH!EnterFrameFails
  <3>3. CASE FH!CaptureFrameDOM \/ FH!ResolveCandidates \/ FH!ExitToTop
   BY <3>3 DEF FH!CaptureFrameDOM, FH!ResolveCandidates, FH!ExitToTop
  <3> QED BY <1>2, <3>1, <3>2, <3>3 DEF FH!Next
 <2>2. /\ heal \in Call /\ heals \in 0..MaxHeals /\ stuck \in BOOLEAN /\ MaxHeals \in Nat
       /\ heal.found \in Seq(Scores) /\ heal.success \in BOOLEAN /\ heal.frame \in FH!Tree /\ Top \in FH!Tree
  BY FrameConstants DEF FrameInv, FrameTyped, Call
 <2>3. FH!Tree' = FH!Tree /\ Call' = Call /\ Rooted'
  <3>1. FH!Tree' = FH!Tree BY <2>1 DEF FH!Tree
  <3> QED BY <2>1, <3>1 DEF Call, FrameInv, Rooted
 <2>4. \A f : FH!Path(f)' = FH!Path(f) BY <2>1 DEF FH!Path, FH!Tree
 <2>5. SUFFICES /\ heal' \in Call /\ heals' \in 0..MaxHeals /\ stuck' \in BOOLEAN
                /\ heal'.success <=> \E n \in DOMAIN heal'.found : heal'.found[n] >= 5
                /\ ~stuck' =>
                      /\ heal'.at \in {"idle", "enter"} => place' = <<>>
                      /\ heal'.at \in {"capture", "resolve", "exit"} => place' = FH!Path(heal'.frame)
  <3>1. FH!HealIsJustified' BY <2>5 DEF FH!HealIsJustified
  <3>2. FH!Path(heal.frame)' = FH!Path(heal'.frame) BY <2>1 DEF FH!Path, FH!Tree
  <3>3. FH!HealsInItsFrame' BY <2>5, <3>2 DEF FH!HealsInItsFrame
  <3> QED BY <2>1, <2>3, <2>5, <3>1, <3>3 DEF FrameInv, FrameTyped
 <2>6. /\ heal.success <=> \E n \in DOMAIN heal.found : heal.found[n] >= 5
       /\ ~stuck => /\ heal.at \in {"idle", "enter"} => place = <<>>
                    /\ heal.at \in {"capture", "resolve", "exit"} => place = FH!Path(heal.frame)
  BY DEF FrameInv, FH!HealIsJustified, FH!HealsInItsFrame
 <2>7. ASSUME NEW f \in FH!Tree, NEW a \in {"idle", "enter"}, NEW h,
              h = [at |-> a, frame |-> f, found |-> <<>>, success |-> FALSE]
       PROVE  h \in Call /\ h.at = a /\ (h.success <=> \E n \in DOMAIN h.found : h.found[n] >= 5)
  <3>1. h.success = FALSE /\ h.found = <<>> /\ DOMAIN h.found = {} /\ <<>> \in Seq(Scores) BY <2>7
  <3> QED BY <2>7, <3>1 DEF Call
 <2>8. CASE \E f \in Frames \cup {Top} : FH!HealBegins(f)
  <3>1. PICK f \in FH!Tree :
           /\ heal.at = "idle" /\ heals < MaxHeals /\ heals' = heals + 1
           /\ heal' = [FH!NoHeal EXCEPT !.at = "enter", !.frame = f] /\ place' = place /\ stuck' = stuck
   BY Zenon, <2>8 DEF FH!HealBegins
  <3>2. heal' = [at |-> "enter", frame |-> f, found |-> <<>>, success |-> FALSE] BY <3>1 DEF FH!NoHeal
  <3>3. /\ heal' \in Call /\ heal'.at = "enter"
        /\ heal'.success <=> \E n \in DOMAIN heal'.found : heal'.found[n] >= 5 BY <2>7, <3>2
  <3> QED BY <2>2, <2>6, <3>1, <3>3
 <2>9. CASE FH!EnterFrame
  <3>1. /\ heal.at = "enter" /\ place' = place \o FH!Path(heal.frame)
        /\ heal' = [heal EXCEPT !.at = "capture"] /\ heals' = heals /\ stuck' = stuck BY <2>9 DEF FH!EnterFrame
  <3>2. /\ heal' \in Call /\ heal'.at = "capture" /\ heal'.frame = heal.frame
        /\ heal'.found = heal.found /\ heal'.success = heal.success BY <2>2, <3>1 DEF Call
  <3>3. place = <<>> => place' = FH!Path(heal.frame)
   <4>1. FH!Path(heal.frame) \in Seq(Frames) BY <2>2, PathIs DEF FrameInv
   <4> QED BY <3>1, <4>1
  <3> QED BY <2>2, <2>6, <3>1, <3>2, <3>3
 <2>10. CASE FH!EnterFrameFails
  <3>1. heal' = FH!NoHeal /\ stuck' = TRUE /\ heals' = heals BY <2>10 DEF FH!EnterFrameFails
  <3>2. /\ heal' \in Call
        /\ heal'.success <=> \E n \in DOMAIN heal'.found : heal'.found[n] >= 5 BY <2>2, <2>7, <3>1 DEF FH!NoHeal
  <3> QED BY <2>2, <3>1, <3>2
 <2>11. CASE FH!CaptureFrameDOM
  <3>1. PICK good \in BOOLEAN : heal' = [heal EXCEPT !.at = IF good THEN "resolve" ELSE "exit"]
   BY <2>11 DEF FH!CaptureFrameDOM
  <3>2. heal.at = "capture" /\ UNCHANGED <<place, heals, stuck>> BY <2>11 DEF FH!CaptureFrameDOM
  <3>3. /\ heal' \in Call /\ heal'.at \in {"resolve", "exit"} /\ heal'.frame = heal.frame
        /\ heal'.found = heal.found /\ heal'.success = heal.success BY <2>2, <3>1 DEF Call
  <3> QED BY <2>2, <2>6, <3>2, <3>3
 <2>12. CASE FH!ResolveCandidates
  <3>1. PICK found \in FH!Finds :
           heal' = IF found # <<>> /\ FH!Best(found) >= 5 THEN FH!Resolved(found, TRUE)
                   ELSE FH!Resolved(found, FALSE) BY <2>12 DEF FH!ResolveCandidates
  <3>2. heal.at = "resolve" /\ UNCHANGED <<place, heals, stuck>> BY <2>12 DEF FH!ResolveCandidates
  <3>3. /\ found \in Seq(Scores)
        /\ (found # <<>> /\ FH!Best(found) >= 5) <=> \E n \in DOMAIN found : found[n] >= 5 BY <3>1, BestIsBest
  <3>4. /\ heal' \in Call /\ heal'.at = "exit" /\ heal'.frame = heal.frame /\ heal'.found = found
        /\ heal'.success <=> found # <<>> /\ FH!Best(found) >= 5
   <4>1. CASE found # <<>> /\ FH!Best(found) >= 5
    <5>1. heal' = [heal EXCEPT !.at = "exit", !.found = found, !.success = TRUE] BY <3>1, <4>1 DEF FH!Resolved
    <5>2. /\ heal' \in Call /\ heal'.at = "exit" /\ heal'.frame = heal.frame /\ heal'.found = found
          /\ heal'.success = TRUE BY <2>2, <3>3, <5>1 DEF Call
    <5> QED BY <4>1, <5>2
   <4>2. CASE ~(found # <<>> /\ FH!Best(found) >= 5)
    <5>1. heal' = [heal EXCEPT !.at = "exit", !.found = found, !.success = FALSE] BY <3>1, <4>2 DEF FH!Resolved
    <5>2. /\ heal' \in Call /\ heal'.at = "exit" /\ heal'.frame = heal.frame /\ heal'.found = found
          /\ heal'.success = FALSE BY <2>2, <3>3, <5>1 DEF Call
    <5> QED BY <4>2, <5>2
   <4> QED BY <4>1, <4>2
  <3> QED BY <2>2, <2>6, <3>2, <3>3, <3>4
 <2>13. CASE FH!ExitToTop
  <3>1. /\ heal.at = "exit" /\ heal' = [heal EXCEPT !.at = "idle"] /\ heals' = heals
        /\ \/ place' = <<>> /\ stuck' = stuck
           \/ stuck' = TRUE /\ place' = place BY <2>13 DEF FH!ExitToTop
  <3>2. /\ heal' \in Call /\ heal'.at = "idle" /\ heal'.frame = heal.frame
        /\ heal'.found = heal.found /\ heal'.success = heal.success BY <2>2, <3>1 DEF Call
  <3> QED BY <2>2, <2>6, <3>1, <3>2
 <2> QED BY <1>2, <2>8, <2>9, <2>10, <2>11, <2>12, <2>13 DEF FH!Next
<1> QED BY <1>1, <1>2

LEMMA FrameHolds == FrameInv => FH!TypeOK /\ FH!HealsInItsFrame /\ FH!HealIsJustified /\ FH!TreeIsSound
<1> SUFFICES ASSUME FrameInv PROVE FH!TypeOK /\ FH!TreeIsSound BY DEF FrameInv
<1>1. FrameTyped /\ Rooted BY DEF FrameInv
<1>2. FH!TreeIsSound BY <1>1, PathIs DEF FH!TreeIsSound
<1>3. \A f \in FH!Tree : depth[f] \in 0..Height BY <1>1, TreeIsFinite, FrameConstants DEF FrameTyped, Rooted
<1>4. FH!Cardinality(Frames) = Height BY DEF Height, Cardinality, FH!Cardinality
<1>5. FH!TypeOK BY <1>1, <1>3, <1>4 DEF FrameTyped, FH!TypeOK, Call
<1> QED BY <1>2, <1>5

(* The detection of changes: what a check knows of the baselines of its page as long as no other check
   has met it. *)

LEMMA ChangeConstants ==
  /\ MaxDetections \in Nat /\ MaxSaves \in Nat /\ MaxRestarts \in Nat
  /\ BreakerThreshold \in Nat /\ FailureCap \in Nat
BY ToolkitAssumption DEF ToolkitAssumption, CD!ChangesAssumption, CD!DomBreakerAssumption

LEMMA ChangeNone ==
  /\ CD!NoCheck \in Check /\ CD!NoCheck.at = "idle" /\ CD!NoCheck.html = Null
  /\ CD!NoCheck.drifted = FALSE /\ CD!NoCheck.new = FALSE
  /\ CD!Blank \in Pictures /\ \A p \in PageIDs : CD!Blank[p] = Null
BY DEF CD!NoCheck, Check, Likes, CD!Blank, Pictures

LEMMA DomBreakerMoves == ASSUME NEW b \in CD!DomBreakerState
  PROVE  /\ CD!DomAllow(b) \in CD!DomBreakerState /\ CD!DomSuccess(b) \in CD!DomBreakerState
         /\ CD!DomFailure(b) \in CD!DomBreakerState /\ CD!DomCooldown(b) \in CD!DomBreakerState
<1> USE ChangeConstants DEF CD!DomBreakerState
<1>1. CD!DomAllow(b) \in CD!DomBreakerState BY DEF CD!DomAllow
<1>2. CD!DomSuccess(b) \in CD!DomBreakerState
 <2>1. 0 \in 0..FailureCap /\ "closed" \in {"closed", "open", "half-open"} OBVIOUS
 <2> QED BY <2>1 DEF CD!DomSuccess
<1>3. CD!DomCooldown(b) \in CD!DomBreakerState BY DEF CD!DomCooldown
<1>4. PICK n \in 0..FailureCap : n = IF b.failures < FailureCap THEN b.failures + 1 ELSE FailureCap OBVIOUS
<1>5. PICK s \in {"closed", "open", "half-open"} : s = IF n >= BreakerThreshold THEN "open" ELSE b.state OBVIOUS
<1>6. CD!DomFailure(b) = [b EXCEPT !.failures = n, !.cooled = FALSE, !.state = s] BY <1>4, <1>5 DEF CD!DomFailure
<1>7. CD!DomFailure(b) \in CD!DomBreakerState BY <1>6
<1> QED BY <1>1, <1>2, <1>3, <1>7

LEMMA ChangeInit == ASSUME Init PROVE ChangeInv
<1>1. /\ breaker = CD!NewDomBreaker
      /\ hashes = CD!Blank /\ fingerprints = CD!Blank /\ structures = CD!Blank /\ base = CD!Blank
      /\ check = [c \in Goroutines |-> CD!NoCheck]
      /\ events = <<>> /\ saving = FALSE /\ hashFile = CD!Blank /\ eventFile = <<>>
      /\ checks = 0 /\ saves = 0 /\ restarted = 0 /\ overlapped = {} /\ missed = FALSE BY DEF Init, CD!Init
<1>2. breaker \in CD!DomBreakerState BY <1>1, ChangeConstants DEF CD!DomBreakerState, CD!NewDomBreaker
<1>3. check \in [Goroutines -> Check] /\ \A c \in Goroutines : check[c].at = "idle" BY <1>1, ChangeNone
<1>4. /\ 0 \in 0..MaxDetections /\ 0 \in 0..MaxSaves /\ 0 \in 0..MaxRestarts
      /\ CD!Blank \in Pictures /\ <<>> \in Seq(ChangeEvent) BY ChangeConstants, ChangeNone
<1>5. ChangeTyped BY ONLY Zenon, <1>1, <1>2, <1>3, <1>4 DEF ChangeTyped
<1>6. \A p \in PageIDs : CD!Checking(p) = {} /\ Even(p) BY <1>1, <1>3, ChangeNone DEF CD!Checking, Even
<1> QED BY <1>5, <1>6 DEF ChangeInv, Alone

LEMMA ChangeRests == ChangeInv /\ UNCHANGED changeVars => ChangeInv'
BY DEF ChangeInv, changeVars, ChangeTyped, Alone, Knows, Even, CD!Checking

\* A step of the check c, which touches the baselines of its page only.
LEMMA CheckMoves ==
  ASSUME ChangeInv, NEW c \in Goroutines, NEW p \in PageIDs, check[c].at # "idle", check[c].page = p,
         NEW new \in Check, check' = [check EXCEPT ![c] = new], new.page = p \/ new.at = "idle",
         overlapped \subseteq overlapped',
         \A q \in PageIDs : q # p => /\ hashes'[q] = hashes[q] /\ fingerprints'[q] = fingerprints[q]
                                     /\ structures'[q] = structures[q] /\ base'[q] = base[q],
         p \notin overlapped' /\ CD!Checking(p) = {c} /\ Knows(check[c]) =>
            IF new.at = "idle" THEN Even(p)' ELSE Knows(new)' PROVE  Alone'
<1>1. /\ check \in [Goroutines -> Check] /\ check' \in [Goroutines -> Check] /\ check'[c] = new
      /\ \A e \in Goroutines : e # c => check'[e] = check[e] BY DEF ChangeInv, ChangeTyped
<1> SUFFICES ASSUME NEW q \in PageIDs, q \notin overlapped'
             PROVE  /\ \A d, e \in CD!Checking(q)' : d = e
                    /\ \A e \in CD!Checking(q)' : Knows(check[e])'
                    /\ CD!Checking(q)' = {} => Even(q)' BY DEF Alone
<1>2. /\ \A d, e \in CD!Checking(q) : d = e
      /\ \A e \in CD!Checking(q) : Knows(check[e])
      /\ CD!Checking(q) = {} => Even(q) BY DEF ChangeInv, Alone
<1>3. CASE q = p
 <2>1. CD!Checking(p) = {c} /\ Knows(check[c]) BY <1>2, <1>3 DEF CD!Checking
 <2>2. \A e \in Goroutines : e # c => e \notin CD!Checking(p)' BY <1>1, <2>1 DEF CD!Checking
 <2>3. c \in CD!Checking(p)' <=> new.at # "idle" BY <1>1 DEF CD!Checking
 <2>4. CASE new.at = "idle"
  <3>1. CD!Checking(p)' = {} BY <2>2, <2>3, <2>4 DEF CD!Checking
  <3> QED BY <1>3, <2>1, <2>4, <3>1
 <2>5. CASE new.at # "idle"
  <3>1. CD!Checking(p)' = {c} BY <2>2, <2>3, <2>5 DEF CD!Checking
  <3>2. Knows(check[c])' BY <1>1, <1>3, <2>1, <2>5 DEF Knows, Even
  <3> QED BY <1>3, <3>1, <3>2
 <2> QED BY <2>4, <2>5
<1>4. CASE q # p
 <2>1. CD!Checking(q)' = CD!Checking(q) /\ c \notin CD!Checking(q) BY <1>1, <1>4 DEF CD!Checking
 <2>2. Even(q)' <=> Even(q) BY <1>4 DEF Even
 <2>3. ASSUME NEW e \in CD!Checking(q) PROVE Knows(check[e])'
  <3>1. check'[e] = check[e] /\ check[e].page = q BY <1>1, <2>1, <2>3 DEF CD!Checking
  <3>2. Knows(check[e]) BY <1>2, <2>3
  <3> QED BY <1>4, <3>1, <3>2 DEF Knows, Even
 <2> QED BY <1>2, <2>1, <2>2, <2>3
<1> QED BY <1>3, <1>4

\* The types that a step of the check c keeps.
LEMMA CheckTyped ==
  ASSUME ChangeTyped, NEW c \in Goroutines, NEW new \in Check, check' = [check EXCEPT ![c] = new],
         new.at # "idle" => new.page \in PageIDs
  PROVE  /\ check' \in [Goroutines -> Check]
         /\ \A e \in Goroutines : check'[e].at # "idle" => check'[e].page \in PageIDs
BY DEF ChangeTyped

LEMMA Redrawn == ASSUME NEW f \in Pictures, NEW p \in PageIDs, NEW h \in Contents \cup {Null}
  PROVE  /\ [f EXCEPT ![p] = h] \in Pictures /\ [f EXCEPT ![p] = h][p] = h
         /\ \A q \in PageIDs : q # p => [f EXCEPT ![p] = h][q] = f[q]
BY DEF Pictures

LEMMA CheckFields == ASSUME NEW d \in Check
  PROVE  /\ d.page \in PageIDs \cup {CD!NoCheck.page} /\ d.html \in Contents \cup {Null}
         /\ d.drifted \in BOOLEAN /\ d.new \in BOOLEAN /\ d.fp \in Likes /\ d.st \in Likes
BY DEF Check

LEMMA BeginMoves == ASSUME ChangeInv, NEW c \in Goroutines, NEW p \in PageIDs, NEW h \in Contents, CD!Begin(c, p, h)
  PROVE  ChangeInv'
<1>1. /\ check[c].at = "idle" /\ checks < MaxDetections /\ checks' = checks + 1 /\ breaker' = CD!DomAllow(breaker)
      /\ overlapped' = IF CD!Checking(p) # {} THEN overlapped \cup {p} ELSE overlapped
      /\ UNCHANGED <<hashes, fingerprints, structures, events, saving, hashFile, eventFile, saves, restarted, base,
                     missed>> BY DEF CD!Begin
<1>2. ChangeTyped /\ check \in [Goroutines -> Check] BY DEF ChangeInv, ChangeTyped
<1>3. breaker' \in CD!DomBreakerState /\ checks' \in 0..MaxDetections /\ overlapped' \subseteq PageIDs
 <2>1. checks' \in 0..MaxDetections BY <1>1, <1>2, ChangeConstants DEF ChangeTyped
 <2> QED BY <1>1, <1>2, <2>1, DomBreakerMoves DEF ChangeTyped
<1>4. CASE check' = check
 <2>1. ChangeTyped' BY <1>1, <1>2, <1>3, <1>4 DEF ChangeTyped
 <2>2. overlapped \subseteq overlapped' BY <1>1
 <2>3. \A q \in PageIDs : CD!Checking(q)' = CD!Checking(q) /\ (Even(q)' <=> Even(q))
  BY <1>1, <1>4 DEF CD!Checking, Even
 <2>4. \A e \in Goroutines : Knows(check[e])' <=> Knows(check[e]) BY <1>1, <1>4 DEF Knows, Even
 <2> QED BY <2>1, <2>2, <2>3, <2>4 DEF ChangeInv, Alone, CD!Checking
<1>5. CASE check' # check
 <2>1. PICK new : new = [CD!NoCheck EXCEPT !.at = "hash", !.page = p, !.html = h] OBVIOUS
 <2>2. check' = [check EXCEPT ![c] = new] BY <1>5, <2>1 DEF CD!Begin
 <2>3. new \in Check /\ new.at = "hash" /\ new.page = p BY <2>1, ChangeNone DEF Check
 <2>4. ChangeTyped' BY <1>1, <1>2, <1>3, <2>2, <2>3, CheckTyped DEF ChangeTyped
 <2>5. /\ check'[c] = new /\ \A e \in Goroutines : e # c => check'[e] = check[e] BY <1>2, <2>2
 <2>6. ASSUME NEW q \in PageIDs, q \notin overlapped'
       PROVE  /\ \A d, e \in CD!Checking(q)' : d = e
              /\ \A e \in CD!Checking(q)' : Knows(check[e])'
              /\ CD!Checking(q)' = {} => Even(q)'
  <3>1. /\ \A d, e \in CD!Checking(q) : d = e
        /\ \A e \in CD!Checking(q) : Knows(check[e])
        /\ CD!Checking(q) = {} => Even(q) BY <1>1, <2>6 DEF ChangeInv, Alone
  <3>2. Even(q)' <=> Even(q) BY <1>1 DEF Even
  <3>3. CASE q = p
   <4>1. CD!Checking(p) = {} BY <1>1, <2>6, <3>3
   <4>2. CD!Checking(p)' = {c} BY <2>3, <2>5, <4>1 DEF CD!Checking
   <4>3. Knows(new)' BY <2>3, <3>1, <3>2, <3>3, <4>1 DEF Knows
   <4>4. check[c]' = new BY <2>5
   <4> QED BY <3>3, <4>2, <4>3, <4>4
  <3>4. CASE q # p
   <4>1. CD!Checking(q)' = CD!Checking(q) /\ c \notin CD!Checking(q) BY <1>1, <2>3, <2>5, <3>4 DEF CD!Checking
   <4>2. ASSUME NEW e \in CD!Checking(q) PROVE Knows(check[e])'
    <5>1. check'[e] = check[e] /\ Knows(check[e]) BY <2>5, <3>1, <4>1 DEF CD!Checking
    <5> QED BY <1>1, <5>1 DEF Knows, Even
   <4> QED BY <3>1, <3>2, <4>1, <4>2
  <3> QED BY <3>3, <3>4
 <2> QED BY <2>4, <2>6 DEF ChangeInv, Alone
<1> QED BY <1>4, <1>5

LEMMA HashMoves == ASSUME ChangeInv, NEW c \in Goroutines, CD!CheckHash(c) PROVE ChangeInv'
<1>1. PICK d : d = check[c] OBVIOUS
<1>2. PICK p, h : p = d.page /\ h = d.html OBVIOUS
<1>3. /\ ChangeTyped /\ d.at = "hash" /\ d \in Check /\ p \in PageIDs /\ h \in Contents \cup {Null}
      /\ hashes \in Pictures BY <1>1, <1>2, CheckFields DEF ChangeInv, ChangeTyped, CD!CheckHash
<1>4. PICK b \in BOOLEAN : b <=> hashes[p] # Null /\ hashes[p] # h
 <2>1. (hashes[p] # Null /\ hashes[p] # h) \/ ~(hashes[p] # Null /\ hashes[p] # h) OBVIOUS
 <2> QED BY <2>1, Zenon
<1>5. /\ check' = [check EXCEPT ![c] = [d EXCEPT !.at = "fingerprint", !.drifted = b]]
      /\ hashes' = [hashes EXCEPT ![p] = h]
      /\ UNCHANGED <<breaker, fingerprints, structures, events, saving, hashFile, eventFile, checks, saves, restarted,
                     base, overlapped, missed>>
 <2>1. (hashes[p] \notin {Null, h}) = b BY <1>4, Zenon
 <2> QED BY <1>1, <1>2, <2>1 DEF CD!CheckHash
<1>6. PICK new : new = [d EXCEPT !.at = "fingerprint", !.drifted = b] OBVIOUS
<1>7. /\ new \in Check /\ new.at = "fingerprint" /\ new.page = p /\ new.html = h /\ new.drifted = b
 BY <1>2, <1>3, <1>4, <1>6 DEF Check
<1>8. ChangeTyped' BY <1>3, <1>5, <1>6, <1>7, CheckTyped, Redrawn DEF ChangeTyped
<1>9. hashes'[p] = h /\ \A q \in PageIDs : q # p => hashes'[q] = hashes[q] BY <1>3, <1>5, Redrawn
<1>10. ASSUME Knows(check[c]) PROVE Knows(new)'
 <2>1. /\ fingerprints[p] = base[p] /\ structures[p] = base[p]
       /\ base[p] # Null => hashes[p] = base[p] BY <1>1, <1>2, <1>3, <1>10 DEF Knows, Even
 <2>2. base[p] # Null => (new.drifted <=> base[p] # h)
  <3> SUFFICES ASSUME base[p] # Null PROVE new.drifted <=> base[p] # h OBVIOUS
  <3>1. hashes[p] = base[p] BY <2>1
  <3>2. b <=> base[p] # h BY <1>4, <3>1, Zenon
  <3>3. new.drifted <=> b BY <1>7, Zenon
  <3> QED BY <3>2, <3>3
 <2>3. fingerprints'[p] = base'[p] /\ structures'[p] = base'[p] /\ base'[p] = base[p] BY <1>5, <2>1
 <2> QED BY <1>7, <1>9, <2>2, <2>3, Zenon DEF Knows
<1>11. Alone' BY ZenonT(90), <1>1, <1>2, <1>3, <1>5, <1>6, <1>7, <1>9, <1>10, CheckMoves
<1> QED BY <1>8, <1>11 DEF ChangeInv

LEMMA FingerprintMoves == ASSUME ChangeInv, NEW c \in Goroutines, CD!CheckFingerprint(c) PROVE ChangeInv'
<1>1. PICK d : d = check[c] OBVIOUS
<1>2. PICK p, h : p = d.page /\ h = d.html OBVIOUS
<1>3. /\ ChangeTyped /\ d.at = "fingerprint" /\ d \in Check /\ p \in PageIDs /\ h \in Contents \cup {Null}
      /\ fingerprints \in Pictures BY <1>1, <1>2, CheckFields DEF ChangeInv, ChangeTyped, CD!CheckFingerprint
<1>4. PICK b \in BOOLEAN : b <=> fingerprints[p] = Null
 <2>1. fingerprints[p] = Null \/ ~(fingerprints[p] = Null) OBVIOUS
 <2> QED BY <2>1, Zenon
<1>5. PICK a : a = IF fingerprints[p] = Null THEN 100 ELSE CD!Alike(FingerprintSim, fingerprints[p], h) OBVIOUS
<1>6. /\ check' = [check EXCEPT ![c] = [d EXCEPT !.at = "structure", !.new = b, !.fp = a]]
      /\ fingerprints' = [fingerprints EXCEPT ![p] = h]
      /\ UNCHANGED <<breaker, hashes, structures, events, saving, hashFile, eventFile, checks, saves, restarted, base,
                     overlapped, missed>>
 <2>1. (fingerprints[p] = Null) = b BY <1>4, Zenon
 <2> QED BY <1>1, <1>2, <1>5, <2>1 DEF CD!CheckFingerprint
<1>7. a \in Likes
 <2>1. fingerprints[p] \in Contents \cup {Null} BY <1>3 DEF Pictures
 <2> QED BY <1>3, <1>5, <2>1 DEF Likes
<1>8. PICK new : new = [d EXCEPT !.at = "structure", !.new = b, !.fp = a] OBVIOUS
<1>9. /\ new \in Check /\ new.at = "structure" /\ new.page = p /\ new.html = h
      /\ new.new = b /\ new.fp = a /\ new.drifted = d.drifted BY <1>2, <1>3, <1>4, <1>7, <1>8 DEF Check
<1>10. ChangeTyped' BY <1>3, <1>6, <1>8, <1>9, CheckTyped, Redrawn DEF ChangeTyped
<1>11. fingerprints'[p] = h /\ \A q \in PageIDs : q # p => fingerprints'[q] = fingerprints[q] BY <1>3, <1>6, Redrawn
<1>12. ASSUME Knows(check[c]) PROVE Knows(new)'
 <2>1. /\ fingerprints[p] = base[p] /\ structures[p] = base[p] /\ hashes[p] = h
       /\ base[p] # Null => (d.drifted <=> base[p] # h) BY <1>1, <1>2, <1>3, <1>12, Zenon DEF Knows
 <2>2. base[p] # Null => ~new.new /\ new.fp = CD!Alike(FingerprintSim, base[p], h) BY <1>4, <1>5, <1>9, <2>1, Zenon
 <2>3. base[p] # Null => (new.drifted <=> base[p] # h) BY <1>9, <2>1, Zenon
 <2> QED BY <1>6, <1>9, <1>11, <2>1, <2>2, <2>3, Zenon DEF Knows
<1>13. Alone' BY ZenonT(90), <1>1, <1>2, <1>3, <1>6, <1>8, <1>9, <1>11, <1>12, CheckMoves
<1> QED BY <1>10, <1>13 DEF ChangeInv

LEMMA ReadMoves == ASSUME ChangeInv, NEW c \in Goroutines, CD!ReadStructure(c) PROVE ChangeInv'
<1>1. PICK d : d = check[c] OBVIOUS
<1>2. PICK p, h : p = d.page /\ h = d.html OBVIOUS
<1>3. /\ ChangeTyped /\ d.at = "structure" /\ d \in Check /\ p \in PageIDs /\ h \in Contents \cup {Null}
      /\ structures \in Pictures BY <1>1, <1>2, CheckFields DEF ChangeInv, ChangeTyped, CD!ReadStructure
<1>4. PICK old \in {structures[p]} \cup (IF CD!Racing(c) THEN {Null} ELSE {}) :
         check' = [check EXCEPT ![c].at = "store", ![c].new = @ \/ old = Null,
                     ![c].st = IF old = Null THEN 100 ELSE CD!Alike(StructuralSim, old, h)]
 BY ZenonT(90), <1>1, <1>2 DEF CD!ReadStructure
<1>5. PICK b \in BOOLEAN : b <=> d.new \/ old = Null
 <2>1. (d.new \/ old = Null) \/ ~(d.new \/ old = Null) OBVIOUS
 <2> QED BY <2>1, Zenon
<1>6. PICK a : a = IF old = Null THEN 100 ELSE CD!Alike(StructuralSim, old, h) OBVIOUS
<1>7. check' = [check EXCEPT ![c] = [d EXCEPT !.at = "store", !.new = b, !.st = a]]
 <2>1. (d.new \/ old = Null) = b BY <1>5, Zenon
 <2> QED BY <1>1, <1>4, <1>6, <2>1
<1>8. /\ overlapped' = IF CD!Racing(c) THEN overlapped \cup {p} ELSE overlapped
      /\ UNCHANGED <<breaker, hashes, fingerprints, structures, events, saving, hashFile, eventFile, checks, saves,
                     restarted, base, missed>> BY <1>1, <1>2 DEF CD!ReadStructure
<1>9. a \in Likes
 <2>1. old \in Contents \cup {Null} BY <1>3, <1>4 DEF Pictures
 <2> QED BY <1>3, <1>6, <2>1 DEF Likes
<1>10. PICK new : new = [d EXCEPT !.at = "store", !.new = b, !.st = a] OBVIOUS
<1>11. /\ new \in Check /\ new.at = "store" /\ new.page = p /\ new.html = h
       /\ new.new = b /\ new.st = a /\ new.drifted = d.drifted /\ new.fp = d.fp
 BY <1>2, <1>3, <1>5, <1>9, <1>10 DEF Check
<1>12. overlapped \subseteq overlapped' /\ overlapped' \subseteq PageIDs BY <1>3, <1>8 DEF ChangeTyped
<1>13. ChangeTyped' BY <1>3, <1>7, <1>8, <1>10, <1>11, <1>12, CheckTyped DEF ChangeTyped
<1>14. ASSUME Knows(check[c]), p \notin overlapped' PROVE Knows(new)'
 <2>1. old = structures[p] BY <1>4, <1>8, <1>14
 <2>2. /\ structures[p] = base[p] /\ hashes[p] = h /\ fingerprints[p] = h
       /\ base[p] # Null => (d.drifted <=> base[p] # h)
       /\ base[p] # Null => ~d.new /\ d.fp = CD!Alike(FingerprintSim, base[p], h)
  BY <1>1, <1>2, <1>3, <1>14, Zenon DEF Knows
 <2>3. base[p] # Null => /\ ~new.new /\ new.fp = CD!Alike(FingerprintSim, base[p], h)
                         /\ new.st = CD!Alike(StructuralSim, base[p], h) BY <1>5, <1>6, <1>11, <2>1, <2>2, Zenon
 <2>4. base[p] # Null => (new.drifted <=> base[p] # h) BY <1>11, <2>2, Zenon
 <2> QED BY <1>8, <1>11, <2>2, <2>3, <2>4, Zenon DEF Knows
<1>15. Alone' BY <1>1, <1>2, <1>3, <1>7, <1>8, <1>10, <1>11, <1>12, <1>14, CheckMoves
<1> QED BY <1>13, <1>15 DEF ChangeInv

LEMMA StructureMoves == ASSUME ChangeInv, NEW c \in Goroutines, CD!CheckStructure(c) PROVE ChangeInv'
<1>1. PICK d : d = check[c] OBVIOUS
<1>2. PICK p, h : p = d.page /\ h = d.html OBVIOUS
<1>3. /\ ChangeTyped /\ d.at = "store" /\ d \in Check /\ p \in PageIDs /\ h \in Contents \cup {Null}
      /\ structures \in Pictures BY <1>1, <1>2, CheckFields DEF ChangeInv, ChangeTyped, CD!CheckStructure
<1>4. PICK new : new = [d EXCEPT !.at = "decide"] OBVIOUS
<1>5. /\ check' = [check EXCEPT ![c] = new] /\ structures' = [structures EXCEPT ![p] = h]
      /\ UNCHANGED <<breaker, hashes, fingerprints, events, saving, hashFile, eventFile, checks, saves, restarted,
                     base, overlapped, missed>> BY <1>1, <1>2, <1>4 DEF CD!CheckStructure
<1>6. /\ new \in Check /\ new.at = "decide" /\ new.page = p /\ new.html = h
      /\ new.new = d.new /\ new.st = d.st /\ new.drifted = d.drifted /\ new.fp = d.fp BY <1>2, <1>3, <1>4 DEF Check
<1>7. ChangeTyped' BY <1>3, <1>5, <1>6, CheckTyped, Redrawn DEF ChangeTyped
<1>8. structures'[p] = h /\ \A q \in PageIDs : q # p => structures'[q] = structures[q] BY <1>3, <1>5, Redrawn
<1>9. ASSUME Knows(check[c]) PROVE Knows(new)'
 <2>1. /\ hashes[p] = h /\ fingerprints[p] = h
       /\ base[p] # Null => (d.drifted <=> base[p] # h)
       /\ base[p] # Null => ~d.new /\ d.fp = CD!Alike(FingerprintSim, base[p], h)
       /\ base[p] # Null => d.st = CD!Alike(StructuralSim, base[p], h) BY <1>1, <1>2, <1>3, <1>9, Zenon DEF Knows
 <2>2. base[p] # Null => (new.drifted <=> base[p] # h) BY <1>6, <2>1, Zenon
 <2> QED BY <1>5, <1>6, <1>8, <2>1, <2>2, Zenon DEF Knows
<1>10. Alone' BY <1>1, <1>2, <1>3, <1>5, <1>6, <1>8, <1>9, CheckMoves
<1> QED BY <1>7, <1>10 DEF ChangeInv

\* What goes unreported of a change since a check that knows its page.
LEMMA Unreported ==
  ASSUME NEW d \in Check, NEW old, NEW h, ~d.drifted \/ d.new \/ CD!Negligible(d.fp, d.st),
         old # Null => /\ d.drifted <=> old # h
                       /\ ~d.new /\ d.fp = CD!Alike(FingerprintSim, old, h)
                       /\ d.st = CD!Alike(StructuralSim, old, h)
  PROVE  old # Null => CD!Negligible(CD!Alike(FingerprintSim, old, h), CD!Alike(StructuralSim, old, h))
<1> SUFFICES ASSUME old # Null
             PROVE  CD!Negligible(CD!Alike(FingerprintSim, old, h), CD!Alike(StructuralSim, old, h)) OBVIOUS
<1>1. CASE old = h
 <2>1. CD!Alike(FingerprintSim, old, h) = 100 /\ CD!Alike(StructuralSim, old, h) = 100 BY <1>1 DEF CD!Alike
 <2>2. CD!Negligible(100, 100) BY DEF CD!Negligible, CD!classifySeverity
 <2> QED BY <2>1, <2>2
<1>2. CASE old # h BY <1>2
<1> QED BY <1>1, <1>2

LEMMA NoChangeMoves == ASSUME ChangeInv, NEW c \in Goroutines, CD!NoChange(c) PROVE ChangeInv'
<1>1. PICK d : d = check[c] OBVIOUS
<1>2. PICK p, h : p = d.page /\ h = d.html OBVIOUS
<1>3. /\ ChangeTyped /\ d.at = "decide" /\ d \in Check /\ p \in PageIDs /\ h \in Contents \cup {Null}
      /\ base \in Pictures /\ missed = FALSE BY <1>1, <1>2, CheckFields DEF ChangeInv, ChangeTyped, CD!NoChange
<1>4. ~d.drifted \/ d.new \/ CD!Negligible(d.fp, d.st) BY <1>1, Zenon DEF CD!NoChange
<1>5. /\ check' = [check EXCEPT ![c] = CD!NoCheck] /\ base' = [base EXCEPT ![p] = h]
      /\ breaker' = CD!DomSuccess(breaker)
      /\ UNCHANGED <<hashes, fingerprints, structures, events, saving, hashFile, eventFile, checks, saves, restarted,
                     overlapped>> BY <1>1, <1>2 DEF CD!NoChange, CD!Observe
<1>6. ASSUME p \notin overlapped PROVE Knows(check[c]) BY <1>1, <1>2, <1>3, <1>6 DEF ChangeInv, Alone, CD!Checking
<1>7. ASSUME Knows(check[c])
      PROVE  /\ hashes[p] = h /\ fingerprints[p] = h /\ structures[p] = h
             /\ base[p] # Null => d.drifted <=> base[p] # h
             /\ base[p] # Null => ~d.new /\ d.fp = CD!Alike(FingerprintSim, base[p], h)
             /\ base[p] # Null => d.st = CD!Alike(StructuralSim, base[p], h)
 BY <1>1, <1>2, <1>3, <1>7, Zenon DEF Knows
<1>8. missed' = FALSE
 <2>1. missed' = (missed \/ (/\ p \notin overlapped /\ base[p] # Null
                             /\ ~CD!Negligible(CD!Alike(FingerprintSim, base[p], h),
                                               CD!Alike(StructuralSim, base[p], h))))
  BY <1>1, <1>2 DEF CD!NoChange, CD!Observe
 <2>2. ASSUME p \notin overlapped, base[p] # Null
       PROVE  CD!Negligible(CD!Alike(FingerprintSim, base[p], h), CD!Alike(StructuralSim, base[p], h))
  <3>1. /\ d.drifted <=> base[p] # h
        /\ ~d.new /\ d.fp = CD!Alike(FingerprintSim, base[p], h)
        /\ d.st = CD!Alike(StructuralSim, base[p], h) BY <1>6, <1>7, <2>2, Zenon
  <3> QED BY <1>3, <1>4, <2>2, <3>1, Unreported
 <2> QED BY <1>3, <2>1, <2>2, Zenon
<1>9. breaker' \in CD!DomBreakerState BY <1>3, <1>5, DomBreakerMoves DEF ChangeTyped
<1>10. ChangeTyped' BY <1>3, <1>5, <1>8, <1>9, ChangeNone, CheckTyped, Redrawn DEF ChangeTyped
<1>11. base'[p] = h /\ \A q \in PageIDs : q # p => base'[q] = base[q] BY <1>3, <1>5, Redrawn
<1>12. ASSUME Knows(check[c]) PROVE Even(p)' BY <1>5, <1>7, <1>11, <1>12 DEF Even
<1>13. Alone' BY ZenonT(90), <1>1, <1>2, <1>3, <1>5, <1>11, <1>12, ChangeNone, CheckMoves
<1> QED BY <1>10, <1>13 DEF ChangeInv

LEMMA ChangeMoves == ASSUME ChangeInv, NEW c \in Goroutines, CD!Change(c) PROVE ChangeInv'
<1>1. PICK d : d = check[c] OBVIOUS
<1>2. PICK p, h, s : p = d.page /\ h = d.html /\ s = CD!classifySeverity(d.fp, d.st) OBVIOUS
<1>3. /\ ChangeTyped /\ d.at = "decide" /\ d \in Check /\ p \in PageIDs /\ h \in Contents \cup {Null}
      /\ base \in Pictures /\ missed = FALSE BY <1>1, <1>2, CheckFields DEF ChangeInv, ChangeTyped, CD!Change
<1>4. PICK on : on = [d EXCEPT !.at = "repair"] OBVIOUS
<1>5. on \in Check /\ on.at = "repair" /\ on.page = p BY <1>2, <1>3, <1>4 DEF Check
<1>6. /\ base' = [base EXCEPT ![p] = h] /\ events' = Append(events, [page |-> p, severity |-> s])
      /\ UNCHANGED <<hashes, fingerprints, structures, saving, hashFile, eventFile, checks, saves, restarted,
                     overlapped>>
      /\ \/ breaker' = CD!DomSuccess(breaker) /\ check' = [check EXCEPT ![c] = CD!NoCheck]
         \/ breaker' = breaker /\ check' = [check EXCEPT ![c] = on] BY <1>1, <1>2, <1>4 DEF CD!Change, CD!Observe
<1>7. missed' = FALSE
 <2>1. missed' = (missed \/ FALSE) BY DEF CD!Change, CD!Observe
 <2> QED BY <1>3, <2>1
<1>8. PICK new \in {CD!NoCheck, on} : check' = [check EXCEPT ![c] = new] BY <1>6
<1>9. new \in Check /\ (new.at = "idle" \/ (new.at = "repair" /\ new.page = p)) BY <1>5, <1>8, ChangeNone
<1>10. events' \in Seq(ChangeEvent)
 <2>1. s \in {"minor", "moderate", "major"} BY <1>2 DEF CD!classifySeverity
 <2>2. [page |-> p, severity |-> s] \in ChangeEvent BY <1>3, <2>1 DEF ChangeEvent, CD!Severity
 <2> QED BY <1>3, <1>6, <2>2, Appends DEF ChangeTyped
<1>11. breaker' \in CD!DomBreakerState BY <1>3, <1>6, DomBreakerMoves DEF ChangeTyped
<1>12. ChangeTyped' BY ZenonT(90), <1>3, <1>6, <1>7, <1>8, <1>9, <1>10, <1>11, CheckTyped, Redrawn DEF ChangeTyped
<1>13. base'[p] = h /\ \A q \in PageIDs : q # p => base'[q] = base[q] BY <1>3, <1>6, Redrawn
<1>14. ASSUME Knows(check[c]) PROVE Even(p)'
 <2>1. hashes[p] = h /\ fingerprints[p] = h /\ structures[p] = h BY <1>1, <1>2, <1>3, <1>14 DEF Knows
 <2> QED BY <1>6, <1>13, <2>1 DEF Even
<1>15. ASSUME Knows(check[c]) PROVE IF new.at = "idle" THEN Even(p)' ELSE Knows(new)' BY <1>9, <1>14, <1>15 DEF Knows
<1>16. Alone'
 <2>1. check[c].at # "idle" /\ check[c].page = p /\ new \in Check /\ (new.page = p \/ new.at = "idle")
  BY <1>1, <1>2, <1>3, <1>9
 <2>2. /\ overlapped \subseteq overlapped'
       /\ \A q \in PageIDs : q # p => /\ hashes'[q] = hashes[q] /\ fingerprints'[q] = fingerprints[q]
                                      /\ structures'[q] = structures[q] /\ base'[q] = base[q] BY <1>6, <1>13
 <2> QED BY ONLY Zenon, ChangeInv, c \in Goroutines, <1>3, <1>8, <1>15, <2>1, <2>2, CheckMoves
<1> QED BY <1>12, <1>16 DEF ChangeInv

LEMMA RepairEnds == ASSUME ChangeInv, NEW c \in Goroutines, CD!Repair(c) PROVE ChangeInv'
<1>1. PICK p : p = check[c].page OBVIOUS
<1>2. /\ ChangeTyped /\ check[c].at = "repair" /\ check[c] \in Check /\ p \in PageIDs
 BY <1>1 DEF ChangeInv, ChangeTyped, CD!Repair
<1>3. /\ breaker' \in {CD!DomSuccess(breaker), CD!DomFailure(breaker)} /\ check' = [check EXCEPT ![c] = CD!NoCheck]
      /\ UNCHANGED <<hashes, fingerprints, structures, events, saving, hashFile, eventFile, checks, saves, restarted,
                     base, overlapped, missed>> BY DEF CD!Repair
<1>4. breaker' \in CD!DomBreakerState BY <1>2, <1>3, DomBreakerMoves DEF ChangeTyped
<1>5. ChangeTyped' BY <1>2, <1>3, <1>4, ChangeNone, CheckTyped DEF ChangeTyped
<1>6. ASSUME Knows(check[c]) PROVE Even(p)' BY <1>1, <1>2, <1>3, <1>6 DEF Knows, Even
<1>7. Alone' BY <1>1, <1>2, <1>3, <1>6, ChangeNone, CheckMoves
<1> QED BY <1>5, <1>7 DEF ChangeInv

LEMMA FileMoves == ASSUME ChangeInv, CD!CooldownPasses \/ CD!SaveHashes \/ CD!SaveEvents PROVE ChangeInv'
<1>1. ChangeTyped BY DEF ChangeInv
<1>2. UNCHANGED <<hashes, fingerprints, structures, check, base, overlapped>>
 BY DEF CD!CooldownPasses, CD!SaveHashes, CD!SaveEvents
<1>3. Alone' BY <1>2 DEF ChangeInv, Alone, Knows, Even, CD!Checking
<1>4. CASE CD!CooldownPasses
 <2>1. breaker' \in CD!DomBreakerState BY <1>1, <1>4, DomBreakerMoves DEF ChangeTyped, CD!CooldownPasses
 <2>2. ChangeTyped' BY <1>1, <1>4, <2>1 DEF ChangeTyped, CD!CooldownPasses
 <2> QED BY <1>3, <2>2 DEF ChangeInv
<1>5. CASE CD!SaveHashes
 <2>1. saves' \in 0..MaxSaves /\ saving' \in BOOLEAN BY <1>1, <1>5, ChangeConstants DEF ChangeTyped, CD!SaveHashes
 <2>2. ChangeTyped' BY <1>1, <1>5, <2>1 DEF ChangeTyped, CD!SaveHashes
 <2> QED BY <1>3, <2>2 DEF ChangeInv
<1>6. CASE CD!SaveEvents
 <2>1. ChangeTyped' BY <1>1, <1>6 DEF ChangeTyped, CD!SaveEvents
 <2> QED BY <1>3, <2>1 DEF ChangeInv
<1> QED BY <1>4, <1>5, <1>6

LEMMA RestartMoves == ASSUME ChangeInv, CD!Restart PROVE ChangeInv'
<1>1. ChangeTyped BY DEF ChangeInv
<1>2. /\ restarted < MaxRestarts /\ restarted' = restarted + 1 /\ hashes' = hashFile /\ events' = eventFile
      /\ fingerprints' = CD!Blank /\ structures' = CD!Blank /\ base' = CD!Blank
      /\ breaker' = CD!NewDomBreaker /\ check' = [c \in Goroutines |-> CD!NoCheck] /\ saving' = FALSE
      /\ UNCHANGED <<hashFile, eventFile, checks, saves, overlapped, missed>> BY DEF CD!Restart
<1>3. breaker' \in CD!DomBreakerState BY <1>2, ChangeConstants DEF CD!DomBreakerState, CD!NewDomBreaker
<1>4. restarted' \in 0..MaxRestarts BY <1>1, <1>2, ChangeConstants DEF ChangeTyped
<1>5. check' \in [Goroutines -> Check] /\ \A c \in Goroutines : check'[c].at = "idle" BY <1>2, ChangeNone
<1>6. ChangeTyped' BY <1>1, <1>2, <1>3, <1>4, <1>5, ChangeNone DEF ChangeTyped
<1>7. \A p \in PageIDs : CD!Checking(p)' = {} /\ Even(p)' BY <1>2, <1>5, ChangeNone DEF CD!Checking, Even
<1> QED BY <1>6, <1>7 DEF ChangeInv, Alone

LEMMA ChangeNext == ASSUME ChangeInv, CD!Next PROVE ChangeInv'
BY BeginMoves, HashMoves, FingerprintMoves, ReadMoves, StructureMoves, NoChangeMoves, ChangeMoves,
   RepairEnds, FileMoves, RestartMoves DEF CD!Next

LEMMA ChangeHolds == ASSUME ChangeInv PROVE CD!TypeOK /\ CD!NoChangeMissed /\ CD!BaselinesAgree
<1>1. ChangeTyped /\ Alone BY DEF ChangeInv
<1>2. \A c \in Goroutines : check[c].at \in {"idle", "hash", "fingerprint", "structure", "store",
                                             "decide", "repair"} BY <1>1 DEF ChangeTyped, Check
<1>3. \A s \in {events, eventFile} : \A n \in DOMAIN s : s[n] \in ChangeEvent BY <1>1, Elements DEF ChangeTyped
<1>4. CD!TypeOK
 <2>1. {hashes, fingerprints, structures, hashFile, base} \subseteq [PageIDs -> Contents \cup {Null}]
  BY <1>1 DEF ChangeTyped, Pictures
 <2>2. {saving, missed} \subseteq BOOLEAN BY <1>1 DEF ChangeTyped
 <2> QED BY <1>1, <1>2, <1>3, <2>1, <2>2 DEF CD!TypeOK, ChangeTyped, ChangeEvent
<1>5. CD!NoChangeMissed BY <1>1 DEF CD!NoChangeMissed, ChangeTyped
<1>6. CD!BaselinesAgree
 <2> SUFFICES ASSUME NEW p \in PageIDs \ overlapped, CD!Checking(p) = {}
              PROVE  /\ fingerprints[p] = structures[p]
                     /\ fingerprints[p] # Null => fingerprints[p] = hashes[p] BY DEF CD!BaselinesAgree
 <2>1. Even(p) BY <1>1 DEF Alone
 <2> QED BY <2>1 DEF Even
<1> QED BY <1>4, <1>5, <1>6

(* The files of the pattern store and of the repair log: the store is as the calls that returned left
   it, or broken, and what an Append without another one has read is what was in the log. *)

LEMMA FileBounds == MaxPatterns \in Nat /\ MaxEntries \in Nat /\ MaxCrashes \in Nat
BY ToolkitAssumption DEF ToolkitAssumption, SR!FilesAssumption

LEMMA FileNone == SR!NoTurn \in Turns /\ SR!NoTurn.at = "free" /\ SR!NoJob \in Jobs /\ SR!NoJob.at = "idle"
BY FileBounds DEF Turns, Jobs, Logs, SR!NoTurn, SR!NoJob

LEMMA FileInit == ASSUME Init PROVE FileInv
<1>1. /\ store = [p \in PageIDs |-> 0] /\ turn = SR!NoTurn /\ wanted = store
      /\ repairs = <<>> /\ job = [w \in Goroutines |-> SR!NoJob]
      /\ patterns = 0 /\ entries = 0 /\ crashes = 0 /\ logged = {} /\ apart = TRUE BY DEF Init, SR!FilesInit
<1>2. StoreSide BY <1>1, FileBounds, FileNone DEF StoreSide, Maps
<1>3. /\ job \in [Goroutines -> Jobs] /\ \A w \in Goroutines : ~AtLog(w)
      /\ repairs \in Logs /\ DOMAIN repairs = {} BY <1>1, FileNone DEF AtLog, Logs
<1> QED BY <1>1, <1>2, <1>3, FileBounds DEF FileInv, LogSide, LogTyped, Kept, Ordered

LEMMA FileRests == FileInv /\ UNCHANGED fileVars => FileInv'
BY DEF FileInv, fileVars, StoreSide, LogSide, LogTyped, AtLog, Kept

LEMMA PatternsRest == ASSUME StoreSide, UNCHANGED <<store, turn, patterns, wanted>> PROVE StoreSide'
BY DEF StoreSide

LEMMA LogRests == ASSUME LogSide, UNCHANGED <<repairs, entries, logged, apart, job, crashes>> PROVE LogSide'
BY DEF LogSide, LogTyped, AtLog, Kept

LEMMA StoreMoves ==
  ASSUME FileInv, \/ \E p \in PageIDs : SR!Save(p) \/ SR!Delete(p)
                  \/ SR!Loaded \/ (\E good \in BOOLEAN : SR!saveMap(good)) \/ SR!Written PROVE  FileInv'
<1>1. StoreSide /\ turn \in Turns /\ SR!NoTurn \in Turns /\ SR!NoTurn.at = "free" BY FileNone DEF FileInv, StoreSide
<1>2. ASSUME NEW p \in PageIDs, SR!Save(p) \/ SR!Delete(p) PROVE StoreSide'
 <2>1. patterns + 1 \in 0..MaxPatterns
  <3>1. patterns < MaxPatterns BY <1>2, Zenon DEF SR!Save, SR!Delete
  <3> QED BY <1>1, <3>1, FileBounds DEF StoreSide
 <2>2. CASE SR!Save(p)
  <3>1. turn' = [SR!NoTurn EXCEPT !.at = "load", !.page = p, !.new = patterns + 1] BY Zenon, <2>2 DEF SR!Save
  <3>2. turn' \in Turns /\ turn'.at = "load" BY <1>1, <2>1, <3>1 DEF Turns
  <3> QED BY Zenon, <1>1, <2>1, <2>2, <3>2 DEF StoreSide, SR!Save
 <2>3. CASE SR!Delete(p)
  <3>1. turn' = [SR!NoTurn EXCEPT !.at = "load", !.page = p] BY Zenon, <2>3 DEF SR!Delete
  <3>2. turn' \in Turns /\ turn'.at = "load" BY <1>1, <3>1 DEF Turns
  <3> QED BY Zenon, <1>1, <2>1, <2>3, <3>2 DEF StoreSide, SR!Delete
 <2> QED BY <1>2, <2>2, <2>3
<1>3. ASSUME SR!Loaded PROVE StoreSide'
 <2>1. CASE turn' = SR!NoTurn BY <1>1, <1>3, <2>1 DEF StoreSide, SR!Loaded
 <2>2. CASE turn' # SR!NoTurn
  <3>1. turn' = [turn EXCEPT !.at = "save", !.map = store] /\ store # Broken BY <1>3, <2>2 DEF SR!Loaded, SR!loadMap
  <3>2. store = wanted /\ store \in Maps BY <1>1, <3>1 DEF StoreSide
  <3>3. turn' \in Turns /\ turn'.map = wanted BY <1>1, <3>1, <3>2 DEF Turns
  <3> QED BY <1>1, <1>3, <3>3 DEF StoreSide, SR!Loaded
 <2> QED BY <2>1, <2>2
<1>4. ASSUME NEW good \in BOOLEAN, SR!saveMap(good) PROVE StoreSide'
 <2>1. CASE good
  <3>1. turn' = [turn EXCEPT !.at = "write"] /\ store' = Broken /\ turn.at = "save" BY <1>4, <2>1 DEF SR!saveMap
  <3>2. turn' \in Turns /\ turn'.map = turn.map BY <1>1, <3>1 DEF Turns
  <3> QED BY <1>1, <1>4, <3>1, <3>2 DEF StoreSide, SR!saveMap
 <2>2. CASE ~good BY <1>1, <1>4, <2>2 DEF StoreSide, SR!saveMap
 <2> QED BY <2>1, <2>2
<1>5. ASSUME SR!Written PROVE StoreSide'
 <2>1. /\ turn.map = wanted /\ turn' = SR!NoTurn /\ store' = wanted' /\ UNCHANGED patterns
       /\ wanted' = [wanted EXCEPT ![turn.page] = turn.new] BY <1>1, <1>5 DEF SR!Written, StoreSide
 <2>2. wanted' \in Maps BY <1>1, <2>1 DEF StoreSide, Maps, Turns
 <2> QED BY <1>1, <2>1, <2>2 DEF StoreSide
<1>6. UNCHANGED <<repairs, entries, logged, apart, job, crashes>>
 BY Zenon DEF SR!Save, SR!Delete, SR!Loaded, SR!saveMap, SR!Written, SR!logVars
<1> QED BY <1>2, <1>3, <1>4, <1>5, <1>6, LogRests DEF FileInv

LEMMA AppendMoves == ASSUME FileInv, NEW w \in Goroutines, SR!Append_(w) PROVE FileInv'
<1>1. LogTyped /\ ~AtLog(w) /\ entries + 1 \in 1..MaxEntries /\ entries \in Nat /\ MaxEntries \in Nat
 BY FileBounds DEF FileInv, LogSide, LogTyped, AtLog, SR!Append_
<1>2. PICK read : read = IF repairs = Broken THEN <<>> ELSE repairs OBVIOUS
<1>3. read \in Logs /\ \A n \in DOMAIN read : read[n] <= entries
 <2>1. CASE repairs = Broken BY <1>2, <2>1 DEF Logs
 <2>2. CASE repairs # Broken BY <1>1, <1>2, <2>2 DEF LogTyped
 <2> QED BY <2>1, <2>2
<1>4. PICK new : new = [at |-> "write", entry |-> entries + 1, read |-> read] OBVIOUS
<1>5. /\ entries' = entries + 1 /\ job' = [job EXCEPT ![w] = new]
      /\ apart' = (apart /\ repairs # Broken /\ \A v \in Goroutines : job[v].at = "idle")
      /\ UNCHANGED <<repairs, crashes, logged>> /\ UNCHANGED <<store, turn, patterns, wanted>>
 BY <1>2, <1>4 DEF SR!Append_, SR!storeVars
<1>6. new \in Jobs /\ new.at = "write" /\ new.entry = entries + 1 /\ new.read = read BY <1>1, <1>3, <1>4 DEF Jobs
<1>7. /\ job' \in [Goroutines -> Jobs] /\ job'[w] = new
      /\ \A v \in Goroutines : v # w => job'[v] = job[v] BY <1>1, <1>5, <1>6 DEF LogTyped
<1>8. \A n \in DOMAIN read : read[n] \in Nat /\ read[n] < entries + 1
 <2>1. \A n \in DOMAIN read : read[n] \in 1..MaxEntries BY <1>3, Elements DEF Logs
 <2> QED BY <1>1, <1>3, <2>1
<1>9. LogTyped'
 <2>1. repairs' # Broken => repairs' \in Logs /\ \A n \in DOMAIN repairs' : repairs'[n] <= entries'
  BY <1>1, <1>2, <1>5, <1>8 DEF LogTyped
 <2>2. apart' \in BOOLEAN BY <1>5, Zenon
 <2> QED BY <1>1, <1>5, <1>7, <2>1, <2>2 DEF LogTyped
<1>10. ASSUME NEW v \in Goroutines, AtLog(v)'
       PROVE  /\ job'[v].entry \in 1..entries'
              /\ \A n \in DOMAIN job'[v].read : job'[v].read[n] < job'[v].entry
 <2>1. CASE v = w BY <1>1, <1>5, <1>6, <1>7, <1>8, <2>1
 <2>2. CASE v # w
  <3>1. job[v].entry \in 1..entries /\ \A n \in DOMAIN job[v].read : job[v].read[n] < job[v].entry
   BY <1>7, <1>10, <2>2 DEF FileInv, LogSide, AtLog
  <3>2. job'[v].entry \in 1..entries' BY <1>1, <1>5, <1>7, <2>2, <3>1
  <3> QED BY <1>7, <2>2, <3>1, <3>2
 <2> QED BY <2>1, <2>2
<1>11. ASSUME apart'
       PROVE  /\ \A u, v \in Goroutines : AtLog(u)' /\ AtLog(v)' => u = v
              /\ Kept(repairs)'
              /\ \A v \in Goroutines : AtLog(v)' => Kept(job[v].read)'
 <2>1. apart /\ repairs # Broken /\ \A v \in Goroutines : job[v].at = "idle" BY <1>5, <1>11, Zenon
 <2>2. \A v \in Goroutines : AtLog(v)' => v = w BY <1>7, <2>1 DEF AtLog
 <2>3. Kept(repairs) /\ read = repairs BY <1>2, <2>1 DEF FileInv, LogSide
 <2> QED BY <1>5, <1>6, <1>7, <2>2, <2>3 DEF Kept
<1>12. LogSide' BY <1>9, <1>10, <1>11 DEF LogSide
<1> QED BY <1>5, <1>12, PatternsRest DEF FileInv

LEMMA EmptyMoves == ASSUME FileInv, NEW w \in Goroutines, SR!Empty(w) PROVE FileInv'
<1>1. LogTyped /\ AtLog(w) /\ job[w] \in Jobs BY DEF FileInv, LogSide, LogTyped, AtLog, SR!Empty
<1>2. PICK new : new = [job[w] EXCEPT !.at = "fill"] OBVIOUS
<1>3. new \in Jobs /\ new.at = "fill" /\ new.entry = job[w].entry /\ new.read = job[w].read BY <1>1, <1>2 DEF Jobs
<1>4. /\ repairs' = Broken /\ job' = [job EXCEPT ![w] = new]
      /\ UNCHANGED <<crashes, entries, logged, apart>> /\ UNCHANGED <<store, turn, patterns, wanted>>
 BY <1>2 DEF SR!Empty, SR!storeVars
<1>5. /\ job' \in [Goroutines -> Jobs] /\ job'[w] = new
      /\ \A v \in Goroutines : v # w => job'[v] = job[v] BY <1>1, <1>3, <1>4 DEF LogTyped
<1>6. \A v \in Goroutines : /\ AtLog(v)' <=> AtLog(v)
                            /\ job'[v].entry = job[v].entry /\ job'[v].read = job[v].read
 BY <1>1, <1>3, <1>5 DEF AtLog
<1>7. LogSide' BY <1>1, <1>4, <1>5, <1>6 DEF FileInv, LogSide, LogTyped, Kept
<1> QED BY <1>4, <1>7, PatternsRest DEF FileInv

LEMMA FillMoves == ASSUME FileInv, NEW w \in Goroutines, SR!Fill(w) PROVE FileInv'
<1>1. /\ LogTyped /\ AtLog(w) /\ job[w] \in Jobs /\ job[w].entry \in 1..entries /\ entries \in 0..MaxEntries
      /\ \A n \in DOMAIN job[w].read : job[w].read[n] < job[w].entry BY DEF FileInv, LogSide, LogTyped, AtLog, SR!Fill
<1>2. PICK read, e : read = job[w].read /\ e = job[w].entry OBVIOUS
<1>3. read \in Logs /\ e \in 1..MaxEntries /\ e <= entries /\ \A n \in DOMAIN read : read[n] < e
 BY <1>1, <1>2, FileBounds DEF Jobs
<1>4. /\ repairs' = Append(read, e) \/ repairs' = Broken
      /\ logged' = logged \cup {e} /\ job' = [job EXCEPT ![w] = SR!NoJob]
      /\ UNCHANGED <<crashes, entries, apart>> /\ UNCHANGED <<store, turn, patterns, wanted>>
 BY <1>2 DEF SR!Fill, SR!storeVars
<1>5. /\ job' \in [Goroutines -> Jobs] /\ ~AtLog(w)'
      /\ \A v \in Goroutines : v # w => job'[v] = job[v] BY <1>1, <1>4, FileNone DEF LogTyped, AtLog
<1>6. PICK s : s = Append(read, e) OBVIOUS
<1>7. /\ s \in Logs /\ Len(read) \in Nat /\ DOMAIN read = 1..Len(read) /\ DOMAIN s = 1..(Len(read) + 1)
      /\ \A j \in 1..Len(read) : s[j] = read[j]
      /\ s[Len(read) + 1] = e BY <1>3, <1>6, Appends DEF Logs
<1>8. \A j \in 1..(Len(read) + 1) : j \in 1..Len(read) \/ j = Len(read) + 1 BY <1>7
<1>9. \A n \in DOMAIN s : s[n] <= entries
 <2>1. \A n \in DOMAIN read : read[n] \in Nat
  <3>1. \A n \in DOMAIN read : read[n] \in 1..MaxEntries BY <1>3, Elements DEF Logs
  <3> QED BY <3>1
 <2> QED BY <1>1, <1>3, <1>7, <1>8, <2>1
<1>10. ASSUME apart PROVE Ordered(s) /\ \A x \in logged \cup {e} : Has(s, x)
 <2>1. Kept(read) BY <1>1, <1>2, <1>10 DEF FileInv, LogSide
 <2>2. ASSUME NEW m \in DOMAIN s, NEW n \in DOMAIN s, m < n PROVE s[m] < s[n]
  <3>1. m \in 1..Len(read) BY <1>7, <2>2
  <3>2. CASE n \in 1..Len(read) BY <1>7, <2>1, <2>2, <3>1, <3>2 DEF Kept, Ordered
  <3>3. CASE n = Len(read) + 1 BY <1>3, <1>7, <3>1, <3>3
  <3> QED BY <1>7, <1>8, <3>2, <3>3
 <2>3. \A x : Has(s, x) <=> Has(read, x) \/ x = e BY <1>3, <1>6, OnceAppended DEF Logs
 <2> QED BY <2>1, <2>2, <2>3 DEF Kept, Ordered
<1>11. LogTyped' BY <1>1, <1>3, <1>4, <1>5, <1>6, <1>7, <1>9 DEF LogTyped
<1>12. \A v \in Goroutines : AtLog(v)' => AtLog(v) /\ v # w /\ job'[v] = job[v] BY <1>5 DEF AtLog
<1>13. ASSUME apart
       PROVE  /\ \A v \in Goroutines : ~AtLog(v)'
              /\ repairs' # Broken => Kept(repairs)'
 BY <1>1, <1>4, <1>6, <1>10, <1>12, <1>13 DEF Kept, FileInv, LogSide
<1>14. LogSide' BY <1>4, <1>11, <1>12, <1>13 DEF FileInv, LogSide
<1> QED BY <1>4, <1>14, PatternsRest DEF FileInv

LEMMA CrashMoves == ASSUME FileInv, SR!Crash PROVE FileInv'
<1>1. /\ turn' = SR!NoTurn /\ job' = [w \in Goroutines |-> SR!NoJob] /\ crashes' = crashes + 1
      /\ crashes < MaxCrashes /\ UNCHANGED <<store, repairs, patterns, entries, wanted, logged, apart>>
 BY DEF SR!Crash
<1>2. StoreSide' BY <1>1, FileNone DEF FileInv, StoreSide
<1>3. job' \in [Goroutines -> Jobs] /\ \A w \in Goroutines : ~AtLog(w)' BY <1>1, FileNone DEF AtLog
<1>4. crashes' \in 0..MaxCrashes BY <1>1, FileBounds DEF FileInv, LogSide, LogTyped
<1>5. LogSide' BY <1>1, <1>3, <1>4 DEF FileInv, LogSide, LogTyped, Kept
<1> QED BY <1>2, <1>5 DEF FileInv

LEMMA FileNext == ASSUME FileInv, SR!FilesNext PROVE FileInv'
BY StoreMoves, AppendMoves, EmptyMoves, FillMoves, CrashMoves DEF SR!FilesNext

LEMMA FileHolds == ASSUME FileInv PROVE SR!FilesTypeOK /\ SR!StoreKeepsPatterns /\ SR!LogKeepsEntries
<1>1. StoreSide /\ LogSide /\ LogTyped BY DEF FileInv, LogSide
<1>2. repairs # Broken => \A n \in DOMAIN repairs : repairs[n] \in 1..MaxEntries BY <1>1, Elements DEF LogTyped, Logs
<1>3. \A w \in Goroutines : job[w].at \in {"idle", "read", "write", "fill"} BY <1>1 DEF LogTyped, Jobs
<1>4. /\ turn.at \in {"free", "load", "save", "write"} /\ turn.new \in 0..MaxPatterns
      /\ store \in Maps \cup {Broken} BY <1>1 DEF StoreSide, Turns
<1>5. SR!FilesTypeOK BY <1>1, <1>2, <1>3, <1>4 DEF SR!FilesTypeOK, StoreSide, LogTyped, Maps
<1>6. SR!StoreKeepsPatterns BY <1>1 DEF SR!StoreKeepsPatterns, StoreSide
<1>7. SR!LogKeepsEntries
 <2> SUFFICES ASSUME apart, repairs # Broken
              PROVE  /\ logged \subseteq SR!Range(repairs)
                     /\ \A m, n \in DOMAIN repairs : m < n => repairs[m] < repairs[n] BY DEF SR!LogKeepsEntries
 <2>1. Kept(repairs) BY <1>1 DEF LogSide
 <2> QED BY <2>1 DEF Kept, Ordered, Has, SR!Range
<1> QED BY <1>5, <1>6, <1>7

(* The drift alerts: a number per alert, an alert per change. *)

LEMMA DriftConstants ==
  /\ IsFiniteSet(Goroutines) /\ Null \notin Int
  /\ Boost \in Nat /\ MaxChecks \in Nat /\ MaxUpdates \in Nat /\ MaxHandoffs \in Nat
BY ToolkitAssumption DEF DA!DriftAssumption, DA!IsFiniteSet, IsFiniteSet

LEMMA CallersFinite == ASSUME NEW S, S \subseteq Goroutines PROVE IsFiniteSet(S) /\ Cardinality(S) \in Nat
BY DriftConstants, FS_Subset, FS_CardinalityType

LEMMA AlertsFinite == ASSUME DriftInv, NEW s PROVE IsFiniteSet(AlertsOf(s)) /\ Cardinality(AlertsOf(s)) \in Nat
<1>1. Len(alerts) \in Nat /\ Len(alerts) \in Int /\ 1 \in Int /\ AlertsOf(s) \subseteq 1..Len(alerts)
 BY DEF DriftInv, DriftTyped, AlertsOf
<1>2. IsFiniteSet(1..Len(alerts)) BY <1>1, FS_Interval
<1> QED BY <1>1, <1>2, FS_Subset, FS_CardinalityType

LEMMA DriftInit == ASSUME DA!Init PROVE DriftInv
<1>1. /\ hash = [s \in Items |-> Null] /\ table = [s \in Items |-> Null] /\ step = [c \in Goroutines |-> DA!Calm]
      /\ alerts = <<>> /\ ids = <<>> /\ nextID = 0 /\ told = <<>> /\ passedOn = <<>>
      /\ checked = 0 /\ updates = 0 /\ changes = [s \in Items |-> 0] /\ resolved = {} /\ lowest = FALSE BY DEF DA!Init
<1>2. DA!Calm \in DriftStep /\ DA!Calm.at = "idle" BY DEF DA!Calm, DriftStep
<1>3. Meeters = {} /\ \A s : MeetersOf(s) = {} BY <1>1, <1>2 DEF Meeters, MeetersOf
<1>4. /\ alerts \in Seq(DriftAlert) /\ ids \in Seq(Nat) /\ passedOn \in Seq(Nat)
      /\ DOMAIN ids = {} /\ DOMAIN alerts = {} /\ DOMAIN passedOn = {}
      /\ Len(ids) = 0 /\ Len(alerts) = 0 /\ Len(passedOn) = 0 BY <1>1
<1>5. \A s : AlertsOf(s) = {} BY <1>4 DEF AlertsOf
<1>6. Cardinality({}) = 0 BY FS_EmptySet
<1>7. DriftTyped
 <2>1. step \in [Goroutines -> DriftStep] BY <1>1, <1>2
 <2>2. changes \in [Items -> Nat] /\ hash \in [Items -> Htmls \cup {Null}]
       /\ table \in [Items -> 0..100 \cup {Null}] BY <1>1
 <2>3. checked \in 0..MaxChecks /\ updates \in 0..MaxUpdates /\ nextID = 0 BY <1>1, DriftConstants
 <2> QED BY <1>1, <1>3, <1>4, <2>1, <2>2, <2>3 DEF DriftTyped
<1>8. DriftCounts
 <2>1. \A s \in Items : changes[s] = 0 BY <1>1
 <2>2. /\ \A s : Cardinality(AlertsOf(s)) = 0 /\ Cardinality(MeetersOf(s)) = 0
       /\ Cardinality(Meeters) = 0 BY <1>3, <1>5, <1>6
 <2>3. nextID = 0 /\ checked = 0 BY <1>1
 <2> QED BY <2>1, <2>2, <2>3 DEF DriftCounts
<1>9. DriftLists BY <1>1, <1>4, DriftConstants DEF DriftLists
<1> QED BY <1>7, <1>8, <1>9 DEF DriftInv

LEMMA DriftRests == ASSUME DriftInv, UNCHANGED driftVars PROVE DriftInv'
<1>1. /\ UNCHANGED <<hash, table, step, alerts, ids, nextID, told, passedOn, checked, updates, changes, resolved,
                     lowest>> BY DEF driftVars
<1>2. DriftTyped' BY <1>1 DEF DriftInv, DriftTyped, Meeters
<1>3. DriftCounts' BY <1>1 DEF DriftInv, DriftCounts, AlertsOf, MeetersOf, Meeters
<1>4. DriftLists' BY <1>1 DEF DriftInv, DriftLists
<1> QED BY <1>2, <1>3, <1>4 DEF DriftInv

\* The statements on the table.
LEMMA TableKeeps ==
  ASSUME DriftInv, table' \in [Items -> 0..100 \cup {Null}], updates < MaxUpdates,
         updates' = updates + 1, lowest' = lowest,
         UNCHANGED <<hash, step, alerts, ids, nextID, told, passedOn, checked, changes, resolved>> PROVE  DriftInv'
<1>1. updates' \in 0..MaxUpdates BY DriftConstants DEF DriftInv, DriftTyped
<1>2. DriftTyped' BY <1>1 DEF DriftInv, DriftTyped, Meeters
<1>3. DriftCounts' BY DEF DriftInv, DriftCounts, AlertsOf, MeetersOf, Meeters
<1>4. DriftLists' BY DEF DriftInv, DriftLists
<1> QED BY <1>2, <1>3, <1>4 DEF DriftInv

LEMMA TableStatements ==
  ASSUME DriftInv,
         \/ \E s \in Items : \E conf \in {15, 90} : DA!SavePattern(s, conf)
         \/ \E S \in SUBSET Items : S # {} /\ DA!DecayConfidence(S)
         \/ \E s \in Items : DA!BoostConfidence(s) PROVE  DriftInv'
<1>1. table \in [Items -> 0..100 \cup {Null}] /\ lowest = FALSE BY DEF DriftInv, DriftTyped
<1>2. \A s \in Items : table[s] # Null => table[s] \in 0..100 BY <1>1
<1>3. ASSUME NEW s \in Items, NEW conf \in {15, 90}, DA!SavePattern(s, conf) PROVE DriftInv'
 <2>1. table' = [table EXCEPT ![s] = conf] /\ conf \in 0..100 BY <1>3 DEF DA!SavePattern
 <2>2. table' \in [Items -> 0..100 \cup {Null}] BY <1>1, <2>1
 <2> QED BY <1>3, <2>2, TableKeeps DEF DA!SavePattern, DA!alertVars
<1>4. ASSUME NEW S \in SUBSET Items, DA!DecayConfidence(S) PROVE DriftInv'
 <2>1. /\ table' = [s \in Items |-> IF s \in S /\ table[s] # Null /\ table[s] > 10 THEN table[s] \div 2 ELSE table[s]]
       /\ lowest' = (lowest \/ \E s \in S : table'[s] # Null /\ table'[s] < 5 /\ table[s] >= 5)
  BY <1>4 DEF DA!DecayConfidence
 <2>2. ASSUME NEW s \in Items
       PROVE  /\ table'[s] \in 0..100 \cup {Null}
              /\ ~(table'[s] # Null /\ table'[s] < 5 /\ table[s] >= 5)
  <3>1. CASE s \in S /\ table[s] # Null /\ table[s] > 10
   <4>1. table'[s] = table[s] \div 2 /\ table[s] \in 0..100 BY <1>2, <2>1, <3>1
   <4> QED BY <3>1, <4>1
  <3>2. CASE ~(s \in S /\ table[s] # Null /\ table[s] > 10)
   <4>1. table'[s] = table[s] BY <2>1, <3>2
   <4>2. CASE table[s] = Null BY <4>1, <4>2
   <4>3. CASE table[s] # Null BY <1>2, <4>1, <4>3
   <4> QED BY <4>2, <4>3
  <3> QED BY <3>1, <3>2
 <2>3. table' \in [Items -> 0..100 \cup {Null}] BY <2>1, <2>2
 <2>4. ~\E s \in S : table'[s] # Null /\ table'[s] < 5 /\ table[s] >= 5 BY <2>2
 <2>5. lowest' = lowest BY <1>1, <2>1, <2>4
 <2> QED BY <1>4, <2>3, <2>5, TableKeeps DEF DA!DecayConfidence, DA!alertVars
<1>5. ASSUME NEW s \in Items, DA!BoostConfidence(s) PROVE DriftInv'
 <2> DEFINE up == IF table[s] = Null THEN table[s] ELSE IF table[s] + Boost > 100 THEN 100 ELSE table[s] + Boost
 <2>1. table' = [table EXCEPT ![s] = up] BY <1>5 DEF DA!BoostConfidence
 <2>2. up \in 0..100 \cup {Null} BY <1>2, DriftConstants
 <2> HIDE DEF up
 <2>3. table' \in [Items -> 0..100 \cup {Null}] BY <1>1, <2>1, <2>2
 <2> QED BY <1>5, <2>3, TableKeeps DEF DA!BoostConfidence, DA!alertVars
<1> QED BY <1>3, <1>4, <1>5

\* CheckDrift.
LEMMA CheckDriftKeeps ==
  ASSUME DriftInv, NEW c \in Goroutines, NEW p \in Items, NEW h \in Htmls, DA!CheckDrift(c, p, h) PROVE  DriftInv'
<1> DEFINE drifted == hash[p] \notin {Null, h}
           begun   == [DA!Calm EXCEPT !.at = "get", !.site = p]
<1>1. /\ step[c].at = "idle" /\ checked < MaxChecks /\ checked' = checked + 1 /\ hash' = [hash EXCEPT ![p] = h]
      /\ step' = (IF drifted THEN [step EXCEPT ![c] = begun] ELSE step)
      /\ changes' = [changes EXCEPT ![p] = IF drifted THEN @ + 1 ELSE @]
      /\ UNCHANGED <<table, alerts, ids, nextID, told, passedOn, updates, resolved, lowest>>
 BY DEF DA!CheckDrift, DA!alertVars
<1>2. /\ hash \in [Items -> Htmls \cup {Null}] /\ table \in [Items -> 0..100 \cup {Null}]
      /\ step \in [Goroutines -> DriftStep] /\ \A d \in Meeters : step[d].site \in Items
      /\ checked \in 0..MaxChecks /\ changes \in [Items -> Nat] /\ MaxChecks \in Nat
 BY DriftConstants DEF DriftInv, DriftTyped
<1>3. /\ begun \in DriftStep /\ begun.at = "get" /\ begun.site = p
 <2>1. DA!Calm \in DriftStep BY DEF DA!Calm, DriftStep
 <2> QED BY <2>1 DEF DriftStep
<1>4. /\ \A s \in Items : /\ changes[s] = Cardinality(AlertsOf(s)) + Cardinality(MeetersOf(s))
                          /\ changes[s] <= checked
      /\ nextID + Cardinality(Meeters) <= checked /\ nextID \in Nat BY DEF DriftInv, DriftCounts, DriftTyped
<1>5. \A s : AlertsOf(s)' = AlertsOf(s) BY <1>1 DEF AlertsOf
<1>6. hash' \in [Items -> Htmls \cup {Null}] /\ checked' \in 0..MaxChecks BY <1>1, <1>2
<1>7. DriftLists' BY <1>1 DEF DriftInv, DriftLists
<1> HIDE DEF begun, drifted
<1>8. CASE ~drifted
 <2>1. /\ step' = step /\ changes' = changes BY <1>1, <1>2, <1>8
 <2>2. Meeters' = Meeters /\ \A s : MeetersOf(s)' = MeetersOf(s) BY <2>1 DEF Meeters, MeetersOf
 <2>3. DriftTyped' BY <1>1, <1>6, <2>1, <2>2 DEF DriftInv, DriftTyped
 <2>4. Cardinality(Meeters) \in Nat BY CallersFinite DEF Meeters
 <2>5. DriftCounts' BY <1>1, <1>2, <1>4, <1>5, <2>1, <2>2, <2>4 DEF DriftCounts
 <2> QED BY <1>7, <2>3, <2>5 DEF DriftInv
<1>9. CASE drifted
 <2>1. /\ step' = [step EXCEPT ![c] = begun] /\ changes' = [changes EXCEPT ![p] = @ + 1] BY <1>1, <1>9
 <2>2. /\ step' \in [Goroutines -> DriftStep] /\ step'[c] = begun
       /\ \A d \in Goroutines : d # c => step'[d] = step[d]
       /\ changes' \in [Items -> Nat] /\ changes'[p] = changes[p] + 1
       /\ \A s \in Items : s # p => changes'[s] = changes[s] BY <1>2, <1>3, <2>1
 <2>3. /\ Meeters' = Meeters \cup {c} /\ c \notin Meeters
       /\ MeetersOf(p)' = MeetersOf(p) \cup {c} /\ c \notin MeetersOf(p)
       /\ \A s : s # p => MeetersOf(s)' = MeetersOf(s) BY <1>1, <1>3, <2>2 DEF Meeters, MeetersOf
 <2>4. /\ Cardinality(Meeters)' = Cardinality(Meeters) + 1 /\ Cardinality(Meeters) \in Nat
       /\ Cardinality(MeetersOf(p))' = Cardinality(MeetersOf(p)) + 1
  <3>1. IsFiniteSet(Meeters) /\ IsFiniteSet(MeetersOf(p)) /\ Cardinality(Meeters) \in Nat
   BY CallersFinite DEF Meeters, MeetersOf
  <3> QED BY ZenonT(90), <2>3, <3>1, FS_AddElement
 <2>5. \A d \in Meeters' : step'[d].site \in Items BY <1>2, <1>3, <2>2, <2>3 DEF Meeters
 <2>6. DriftTyped' BY <1>1, <1>6, <2>2, <2>5 DEF DriftInv, DriftTyped
 <2>7. ASSUME NEW s \in Items
       PROVE  /\ changes'[s] = Cardinality(AlertsOf(s))' + Cardinality(MeetersOf(s))' /\ changes'[s] <= checked'
  <3>1. /\ Cardinality(MeetersOf(s)) \in Nat /\ changes[s] \in Nat BY <1>2, CallersFinite DEF MeetersOf
  <3>2. Cardinality(AlertsOf(s))' = Cardinality(AlertsOf(s)) BY <1>5
  <3>3. Cardinality(AlertsOf(s)) \in Nat BY AlertsFinite
  <3>4. CASE s = p BY <1>1, <1>2, <1>4, <2>2, <2>4, <3>1, <3>2, <3>3, <3>4
  <3>5. CASE s # p
   <4>1. Cardinality(MeetersOf(s))' = Cardinality(MeetersOf(s)) BY <2>3, <3>5
   <4> QED BY <1>1, <1>2, <1>4, <2>2, <3>1, <3>2, <3>5, <4>1
  <3> QED BY <3>4, <3>5
 <2>8. nextID' + Cardinality(Meeters)' <= checked' BY <1>1, <1>2, <1>4, <2>4
 <2> QED BY <1>7, <2>6, <2>7, <2>8 DEF DriftInv, DriftCounts
<1> QED BY <1>8, <1>9

\* GetPattern.
LEMMA GetPatternKeeps == ASSUME DriftInv, NEW c \in Goroutines, DA!GetPattern(c) PROVE DriftInv'
<1> DEFINE ofRow == IF table[step[c].site] = Null THEN 0 ELSE table[step[c].site]
<1>1. /\ step[c].at = "get" /\ step' = [step EXCEPT ![c].at = "insert", ![c].conf = ofRow]
      /\ UNCHANGED <<hash, table, alerts, ids, nextID, told, passedOn, checked, updates, changes, resolved, lowest>>
 BY DEF DA!GetPattern, DA!alertVars
<1>2. /\ table \in [Items -> 0..100 \cup {Null}]
      /\ step \in [Goroutines -> DriftStep] /\ \A d \in Meeters : step[d].site \in Items BY DEF DriftInv, DriftTyped
<1>3. ofRow \in 0..100
 <2>1. step[c].site \in Items BY <1>1, <1>2 DEF Meeters
 <2> QED BY <1>2, <2>1
<1> HIDE DEF ofRow
<1>4. /\ step' \in [Goroutines -> DriftStep] /\ step'[c].at = "insert" /\ step'[c].site = step[c].site
      /\ \A d \in Goroutines : d # c => step'[d] = step[d] BY ZenonT(90), <1>1, <1>2, <1>3 DEF DriftStep
<1>5. Meeters' = Meeters /\ \A s : MeetersOf(s)' = MeetersOf(s) BY <1>1, <1>4 DEF Meeters, MeetersOf
<1>6. \A d \in Meeters' : step'[d].site \in Items BY <1>2, <1>4, <1>5 DEF Meeters
<1>7. DriftTyped' BY <1>1, <1>4, <1>6 DEF DriftInv, DriftTyped
<1>8. DriftCounts'
 <2>1. \A s : AlertsOf(s)' = AlertsOf(s) BY <1>1 DEF AlertsOf
 <2> QED BY <1>1, <1>5, <2>1 DEF DriftInv, DriftCounts
<1>9. DriftLists' BY <1>1 DEF DriftInv, DriftLists
<1> QED BY <1>7, <1>8, <1>9 DEF DriftInv

\* The alert gets its number, is kept, and is told.
LEMMA AlertInserted == ASSUME DriftInv, NEW c \in Goroutines, DA!Insert(c), NEW p, p = step[c].site PROVE DriftInv'
<1> DEFINE alert == [site |-> step[c].site, resolved |-> FALSE, severity |-> DA!ClassifyDriftSeverity(step[c].conf)]
<1>1. /\ step[c].at = "insert" /\ nextID' = nextID + 1 /\ ids' = Append(ids, nextID + 1)
      /\ alerts' = Append(alerts, alert) /\ told' = Append(told, nextID + 1) /\ step' = [step EXCEPT ![c] = DA!Calm]
      /\ UNCHANGED <<hash, table, passedOn, checked, updates, changes, resolved, lowest>> BY DEF DA!Insert
<1>2. /\ step \in [Goroutines -> DriftStep] /\ \A d \in Meeters : step[d].site \in Items
      /\ alerts \in Seq(DriftAlert) /\ ids \in Seq(Nat) /\ told = ids
      /\ nextID = Len(ids) /\ Len(alerts) = Len(ids) /\ Len(ids) \in Nat
      /\ DOMAIN alerts = 1..Len(ids) /\ DOMAIN ids = 1..Len(ids) /\ changes \in [Items -> Nat]
 BY DEF DriftInv, DriftTyped
<1>3. c \in Meeters /\ p \in Items BY <1>1, <1>2 DEF Meeters
<1>4. alert \in DriftAlert /\ alert.site = p /\ alert.resolved = FALSE
 <2>1. step[c].conf \in 0..100 BY <1>2 DEF DriftStep
 <2>2. DA!ClassifyDriftSeverity(step[c].conf) \in DA!DriftSeverity
  BY <2>1 DEF DA!ClassifyDriftSeverity, DA!DriftSeverity
 <2> QED BY <1>3, <2>2 DEF DriftAlert
<1> HIDE DEF alert
<1>5. /\ alerts' \in Seq(DriftAlert) /\ Len(alerts') = Len(ids) + 1 /\ DOMAIN alerts' = 1..(Len(ids) + 1)
      /\ \A n \in 1..Len(ids) : alerts'[n] = alerts[n]
      /\ alerts'[Len(ids) + 1] = alert BY <1>1, <1>2, <1>4, Appends
<1>6. /\ ids' \in Seq(Nat) /\ Len(ids') = Len(ids) + 1 /\ DOMAIN ids' = 1..(Len(ids) + 1)
      /\ \A n \in 1..Len(ids) : ids'[n] = ids[n]
      /\ ids'[Len(ids) + 1] = Len(ids) + 1 /\ told' = ids'
 <2>1. nextID + 1 \in Nat BY <1>2
 <2> QED BY <1>1, <1>2, <2>1, Appends
<1>7. /\ step' \in [Goroutines -> DriftStep] /\ step'[c].at = "idle"
      /\ \A d \in Goroutines : d # c => step'[d] = step[d]
 <2>1. DA!Calm \in DriftStep /\ DA!Calm.at = "idle" BY DEF DA!Calm, DriftStep
 <2> QED BY <1>1, <1>2, <2>1
<1>8. /\ Meeters' = Meeters \ {c} /\ MeetersOf(p)' = MeetersOf(p) \ {c} /\ c \in MeetersOf(p)
      /\ \A s : s # p => MeetersOf(s)' = MeetersOf(s) BY <1>1, <1>7 DEF Meeters, MeetersOf
<1>9. /\ Cardinality(Meeters)' = Cardinality(Meeters) - 1 /\ Cardinality(Meeters) \in Nat
      /\ Cardinality(MeetersOf(p))' = Cardinality(MeetersOf(p)) - 1 /\ Cardinality(MeetersOf(p)) \in Nat
 <2>1. /\ IsFiniteSet(Meeters) /\ IsFiniteSet(MeetersOf(p)) /\ Cardinality(Meeters) \in Nat
       /\ Cardinality(MeetersOf(p)) \in Nat BY CallersFinite DEF Meeters, MeetersOf
 <2> QED BY ZenonT(90), <1>3, <1>8, <2>1, FS_RemoveElement
<1>10. /\ AlertsOf(p)' = AlertsOf(p) \cup {Len(ids) + 1} /\ Len(ids) + 1 \notin AlertsOf(p)
       /\ \A s : s # p => AlertsOf(s)' = AlertsOf(s) BY <1>2, <1>4, <1>5 DEF AlertsOf
<1>11. /\ Cardinality(AlertsOf(p))' = Cardinality(AlertsOf(p)) + 1 /\ Cardinality(AlertsOf(p)) \in Nat
 BY ZenonT(90), <1>10, AlertsFinite, FS_AddElement
<1>12. DriftTyped'
 <2>1. \A d \in Meeters' : step'[d].site \in Items BY <1>2, <1>7, <1>8 DEF Meeters
 <2>2. nextID' = Len(ids') /\ Len(alerts') = Len(ids') BY <1>1, <1>2, <1>5, <1>6
 <2> QED BY <1>1, <1>5, <1>6, <1>7, <2>1, <2>2 DEF DriftInv, DriftTyped
<1>13. DriftCounts'
 <2>1. /\ \A s \in Items : /\ changes[s] = Cardinality(AlertsOf(s)) + Cardinality(MeetersOf(s))
                           /\ changes[s] <= checked
       /\ nextID + Cardinality(Meeters) <= checked BY DEF DriftInv, DriftCounts
 <2>2. ASSUME NEW s \in Items PROVE  changes'[s] = Cardinality(AlertsOf(s))' + Cardinality(MeetersOf(s))'
  <3>1. CASE s = p
   <4>1. /\ Cardinality(AlertsOf(s))' = Cardinality(AlertsOf(s)) + 1 /\ Cardinality(AlertsOf(s)) \in Nat
         /\ Cardinality(MeetersOf(s))' = Cardinality(MeetersOf(s)) - 1 /\ Cardinality(MeetersOf(s)) \in Nat
    BY <1>9, <1>11, <3>1
   <4> QED BY <1>1, <2>1, <4>1
  <3>2. CASE s # p
   <4>1. /\ Cardinality(AlertsOf(s))' = Cardinality(AlertsOf(s))
         /\ Cardinality(MeetersOf(s))' = Cardinality(MeetersOf(s)) BY <1>8, <1>10, <3>2
   <4> QED BY <1>1, <2>1, <4>1
  <3> QED BY <3>1, <3>2
 <2>3. nextID' + Cardinality(Meeters)' <= checked'
  <3>1. nextID \in Nat BY <1>2
  <3>2. nextID' + Cardinality(Meeters)' = nextID + Cardinality(Meeters) BY <1>1, <1>9, <3>1
  <3> QED BY <1>1, <2>1, <3>2
 <2> QED BY <1>1, <2>1, <2>2, <2>3 DEF DriftCounts
<1>14. DriftLists'
 <2>1. /\ \A n \in DOMAIN ids : ids[n] = n
       /\ resolved \subseteq DOMAIN ids
       /\ \A n \in DOMAIN alerts : alerts[n].resolved <=> n \in resolved BY DEF DriftInv, DriftLists
 <2>2. Len(ids) + 1 \notin resolved BY <1>2, <2>1
 <2>3. \A n \in DOMAIN ids' : ids'[n] = n BY SMTT(60), <1>2, <1>6, <2>1
 <2>4. resolved' \subseteq DOMAIN ids' BY <1>1, <1>2, <1>6, <2>1
 <2>5. ASSUME NEW n \in DOMAIN alerts' PROVE alerts'[n].resolved <=> n \in resolved'
  <3>1. CASE n \in 1..Len(ids) BY <1>1, <1>2, <1>5, <2>1, <3>1
  <3>2. CASE n = Len(ids) + 1 BY <1>1, <1>4, <1>5, <2>2, <3>2
  <3> QED BY <1>2, <1>5, <3>1, <3>2
 <2> QED BY <1>1, <2>3, <2>4, <2>5 DEF DriftInv, DriftLists
<1> QED BY <1>12, <1>13, <1>14 DEF DriftInv

\* Resolve.
LEMMA ResolveKeeps == ASSUME DriftInv, NEW id \in 1..MaxChecks, DA!Resolve(id) PROVE DriftInv'
<1>1. /\ alerts \in Seq(DriftAlert) /\ DOMAIN alerts = 1..Len(alerts) /\ Len(alerts) = Len(ids)
      /\ DOMAIN ids = 1..Len(ids) /\ Len(ids) \in Nat
      /\ \A n \in DOMAIN ids : ids[n] = n
      /\ resolved \subseteq DOMAIN ids
      /\ \A n \in DOMAIN alerts : alerts[n].resolved <=> n \in resolved BY DEF DriftInv, DriftTyped, DriftLists
<1> DEFINE with == {n \in DOMAIN ids : ids[n] = id}
<1>2. /\ id \notin resolved /\ with # {}
      /\ alerts' = [alerts EXCEPT ![CHOOSE n \in with : \A m \in with : n <= m].resolved = TRUE]
      /\ resolved' = resolved \cup {id}
      /\ UNCHANGED <<hash, table, step, ids, nextID, told, passedOn, checked, updates, changes, lowest>> BY DEF DA!Resolve
<1>3. id \in DOMAIN ids /\ with = {id} BY <1>1, <1>2
<1>4. (CHOOSE n \in with : \A m \in with : n <= m) = id
 <2>1. \E n \in with : \A m \in with : n <= m BY <1>1, <1>3
 <2> QED BY <1>3, <2>1
<1>5. alerts' = [alerts EXCEPT ![id].resolved = TRUE] BY <1>2, <1>4
<1>6. \A n \in DOMAIN alerts : alerts[n] \in DriftAlert BY <1>1, Elements
<1>7. /\ alerts' \in Seq(DriftAlert) /\ Len(alerts') = Len(alerts) /\ DOMAIN alerts' = DOMAIN alerts
      /\ \A n \in DOMAIN alerts : n # id => alerts'[n] = alerts[n]
      /\ alerts'[id].resolved = TRUE /\ alerts'[id].site = alerts[id].site
 <2>1. /\ alerts' = [alerts EXCEPT ![id] = [alerts[id] EXCEPT !.resolved = TRUE]]
       /\ [alerts[id] EXCEPT !.resolved = TRUE] \in DriftAlert
       /\ [alerts[id] EXCEPT !.resolved = TRUE].resolved = TRUE
       /\ [alerts[id] EXCEPT !.resolved = TRUE].site = alerts[id].site BY ZenonT(90), <1>1, <1>3, <1>5, <1>6 DEF DriftAlert
 <2> QED BY <1>1, <1>3, <2>1
<1>8. \A s : AlertsOf(s)' = AlertsOf(s) BY <1>1, <1>3, <1>7 DEF AlertsOf
<1>9. DriftTyped' BY <1>2, <1>7 DEF DriftInv, DriftTyped, Meeters
<1>10. DriftCounts' BY <1>2, <1>8 DEF DriftInv, DriftCounts, MeetersOf, Meeters
<1>11. DriftLists'
 <2>1. \A n \in DOMAIN alerts' : alerts'[n].resolved <=> n \in resolved' BY <1>1, <1>2, <1>7
 <2> QED BY <1>1, <1>2, <1>3, <2>1 DEF DriftInv, DriftLists
<1> QED BY <1>9, <1>10, <1>11 DEF DriftInv

\* RecordHandoff.
LEMMA HandoffKeeps == ASSUME DriftInv, DA!RecordHandoff PROVE DriftInv'
<1>1. /\ Len(passedOn) < MaxHandoffs /\ passedOn' = Append(passedOn, Len(passedOn) + 1)
      /\ UNCHANGED <<hash, table, step, ids, nextID, alerts, told, checked, updates, changes, lowest, resolved>>
 BY DEF DA!RecordHandoff, DA!alertVars
<1>2. DriftTyped' BY <1>1 DEF DriftInv, DriftTyped, Meeters
<1>3. DriftCounts' BY <1>1 DEF DriftInv, DriftCounts, AlertsOf, MeetersOf, Meeters
<1>4. DriftLists'
 <2>1. passedOn \in Seq(Nat) /\ Len(passedOn) + 1 \in Nat /\ \A n \in DOMAIN passedOn : passedOn[n] = n
  BY DEF DriftInv, DriftLists
 <2>2. /\ passedOn' \in Seq(Nat) /\ Len(passedOn') = Len(passedOn) + 1
       /\ \A n \in DOMAIN passedOn' : passedOn'[n] = n BY <1>1, <2>1, Appends
 <2>3. Len(passedOn') <= MaxHandoffs BY <1>1, <2>1, <2>2, DriftConstants
 <2> QED BY <1>1, <2>2, <2>3 DEF DriftInv, DriftLists
<1> QED BY <1>2, <1>3, <1>4 DEF DriftInv

LEMMA DriftNext == DriftInv /\ DA!Next => DriftInv'
<1>1. ASSUME DriftInv, NEW c \in Goroutines, DA!Insert(c) PROVE DriftInv' BY <1>1, AlertInserted
<1> QED BY <1>1, TableStatements, CheckDriftKeeps, GetPatternKeeps, ResolveKeeps, HandoffKeeps DEF DA!Next

LEMMA DriftHolds == ASSUME DriftInv PROVE DA!TypeOK /\ DA!OneAlertPerChange /\ DA!DecayHasFloor
<1>1. /\ DriftTyped /\ DriftCounts /\ DriftLists BY DEF DriftInv
<1>2. /\ alerts \in Seq(DriftAlert) /\ DOMAIN alerts = 1..Len(ids) /\ Len(ids) \in Nat
      /\ ids \in Seq(Nat) /\ DOMAIN ids = 1..Len(ids) /\ nextID = Len(ids)
      /\ \A n \in DOMAIN ids : ids[n] = n
      /\ resolved \subseteq DOMAIN ids
      /\ \A n \in DOMAIN alerts : alerts[n].resolved <=> n \in resolved
      /\ checked \in 0..MaxChecks /\ MaxChecks \in Nat BY <1>1, DriftConstants DEF DriftTyped, DriftLists
<1>3. Len(ids) <= MaxChecks
 <2>1. Cardinality(Meeters) \in Nat BY CallersFinite DEF Meeters
 <2> QED BY <1>1, <1>2, <2>1 DEF DriftCounts
<1>4. DA!Range(ids) = 1..Len(ids) BY <1>2 DEF DA!Range
<1>5. DA!TypeOK
 <2>1. \A n \in DOMAIN alerts : alerts[n] \in DriftAlert BY <1>2, Elements
 <2>2. changes \in [Items -> 0..MaxChecks] BY <1>1, <1>2 DEF DriftTyped, DriftCounts
 <2>3. DA!Range(passedOn) \subseteq 1..MaxHandoffs
  <3>1. /\ passedOn \in Seq(Nat) /\ Len(passedOn) <= MaxHandoffs
        /\ \A n \in DOMAIN passedOn : passedOn[n] = n BY <1>1 DEF DriftLists
  <3>2. DOMAIN passedOn \subseteq 1..MaxHandoffs BY <3>1, DriftConstants
  <3> QED BY <3>1, <3>2 DEF DA!Range
 <2>4. resolved \subseteq 1..MaxChecks /\ DA!Range(ids) \subseteq 1..MaxChecks /\ nextID \in 0..MaxChecks
  BY <1>2, <1>3, <1>4
 <2>5. \A c \in Goroutines : step[c].at \in {"idle", "get", "insert"} /\ step[c].conf \in 0..100
  BY <1>1 DEF DriftTyped, DriftStep
 <2>6. lowest \in BOOLEAN BY <1>1 DEF DriftTyped
 <2> QED BY <1>1, <2>1, <2>2, <2>3, <2>4, <2>5, <2>6 DEF DA!TypeOK, DriftTyped, DriftAlert
<1>6. DA!OneAlertPerChange
 <2>1. \A s : DA!Cardinality(AlertsOf(s)) = Cardinality(AlertsOf(s))
              /\ DA!Cardinality(MeetersOf(s)) = Cardinality(MeetersOf(s)) BY DEF DA!Cardinality, Cardinality
 <2>2. {ids[n] : n \in DA!Unresolved} = DA!Range(ids) \ resolved BY <1>2, <1>4 DEF DA!Unresolved
 <2>3. \A s \in Items : changes[s] = DA!Cardinality(AlertsOf(s)) + DA!Cardinality(MeetersOf(s))
  BY <1>1, <2>1 DEF DriftCounts
 <2> QED BY <1>1, <1>2, <2>2, <2>3 DEF DA!OneAlertPerChange, DriftTyped, AlertsOf, MeetersOf
<1>7. DA!DecayHasFloor
 <2>1. ASSUME NEW l \in 1..MaxHandoffs, passedOn # <<>> PROVE  DA!Recent(l)[1] = passedOn[Len(passedOn)]
  <3>1. passedOn \in Seq(Nat) /\ Len(passedOn) \in Nat /\ Len(passedOn) >= 1 BY <1>1, <2>1 DEF DriftLists
  <3> DEFINE n == IF l > Len(passedOn) THEN Len(passedOn) ELSE l
  <3>2. 1 \in 1..n BY <2>1, <3>1, DriftConstants
  <3>3. DA!Recent(l) = [k \in 1..n |-> passedOn[Len(passedOn) - k + 1]] BY DEF DA!Recent
  <3>4. Len(passedOn) - 1 + 1 = Len(passedOn) BY <3>1
  <3> HIDE DEF n
  <3> QED BY <3>2, <3>3, <3>4
 <2> QED BY <1>1, <2>1 DEF DA!DecayHasFloor, DriftTyped
<1> QED BY <1>5, <1>6, <1>7

(* The repair of a selector: the best so far, and how far the chain went. *)

LEMMA CandidateConf == ASSUME NEW x \in SR!Candidate PROVE x.conf \in Nat
<1>1. x.conf \in SR!Confidence BY DEF SR!Candidate
<1>2. SR!Confidence \subseteq Nat BY DEF SR!Confidence
<1> QED BY <1>1, <1>2, Zenon

LEMMA BestStep ==
  ASSUME NEW list \in Seq(SR!Candidate), NEW n \in 1..Len(list), NEW b \in Nat, BestUpTo(list, n - 1, b)
  PROVE  BestUpTo(list, n, IF SR!Better(list, n, b) THEN n ELSE b)
<1>1. ASSUME NEW k \in 1..n PROVE list[k].conf \in Nat
 <2>1. list[k] \in SR!Candidate BY Elements
 <2> QED BY <2>1, CandidateConf
<1>2. n \in Nat /\ n # 0 /\ n \in 1..n /\ Len(list) \in Nat OBVIOUS
<1>3. \A k \in 1..n : k = n \/ (k \in 1..(n - 1) /\ k < n) BY <1>2
<1>4. CASE n - 1 = 0
 <2>1. b = 0 /\ n = 1 /\ \A k \in 1..n : k = n BY <1>2, <1>4 DEF BestUpTo
 <2> QED BY <1>1, <1>2, <2>1 DEF BestUpTo, SR!Better
<1>5. CASE n - 1 # 0
 <2>1. /\ b \in 1..(n - 1) /\ b \in 1..n /\ b # 0 /\ b < n
       /\ \A k \in 1..(n - 1) : /\ list[k].conf <= list[b].conf
                                /\ k < b => list[k].conf < list[b].conf BY <1>2, <1>5 DEF BestUpTo
 <2>2. CASE list[n].conf > list[b].conf
  <3>1. SR!Better(list, n, b) BY <2>2 DEF SR!Better
  <3>2. \A k \in 1..n : /\ list[k].conf <= list[n].conf
                        /\ k < n => list[k].conf < list[n].conf BY <1>1, <1>2, <1>3, <2>1, <2>2
  <3> QED BY <1>2, <3>1, <3>2 DEF BestUpTo
 <2>3. CASE ~(list[n].conf > list[b].conf)
  <3>1. ~SR!Better(list, n, b) BY <2>1, <2>3 DEF SR!Better
  <3>2. \A k \in 1..n : /\ list[k].conf <= list[b].conf
                        /\ k < b => list[k].conf < list[b].conf BY <1>1, <1>2, <1>3, <2>1, <2>3
  <3> QED BY <1>2, <2>1, <3>1, <3>2 DEF BestUpTo
 <2> QED BY <2>2, <2>3
<1> QED BY <1>4, <1>5

\* Taking the candidates one by one leaves the best of all of them.
LEMMA BestOfIs ==
  ASSUME NEW list \in Seq(SR!Candidate), NEW from \in 0..Len(list), NEW b \in Nat, BestUpTo(list, from, b)
  PROVE  BestUpTo(list, Len(list), SR!BestOf(list, from, b))
<1> DEFINE L == Len(list)
           next(n, x) == IF SR!Better(list, n, x) THEN n ELSE x
           upTo(F, m) == F = [n \in from..m |-> IF n = from THEN b ELSE next(n, F[n - 1])]
           takes(F) == F = [n \in from..L |-> IF n = from THEN b
                                              ELSE IF SR!Better(list, n, F[n - 1]) THEN n ELSE F[n - 1]]
           Q == {k \in Nat : from + k <= L => \E F : upTo(F, from + k)}
<1>1. L \in Nat /\ from \in Nat /\ from <= L OBVIOUS
<1>2. 0 \in Q
 <2> DEFINE F == [n \in from..(from + 0) |-> b]
 <2> HIDE DEF next
 <2>1. upTo(F, from + 0) BY <1>1
 <2> QED BY <2>1
<1>3. ASSUME NEW k \in Q PROVE k + 1 \in Q
 <2>1. k \in Nat OBVIOUS
 <2>2. ASSUME from + (k + 1) <= L PROVE \E F : upTo(F, from + (k + 1))
  <3>1. from + k <= L BY <1>1, <2>1, <2>2
  <3>2. PICK F : upTo(F, from + k) BY <3>1
  <3> DEFINE top == from + (k + 1)
             G == [n \in from..top |-> IF n = top THEN next(top, F[from + k]) ELSE F[n]]
  <3>3. /\ top \in from..L /\ top - 1 = from + k /\ top # from /\ from + k \in from..(from + k)
        /\ \A n \in from..top : n # top => n \in from..(from + k)
        /\ \A n \in from..top : n # from => n - 1 \in from..(from + k) /\ n - 1 # top /\ n - 1 \in from..top
   BY <1>1, <2>1, <2>2
  <3> HIDE DEF top, Q, next
  <3>4. ASSUME NEW n \in from..top PROVE G[n] = IF n = from THEN b ELSE next(n, G[n - 1])
   <4>1. CASE n = top BY <3>3, <4>1
   <4>2. CASE n # top
    <5>1. G[n] = F[n] /\ F[n] = IF n = from THEN b ELSE next(n, F[n - 1]) BY <3>2, <3>3, <4>2
    <5>2. n # from => G[n - 1] = F[n - 1] BY <3>3
    <5> QED BY <5>1, <5>2
   <4> QED BY <4>1, <4>2
  <3>5. G = [n \in from..top |-> G[n]] OBVIOUS
  <3> HIDE DEF G
  <3>6. upTo(G, top) BY <3>4, <3>5
  <3> QED BY <3>6 DEF top
 <2> QED BY <2>1, <2>2
<1>4. \E F : takes(F)
 <2> HIDE DEF Q
 <2>1. Q = Nat
  <3>1. Q \subseteq Nat BY DEF Q
  <3> QED BY <1>2, <1>3, <3>1, Induction
 <2>2. L - from \in Q /\ from + (L - from) = L /\ L <= L BY <1>1, <2>1
 <2> QED BY <2>2 DEF Q
<1> HIDE DEF Q
<1> DEFINE F == CHOOSE G : takes(G)
<1>11. takes(F) BY <1>4
<1>5. SR!BestOf(list, from, b) = F[L] BY DEF SR!BestOf
<1> HIDE DEF F
<1>6. \A n \in from..L : F[n] = IF n = from THEN b ELSE next(n, F[n - 1]) BY <1>11
<1> DEFINE P == {k \in Nat : from + k <= L => F[from + k] \in Nat /\ BestUpTo(list, from + k, F[from + k])}
<1> HIDE DEF takes
<1>7. 0 \in P
 <2>1. from + 0 = from /\ from \in from..L BY <1>1
 <2> QED BY <1>6, <2>1
<1>8. ASSUME NEW k \in P PROVE k + 1 \in P
 <2>1. k \in Nat OBVIOUS
 <2>2. ASSUME from + (k + 1) <= L
       PROVE  /\ F[from + (k + 1)] \in Nat /\ BestUpTo(list, from + (k + 1), F[from + (k + 1)])
  <3> DEFINE n == from + (k + 1)
  <3>1. /\ n \in from..L /\ n # from /\ n - 1 = from + k /\ from + k <= L /\ n \in 1..L /\ n \in Nat
   BY <1>1, <2>1, <2>2
  <3>2. F[n - 1] \in Nat /\ BestUpTo(list, n - 1, F[n - 1]) BY <3>1
  <3> HIDE DEF n, P
  <3>3. F[n] = next(n, F[n - 1]) BY <1>6, <3>1
  <3>4. BestUpTo(list, n, F[n]) BY <3>1, <3>2, <3>3, BestStep
  <3>5. F[n] \in Nat BY <3>1, <3>2, <3>3
  <3> QED BY <3>4, <3>5 DEF n
 <2> QED BY <2>1, <2>2
<1> HIDE DEF P
<1>9. P = Nat
 <2>1. P \subseteq Nat BY DEF P
 <2> QED BY <1>7, <1>8, <2>1, Induction
<1>10. L - from \in P /\ from + (L - from) = L /\ L <= L BY <1>1, <1>9
<1> QED BY <1>5, <1>10 DEF P

LEMMA StrategyFacts ==
  /\ SR!Chain = <<"css", "xpath", "aria", "text_content">> /\ DOMAIN SR!Chain = 1..4 /\ Len(SR!Chain) = 4
  /\ SR!Strategies = {"css", "xpath", "aria", "text_content", "vlm"}
  /\ \A i \in 1..4 : SR!Chain[i] \in SR!Strategies /\ SR!Chain[i] # "vlm"
  /\ \A i, j \in 1..4 : SR!Chain[i] = SR!Chain[j] => i = j
<1>1. SR!Chain = <<"css", "xpath", "aria", "text_content">> /\ DOMAIN SR!Chain = 1..4 /\ Len(SR!Chain) = 4
 BY DEF SR!Chain
<1>2. 1..4 = {1, 2, 3, 4} OBVIOUS
<1>3. SR!Range(SR!Chain) = {SR!Chain[i] : i \in 1..4} BY <1>1 DEF SR!Range
<1>4. SR!Chain[1] = "css" /\ SR!Chain[2] = "xpath" /\ SR!Chain[3] = "aria" /\ SR!Chain[4] = "text_content" BY <1>1
<1>5. SR!Range(SR!Chain) = {"css", "xpath", "aria", "text_content"} BY <1>2, <1>3, <1>4
<1>6. SR!Strategies = {"css", "xpath", "aria", "text_content", "vlm"} BY <1>5 DEF SR!Strategies
<1> QED BY <1>1, <1>2, <1>4, <1>6

LEMMA ConfidenceIs ==
  ASSUME NEW s \in SR!Strategies, NEW count \in Nat PROVE SR!strategyConfidence(s, count) \in SR!Confidence
<1>1. SR!Base[s] \in {9500, 8500, 8000, 7000, 6000} BY StrategyFacts, SMT DEF SR!Base
<1>2. PICK own \in {9500, 8500, 8000, 7000, 6000} : own = SR!Base[s] BY <1>1
<1>3. PICK percent \in {80, 90, 100} : percent = IF count > 10 THEN 80 ELSE IF count > 5 THEN 90 ELSE 100 OBVIOUS
<1> DEFINE conf == (own * percent) \div 100
           more == (conf * 105) \div 100
<1>4. conf \in 0..10000 BY SMT
<1>5. more \in Nat BY <1>4, SMT
<1>6. SR!strategyConfidence(s, count) = IF count # 1 THEN conf ELSE IF more > 10000 THEN 10000 ELSE more
 BY <1>2, <1>3, SMT DEF SR!strategyConfidence
<1> HIDE DEF conf, more
<1> QED BY <1>4, <1>5, <1>6, SMT DEF SR!Confidence

LEMMA RepairInit == ASSUME Init PROVE RepairInv
<1> USE StrategyFacts
<1>1. /\ wired \in BOOLEAN /\ phase = "chain" /\ tried = 0 /\ candidates = <<>> /\ best = 0 /\ suggested = 0
      /\ attempts = [s \in SR!Strategies |-> 0] /\ repaired = [s \in SR!Strategies |-> 0] BY DEF Init, SR!Init
<1>2. candidates \in Seq(SR!Candidate) /\ Len(candidates) = 0 /\ DOMAIN candidates = {} BY <1>1
<1>3. attempts["vlm"] = 0 /\ Reached = 0 /\ \A i \in 1..4 : attempts[SR!Chain[i]] = 0 /\ ~(i <= 0) BY <1>1 DEF Reached
<1>4. attempts \in [SR!Strategies -> 0..1] /\ tried \in 0..5 /\ Reached \in 0..4 BY <1>1, <1>3
<1>5. RepairTyped BY <1>1, <1>2, <1>4 DEF RepairTyped, BestUpTo
<1> QED BY <1>1, <1>2, <1>3, <1>5 DEF RepairInv, ChainSoFar, PhaseSoFar, RepairTold, Low

LEMMA RepairRests == RepairInv /\ UNCHANGED repairVars => RepairInv'
BY DEF RepairInv, repairVars, RepairTyped, ChainSoFar, PhaseSoFar, RepairTold, Reached, Low, LowBefore, BestUpTo

\* With a best one the whole list is low exactly if nothing is settled.
LEMMA LowUnsettled == ASSUME NEW list \in Seq(SR!Candidate), NEW b \in Nat, BestUpTo(list, Len(list), b)
  PROVE  SR!Settled(list, b) <=> ~Low(list)
<1>1. Len(list) \in Nat /\ DOMAIN list = 1..Len(list) BY Elements
<1>2. \A n \in DOMAIN list : list[n].conf \in Nat
 <2> TAKE n \in DOMAIN list
 <2>1. list[n] \in SR!Candidate BY Elements
 <2> QED BY <2>1, CandidateConf
<1>3. CASE Len(list) = 0
 <2>1. b = 0 /\ DOMAIN list = {} BY <1>1, <1>3 DEF BestUpTo
 <2> QED BY <2>1 DEF SR!Settled, Low
<1>4. CASE Len(list) # 0
 <2>1. b \in DOMAIN list /\ b # 0 /\ \A k \in DOMAIN list : list[k].conf <= list[b].conf BY <1>1, <1>4 DEF BestUpTo
 <2> QED BY <1>2, <2>1 DEF SR!Settled, Low, SR!HighEnough
<1> QED BY <1>3, <1>4

LEMMA RepairTries == ASSUME ToolkitAssumption, RepairTyped, NEW s \in SR!Strategies, SR!Try(s)
  PROVE  /\ candidates' \in Seq(SR!Candidate) /\ best' \in Nat /\ BestUpTo(candidates', Len(candidates'), best')
         /\ DOMAIN candidates \subseteq DOMAIN candidates'
         /\ \A n \in DOMAIN candidates : candidates'[n] = candidates[n]
         /\ \A n \in DOMAIN candidates' : n \in DOMAIN candidates \/ candidates'[n].strategy = s
<1>1. PICK found \in SR!Found :
         candidates' = candidates \o [n \in DOMAIN found |->
                          [strategy |-> s, conf |-> SR!strategyConfidence(s, found[n])]] BY DEF SR!Try
<1>2. PICK m \in Nat : found \in [1..m -> Nat]
 <2>1. Counts \subseteq Nat /\ MaxPerStrategy \in Nat BY DEF ToolkitAssumption, SR!RepairAssumption
 <2>2. PICK m \in 0..MaxPerStrategy : found \in [1..m -> Counts] BY DEF SR!Found
 <2>3. m \in Nat BY <2>1
 <2>4. found \in [1..m -> Nat] BY <2>1, <2>2, Zenon
 <2> QED BY <2>3, <2>4
<1> DEFINE more == [n \in DOMAIN found |-> [strategy |-> s, conf |-> SR!strategyConfidence(s, found[n])]]
<1>3. \A n \in 1..m : more[n] \in SR!Candidate /\ more[n].strategy = s
 <2> TAKE n \in 1..m
 <2>1. found[n] \in Nat /\ more[n] = [strategy |-> s, conf |-> SR!strategyConfidence(s, found[n])] BY <1>2
 <2>2. SR!strategyConfidence(s, found[n]) \in SR!Confidence BY <2>1, ConfidenceIs
 <2> QED BY <2>1, <2>2 DEF SR!Candidate
<1>4. DOMAIN more = 1..m BY <1>2
<1>5. more = [n \in 1..m |-> more[n]] BY <1>4
<1>6. candidates' = candidates \o more BY <1>1
<1> HIDE DEF more
<1>7. more \in Seq(SR!Candidate) /\ Len(more) = m BY <1>2, <1>3, <1>5
<1>8. candidates \in Seq(SR!Candidate) /\ Len(candidates) \in Nat /\ DOMAIN candidates = 1..Len(candidates)
 BY DEF RepairTyped
<1> DEFINE list == candidates \o more
<1>9. /\ list \in Seq(SR!Candidate) /\ Len(list) = Len(candidates) + m /\ DOMAIN list = 1..(Len(candidates) + m)
      /\ \A n \in 1..Len(candidates) : list[n] = candidates[n]
      /\ \A n \in (Len(candidates) + 1)..(Len(candidates) + m) : list[n] = more[n - Len(candidates)]
 BY <1>2, <1>7, <1>8
<1> HIDE DEF list
<1>10. /\ DOMAIN candidates \subseteq DOMAIN list
       /\ \A n \in DOMAIN list : n \in DOMAIN candidates \/ list[n].strategy = s
 <2>1. DOMAIN candidates \subseteq DOMAIN list BY <1>2, <1>8, <1>9
 <2>2. ASSUME NEW n \in DOMAIN list, n \notin DOMAIN candidates PROVE list[n].strategy = s
  <3>1. n \in (Len(candidates) + 1)..(Len(candidates) + m) /\ n - Len(candidates) \in 1..m BY <1>2, <1>8, <1>9, <2>2
  <3> QED BY <1>3, <1>9, <3>1
 <2> QED BY <2>1, <2>2
<1>11. best \in Nat /\ BestUpTo(list, Len(candidates), best) BY <1>8, <1>9 DEF RepairTyped, BestUpTo
<1>12. Len(candidates) \in 0..Len(list) /\ Len(list) \in Nat BY <1>2, <1>8, <1>9
<1>13. BestUpTo(list, Len(list), SR!BestOf(list, Len(candidates), best)) BY <1>9, <1>11, <1>12, BestOfIs
<1>14. candidates' = list BY <1>6 DEF list
<1>15. best' = SR!BestOf(list, Len(candidates), best) BY <1>14 DEF SR!Try
<1>16. best' \in Nat BY <1>12, <1>13, <1>15 DEF BestUpTo
<1> QED BY <1>8, <1>9, <1>10, <1>13, <1>14, <1>15, <1>16

LEMMA ListConf == ASSUME NEW list \in Seq(SR!Candidate), NEW n \in DOMAIN list PROVE list[n].conf \in Nat
<1>1. list[n] \in SR!Candidate BY Elements
<1> QED BY <1>1, CandidateConf

LEMMA StrategyRepairs == ASSUME ToolkitAssumption, RepairInv, SR!Strategy PROVE RepairInv'
<1>1. /\ phase = "chain" /\ tried \in 0..3 /\ attempts["vlm"] = 0 /\ Low(candidates)
      /\ attempts \in [SR!Strategies -> 0..1] /\ tried = Reached /\ RepairTyped
 BY DEF RepairInv, RepairTyped, PhaseSoFar, SR!Strategy, Reached
<1> DEFINE i == tried + 1
           s == SR!Chain[i]
<1>2. i \in 1..4 /\ ~(i <= Reached) /\ \A j \in 1..4 : j <= i <=> j = i \/ j <= Reached BY <1>1
<1>3. /\ SR!Try(s) /\ phase' = IF SR!Settled(candidates', best') \/ i = 4 THEN "vlm" ELSE "chain"
      /\ UNCHANGED <<wired, repaired, suggested, history>> BY StrategyFacts DEF SR!Strategy
<1> HIDE DEF i
<1>4. s \in SR!Strategies /\ s # "vlm" /\ "vlm" \in SR!Strategies /\ attempts[s] = 0
 BY <1>2, StrategyFacts DEF RepairInv, ChainSoFar
<1>5. tried' = i /\ attempts' = [attempts EXCEPT ![s] = attempts[s] + 1] BY <1>3 DEF SR!Try, i
<1>6. /\ attempts' \in [SR!Strategies -> 0..1] /\ attempts'[s] = 1
      /\ \A t \in SR!Strategies : t # s => attempts'[t] = attempts[t] BY <1>1, <1>4, <1>5
<1>7. attempts'["vlm"] = 0 /\ Reached' = i BY <1>1, <1>2, <1>4, <1>5, <1>6 DEF Reached
<1>8. /\ candidates' \in Seq(SR!Candidate) /\ best' \in Nat /\ BestUpTo(candidates', Len(candidates'), best')
      /\ \A n \in DOMAIN candidates : candidates'[n] = candidates[n]
      /\ \A n \in DOMAIN candidates' : n \in DOMAIN candidates \/ candidates'[n].strategy = s
 BY <1>1, <1>3, <1>4, RepairTries
<1>9. RepairTyped'
 <2>1. BestUpTo(candidates, Len(candidates), best)' BY <1>8 DEF BestUpTo
 <2>2. tried' \in 0..5 /\ Reached' \in 0..4 /\ phase' \in {"chain", "vlm", "report", "over"} BY <1>2, <1>3, <1>5, <1>7
 <2> QED BY <1>1, <1>3, <1>6, <1>8, <2>1, <2>2 DEF RepairTyped
<1>10. \A j \in 1..4 : attempts'[SR!Chain[j]] = IF j <= i THEN 1 ELSE 0
 <2> TAKE j \in 1..4
 <2>1. SR!Chain[j] \in SR!Strategies /\ (SR!Chain[j] = s => j = i) BY <1>2, StrategyFacts
 <2>2. attempts[SR!Chain[j]] = IF j <= Reached THEN 1 ELSE 0 BY DEF RepairInv, ChainSoFar
 <2> QED BY <1>2, <1>6, <2>1, <2>2
<1>11. ASSUME NEW n \in DOMAIN candidates'
       PROVE  \E j \in 1..4 : /\ j <= i /\ candidates'[n].strategy = SR!Chain[j]
                              /\ candidates'[n].conf >= 8000 => j = i
 <2>1. CASE n \in DOMAIN candidates
  <3>1. candidates[n].conf < 8000 /\ candidates[n].conf \in Nat BY <1>1, <2>1, ListConf DEF Low, RepairTyped
  <3>2. PICK j \in 1..4 : j <= Reached /\ candidates[n].strategy = SR!Chain[j] BY <1>1, <2>1 DEF RepairInv, ChainSoFar
  <3> QED BY <1>2, <1>8, <2>1, <3>1, <3>2
 <2>2. CASE n \notin DOMAIN candidates BY <1>2, <1>8, <2>2
 <2> QED BY <2>1, <2>2
<1>12. ChainSoFar' BY <1>7, <1>10, <1>11 DEF ChainSoFar
<1>13. PhaseSoFar'
 <2>1. SR!Settled(candidates', best') <=> ~Low(candidates') BY <1>8, LowUnsettled
 <2>2. i # 4 => tried' < 4 BY <1>2, <1>5
 <2>3. Low(candidates') = Low(candidates)' BY DEF Low
 <2> QED BY <1>3, <1>7, <2>1, <2>2, <2>3 DEF PhaseSoFar
<1>14. RepairTold' BY <1>1, <1>3 DEF RepairTold, RepairInv
<1> QED BY <1>9, <1>12, <1>13, <1>14 DEF RepairInv

LEMMA VlmRepairs == ASSUME ToolkitAssumption, RepairInv, SR!vlmGen PROVE RepairInv'
<1>1. /\ phase = "vlm" /\ wired /\ phase' = "report" /\ attempts["vlm"] = 0
      /\ attempts \in [SR!Strategies -> 0..1] /\ tried = Reached /\ Reached \in 0..4 /\ RepairTyped
      /\ SR!Try("vlm") /\ UNCHANGED <<wired, repaired, suggested, history>>
 BY DEF RepairInv, RepairTyped, PhaseSoFar, SR!vlmGen, Reached
<1>2. "vlm" \in SR!Strategies /\ \A i \in 1..4 : SR!Chain[i] \in SR!Strategies /\ SR!Chain[i] # "vlm" BY StrategyFacts
<1>3. Low(candidates) BY LowUnsettled DEF SR!vlmGen, RepairInv, RepairTyped
<1>4. tried' = tried + 1 /\ attempts' = [attempts EXCEPT !["vlm"] = attempts["vlm"] + 1] BY <1>1 DEF SR!Try
<1>5. /\ attempts' \in [SR!Strategies -> 0..1] /\ attempts'["vlm"] = 1
      /\ \A t \in SR!Strategies : t # "vlm" => attempts'[t] = attempts[t] BY <1>1, <1>2, <1>4
<1>6. Reached' = Reached /\ tried' \in 0..5 BY <1>1, <1>4, <1>5 DEF Reached
<1>7. /\ candidates' \in Seq(SR!Candidate) /\ best' \in Nat /\ BestUpTo(candidates', Len(candidates'), best')
      /\ \A n \in DOMAIN candidates : candidates'[n] = candidates[n]
      /\ \A n \in DOMAIN candidates' : n \in DOMAIN candidates \/ candidates'[n].strategy = "vlm"
 BY SMTT(60), <1>1, <1>2, RepairTries
<1>8. RepairTyped'
 <2>1. BestUpTo(candidates, Len(candidates), best)' BY <1>7 DEF BestUpTo
 <2> QED BY <1>1, <1>5, <1>6, <1>7, <2>1 DEF RepairTyped
<1>9. ChainSoFar'
 <2>1. \A i \in 1..4 : attempts'[SR!Chain[i]] = IF i <= Reached' THEN 1 ELSE 0
  BY <1>2, <1>5, <1>6 DEF RepairInv, ChainSoFar
 <2>2. ASSUME NEW n \in DOMAIN candidates'
       PROVE  \/ candidates'[n].strategy = "vlm" /\ attempts'["vlm"] = 1
              \/ \E i \in 1..4 : /\ i <= Reached' /\ candidates'[n].strategy = SR!Chain[i]
                                 /\ candidates'[n].conf >= 8000 => i = Reached'
  BY <1>5, <1>6, <1>7 DEF RepairInv, ChainSoFar
 <2> QED BY <2>1, <2>2 DEF ChainSoFar
<1>10. PhaseSoFar'
 <2>1. LowBefore' BY <1>3, <1>7 DEF LowBefore, Low
 <2> QED BY <1>1, <1>5, <2>1 DEF PhaseSoFar
<1>11. RepairTold' BY <1>1 DEF RepairTold, RepairInv
<1> QED BY <1>8, <1>9, <1>10, <1>11 DEF RepairInv

LEMMA NoVlmRepairs == ASSUME RepairInv, SR!NoVLM PROVE RepairInv'
<1>1. /\ phase = "vlm" /\ phase' = "report" /\ (~wired \/ SR!Settled(candidates, best)) /\ attempts["vlm"] = 0
      /\ UNCHANGED <<wired, tried, candidates, best, attempts, repaired, suggested, history>>
 BY DEF SR!NoVLM, RepairInv, PhaseSoFar
<1>2. attempts["vlm"] = 0 /\ RepairTyped /\ ChainSoFar /\ RepairTold BY <1>1 DEF RepairInv, PhaseSoFar
<1>3. ~(wired /\ LowBefore)
 <2> SUFFICES ASSUME wired, LowBefore PROVE FALSE OBVIOUS
 <2>1. SR!Settled(candidates, best) BY DEF SR!NoVLM
 <2>2. ~Low(candidates) BY <1>2, <2>1, LowUnsettled DEF RepairTyped
 <2>3. PICK n \in DOMAIN candidates : ~(candidates[n].conf < 8000) BY <2>2 DEF Low
 <2>4. candidates[n].strategy = "vlm" BY <2>3 DEF LowBefore
 <2>5. PICK i \in 1..4 : candidates[n].strategy = SR!Chain[i] BY <1>2 DEF ChainSoFar
 <2> QED BY <2>4, <2>5, StrategyFacts
<1>4. RepairTyped' /\ ChainSoFar' /\ RepairTold'
 BY <1>1, <1>2 DEF RepairTyped, ChainSoFar, RepairTold, Reached, BestUpTo
<1>5. PhaseSoFar' BY <1>1, <1>2, <1>3 DEF PhaseSoFar, LowBefore
<1> QED BY <1>4, <1>5 DEF RepairInv

LEMMA ReportRepairs == ASSUME RepairInv, SR!Report PROVE RepairInv'
<1>1. /\ phase = "report" /\ phase' = "over" /\ history'.best = best
      /\ UNCHANGED <<wired, tried, candidates, best, attempts>>
      /\ IF best = 0 THEN UNCHANGED <<repaired, suggested>>
         ELSE /\ repaired' = [repaired EXCEPT ![candidates[best].strategy] = repaired[candidates[best].strategy] + 1]
              /\ suggested' = best BY DEF SR!Report
<1>2. /\ RepairTyped /\ ChainSoFar /\ PhaseSoFar /\ suggested = 0 /\ repaired = [s \in SR!Strategies |-> 0]
 BY <1>1 DEF RepairInv, RepairTold
<1>3. RepairTyped' /\ ChainSoFar' /\ PhaseSoFar'
 BY <1>1, <1>2 DEF RepairTyped, ChainSoFar, PhaseSoFar, Reached, BestUpTo, LowBefore
<1>4. repaired' = [s \in SR!Strategies |-> IF best # 0 /\ candidates[best].strategy = s THEN 1 ELSE 0] BY <1>1, <1>2
<1>5. RepairTold' BY <1>1, <1>2, <1>4 DEF RepairTold
<1> QED BY <1>3, <1>5 DEF RepairInv

LEMMA RepairNext == ASSUME RepairInv, SR!Next PROVE RepairInv'
BY ToolkitAssumption, StrategyRepairs, VlmRepairs, NoVlmRepairs, ReportRepairs DEF SR!Next

LEMMA RepairHolds == ASSUME RepairInv PROVE SR!TypeOK /\ SR!BestIsFirstOfBest /\ SR!ChainStopsInTime
<1> USE DEF RepairInv
<1>1. /\ candidates \in Seq(SR!Candidate) /\ Len(candidates) \in Nat /\ DOMAIN candidates = 1..Len(candidates)
      /\ \A n \in DOMAIN candidates : candidates[n] \in SR!Candidate
      /\ best \in Nat /\ BestUpTo(candidates, Len(candidates), best) /\ best \in 0..Len(candidates)
 BY Elements DEF RepairTyped, BestUpTo
<1>2. suggested \in 0..Len(candidates) /\ repaired \in [SR!Strategies -> 0..1] BY <1>1 DEF RepairTold, RepairTyped
<1>3. SR!TypeOK
 <2>1. tried \in 0..(Len(SR!Chain) + 1) BY StrategyFacts DEF RepairTyped
 <2>2. best \in 0..Len(candidates) /\ suggested \in 0..Len(candidates) BY <1>1, <1>2
 <2> QED BY <1>2, <2>1, <2>2 DEF SR!TypeOK, RepairTyped
<1>4. SR!BestIsFirstOfBest
 <2>1. CASE candidates = <<>> BY <1>1, <2>1 DEF BestUpTo, SR!BestIsFirstOfBest
 <2>2. CASE candidates # <<>>
  <3>1. Len(candidates) # 0 BY <1>1, <2>2
  <3> QED BY <1>1, <2>2, <3>1 DEF BestUpTo, SR!BestIsFirstOfBest
 <2> QED BY <2>1, <2>2
<1>5. ASSUME NEW i \in 1..4, NEW j \in 1..4, i < j
      PROVE  /\ attempts[SR!Chain[j]] <= attempts[SR!Chain[i]]
             /\ (\E n \in DOMAIN candidates : candidates[n].strategy = SR!Chain[i] /\ candidates[n].conf >= 8000)
                => attempts[SR!Chain[j]] = 0
 <2>1. /\ attempts[SR!Chain[j]] = IF j <= Reached THEN 1 ELSE 0
       /\ attempts[SR!Chain[i]] = IF i <= Reached THEN 1 ELSE 0
       /\ Reached \in 0..4 BY DEF ChainSoFar, RepairTyped
 <2>2. ASSUME NEW n \in DOMAIN candidates, candidates[n].strategy = SR!Chain[i], candidates[n].conf >= 8000
       PROVE  i = Reached BY <2>2, StrategyFacts DEF ChainSoFar
 <2>3. i = Reached => ~(j <= Reached) BY <1>5, <2>1
 <2>4. attempts[SR!Chain[j]] <= attempts[SR!Chain[i]] BY <1>5, <2>1
 <2> QED BY <2>1, <2>2, <2>3, <2>4
<1>6. phase \in {"report", "over"} => (attempts["vlm"] = 1 <=> (wired /\ LowBefore)) BY DEF PhaseSoFar
<1>7. phase = "over" => /\ history.best = suggested
                        /\ \A s \in SR!Strategies :
                              repaired[s] = (IF suggested # 0 /\ candidates[suggested].strategy = s THEN 1 ELSE 0)
 BY DEF RepairTold
<1>8. SR!ChainStopsInTime BY <1>5, <1>6, <1>7, StrategyFacts DEF SR!ChainStopsInTime, LowBefore, SR!HighEnough
<1> QED BY <1>3, <1>4, <1>8

(* Fusion: the order of the hints, and whose screenshot a run is grounded on. *)
InOrderOf(els, s) == \A i, j \in DOMAIN s : i < j => FU!Before(els, s[i], s[j])

LEMMA FusionConstants ==
  /\ Scenarios \in Nat /\ Scenarios >= 1 /\ Threshold \in Nat /\ Confidences \subseteq Nat
  /\ MaxCandidates \in Nat /\ MaxCandidates >= 1 /\ MaxElements \in Nat
BY ToolkitAssumption DEF ToolkitAssumption, FU!FusionAssumption

LEMMA FusionCounts == ASSUME NEW U PROVE FU!Cardinality(U) = Cardinality(U)
BY DEF FU!Cardinality, Cardinality

LEMMA BeforeOrders == ASSUME NEW els \in Seq(FU!Element)
  PROVE  /\ \A n \in DOMAIN els : n \in Nat /\ n <= Len(els) /\ els[n].conf \in Nat
         /\ \A a, b \in DOMAIN els : FU!Before(els, a, b) => els[a].conf >= els[b].conf /\ a # b
         /\ \A a, b \in DOMAIN els : FU!Before(els, a, b) \/ FU!Before(els, b, a) \/ a = b
<1>1. /\ Len(els) \in Nat /\ DOMAIN els = 1..Len(els) /\ \A n \in DOMAIN els : els[n] \in FU!Element BY Elements
<1>2. \A n \in DOMAIN els : n \in Nat /\ n <= Len(els) /\ els[n].conf \in Nat
 <2>1. \A n \in DOMAIN els : els[n].conf \in Confidences BY <1>1 DEF FU!Element
 <2>2. \A n \in DOMAIN els : els[n].conf \in Nat BY <2>1, FusionConstants, Zenon
 <2> QED BY <1>1, <2>2
<1> QED BY <1>2 DEF FU!Before

\* The last of some elements.
LEMMA LastOf == ASSUME NEW els \in Seq(FU!Element), NEW few \in SUBSET DOMAIN els, few # {}
  PROVE  \E m \in few : \A x \in few : x # m => FU!Before(els, x, m)
<1>1. /\ \A n \in DOMAIN els : n \in Nat /\ n <= Len(els) /\ els[n].conf \in Nat
      /\ Len(els) \in Nat BY BeforeOrders, Elements
<1>2. PICK c \in {els[n].conf : n \in few} : \A e \in {els[n].conf : n \in few} : c <= e
 <2>1. {els[n].conf : n \in few} \in SUBSET Nat /\ {els[n].conf : n \in few} # {} BY <1>1
 <2> QED BY <2>1, Least
<1>3. PICK d \in {Len(els) - n : n \in {k \in few : els[k].conf = c}} :
         \A e \in {Len(els) - n : n \in {k \in few : els[k].conf = c}} : d <= e
 <2>1. /\ {Len(els) - n : n \in {k \in few : els[k].conf = c}} \in SUBSET Nat
       /\ {Len(els) - n : n \in {k \in few : els[k].conf = c}} # {} BY <1>1, <1>2
 <2> QED BY <2>1, Least
<1>4. PICK m \in few : els[m].conf = c /\ d = Len(els) - m BY <1>3
<1>5. ASSUME NEW x \in few, x # m PROVE FU!Before(els, x, m)
 <2>1. c <= els[x].conf /\ els[x].conf \in Nat /\ c \in Nat BY <1>1, <1>2, <1>4
 <2>2. CASE els[x].conf = c
  <3>1. d <= Len(els) - x BY <1>3, <2>2
  <3>2. x < m BY <1>1, <1>4, <1>5, <3>1
  <3> QED BY <1>4, <2>2, <3>2 DEF FU!Before
 <2>3. CASE els[x].conf # c BY <1>4, <2>1, <2>3 DEF FU!Before
 <2> QED BY <2>2, <2>3
<1> QED BY <1>5

LEMMA SortedExists == ASSUME NEW els \in Seq(FU!Element), NEW few \in SUBSET DOMAIN els
  PROVE  IsFiniteSet(few) /\ \E s \in [1..Cardinality(few) -> few] : InOrderOf(els, s)
<1> DEFINE sorts(F) == \E s \in [1..Cardinality(F) -> F] : InOrderOf(els, s)
           P == {n \in Nat : \A F \in SUBSET DOMAIN els : Cardinality(F) = n => sorts(F)}
<1>1. \A F \in SUBSET DOMAIN els : IsFiniteSet(F) /\ Cardinality(F) \in Nat
 <2>1. IsFiniteSet(DOMAIN els) BY Elements, FS_Interval
 <2> QED BY <2>1, FS_Subset, FS_CardinalityType
<1>2. 0 \in P
 <2> SUFFICES ASSUME NEW F \in SUBSET DOMAIN els, Cardinality(F) = 0 PROVE sorts(F) OBVIOUS
 <2>1. F = {} BY <1>1, FS_EmptySet
 <2>2. PICK s : s = [i \in 1..0 |-> CHOOSE x \in F : TRUE] OBVIOUS
 <2>3. s \in [1..Cardinality(F) -> F] /\ DOMAIN s = {} BY <2>2
 <2> QED BY <2>3 DEF InOrderOf
<1>3. ASSUME NEW n \in P PROVE n + 1 \in P
 <2> SUFFICES ASSUME NEW F \in SUBSET DOMAIN els, Cardinality(F) = n + 1 PROVE sorts(F) OBVIOUS
 <2>1. n \in Nat /\ F # {} BY <1>1, FS_EmptySet
 <2>2. PICK m \in F : \A x \in F : x # m => FU!Before(els, x, m) BY <2>1, LastOf
 <2>3. Cardinality(F \ {m}) = n /\ F \ {m} \in SUBSET DOMAIN els BY SMTT(60), <1>1, <2>1, FS_RemoveElement
 <2>4. PICK s \in [1..n -> F \ {m}] : InOrderOf(els, s) BY <1>3, <2>3
 <2>5. PICK t : t = [i \in 1..(n + 1) |-> IF i = n + 1 THEN m ELSE s[i]] OBVIOUS
 <2>6. /\ t \in [1..(n + 1) -> F] /\ t[n + 1] = m
       /\ \A i \in 1..n : t[i] = s[i] /\ s[i] \in F \ {m} BY <2>1, <2>5
 <2>7. ASSUME NEW i \in 1..(n + 1), NEW j \in 1..(n + 1), i < j PROVE FU!Before(els, t[i], t[j])
  <3>1. i \in 1..n BY <2>1, <2>7
  <3>2. CASE j \in 1..n BY <2>4, <2>6, <2>7, <3>1, <3>2 DEF InOrderOf
  <3>3. CASE j = n + 1 BY <2>2, <2>6, <3>1, <3>3
  <3> QED BY <2>1, <3>2, <3>3
 <2>8. InOrderOf(els, t) BY <2>6, <2>7 DEF InOrderOf
 <2> QED BY <2>6, <2>8
<1>4. P = Nat
 <2> HIDE DEF P
 <2> QED BY <1>2, <1>3, Induction DEF P
<1> QED BY <1>1, <1>4

\* What the list of hints has for every list of elements.
LEMMA HintsHold == ASSUME NEW els \in Seq(FU!Element), NEW hints, hints = FU!candidates(els)
  PROVE  /\ hints # <<>> <=> FU!Usable(els) # {}
         /\ Len(hints) <= MaxCandidates
         /\ \A n \in FU!Usable(els) \ FU!Range(hints) : \A h \in FU!Range(hints) : els[h].conf >= els[n].conf
         /\ \A i, j \in DOMAIN hints : i < j => els[hints[i]].conf >= els[hints[j]].conf
<1>1. PICK U, all : U = FU!Usable(els) /\ all = FU!Sorted(els, U) OBVIOUS
<1>2. U \in SUBSET DOMAIN els BY <1>1 DEF FU!Usable
<1>3. IsFiniteSet(U) /\ Cardinality(U) \in Nat BY <1>2, SortedExists, FS_CardinalityType
<1>4. all \in [1..Cardinality(U) -> U] /\ InOrderOf(els, all)
 <2>1. \E s \in [1..Cardinality(U) -> U] : InOrderOf(els, s) BY <1>2, SortedExists
 <2>2. all = CHOOSE s \in [1..Cardinality(U) -> U] : InOrderOf(els, s)
  BY <1>1, FusionCounts, Zenon DEF FU!Sorted, InOrderOf
 <2> QED BY <2>1, <2>2
<1>5. all \in Seq(U) /\ Len(all) = Cardinality(U) /\ DOMAIN all = 1..Cardinality(U) BY <1>3, <1>4
<1>6. \A i, j \in DOMAIN all : i < j => els[all[i]].conf >= els[all[j]].conf /\ all[i] # all[j]
 <2>1. \A i \in DOMAIN all : all[i] \in DOMAIN els BY <1>2, <1>4
 <2> QED BY <1>4, <2>1, BeforeOrders DEF InOrderOf
<1>7. \A u \in U : \E i \in DOMAIN all : all[i] = u
 <2>1. Once(all) BY <1>5, <1>6 DEF Once
 <2>2. /\ Cardinality({all[i] : i \in DOMAIN all}) = Cardinality(U) /\ {all[i] : i \in DOMAIN all} \in SUBSET U
  BY <1>4, <1>5, <2>1, OnceCounts
 <2>3. {all[i] : i \in DOMAIN all} = U BY <1>3, <2>2, FS_Subset
 <2> QED BY <2>3
<1>8. PICK k : k = IF Len(all) > MaxCandidates THEN MaxCandidates ELSE Len(all) OBVIOUS
<1>9. k \in Nat /\ k <= Len(all) /\ k <= MaxCandidates /\ (k >= 1 <=> Len(all) >= 1)
 BY <1>3, <1>5, <1>8, FusionConstants
<1>10. hints = SubSeq(all, 1, k) BY <1>1, <1>8 DEF FU!candidates
<1>11. /\ hints \in Seq(U) /\ Len(hints) = k /\ DOMAIN hints = 1..k
       /\ \A i \in 1..k : hints[i] = all[i] /\ i \in DOMAIN all BY <1>3, <1>5, <1>9, <1>10
<1>12. hints # <<>> <=> U # {}
 <2>1. U # {} <=> Cardinality(U) >= 1 BY <1>3, FS_EmptySet
 <2> QED BY <1>5, <1>9, <1>11, <2>1
<1>13. ASSUME NEW n \in U \ FU!Range(hints), NEW h \in FU!Range(hints) PROVE els[h].conf >= els[n].conf
 <2>1. PICK i \in 1..k : h = all[i] /\ i \in DOMAIN all BY <1>11, <1>13 DEF FU!Range
 <2>2. PICK j \in DOMAIN all : all[j] = n BY <1>7
 <2>3. j \notin 1..k BY <1>11, <1>13, <2>2 DEF FU!Range
 <2>4. i < j BY <1>3, <1>5, <1>9, <2>3
 <2> QED BY <1>6, <2>1, <2>2, <2>4
<1>14. \A i, j \in DOMAIN hints : i < j => els[hints[i]].conf >= els[hints[j]].conf BY <1>6, <1>11
<1> QED BY <1>1, <1>9, <1>11, <1>12, <1>13, <1>14

LEMMA FusionRuns ==
  /\ \A r \in FU!Runs : r \in Nat /\ r >= 1 /\ r <= Scenarios
  /\ FU!Runs \subseteq 0..Scenarios /\ 1 \in FU!Runs
  /\ FU!Pending \notin FU!Runs /\ FU!Failed \notin FU!Runs /\ FU!Failed # FU!Pending
  /\ 0..Scenarios = FU!Runs \cup {FU!Pending}
BY FusionConstants DEF FU!Runs, FU!Pending, FU!Failed

LEMMA FusionInit == ASSUME Init PROVE FusionInv
<1>1. /\ now = 1 /\ lane = "begin" /\ browser = 0
      /\ ctx = [r \in FU!Runs |-> FALSE] /\ worker = [r \in FU!Runs |-> "none"]
      /\ done = [r \in FU!Runs |-> FU!Pending]
      /\ reason = "none" /\ elements = <<>> /\ ok = [r \in FU!Runs |-> FALSE] /\ lateRuns = {} /\ slipped = {}
 BY DEF Init, FU!Init
<1>2. FusionTyped
 <2>1. 1 \in FU!Runs /\ browser \in 0..Scenarios BY <1>1, FusionRuns, FusionConstants
 <2> QED BY <1>1, <2>1 DEF FusionTyped, WorkerPlaces
<1>3. Explained BY <1>1 DEF Explained, FU!Reasons, FU!Usable
<1>4. Captures BY <1>1, FusionRuns DEF Captures
<1> QED BY <1>2, <1>3, <1>4 DEF FusionInv

LEMMA FusionRests == FusionInv /\ UNCHANGED fusionVars => FusionInv'
BY DEF FusionInv, fusionVars, FusionTyped, Explained, Captures

LEMMA CtxMoves == ASSUME FusionInv, FU!CtxEnds PROVE FusionInv'
<1>1. /\ FusionTyped /\ Captures /\ now \in FU!Runs /\ ctx' = [ctx EXCEPT ![now] = TRUE]
      /\ slipped' = IF worker[now] = "navigate" THEN slipped \cup {now} ELSE slipped
      /\ UNCHANGED <<now, lane, worker, done, browser, reason, elements, ok, lateRuns>>
 BY DEF FusionInv, FusionTyped, FU!CtxEnds
<1>2. /\ ctx' \in [FU!Runs -> BOOLEAN] /\ ctx'[now] = TRUE
      /\ \A r \in FU!Runs : r # now => ctx'[r] = ctx[r]
      /\ slipped \subseteq slipped' /\ slipped' \subseteq FU!Runs
      /\ worker[now] = "navigate" => now \in slipped' BY <1>1 DEF FusionTyped
<1>3. FusionTyped' BY <1>1, <1>2 DEF FusionTyped
<1>4. Captures'
 <2>1. \A r \in FU!Runs : ctx[r] => ctx'[r] BY <1>2
 <2>2. \A r \in FU!Runs : worker'[r] = "navigate" /\ ctx'[r] => r \in slipped' BY <1>1, <1>2 DEF Captures
 <2>3. lateRuns' \subseteq slipped' BY <1>1, <1>2 DEF Captures
 <2> QED BY <1>1, <2>1, <2>2, <2>3 DEF Captures
<1> QED BY <1>1, <1>3, <1>4 DEF FusionInv, Explained

\* The steps of the goroutine of a run.
LEMMA WorkerMoves ==
  ASSUME FusionInv, NEW r \in FU!Runs, worker[r] \in {"attach", "attached", "navigate", "loaded", "shoot"},
         NEW spot \in WorkerPlaces, worker' = [worker EXCEPT ![r] = spot], spot # "none",
         NEW shown \in FU!Runs \cup {FU!Pending, FU!Failed}, done' = [done EXCEPT ![r] = shown],
         shown # FU!Pending => spot = "gone",
         browser' \in 0..Scenarios, lateRuns' \subseteq slipped, slipped' = slipped,
         lateRuns \subseteq lateRuns', UNCHANGED <<now, lane, ctx, reason, elements, ok>>,
         spot = "navigate" => ~ctx[r],
         lateRuns' = {} => /\ r # now => browser' = browser
                           /\ r = now => /\ spot \in {"loaded", "shoot"} => browser' = now
                                         /\ shown \in FU!Runs => shown = now PROVE  FusionInv'
<1>1. FusionTyped /\ Captures /\ now \in FU!Runs /\ worker[r] # "none" /\ worker[r] # "gone"
 BY DEF FusionInv, FusionTyped
<1>2. /\ worker' \in [FU!Runs -> WorkerPlaces] /\ worker'[r] = spot
      /\ done' \in [FU!Runs -> FU!Runs \cup {FU!Pending, FU!Failed}] /\ done'[r] = shown
      /\ \A q \in FU!Runs : q # r => worker'[q] = worker[q] /\ done'[q] = done[q] BY <1>1 DEF FusionTyped
<1>3. FusionTyped' BY <1>1, <1>2 DEF FusionTyped
<1>4. done[r] = FU!Pending BY <1>1 DEF Captures
<1>5. lane = "ground" => r # now BY <1>1, <1>4, FusionRuns DEF Captures
<1>6. Captures'
 <2>1. \A q \in FU!Runs : q > now \/ (q = now /\ lane = "begin") => worker'[q] = "none" /\ done'[q] = FU!Pending
  BY <1>1, <1>2 DEF Captures
 <2>2. \A q \in FU!Runs : done'[q] # FU!Pending => worker'[q] = "gone" BY <1>1, <1>2 DEF Captures
 <2>3. lane = "ground" => done'[now] \in FU!Runs BY <1>1, <1>2, <1>5 DEF Captures
 <2>4. \A q \in FU!Runs : q < now \/ (q = now /\ lane \in {"ground", "lane", "over"}) =>
          worker'[q] = "gone" \/ ctx[q] BY <1>1, <1>2 DEF Captures
 <2>5. \A q \in FU!Runs : worker'[q] = "navigate" /\ ctx[q] => q \in slipped BY <1>1, <1>2 DEF Captures
 <2>6. lateRuns' = {} => /\ worker'[now] \in {"loaded", "shoot"} => browser' = now
                         /\ done'[now] \in FU!Runs => done'[now] = now BY <1>1, <1>2 DEF Captures
 <2> QED BY <2>1, <2>2, <2>3, <2>4, <2>5, <2>6 DEF Captures
<1> QED BY <1>3, <1>6 DEF FusionInv, Explained

LEMMA AttachMoves == ASSUME FusionInv, NEW r \in FU!Runs, FU!Attach(r) PROVE FusionInv'
<1>1. /\ FusionTyped /\ Captures /\ done[r] = FU!Pending
      /\ worker[r] \in {"attach", "attached", "navigate", "loaded", "shoot"} BY DEF FusionInv, Captures, FU!Attach
<1>2. done = [done EXCEPT ![r] = FU!Pending] /\ "attached" \in WorkerPlaces /\ "gone" \in WorkerPlaces
 BY <1>1 DEF FusionTyped, WorkerPlaces
<1>3. /\ UNCHANGED <<browser, lateRuns, slipped>> /\ UNCHANGED <<now, lane, ctx, reason, elements, ok>>
      /\ browser \in 0..Scenarios /\ lateRuns \subseteq slipped BY <1>1 DEF FU!Attach, FusionTyped, Captures
<1>4. CASE worker' = [worker EXCEPT ![r] = "attached"] /\ UNCHANGED done
 <2>1. /\ FU!Pending \in FU!Runs \cup {FU!Pending, FU!Failed} /\ FU!Pending \notin FU!Runs
       /\ browser' \in 0..Scenarios /\ lateRuns' \subseteq slipped /\ lateRuns \subseteq lateRuns' BY <1>3, FusionRuns
 <2>2. done' = [done EXCEPT ![r] = FU!Pending] BY <1>2, <1>4
 <2>3. PICK spot : spot = "attached" OBVIOUS
 <2>4. /\ spot \in WorkerPlaces /\ spot # "none" /\ spot # "navigate" /\ spot \notin {"loaded", "shoot"}
       /\ worker' = [worker EXCEPT ![r] = spot] BY <1>2, <1>4, <2>3
 <2> QED BY ONLY ZenonT(90), FusionInv, r \in FU!Runs, <1>1, <1>2, <1>3, <2>1, <2>2, <2>4, WorkerMoves
<1>5. CASE FU!Leaves(r, FU!Failed) BY ZenonT(90), <1>1, <1>2, <1>3, <1>5, WorkerMoves, FusionRuns DEF FU!Leaves
<1> QED BY <1>4, <1>5 DEF FU!Attach

LEMMA CheckCtxMoves == ASSUME FusionInv, NEW r \in FU!Runs, FU!CheckCtx(r) PROVE FusionInv'
<1>1. /\ FusionTyped /\ Captures /\ done[r] = FU!Pending /\ worker[r] \in {"attached", "loaded"}
 BY DEF FusionInv, Captures, FU!CheckCtx
<1>2. done = [done EXCEPT ![r] = FU!Pending] /\ {"navigate", "shoot", "gone"} \subseteq WorkerPlaces
 BY <1>1 DEF FusionTyped, WorkerPlaces
<1>3. /\ UNCHANGED <<browser, lateRuns, slipped>> /\ UNCHANGED <<now, lane, ctx, reason, elements, ok>>
      /\ browser \in 0..Scenarios /\ lateRuns \subseteq slipped BY <1>1 DEF FU!CheckCtx, FusionTyped, Captures
<1>4. CASE ctx[r]
 <2>1. worker' = [worker EXCEPT ![r] = "gone"] /\ done' = [done EXCEPT ![r] = FU!Failed]
  BY <1>4 DEF FU!CheckCtx, FU!Leaves
 <2> QED BY ZenonT(90), <1>1, <1>2, <1>3, <2>1, WorkerMoves, FusionRuns
<1>5. CASE ~ctx[r]
 <2>1. PICK spot : spot = IF worker[r] = "attached" THEN "navigate" ELSE "shoot" OBVIOUS
 <2>2. worker' = [worker EXCEPT ![r] = spot] /\ UNCHANGED done BY <1>5, <2>1 DEF FU!CheckCtx
 <2>3. lateRuns = {} /\ r = now /\ spot = "shoot" => browser = now BY <1>1, <2>1 DEF Captures
 <2> QED
  <3>1. /\ FU!Pending \in FU!Runs \cup {FU!Pending, FU!Failed} /\ FU!Pending \notin FU!Runs
        /\ browser' \in 0..Scenarios /\ lateRuns' \subseteq slipped /\ lateRuns \subseteq lateRuns'
        /\ spot \in WorkerPlaces /\ spot # "none" /\ (spot = "navigate" => ~ctx[r])
        /\ worker[r] \in {"attach", "attached", "navigate", "loaded", "shoot"}
   BY <1>1, <1>2, <1>3, <1>5, <2>1, FusionRuns
  <3>2. done' = [done EXCEPT ![r] = FU!Pending] BY <1>2, <2>2
  <3>3. lateRuns = {} /\ r = now => (spot \in {"loaded", "shoot"} => browser' = now) BY <1>3, <2>1, <2>3
  <3> QED BY ONLY ZenonT(90), FusionInv, r \in FU!Runs, <1>3, <2>2, <3>1, <3>2, <3>3, WorkerMoves
<1> QED BY <1>4, <1>5

LEMMA NavigateMoves == ASSUME FusionInv, NEW r \in FU!Runs, FU!Navigate(r) PROVE FusionInv'
<1>1. /\ FusionTyped /\ Captures /\ done[r] = FU!Pending /\ worker[r] = "navigate" /\ now \in FU!Runs
 BY DEF FusionInv, FusionTyped, Captures, FU!Navigate
<1>2. done = [done EXCEPT ![r] = FU!Pending] /\ {"loaded", "gone"} \subseteq WorkerPlaces
 BY <1>1 DEF FusionTyped, WorkerPlaces
<1>3. /\ lateRuns' = IF FU!Returned_(r) THEN lateRuns \cup {r} ELSE lateRuns
      /\ slipped' = slipped /\ UNCHANGED <<now, lane, ctx, reason, elements, ok>> BY DEF FU!Navigate
<1>4. FU!Returned_(r) => r \in slipped
 <2>1. FU!Returned_(r) => worker[r] = "gone" \/ ctx[r] BY <1>1 DEF Captures, FU!Returned_
 <2> QED BY <1>1, <2>1 DEF Captures
<1>5. lateRuns' \subseteq slipped /\ lateRuns \subseteq lateRuns' BY <1>1, <1>3, <1>4 DEF Captures
<1>6. lateRuns' = {} => r = now
 <2>1. ~(r > now) BY <1>1 DEF Captures
 <2>2. r \in Nat /\ now \in Nat BY <1>1, FusionRuns
 <2> QED BY <1>3, <2>1, <2>2 DEF FU!Returned_
<1>7. browser \in 0..Scenarios /\ r \in 0..Scenarios BY <1>1, FusionRuns DEF FusionTyped
<1>8. CASE browser' = r /\ worker' = [worker EXCEPT ![r] = "loaded"] /\ UNCHANGED done
 <2>1. /\ FU!Pending \in FU!Runs \cup {FU!Pending, FU!Failed} /\ FU!Pending \notin FU!Runs
       /\ browser' \in 0..Scenarios /\ worker[r] \in {"attach", "attached", "navigate", "loaded", "shoot"}
  BY <1>1, <1>7, <1>8, FusionRuns
 <2>2. done' = [done EXCEPT ![r] = FU!Pending] BY <1>2, <1>8
 <2>3. lateRuns' = {} => r = now /\ browser' = now BY <1>6, <1>8
 <2> QED BY ONLY ZenonT(90), FusionInv, r \in FU!Runs, <1>2, <1>3, <1>5, <1>8, <2>1, <2>2, <2>3, WorkerMoves
<1>9. CASE FU!Leaves(r, FU!Failed) /\ UNCHANGED browser
 BY ZenonT(90), <1>1, <1>2, <1>3, <1>5, <1>6, <1>7, <1>9, WorkerMoves, FusionRuns DEF FU!Leaves
<1> QED BY <1>8, <1>9 DEF FU!Navigate

LEMMA ShootMoves == ASSUME FusionInv, NEW r \in FU!Runs, FU!CaptureScreenshot(r) PROVE FusionInv'
<1>1. /\ FusionTyped /\ Captures /\ worker[r] = "shoot" /\ "gone" \in WorkerPlaces
 BY DEF FusionInv, FU!CaptureScreenshot, WorkerPlaces
<1>2. /\ UNCHANGED <<browser, lateRuns, slipped>> /\ UNCHANGED <<now, lane, ctx, reason, elements, ok>>
      /\ browser \in 0..Scenarios /\ lateRuns \subseteq slipped
 BY <1>1 DEF FU!CaptureScreenshot, FusionTyped, Captures
<1>3. PICK shown \in {browser, FU!Failed} : FU!Leaves(r, shown) BY DEF FU!CaptureScreenshot
<1>4. shown \in FU!Runs \cup {FU!Pending, FU!Failed} BY <1>2, <1>3, FusionRuns
<1>5. lateRuns = {} /\ r = now => (shown \in FU!Runs => shown = now) BY <1>1, <1>3, FusionRuns DEF Captures
<1> QED BY <1>1, <1>2, <1>3, <1>4, <1>5, WorkerMoves DEF FU!Leaves

LEMMA RunMoves == ASSUME FusionInv, FU!BeginCapture \/ FU!Captured \/ FU!Lane \/ FU!NextScenario PROVE FusionInv'
<1>1. /\ FusionTyped /\ Captures /\ Explained /\ now \in FU!Runs /\ now \in Nat
      /\ \A r \in FU!Runs : r \in Nat BY FusionRuns DEF FusionInv, FusionTyped
<1>2. CASE FU!BeginCapture
 <2>1. /\ lane = "begin" /\ lane' = "wait" /\ worker' = [worker EXCEPT ![now] = "attach"]
       /\ UNCHANGED <<now, ctx, done, browser, reason, elements, ok, lateRuns, slipped>> BY <1>2 DEF FU!BeginCapture
 <2>2. /\ worker' \in [FU!Runs -> WorkerPlaces] /\ worker'[now] = "attach"
       /\ \A r \in FU!Runs : r # now => worker'[r] = worker[r] BY <1>1, <2>1 DEF FusionTyped, WorkerPlaces
 <2>3. FusionTyped' BY <1>1, <2>1, <2>2 DEF FusionTyped
 <2>4. Captures' BY <1>1, <2>1, <2>2 DEF Captures
 <2>5. Explained' BY <1>1, <2>1 DEF Explained
 <2> QED BY <2>3, <2>4, <2>5 DEF FusionInv
<1>3. CASE FU!Captured
 <2>1. /\ lane = "wait" /\ lane' \in {"ground", "lane"}
       /\ \/ done[now] \in FU!Runs /\ reason' = reason
          \/ (done[now] = FU!Failed \/ ctx[now]) /\ lane' = "lane" /\ reason' = "capture_failed"
       /\ done[now] \in FU!Runs \/ lane' = "lane"
       /\ lane' = "lane" => reason' = "capture_failed"
       /\ UNCHANGED <<now, ctx, worker, done, browser, elements, ok, lateRuns, slipped>> BY <1>3 DEF FU!Captured
 <2>2. FusionTyped' BY <1>1, <2>1 DEF FusionTyped
 <2>3. worker[now] = "gone" \/ ctx[now] BY <1>1, <2>1, FusionRuns DEF Captures
 <2>4. Captures' BY <1>1, <2>1, <2>3 DEF Captures
 <2>5. elements = <<>> /\ reason' \in FU!Reasons /\ reason # "grounded" /\ FU!Usable(elements) = {}
  BY <1>1, <2>1 DEF Explained, FU!Reasons, FU!Usable
 <2>6. Explained'
  <3>1. reason' # "grounded" /\ (reason' = "grounding_low_confidence" => reason = reason') BY <2>1, <2>5
  <3> QED BY <1>1, <2>1, <2>5, <3>1 DEF Explained
 <2> QED BY <2>2, <2>4, <2>6 DEF FusionInv
<1>4. CASE FU!Lane
 <2>1. PICK good \in BOOLEAN : ok' = [ok EXCEPT ![now] = good] BY <1>4 DEF FU!Lane
 <2>2. /\ lane = "lane" /\ lane' = "over"
       /\ UNCHANGED <<now, ctx, worker, done, browser, reason, elements, lateRuns, slipped>> BY <1>4 DEF FU!Lane
 <2>3. FusionTyped' BY <1>1, <2>1, <2>2 DEF FusionTyped
 <2>4. Captures' BY <1>1, <2>2 DEF Captures
 <2>5. Explained' BY <1>1, <2>2 DEF Explained
 <2> QED BY <2>3, <2>4, <2>5 DEF FusionInv
<1>5. CASE FU!NextScenario
 <2>1. /\ lane = "over" /\ now < Scenarios /\ now' = now + 1 /\ lane' = "begin"
       /\ reason' = "none" /\ elements' = <<>>
       /\ UNCHANGED <<ctx, worker, done, browser, ok, lateRuns, slipped>> BY <1>5 DEF FU!NextScenario
 <2>2. now' \in FU!Runs BY <1>1, <2>1, FusionConstants DEF FU!Runs
 <2>3. FusionTyped' BY <1>1, <2>1, <2>2 DEF FusionTyped
 <2>4. worker[now'] = "none" /\ done[now'] = FU!Pending BY <1>1, <2>1, <2>2 DEF Captures
 <2>5. Captures'
  <3>1. \A r \in FU!Runs : r > now' \/ (r = now' /\ lane' = "begin") =>
           worker[r] = "none" /\ done[r] = FU!Pending BY <1>1, <2>1 DEF Captures
  <3>2. \A r \in FU!Runs : r < now' \/ (r = now' /\ lane' \in {"ground", "lane", "over"}) =>
           worker[r] = "gone" \/ ctx[r] BY <1>1, <2>1 DEF Captures
  <3>3. worker[now'] \notin {"loaded", "shoot"} /\ done[now'] \notin FU!Runs BY <2>4, FusionRuns
  <3> QED BY <1>1, <2>1, <3>1, <3>2, <3>3 DEF Captures
 <2>6. Explained' BY <2>1 DEF Explained, FU!Reasons, FU!Usable
 <2> QED BY <2>3, <2>5, <2>6 DEF FusionInv
<1> QED BY <1>2, <1>3, <1>4, <1>5

LEMMA OutcomeExplains == ASSUME NEW els
  PROVE  /\ FU!outcome(els) \in FU!Reasons /\ FU!outcome(els) # "none"
         /\ FU!outcome(els) = "grounded" <=> FU!Usable(els) # {}
         /\ FU!outcome(els) = "grounding_low_confidence" => \E n \in DOMAIN els : els[n].interactable
BY DEF FU!outcome, FU!Usable, FU!Reasons

LEMMA GroundMoves == ASSUME FusionInv, FU!Ground PROVE FusionInv'
<1>1. /\ FusionTyped /\ Captures /\ Explained /\ lane = "ground" /\ lane' = "lane"
      /\ UNCHANGED <<now, ctx, worker, done, browser, ok, lateRuns, slipped>> BY DEF FusionInv, FU!Ground
<1>2. FusionTyped' BY <1>1 DEF FusionTyped
<1>3. worker[now] = "gone" \/ ctx[now] BY <1>1 DEF Captures, FusionTyped
<1>4. Captures' BY <1>1, <1>3 DEF Captures
<1>5. CASE reason' = "grounding_unavailable" /\ UNCHANGED elements
 <2>1. elements = <<>> /\ FU!Usable(elements) = {} /\ reason' \in FU!Reasons
  BY <1>1, <1>5 DEF Explained, FU!Usable, FU!Reasons
 <2>2. Explained' BY <1>1, <1>5, <2>1 DEF Explained
 <2> QED BY <1>2, <1>4, <2>2 DEF FusionInv
<1>6. ASSUME NEW n \in 0..MaxElements, NEW els \in [1..n -> FU!Element],
             elements' = els, reason' = FU!outcome(els) PROVE  FusionInv'
 <2>1. els \in Seq(FU!Element) BY FusionConstants
 <2>2. /\ reason' \in FU!Reasons /\ reason' # "none"
       /\ reason' = "grounded" <=> FU!Usable(els) # {}
       /\ reason' = "grounding_low_confidence" => \E k \in DOMAIN els : els[k].interactable BY <1>6, OutcomeExplains
 <2>3. Explained' BY <1>1, <1>6, <2>1, <2>2 DEF Explained
 <2> QED BY <1>2, <1>4, <2>3 DEF FusionInv
<1> QED BY <1>5, <1>6 DEF FU!Ground

LEMMA FusionNext == ASSUME FusionInv, FU!Next PROVE FusionInv'
BY CtxMoves, AttachMoves, CheckCtxMoves, NavigateMoves, ShootMoves, RunMoves, GroundMoves DEF FU!Next, FU!Goroutine

LEMMA FusionHolds == ASSUME FusionInv PROVE FU!TypeOK /\ FU!GroundingIsExplained /\ FU!ScreenIsOfItsPage
<1>1. FusionTyped /\ Captures /\ Explained BY DEF FusionInv
<1>2. \A n \in DOMAIN elements : elements[n] \in FU!Element BY <1>1, Elements DEF Explained
<1>3. FU!TypeOK BY <1>1, <1>2 DEF FU!TypeOK, FusionTyped, Explained, WorkerPlaces
<1>4. FU!GroundingIsExplained
 <2>1. PICK hints : hints = FU!candidates(elements) OBVIOUS
 <2>2. /\ hints # <<>> <=> FU!Usable(elements) # {}
       /\ Len(hints) <= MaxCandidates
       /\ \A n \in FU!Usable(elements) \ FU!Range(hints) : \A h \in FU!Range(hints) :
             elements[h].conf >= elements[n].conf
       /\ \A i, j \in DOMAIN hints : i < j => elements[hints[i]].conf >= elements[hints[j]].conf
  BY <1>1, <2>1, HintsHold DEF Explained
 <2> QED BY <1>1, <2>1, <2>2, Zenon DEF FU!GroundingIsExplained, Explained
<1>5. FU!ScreenIsOfItsPage BY <1>1 DEF FU!ScreenIsOfItsPage, Captures
<1> QED BY <1>3, <1>4, <1>5

(* The parts together: the subject steps, and the others rest. *)
PartsInv ==
  /\ StoreInv /\ BudgetInv /\ BanditInv /\ SignalInv /\ MaturityInv /\ LearnInv /\ ImportInv /\ WaitInv
  /\ PoolInv /\ StepInv /\ FrameInv /\ ChangeInv /\ FileInv /\ DriftInv /\ RepairInv /\ FusionInv

LEMMA PartsInit == Init => PartsInv
BY StoreInit, BudgetInit, BanditInit, SignalInit, MaturityInit, LearnInit, ImportInit, WaitInit,
   PoolInit, StepInit, FrameInit, ChangeInit, FileInit, DriftInit, RepairInit, FusionInit DEF Init, PartsInv

LEMMA PartsNext == ASSUME PartsInv, [Next]_vars PROVE PartsInv'
<1>1. StoreInv'
 <2>1. (Only("stores") /\ FS!Next) \/ UNCHANGED storeVars BY DEF Next, Only, vars
 <2> QED BY <2>1, StoreNext, StoreRests DEF PartsInv
<1>2. BudgetInv'
 <2>1. (Only("budget") /\ BA!BudgetNext) \/ UNCHANGED budgetVars BY DEF Next, Only, vars
 <2> QED BY <2>1, BudgetNext, BudgetRests DEF PartsInv
<1>3. BanditInv'
 <2>1. (Only("bandit") /\ BA!Next) \/ UNCHANGED banditVars BY DEF Next, Only, vars
 <2> QED BY <2>1, BanditNext, BanditRests DEF PartsInv
<1>4. SignalInv'
 <2>1. (Only("signals") /\ SE!Next) \/ UNCHANGED signalVars BY DEF Next, Only, vars
 <2> QED BY <2>1, SignalNext, SignalRests DEF PartsInv
<1>5. MaturityInv'
 <2>1. (Only("maturity") /\ LE!MaturityNext) \/ UNCHANGED maturityVars BY DEF Next, Only, vars
 <2> QED BY <2>1, MaturityNext, MaturityRests DEF PartsInv
<1>6. LearnInv'
 <2>1. (Only("learning") /\ LE!Next) \/ UNCHANGED learningVars BY DEF Next, Only, vars
 <2> QED BY <2>1, LearnNext, LearnRests DEF PartsInv
<1>7. ImportInv'
 <2>1. (Only("import") /\ LE!ImportNext) \/ UNCHANGED importVars BY DEF Next, Only, vars
 <2> QED BY <2>1, ImportNext, ImportRests DEF PartsInv
<1>8. WaitInv'
 <2>1. (Only("waits") /\ PW!Next) \/ UNCHANGED waiterVars BY DEF Next, Only, vars
 <2> QED BY <2>1, WaitNext, WaitRests DEF PartsInv
<1>9. PoolInv'
 <2>1. (Only("pool") /\ PR!PoolNext) \/ UNCHANGED poolVars BY DEF Next, Only, vars
 <2> QED BY <2>1, PoolNext, PoolRests DEF PartsInv
<1>10. StepInv'
 <2>1. (Only("steps") /\ PR!Next) \/ UNCHANGED stepVars BY DEF Next, Only, vars
 <2> QED BY <2>1, StepNext, StepRests DEF PartsInv
<1>11. FrameInv'
 <2>1. (Only("frames") /\ FH!Next) \/ UNCHANGED frameVars BY DEF Next, Only, vars
 <2> QED BY <2>1, FrameNext, FrameRests DEF PartsInv
<1>12. ChangeInv'
 <2>1. (Only("changes") /\ CD!Next) \/ UNCHANGED changeVars BY DEF Next, Only, vars
 <2> QED BY <2>1, ChangeNext, ChangeRests DEF PartsInv
<1>13. FileInv'
 <2>1. (Only("files") /\ SR!FilesNext) \/ UNCHANGED fileVars BY DEF Next, Only, vars
 <2> QED BY <2>1, FileNext, FileRests DEF PartsInv
<1>14. DriftInv'
 <2>1. (Only("drift") /\ DA!Next) \/ UNCHANGED driftVars BY DEF Next, Only, vars
 <2> QED BY <2>1, DriftNext, DriftRests DEF PartsInv
<1>15. RepairInv'
 <2>1. (Only("repair") /\ SR!Next) \/ UNCHANGED repairVars BY DEF Next, Only, vars
 <2> QED BY <2>1, RepairNext, RepairRests DEF PartsInv
<1>16. FusionInv'
 <2>1. (Only("fusion") /\ FU!Next) \/ UNCHANGED fusionVars BY DEF Next, Only, vars
 <2> QED BY <2>1, FusionNext, FusionRests DEF PartsInv
<1> QED
 BY <1>1, <1>2, <1>3, <1>4, <1>5, <1>6, <1>7, <1>8, <1>9, <1>10, <1>11, <1>12, <1>13, <1>14, <1>15, <1>16 DEF PartsInv

LEMMA Invariance == Spec => []PartsInv
BY PartsInit, PartsNext, PTL DEF Spec

\* Every decision the parts around the agent take is right, for any number of
\* goroutines, keys, tiers, tasks, frames, pages and limits: breakers open on
\* failures alone, spending stays near its caps, waits, heals, alerts, repairs
\* and captures do what their callers rely on.
THEOREM DecisionsRight == Spec => []DecisionsAreRight
<1>1. PartsInv => DecisionsAreRight
 BY StoreHolds, BudgetHolds, BanditHolds, SignalHolds, MaturityHolds, LearnHolds, ImportHolds,
    WaitHolds, PoolHolds, StepHolds, FrameHolds, ChangeHolds, FileHolds, DriftHolds, RepairHolds, FusionHolds
    DEF PartsInv, DecisionsAreRight
<1> QED BY <1>1, Invariance, PTL

\* Every variable keeps its type, and what the parts keep and report is true:
\* stores and logs hold what was acknowledged, snapshots and imports lose
\* nothing, results tell of the call they end, and baselines agree.
THEOREM RecordsTrue == Spec => []RecordsAreTrue
<1>1. PartsInv => RecordsAreTrue
 BY StoreHolds, BudgetHolds, BanditHolds, SignalHolds, MaturityHolds, LearnHolds, ImportHolds,
    WaitHolds, PoolHolds, StepHolds, FrameHolds, ChangeHolds, FileHolds, DriftHolds, RepairHolds, FusionHolds
    DEF PartsInv, RecordsAreTrue, TypeOK
<1> QED BY <1>1, Invariance, PTL

=============================================================================
