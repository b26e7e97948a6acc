-------------------------- MODULE EvolutionProofs --------------------------
(***************************************************************************)
(* Proofs about MCEvolution: the evolution cycle, the trace pipeline, the  *)
(* fleet, workflow graphs with their searches and their rubric, the ways   *)
(* by which a change is adopted and the capsule store, each with the       *)
(* invariant that its decisions and its reports keep.                      *)
(***************************************************************************)
EXTENDS MCEvolution, FiniteSetTheorems, SequenceTheorems, WellFoundedInduction, TLAPS

(***************************************************************************)
(* Naturals, cardinalities and sums.                                       *)
(***************************************************************************)
LEMMA Least ==
    ASSUME NEW P \in SUBSET Nat, P # {} PROVE \E n \in P : \A m \in P : n <= m
<1> DEFINE less == {ss \in Nat \X Nat : ss[1] < ss[2]}
<1>1. IsWellFoundedOn(less, Nat)
  BY NatLessThanWellFounded DEF OpToRel
<1>2. PICK n \in P : \A m \in P : <<m, n>> \notin less
  BY <1>1, WFMin
<1>3. ASSUME NEW m \in P, ~(n <= m) PROVE FALSE
  <2>1. m < n /\ <<m, n>> \in Nat \X Nat
    BY <1>3
  <2> QED
    BY <1>2, <2>1
<1> QED
  BY <1>3

\* Induction, over a set in place of a formula.
LEMMA Induction ==
    ASSUME NEW P \in SUBSET Nat, 0 \in P, \A n \in P : n + 1 \in P PROVE P = Nat
<1> SUFFICES ASSUME Nat \ P # {} PROVE FALSE
  OBVIOUS
<1>1. PICK n \in Nat \ P : \A m \in Nat \ P : n <= m
  BY Least
<1>2. n # 0 /\ n - 1 \in Nat /\ n - 1 \notin Nat \ P
  BY <1>1
<1> QED
  BY <1>1, <1>2

LEMMA Product ==
    ASSUME NEW a \in Nat, NEW b \in Nat, a <= b, NEW c \in Nat
    PROVE  a * c \in Nat /\ b * c \in Nat /\ a * c <= b * c
<1>1. b - a \in Nat /\ (b - a) * c \in Nat
  OBVIOUS
<1>2. b * c = a * c + (b - a) * c
  OBVIOUS
<1> QED
  BY <1>1, <1>2

LEMMA Cardinalities ==
    ASSUME NEW U
    PROVE  /\ I!Cardinality(U) = Cardinality(U) /\ T!Cardinality(U) = Cardinality(U)
           /\ F!Cardinality(U) = Cardinality(U) /\ G!Cardinality(U) = Cardinality(U)
           /\ A!Cardinality(U) = Cardinality(U) /\ B!Cardinality(U) = Cardinality(U)
           /\ (I!IsFiniteSet(U) <=> IsFiniteSet(U)) /\ (T!IsFiniteSet(U) <=> IsFiniteSet(U))
           /\ (G!IsFiniteSet(U) <=> IsFiniteSet(U)) /\ (B!IsFiniteSet(U) <=> IsFiniteSet(U))
BY DEF I!Cardinality, T!Cardinality, F!Cardinality, G!Cardinality, A!Cardinality,
       B!Cardinality, Cardinality,
       I!IsFiniteSet, T!IsFiniteSet, G!IsFiniteSet, B!IsFiniteSet, IsFiniteSet

\* The values that f takes.
LEMMA Image ==
    ASSUME NEW U, IsFiniteSet(U), NEW f
    PROVE  /\ IsFiniteSet({f[x] : x \in U})
           /\ Cardinality({f[x] : x \in U}) <= Cardinality(U)
<1> DEFINE g == [x \in U |-> f[x]]
<1>1. g \in Surjection(U, {f[x] : x \in U})
  BY DEF Surjection
<1> QED
  BY <1>1, FS_Surjection

\* Places with a different member each.
LEMMA Injected ==
    ASSUME NEW U, NEW V, IsFiniteSet(V), NEW f \in [U -> V],
           \A x, y \in U : f[x] = f[y] => x = y
    PROVE  IsFiniteSet(U) /\ Cardinality(U) <= Cardinality(V)
<1>1. f \in Injection(U, V)
  BY DEF Injection, IsInjective
<1> QED
  BY <1>1, FS_Injection

LEMMA Appends ==
    ASSUME NEW U, NEW s \in Seq(U), NEW e \in U
    PROVE  /\ Append(s, e) \in Seq(U) /\ Len(s) \in Nat /\ Len(Append(s, e)) = Len(s) + 1
           /\ DOMAIN s = 1..Len(s) /\ DOMAIN Append(s, e) = 1..(Len(s) + 1)
           /\ \A i \in 1..Len(s) : Append(s, e)[i] = s[i]
           /\ Append(s, e)[Len(s) + 1] = e
OBVIOUS

LEMMA Joined ==
    ASSUME NEW U, NEW s \in Seq(U), NEW t \in Seq(U), NEW r, r = s \o t
    PROVE  /\ r \in Seq(U) /\ Len(s) \in Nat /\ Len(t) \in Nat /\ Len(r) = Len(s) + Len(t)
           /\ \A i \in 1..Len(s) : r[i] = s[i]
           /\ \A j \in 1..Len(t) : r[Len(s) + j] = t[j]
<1>1. \A j \in 1..Len(t) : Len(s) + j \in 1..(Len(s) + Len(t)) /\ ~(Len(s) + j <= Len(s))
  OBVIOUS
<1> QED
  BY <1>1

LEMMA Sequence ==
    ASSUME NEW n \in Nat, NEW U, NEW f \in [1..n -> U]
    PROVE  f \in Seq(U) /\ Len(f) = n /\ DOMAIN f = 1..n
BY SeqDef

\* The members of a set of places have the ranks 1, 2, ... in it.
LEMMA Ranks ==
    ASSUME NEW n \in Nat, NEW P \in SUBSET (1..n)
    PROVE  /\ IsFiniteSet(P) /\ Cardinality(P) \in Nat
           /\ \A k \in 1..Cardinality(P) : \E i \in P : Cardinality({j \in P : j <= i}) = k
           /\ \A i \in P : Cardinality({j \in P : j <= i}) \in 1..Cardinality(P)
           /\ \A i, h \in P : i < h =>
                 Cardinality({j \in P : j <= i}) < Cardinality({j \in P : j <= h})
<1> DEFINE below(m) == {j \in P : j <= m}
           good == {m \in Nat : \A k \in 1..Cardinality(below(m)) :
                                   \E i \in P : Cardinality(below(i)) = k}
<1>0. \A j \in P : j \in Nat /\ 1 <= j /\ j <= n
  OBVIOUS
<1>1. IsFiniteSet(P)
  <2>1. IsFiniteSet(1..n)
    BY FS_Interval
  <2> QED
    BY <2>1, FS_Subset
<1>2. \A m : IsFiniteSet(below(m)) /\ Cardinality(below(m)) \in Nat
            /\ Cardinality(below(m)) <= Cardinality(P)
  BY <1>1, FS_Subset, FS_CardinalityType
<1>3. 0 \in good
  <2>1. below(0) = {}
    <3>1. \A j \in P : ~(j <= 0)
      BY <1>0
    <3> QED
      BY <3>1
  <2>2. Cardinality(below(0)) = 0
    BY <2>1, FS_EmptySet
  <2> HIDE DEF below
  <2> QED
    BY <2>2
<1>4. ASSUME NEW m \in good PROVE m + 1 \in good
  <2>1. CASE m + 1 \in P
    <3>1. below(m + 1) = below(m) \cup {m + 1} /\ m + 1 \notin below(m)
      <4>1. \A j \in P : j <= m + 1 <=> j <= m \/ j = m + 1
        BY <1>0
      <4>2. m + 1 <= m + 1 /\ ~(m + 1 <= m)
        OBVIOUS
      <4> QED
        BY <2>1, <4>1, <4>2
    <3>2. Cardinality(below(m + 1)) = Cardinality(below(m)) + 1
      <4> HIDE DEF below
      <4> QED
        BY <1>2, <3>1, FS_AddElement
    <3>3. ASSUME NEW k \in 1..Cardinality(below(m + 1))
          PROVE  \E i \in P : Cardinality(below(i)) = k
      <4> HIDE DEF below
      <4>1. k = Cardinality(below(m + 1)) \/ k \in 1..Cardinality(below(m))
        BY <1>2, <3>2
      <4>2. \A h \in 1..Cardinality(below(m)) : \E i \in P : Cardinality(below(i)) = h
        OBVIOUS
      <4> QED
        BY <2>1, <4>1, <4>2
    <3> QED
      BY <3>3
  <2>2. CASE m + 1 \notin P
    <3>1. below(m + 1) = below(m)
      <4>1. \A j \in P : j <= m + 1 <=> j <= m
        BY <1>0, <2>2
      <4> QED
        BY <4>1
    <3> QED
      BY <3>1
  <2> QED
    BY <2>1, <2>2
<1>5. good = Nat
  <2> HIDE DEF good
  <2> QED
    BY <1>3, <1>4, Induction DEF good
<1>6. below(n) = P
  BY <1>0
<1>7. \A k \in 1..Cardinality(P) : \E i \in P : Cardinality(below(i)) = k
  BY <1>5, <1>6
<1>8. ASSUME NEW i \in P PROVE Cardinality(below(i)) \in 1..Cardinality(P)
  <2>1. below(i) # {}
    OBVIOUS
  <2> HIDE DEF below
  <2> QED
    BY <1>1, <1>2, <2>1, FS_EmptySet, FS_CardinalityType
<1>9. ASSUME NEW i \in P, NEW h \in P, i < h
      PROVE  Cardinality(below(i)) < Cardinality(below(h))
  <2>1. below(i) \in SUBSET below(h) /\ below(i) # below(h)
    <3>1. \A j \in P : j <= i => j <= h
      BY <1>0, <1>9
    <3>2. h <= h /\ ~(h <= i)
      BY <1>0, <1>9
    <3> QED
      BY <3>1, <3>2
  <2> HIDE DEF below
  <2> QED
    BY <1>2, <2>1, FS_Subset
<1> QED
  BY <1>1, <1>7, <1>8, <1>9, FS_CardinalityType


\* The sums of w over the subsets of U, in the order in which a fold takes
\* their members.
First(s) == CHOOSE x \in s : TRUE

Sums(U, w, it) ==
    it = [s \in SUBSET U |-> IF s = {} THEN 0 ELSE it[s \ {First(s)}] + w[First(s)]]

LEMMA FirstTaken ==
    ASSUME NEW U, IsFiniteSet(U), NEW s \in SUBSET U, s # {}
    PROVE  /\ First(s) \in s /\ s \ {First(s)} \in SUBSET U
           /\ IsFiniteSet(s) /\ Cardinality(s) \in Nat
           /\ Cardinality(s \ {First(s)}) = Cardinality(s) - 1
<1>1. First(s) \in s
  BY DEF First
<1>2. IsFiniteSet(s) /\ Cardinality(s) \in Nat
  BY FS_Subset, FS_CardinalityType
<1> QED
  BY <1>1, <1>2, FS_RemoveElement

LEMMA SumsExist ==
    ASSUME NEW U, IsFiniteSet(U), NEW w \in [U -> Nat] PROVE \E it : Sums(U, w, it)
<1> DEFINE step(g, s) == IF s = {} THEN 0 ELSE g[s \ {First(s)}] + w[First(s)]
           upTo(g, n) == \A s \in SUBSET U : Cardinality(s) <= n => g[s] = step(g, s)
           P == {n \in Nat : \E g \in [SUBSET U -> Nat] : upTo(g, n)}
<1>0. \A s \in SUBSET U : IsFiniteSet(s) /\ Cardinality(s) \in Nat /\ (Cardinality(s) = 0 <=> s = {})
  BY FS_Subset, FS_CardinalityType, FS_EmptySet
<1>1. 0 \in P
  <2> DEFINE g == [s \in SUBSET U |-> 0]
  <2>1. ASSUME NEW s \in SUBSET U, Cardinality(s) <= 0 PROVE s = {}
    BY <1>0, <2>1
  <2>2. g \in [SUBSET U -> Nat] /\ upTo(g, 0)
    BY <2>1
  <2> QED
    BY <2>2
<1>2. ASSUME NEW n \in P PROVE n + 1 \in P
  <2>1. PICK g \in [SUBSET U -> Nat] : upTo(g, n)
    OBVIOUS
  <2> DEFINE h == [s \in SUBSET U |-> IF Cardinality(s) <= n THEN g[s] ELSE step(g, s)]
  <2>2. \A s \in SUBSET U : s # {} => /\ First(s) \in U /\ s \ {First(s)} \in SUBSET U
                                     /\ Cardinality(s \ {First(s)}) = Cardinality(s) - 1
    BY FirstTaken
  <2>3. h \in [SUBSET U -> Nat]
    <3>1. ASSUME NEW s \in SUBSET U PROVE step(g, s) \in Nat
      <4>1. CASE s = {}
        BY <4>1
      <4>2. CASE s # {}
        <5>1. g[s \ {First(s)}] \in Nat /\ w[First(s)] \in Nat
          BY <2>2, <4>2
        <5> QED
          BY <4>2, <5>1
      <4> QED
        BY <4>1, <4>2
    <3>2. \A s \in SUBSET U : (IF Cardinality(s) <= n THEN g[s] ELSE step(g, s)) \in Nat
      BY <3>1
    <3> QED
      BY <3>2
  <2>4. ASSUME NEW s \in SUBSET U, Cardinality(s) <= n + 1 PROVE h[s] = step(h, s)
    <3>1. CASE s = {}
      <4>1. Cardinality(s) = 0
        BY <1>0, <3>1
      <4>2. h[s] = g[s] /\ g[s] = step(g, s)
        BY <2>1, <4>1
      <4> QED
        BY <3>1, <4>2
    <3>2. CASE s # {}
      <4>1. Cardinality(s \ {First(s)}) <= n /\ s \ {First(s)} \in SUBSET U
        <5>1. Cardinality(s \ {First(s)}) = Cardinality(s) - 1 /\ Cardinality(s) \in Nat
              /\ s \ {First(s)} \in SUBSET U
          BY <1>0, <2>2, <3>2
        <5> QED
          BY <2>4, <5>1
      <4>2. h[s \ {First(s)}] = g[s \ {First(s)}]
        BY <4>1
      <4>3. h[s] = step(g, s)
        BY <2>1
      <4> QED
        BY <3>2, <4>2, <4>3
    <3> QED
      BY <3>1, <3>2
  <2>5. upTo(h, n + 1) /\ n + 1 \in Nat
    <3>1. n + 1 \in Nat
      OBVIOUS
    <3> HIDE DEF h, step, P
    <3> QED
      BY <2>4, <3>1
  <2> HIDE DEF h, upTo
  <2> QED
    BY <2>3, <2>5
<1>3. P = Nat
  <2> HIDE DEF P
  <2> QED
    BY <1>1, <1>2, Induction DEF P
<1>4. Cardinality(U) \in Nat
  BY FS_CardinalityType
<1>5. PICK g \in [SUBSET U -> Nat] : upTo(g, Cardinality(U))
  BY <1>3, <1>4
<1>6. \A s \in SUBSET U : g[s] = step(g, s)
  BY <1>5, FS_Subset
<1> QED
  BY <1>6 DEF Sums

LEMMA SumsStep ==
    ASSUME NEW U, IsFiniteSet(U), NEW w, NEW it, Sums(U, w, it)
    PROVE  /\ it[{}] = 0
           /\ \A s \in SUBSET U : s # {} =>
                 it[s] = it[s \ {First(s)}] + w[First(s)]
BY DEF Sums

\* A sum is no less than one that is no less at each member.
LEMMA SumsGrow ==
    ASSUME NEW U, IsFiniteSet(U), NEW v \in [U -> Nat], NEW w \in [U -> Nat],
           \A x \in U : v[x] <= w[x], NEW it, Sums(U, v, it), NEW jt, Sums(U, w, jt)
    PROVE  \A s \in SUBSET U : it[s] \in Nat /\ jt[s] \in Nat /\ it[s] <= jt[s]
<1> DEFINE P == {n \in Nat : \A s \in SUBSET U : Cardinality(s) = n =>
                                it[s] \in Nat /\ jt[s] \in Nat /\ it[s] <= jt[s]}
<1>1. 0 \in P
  <2>1. \A s \in SUBSET U : Cardinality(s) = 0 => s = {}
    BY FS_Subset, FS_EmptySet
  <2>2. it[{}] = 0 /\ jt[{}] = 0
    BY SumsStep
  <2> QED
    BY <2>1, <2>2
<1>2. ASSUME NEW n \in P, NEW s \in SUBSET U, Cardinality(s) = n + 1
      PROVE  it[s] \in Nat /\ jt[s] \in Nat /\ it[s] <= jt[s]
  <2>1. s # {}
    <3>1. n + 1 # 0
      OBVIOUS
    <3> QED
      BY <1>2, <3>1, FS_EmptySet
  <2>2. First(s) \in U /\ s \ {First(s)} \in SUBSET U /\ Cardinality(s \ {First(s)}) = n
    BY <1>2, <2>1, FirstTaken
  <2>3. it[s] = it[s \ {First(s)}] + v[First(s)] /\ jt[s] = jt[s \ {First(s)}] + w[First(s)]
    <3>1. it[s] = it[s \ {First(s)}] + v[First(s)]
      BY SMTT(60), <2>1, SumsStep
    <3>2. jt[s] = jt[s \ {First(s)}] + w[First(s)]
      BY SMTT(60), <2>1, SumsStep
    <3> QED
      BY <3>1, <3>2
  <2> HIDE DEF P
  <2>4. v[First(s)] \in Nat /\ w[First(s)] \in Nat /\ v[First(s)] <= w[First(s)]
    BY <2>2
  <2>5. it[s \ {First(s)}] \in Nat /\ jt[s \ {First(s)}] \in Nat
        /\ it[s \ {First(s)}] <= jt[s \ {First(s)}]
    BY <2>2 DEF P
  <2> QED
    BY <2>3, <2>4, <2>5
<1>3. \A n \in P : n + 1 \in P
  BY <1>2
<1> HIDE DEF P
<1>4. P = Nat
  BY <1>1, <1>3, Induction DEF P
<1>5. \A s \in SUBSET U : Cardinality(s) \in Nat
  BY FS_Subset, FS_CardinalityType
<1> QED
  BY <1>4, <1>5 DEF P

\* Where w differs at one member only, its sum differs by as much.
LEMMA SumsMove ==
    ASSUME NEW U, IsFiniteSet(U), NEW v \in [U -> Nat], NEW w \in [U -> Nat], NEW d \in U,
           \A x \in U : x # d => v[x] = w[x],
           NEW it, Sums(U, v, it), NEW jt, Sums(U, w, jt)
    PROVE  it[U] \in Nat /\ jt[U] \in Nat /\ it[U] + w[d] = jt[U] + v[d]
<1> DEFINE moved(s) == IF d \in s THEN it[s] + w[d] = jt[s] + v[d] ELSE it[s] = jt[s]
           P == {n \in Nat : \A s \in SUBSET U : Cardinality(s) = n =>
                                it[s] \in Nat /\ jt[s] \in Nat /\ moved(s)}
<1>1. 0 \in P
  <2>1. \A s \in SUBSET U : Cardinality(s) = 0 => s = {}
    BY FS_Subset, FS_EmptySet
  <2>2. it[{}] = 0 /\ jt[{}] = 0
    BY SumsStep
  <2> QED
    BY <2>1, <2>2
<1>2. ASSUME NEW n \in P, NEW s \in SUBSET U, Cardinality(s) = n + 1
      PROVE  it[s] \in Nat /\ jt[s] \in Nat /\ moved(s)
  <2>1. s # {}
    <3>1. n + 1 # 0
      OBVIOUS
    <3> QED
      BY <1>2, <3>1, FS_EmptySet
  <2> DEFINE rest == s \ {First(s)}
  <2>2. First(s) \in s /\ First(s) \in U /\ rest \in SUBSET U /\ Cardinality(rest) = n
    BY <1>2, <2>1, FirstTaken
  <2>3. it[s] = it[rest] + v[First(s)] /\ jt[s] = jt[rest] + w[First(s)]
    BY <2>1, SumsStep
  <2>4. (d \in rest <=> d \in s /\ d # First(s)) /\ v[d] \in Nat /\ w[d] \in Nat
    OBVIOUS
  <2>5. it[rest] \in Nat /\ jt[rest] \in Nat /\ moved(rest)
    BY <2>2
  <2> HIDE DEF rest
  <2>6. v[First(s)] \in Nat /\ w[First(s)] \in Nat /\ (First(s) # d => v[First(s)] = w[First(s)])
    BY <2>2
  <2>7. CASE d = First(s)
    BY <2>2, <2>3, <2>4, <2>5, <2>6, <2>7
  <2>8. CASE d # First(s)
    BY <2>2, <2>3, <2>4, <2>5, <2>6, <2>8
  <2> QED
    BY <2>7, <2>8
<1>3. \A n \in P : n + 1 \in P
  BY <1>2
<1>4. P = Nat
  <2> HIDE DEF P
  <2> QED
    BY <1>1, <1>3, Induction DEF P
<1>5. Cardinality(U) \in Nat
  BY FS_CardinalityType
<1>6. it[U] \in Nat /\ jt[U] \in Nat /\ moved(U)
  BY <1>4, <1>5
<1> QED
  BY <1>6

\* No member counts for more than the sum.
LEMMA SumsCover ==
    ASSUME NEW U, IsFiniteSet(U), NEW w \in [U -> Nat], NEW d \in U, NEW it, Sums(U, w, it)
    PROVE  it[U] \in Nat /\ w[d] <= it[U]
<1> DEFINE v == [x \in U |-> IF x = d THEN 0 ELSE w[x]]
<1>1. v \in [U -> Nat]
  OBVIOUS
<1>2. PICK jt : Sums(U, v, jt)
  BY <1>1, SumsExist
<1>3. \A x \in U : x # d => v[x] = w[x]
  OBVIOUS
<1>4. v[d] = 0
  OBVIOUS
<1> HIDE DEF v
<1>5. it[U] \in Nat /\ jt[U] \in Nat /\ it[U] + v[d] = jt[U] + w[d]
  BY <1>1, <1>2, <1>3, SumsMove
<1> QED
  BY <1>4, <1>5
(***************************************************************************)
(* The capsule store and its export.                                       *)
(***************************************************************************)
\* A call of SyncAll that nothing disturbed: what was listed and not written
\* yet is listed still, and the rest is exported.
CalmSync ==
    /\ sync.todo \subseteq B!ListCapsules
    /\ \A c \in Stored : disk[c] > 0 => <<c, disk[c]>> \in sync.todo \/ kb[c] = disk[c]
    /\ sync.synced + Cardinality(sync.todo) = Cardinality(B!ListCapsules)

BaseInv ==
    /\ B!TypeOK
    /\ disk \in [Stored -> Int] /\ kb \in [Stored -> Int]
    /\ sync \in [pc : {"idle", "write"}, todo : SUBSET (Stored \X (1..MaxSaves)), synced : Nat]
    /\ calm \in BOOLEAN
    /\ \A c \in Stored : \A v \in 1..MaxSaves : <<c, v>> \in sync.todo => v <= saves[c]
    /\ sync.synced + Cardinality(sync.todo) <= Cardinality(Stored)
    /\ sync.pc = "write" /\ calm => CalmSync
    /\ B!SyncExports

LEMMA BaseConstants ==
    /\ IsFiniteSet(Stored) /\ Cardinality(Stored) \in Nat
    /\ MaxSaves \in Nat /\ MaxBroken \in Nat /\ MaxSyncs \in Nat
<1>1. B!KnowledgeAssumption
  BY EvolutionAssumption DEF EvolutionAssumption
<1> QED
  BY <1>1, Cardinalities, FS_CardinalityType DEF B!KnowledgeAssumption

\* ListCapsules lists a capsule at most once.
LEMMA KeysListed ==
    ASSUME BaseInv
    PROVE  /\ B!ListCapsules \subseteq Stored \X (1..MaxSaves) /\ IsFiniteSet(B!ListCapsules)
           /\ Cardinality(B!ListCapsules) \in Nat
           /\ Cardinality(B!ListCapsules) <= Cardinality(Stored)
           /\ \A c \in Stored, v \in 1..MaxSaves : <<c, v>> \in B!ListCapsules <=> disk[c] = v
<1> DEFINE pair == [c \in Stored |-> <<c, disk[c]>>]
           read == {d \in Stored : disk[d] > 0}
<1>1. B!ListCapsules = {pair[c] : c \in read}
  BY DEF B!ListCapsules
<1>2. IsFiniteSet(read) /\ Cardinality(read) <= Cardinality(Stored)
  BY BaseConstants, FS_Subset
<1>3. IsFiniteSet(B!ListCapsules) /\ Cardinality(B!ListCapsules) <= Cardinality(read)
  <2> HIDE DEF pair, read
  <2> QED
    BY <1>1, <1>2, Image
<1>4. ASSUME NEW c \in Stored, disk[c] > 0 PROVE disk[c] \in 1..MaxSaves
  BY <1>4, BaseConstants DEF BaseInv, B!TypeOK
<1>5. B!ListCapsules \subseteq Stored \X (1..MaxSaves)
  BY <1>1, <1>4
<1>6. ASSUME NEW c \in Stored, NEW v \in 1..MaxSaves
      PROVE  <<c, v>> \in B!ListCapsules <=> disk[c] = v
  BY BaseConstants DEF B!ListCapsules
<1>7. Cardinality(read) \in Nat /\ Cardinality(B!ListCapsules) \in Nat
  BY <1>2, <1>3, FS_CardinalityType
<1> HIDE DEF read
<1> QED
  BY <1>2, <1>3, <1>5, <1>6, <1>7, BaseConstants

LEMMA Todo ==
    ASSUME BaseInv
    PROVE  IsFiniteSet(sync.todo) /\ Cardinality(sync.todo) \in Nat /\ sync.synced \in Nat
<1>1. IsFiniteSet(sync.todo)
  <2>1. sync.todo \subseteq Stored \X (1..MaxSaves)
    BY DEF BaseInv
  <2>2. IsFiniteSet(Stored \X (1..MaxSaves))
    <3>1. IsFiniteSet(1..MaxSaves)
      BY BaseConstants, FS_Interval
    <3> QED
      BY <3>1, BaseConstants, FS_Product
  <2> QED
    BY <2>1, <2>2, FS_Subset
<1> QED
  BY <1>1, FS_CardinalityType DEF BaseInv

LEMMA BaseInit == B!Init => BaseInv
<1> SUFFICES ASSUME B!Init PROVE BaseInv
  OBVIOUS
<1>1. Cardinality({}) = 0
  BY FS_EmptySet
<1>2. B!TypeOK
  BY BaseConstants, Cardinalities DEF B!Init, B!TypeOK
<1>3. sync = [pc |-> "idle", todo |-> {}, synced |-> 0]
      /\ disk \in [Stored -> Int] /\ kb \in [Stored -> Int]
  BY DEF B!Init
<1>5. ~calm /\ calm \in BOOLEAN
  BY Zenon DEF B!Init
<1>4. sync.synced + Cardinality(sync.todo) <= Cardinality(Stored)
  BY <1>1, <1>3, BaseConstants
<1> QED
  BY <1>2, <1>3, <1>4, <1>5 DEF BaseInv, B!SyncExports

\* A save that succeeds or breaks disturbs a sync that is under way.
LEMMA Saves ==
    ASSUME BaseInv, NEW c \in Stored, B!SaveCapsule(c) \/ B!SaveBreaks(c) PROVE BaseInv'
<1>1. CASE B!SaveCapsule(c)
  <2>1. B!TypeOK'
    BY <1>1, BaseConstants DEF BaseInv, B!TypeOK, B!SaveCapsule
  <2>2. disk' \in [Stored -> Int] /\ sync' = sync /\ kb' = kb
    BY <1>1 DEF BaseInv, B!TypeOK, B!SaveCapsule
  <2>4. ~calm' /\ calm' \in BOOLEAN
    BY <1>1, Zenon DEF B!SaveCapsule
  <2>3. \A d \in Stored : saves[d] <= saves'[d] /\ saves[d] \in Nat /\ saves'[d] \in Nat
    BY <1>1 DEF BaseInv, B!TypeOK, B!SaveCapsule
  <2> QED
    BY <2>1, <2>2, <2>3, <2>4, BaseConstants DEF BaseInv, B!SyncExports
<1>2. CASE B!SaveBreaks(c)
  <2>1. B!TypeOK'
    BY <1>2, BaseConstants DEF BaseInv, B!TypeOK, B!SaveBreaks, B!Broken
  <2>2. disk' \in [Stored -> Int] /\ sync' = sync /\ kb' = kb /\ saves' = saves
    BY <1>2 DEF BaseInv, B!TypeOK, B!SaveBreaks, B!Broken
  <2>3. ~calm' /\ calm' \in BOOLEAN
    BY <1>2, Zenon DEF B!SaveBreaks
  <2> QED
    BY <2>1, <2>2, <2>3 DEF BaseInv, B!SyncExports
<1> QED
  BY <1>1, <1>2

LEMMA Begins ==
    ASSUME BaseInv, B!SyncBegins PROVE BaseInv'
<1>1. B!TypeOK'
  BY KeysListed, BaseConstants, Cardinalities DEF BaseInv, B!TypeOK, B!SyncBegins
<1>2. sync'.todo = B!ListCapsules /\ sync'.synced = 0 /\ sync'.pc = "write"
      /\ B!ListCapsules' = B!ListCapsules
  BY DEF B!SyncBegins, B!ListCapsules
<1>3. \A d \in Stored : disk[d] > 0 => disk[d] \in 1..MaxSaves
  BY BaseConstants DEF BaseInv, B!TypeOK
<1>4. CalmSync'
  BY <1>2, <1>3, KeysListed DEF CalmSync, B!SyncBegins
<1>5. \A d \in Stored : \A v \in 1..MaxSaves : <<d, v>> \in sync'.todo => v <= saves'[d]
  BY <1>2, KeysListed, BaseConstants DEF BaseInv, B!TypeOK, B!SyncBegins
<1> QED
  BY <1>1, <1>2, <1>4, <1>5, KeysListed DEF BaseInv, B!SyncBegins, B!SyncExports

LEMMA Writes ==
    ASSUME BaseInv, NEW c \in Stored, B!SyncWrites(c) PROVE BaseInv'
<1>1. PICK v \in 1..MaxSaves :
        /\ <<c, v>> \in sync.todo
        /\ \/ /\ kb' = [kb EXCEPT ![c] = v]
              /\ sync' = [sync EXCEPT !.todo = @ \ {<<c, v>>}, !.synced = @ + 1]
              /\ UNCHANGED <<broken, calm>>
           \/ /\ broken < MaxBroken /\ broken' = broken + 1
              /\ kb' = [kb EXCEPT ![c] = B!Broken]
              /\ sync' = [sync EXCEPT !.todo = @ \ {<<c, v>>}]
              /\ calm' = FALSE
  BY Zenon DEF B!SyncWrites
<1>2. sync.pc = "write" /\ UNCHANGED <<saves, disk, summary, syncs>>
  BY DEF B!SyncWrites
<1>3. /\ Cardinality(sync.todo \ {<<c, v>>}) = Cardinality(sync.todo) - 1
      /\ Cardinality(sync.todo) \in Nat /\ sync.synced \in Nat
      /\ Cardinality(sync.todo) - 1 \in Nat
  <2>1. IsFiniteSet(sync.todo \ {<<c, v>>})
        /\ Cardinality(sync.todo \ {<<c, v>>}) = Cardinality(sync.todo) - 1
    BY <1>1, Todo, FS_RemoveElement
  <2> QED
    BY <2>1, Todo, FS_CardinalityType
<1>10. sync'.todo = sync.todo \ {<<c, v>>} /\ sync'.pc = "write"
       /\ sync'.synced \in {sync.synced, sync.synced + 1}
       /\ sync' \in [pc : {"idle", "write"}, todo : SUBSET (Stored \X (1..MaxSaves)), synced : Nat]
  <2>1. sync \in [pc : {"idle", "write"}, todo : SUBSET (Stored \X (1..MaxSaves)), synced : Nat]
    BY DEF BaseInv
  <2>2. sync' = [sync EXCEPT !.todo = @ \ {<<c, v>>}, !.synced = @ + 1]
        \/ sync' = [sync EXCEPT !.todo = @ \ {<<c, v>>}]
    BY <1>1
  <2>3. sync.todo \ {<<c, v>>} \in SUBSET (Stored \X (1..MaxSaves))
    BY <2>1
  <2> DEFINE todo == sync.todo \ {<<c, v>>}
             pairs == SUBSET (Stored \X (1..MaxSaves))
  <2>4. sync \in [pc : {"idle", "write"}, todo : pairs, synced : Nat] /\ todo \in pairs
    BY <2>1, <2>3
  <2>5. sync' = [sync EXCEPT !.todo = todo, !.synced = @ + 1]
        \/ sync' = [sync EXCEPT !.todo = todo]
    BY <2>2
  <2>6. sync.pc = "write"
    BY <1>2
  <2>7. sync'.todo = todo /\ sync'.pc = "write" /\ sync'.synced \in {sync.synced, sync.synced + 1}
        /\ sync' \in [pc : {"idle", "write"}, todo : pairs, synced : Nat]
    <3> HIDE DEF todo, pairs
    <3>1. CASE sync' = [sync EXCEPT !.todo = todo, !.synced = @ + 1]
      <4>1. sync.synced \in Nat /\ sync.synced + 1 \in Nat
        BY <2>4
      <4>2. sync' = [pc |-> "write", todo |-> todo, synced |-> sync.synced + 1]
        BY <2>4, <2>6, <3>1
      <4> QED
        BY <2>4, <4>1, <4>2
    <3>2. CASE sync' = [sync EXCEPT !.todo = todo]
      BY <2>4, <2>6, <3>2
    <3> QED
      BY <2>5, <3>1, <3>2
  <2> QED
    BY <2>7
<1>11. sync.synced + Cardinality(sync.todo) <= Cardinality(Stored)
  BY DEF BaseInv
<1>4. sync'.todo = sync.todo \ {<<c, v>>} /\ sync'.pc = "write"
      /\ sync'.synced \in Nat
      /\ sync'.synced + Cardinality(sync'.todo) <= Cardinality(Stored)
      /\ sync'.synced <= Cardinality(Stored)
      /\ sync' \in [pc : {"idle", "write"}, todo : SUBSET (Stored \X (1..MaxSaves)), synced : Nat]
  BY <1>3, <1>10, <1>11, BaseConstants
<1>5. v <= saves[c]
  BY <1>1 DEF BaseInv
<1>6. B!TypeOK'
  <2>1. kb' \in [Stored -> Int] /\ \A d \in Stored : kb'[d] \in -1..saves[d]
    BY <1>1, <1>5, BaseConstants DEF BaseInv, B!TypeOK, B!Broken
  <2>2. broken' \in 0..MaxBroken
    BY <1>1, BaseConstants DEF BaseInv, B!TypeOK
  <2> QED
    BY <1>2, <1>4, <2>1, <2>2, BaseConstants, Cardinalities DEF BaseInv, B!TypeOK
<1>7. kb' \in [Stored -> Int] /\ calm' \in BOOLEAN
  <2>1. v \in Int /\ B!Broken \in Int
    BY DEF B!Broken
  <2>2. kb' \in [Stored -> Int]
    BY <1>1, <2>1 DEF BaseInv
  <2>3. calm' \in BOOLEAN
    BY <1>1, Zenon DEF BaseInv
  <2> QED
    BY <2>2, <2>3
<1>8. ASSUME calm' PROVE CalmSync'
  <2>1. /\ kb' = [kb EXCEPT ![c] = v] /\ calm
        /\ sync'.synced = sync.synced + 1
    BY <1>1, <1>8 DEF BaseInv
  <2>2. CalmSync
    BY <1>2, <2>1 DEF BaseInv
  <2>3. disk[c] = v
    BY <1>1, <2>2, KeysListed DEF CalmSync
  <2>4. B!ListCapsules' = B!ListCapsules
    BY <1>2 DEF B!ListCapsules
  <2>5. \A d \in Stored : disk'[d] > 0 => <<d, disk'[d]>> \in sync'.todo \/ kb'[d] = disk'[d]
    BY <1>2, <1>4, <2>1, <2>2, <2>3 DEF CalmSync, BaseInv
  <2>6. Cardinality(sync'.todo) = Cardinality(sync.todo) - 1
    BY <1>3, <1>4
  <2>7. sync'.synced + Cardinality(sync'.todo) = Cardinality(B!ListCapsules')
    BY <1>3, <2>1, <2>2, <2>4, <2>6 DEF CalmSync
  <2> QED
    BY <1>4, <2>2, <2>4, <2>5, <2>7 DEF CalmSync
<1>9. \A d \in Stored : \A w \in 1..MaxSaves : <<d, w>> \in sync'.todo => w <= saves'[d]
  BY <1>2, <1>4 DEF BaseInv
<1> QED
  BY <1>2, <1>4, <1>6, <1>7, <1>8, <1>9 DEF BaseInv, B!SyncExports

LEMMA Ends ==
    ASSUME BaseInv, B!SyncEnds PROVE BaseInv'
<1>1. /\ sync.pc = "write" /\ sync.todo = {} /\ sync' = [sync EXCEPT !.pc = "idle"]
      /\ summary' = [total |-> sync.synced, counted |-> Cardinality(B!ListCapsules)]
      /\ UNCHANGED <<saves, disk, kb, broken, syncs, calm>>
  BY Cardinalities DEF B!SyncEnds
<1>2. B!TypeOK'
  BY <1>1, KeysListed, Todo, Cardinalities DEF BaseInv, B!TypeOK
<1>3. Cardinality({}) = 0
  BY FS_EmptySet
<1>4. ASSUME calm PROVE B!SyncExports'
  <2>1. CalmSync
    BY <1>1, <1>4 DEF BaseInv
  <2> QED
    BY <1>1, <1>3, <2>1, KeysListed, Todo DEF CalmSync, B!SyncExports
<1> QED
  BY <1>1, <1>2, <1>4 DEF BaseInv, B!SyncExports

LEMMA BaseNext == BaseInv /\ B!Next => BaseInv'
BY Saves, Begins, Writes, Ends DEF B!Next, B!Progress

LEMMA BaseRests == BaseInv /\ UNCHANGED baseVars => BaseInv'
<1> SUFFICES ASSUME BaseInv, UNCHANGED baseVars PROVE BaseInv'
  OBVIOUS
<1>1. B!TypeOK' /\ B!SyncExports' /\ (CalmSync => CalmSync')
  BY DEF baseVars, BaseInv, B!TypeOK, B!SyncExports, CalmSync, B!ListCapsules
<1> QED
  BY <1>1 DEF baseVars, BaseInv

(***************************************************************************)
(* The sandbox, the review and the applicators.                            *)
(***************************************************************************)
SandboxInv ==
    /\ runs \in Seq([id : Nat, success : BOOLEAN, container : BOOLEAN])
    /\ granted \in Seq([id : Nat, approved : BOOLEAN])
    /\ batch \in Seq(BOOLEAN) /\ Len(batch) <= Len(Capsules)
    /\ gate \in BOOLEAN
    /\ A!SuccessWasApproved

\* What was approved is within the risk that the reviewer may approve.
ReviewInv ==
    /\ review \in [pc : {"review", "returned", "failed"}, next : 1..Len(Batch) + 1,
                   decisions : Seq({"approved", "deferred", "rejected"})]
    /\ Len(review.decisions) = review.next - 1
    /\ \A i \in DOMAIN review.decisions :
          review.decisions[i] = "approved" => A!riskOrd(Batch[i]) <= A!riskOrd(MaxRisk)
    /\ events \subseteq [of : DOMAIN Batch, applied : BOOLEAN]
    /\ A!ReviewIsRecorded

Contents == Mutations \cup {Absent, "old", "torn"}
Original == {"old", Absent}

\* A threshold is undone to what the mutation below it set, the lowest one to
\* the original; a file, which is undone to what was there when its mutation
\* was proposed, to the original at least by the lowest one, and so it is by
\* each that waits while none is applied.
Undone ==
    /\ way = "threshold" =>
         /\ target \in IF stack = <<>> THEN Original ELSE {stack[Len(stack)].of}
         /\ \A i \in DOMAIN stack :
               stack[i].old \in IF i = 1 THEN Original ELSE {stack[i - 1].of}
    /\ way = "config" =>
         IF stack = <<>> THEN target \in Original /\ \A m \in A!Waiting : before[m] \in Original
         ELSE stack[1].old \in Original

ApplyInv ==
    /\ target \in Contents
    /\ before \in [Mutations -> Contents \cup {"none"}]
    /\ stack \in Seq([of : Mutations, old : Contents])
    /\ sound \in BOOLEAN
    /\ way \in {"config", "threshold"} /\ sound => Undone

AdoptInv == SandboxInv /\ ReviewInv /\ ApplyInv

LEMMA AdoptConstants == Len(Capsules) \in Nat /\ Batch \in Seq(STRING)
BY EvolutionAssumption DEF EvolutionAssumption, A!AdoptionAssumption

LEMMA AdoptHolds ==
    AdoptInv => A!TypeOK /\ A!SuccessWasApproved /\ A!ReviewIsRecorded /\ A!RollbackRestores
<1> SUFFICES ASSUME AdoptInv
             PROVE  A!TypeOK /\ A!SuccessWasApproved /\ A!ReviewIsRecorded /\ A!RollbackRestores
  OBVIOUS
<1>1. stack \in Seq([of : Mutations, old : Mutations \cup {Absent, "old", "torn", "none"}])
  <2>1. [of : Mutations, old : Contents]
          \subseteq [of : Mutations, old : Mutations \cup {Absent, "old", "torn", "none"}]
    BY DEF Contents
  <2> QED
    BY <2>1, SeqMonotonic DEF AdoptInv, ApplyInv
<1>2. A!TypeOK
  BY <1>1 DEF AdoptInv, SandboxInv, ReviewInv, ApplyInv, A!TypeOK, Contents
<1>3. A!RollbackRestores
  BY DEF AdoptInv, ApplyInv, A!RollbackRestores, Undone, Original
<1> QED
  BY <1>2, <1>3 DEF AdoptInv, SandboxInv, ReviewInv

LEMMA AdoptInit == A!Init => AdoptInv
<1> SUFFICES ASSUME A!Init PROVE AdoptInv
  OBVIOUS
<1>1. SandboxInv
  <2>1. {i \in DOMAIN runs : runs[i].success} = {} /\ DOMAIN batch = {} /\ Len(granted) = 0
    BY DEF A!Init
  <2>2. gate \in BOOLEAN
    BY Zenon DEF A!Init
  <2>3. A!SuccessWasApproved
    BY <2>1, FS_EmptySet, Cardinalities DEF A!SuccessWasApproved
  <2> QED
    BY <2>2, <2>3, AdoptConstants DEF A!Init, SandboxInv
<1>2. ReviewInv
  BY AdoptConstants DEF A!Init, ReviewInv, A!ReviewIsRecorded
<1>3. ApplyInv
  <2>1. target \in Original /\ stack = <<>> /\ \A m \in Mutations : before[m] = "none"
    BY DEF A!Init, Original
  <2>2. Undone
    BY <2>1 DEF Undone, A!Waiting
  <2>3. sound \in BOOLEAN
    BY Zenon DEF A!Init
  <2> QED
    BY <2>1, <2>2, <2>3 DEF A!Init, ApplyInv, Contents, Original
<1> QED
  BY <1>1, <1>2, <1>3 DEF AdoptInv

LEMMA RunNext ==
    ASSUME SandboxInv, NEW o, NEW container \in BOOLEAN, A!RunEvolution(o, container)
    PROVE  SandboxInv'
<1> DEFINE success == A!Success(o, container)
           run1 == [id |-> Len(batch) + 1, success |-> success, container |-> container]
           grant == [id |-> Len(batch) + 1, approved |-> gate]
           wins == {i \in DOMAIN runs : runs[i].success}
<1>1. /\ Len(batch) + 1 <= Len(Capsules) /\ gate' = gate
      /\ runs' = Append(runs, run1)
      /\ granted' = IF success THEN Append(granted, grant) ELSE granted
      /\ batch' = Append(batch, success /\ gate)
  BY DEF A!RunEvolution, A!InSandbox, A!Current
<1>2. success \in BOOLEAN /\ gate \in BOOLEAN /\ (success /\ gate) \in BOOLEAN
      /\ Len(batch) + 1 \in Nat
  <2>1. success \in BOOLEAN
    BY Zenon DEF A!Success
  <2>2. gate \in BOOLEAN
    BY Zenon DEF SandboxInv
  <2>3. (success /\ gate) \in BOOLEAN
    BY Zenon
  <2>4. Len(batch) + 1 \in Nat
    BY DEF SandboxInv
  <2> QED
    BY <2>1, <2>2, <2>3, <2>4
<1> HIDE DEF success
<1>3. run1 \in [id : Nat, success : BOOLEAN, container : BOOLEAN]
      /\ grant \in [id : Nat, approved : BOOLEAN]
      /\ run1.id = Len(batch) + 1 /\ run1.success = success
      /\ grant.id = Len(batch) + 1 /\ grant.approved = gate
  BY <1>2
<1> HIDE DEF run1, grant
<1>4. /\ runs' \in Seq([id : Nat, success : BOOLEAN, container : BOOLEAN])
      /\ Len(runs) \in Nat /\ DOMAIN runs = 1..Len(runs) /\ DOMAIN runs' = 1..(Len(runs) + 1)
      /\ \A i \in 1..Len(runs) : runs'[i] = runs[i]
      /\ runs'[Len(runs) + 1] = run1
  BY <1>1, <1>3, Appends DEF SandboxInv
<1>5. /\ batch' \in Seq(BOOLEAN) /\ Len(batch') = Len(batch) + 1 /\ Len(batch) \in Nat
      /\ DOMAIN batch = 1..Len(batch) /\ DOMAIN batch' = 1..(Len(batch) + 1)
      /\ \A i \in 1..Len(batch) : batch'[i] = batch[i]
      /\ batch'[Len(batch) + 1] = (success /\ gate)
  BY <1>1, <1>2, Appends DEF SandboxInv
<1>6. /\ granted \in Seq([id : Nat, approved : BOOLEAN])
      /\ Append(granted, grant) \in Seq([id : Nat, approved : BOOLEAN])
      /\ Len(granted) \in Nat /\ DOMAIN granted = 1..Len(granted)
      /\ Len(Append(granted, grant)) = Len(granted) + 1
      /\ DOMAIN Append(granted, grant) = 1..(Len(granted) + 1)
      /\ \A i \in 1..Len(granted) : Append(granted, grant)[i] = granted[i]
      /\ Append(granted, grant)[Len(granted) + 1] = grant
  BY <1>3, Appends DEF SandboxInv
<1>7. granted' \in Seq([id : Nat, approved : BOOLEAN])
      /\ \A j \in DOMAIN granted : j \in DOMAIN granted' /\ granted'[j] = granted[j]
  <2>1. granted' = granted \/ granted' = Append(granted, grant)
    BY <1>1
  <2>2. CASE granted' = granted
    BY <2>2, <1>6
  <2>3. CASE granted' = Append(granted, grant)
    <3>1. DOMAIN granted' = 1..(Len(granted) + 1) /\ DOMAIN granted = 1..Len(granted)
          /\ \A i \in 1..Len(granted) : granted'[i] = granted[i]
      BY <2>3, <1>6
    <3> QED
      BY <2>3, <1>6, <3>1
  <2> QED
    BY <2>1, <2>2, <2>3
<1>8. \A i \in DOMAIN batch' : batch'[i] =>
         /\ \E j \in DOMAIN runs' : runs'[j].id = i /\ runs'[j].success
         /\ \E j \in DOMAIN granted' : granted'[j].id = i /\ granted'[j].approved
  <2> SUFFICES ASSUME NEW i \in DOMAIN batch', batch'[i]
               PROVE  /\ \E j \in DOMAIN runs' : runs'[j].id = i /\ runs'[j].success
                      /\ \E j \in DOMAIN granted' : granted'[j].id = i /\ granted'[j].approved
    OBVIOUS
  <2>1. CASE i \in 1..Len(batch)
    <3>1. i \in DOMAIN batch /\ batch[i]
      BY <2>1, <1>5
    <3>2. PICK j \in DOMAIN runs : runs[j].id = i /\ runs[j].success
      BY <3>1 DEF SandboxInv, A!SuccessWasApproved
    <3>3. PICK k \in DOMAIN granted : granted[k].id = i /\ granted[k].approved
      BY <3>1 DEF SandboxInv, A!SuccessWasApproved
    <3>4. j \in DOMAIN runs' /\ runs'[j] = runs[j]
      BY <1>4
    <3>5. k \in DOMAIN granted' /\ granted'[k] = granted[k]
      BY <1>7
    <3> QED
      BY <3>2, <3>3, <3>4, <3>5
  <2>2. CASE i = Len(batch) + 1
    <3>1. success /\ gate
      BY <2>2, <1>5
    <3>2. Len(runs) + 1 \in DOMAIN runs' /\ runs'[Len(runs) + 1] = run1
      BY <1>4
    <3>3. Len(granted) + 1 \in DOMAIN granted' /\ granted'[Len(granted) + 1] = grant
      BY <1>1, <1>6, <3>1
    <3> QED
      BY <1>3, <2>2, <3>1, <3>2, <3>3
  <2> QED
    BY <1>5, <2>1, <2>2
<1>9. Len(granted') = Cardinality({i \in DOMAIN runs' : runs'[i].success})
  <2>1. IsFiniteSet(wins)
    <3>1. wins \subseteq 1..Len(runs)
      BY <1>4
    <3>2. IsFiniteSet(1..Len(runs))
      BY <1>4, FS_Interval
    <3> QED
      BY <3>1, <3>2, FS_Subset
  <2>2. Cardinality(wins) = Len(granted)
    BY Cardinalities DEF SandboxInv, A!SuccessWasApproved
  <2>3. CASE success
    <3>1. {i \in DOMAIN runs' : runs'[i].success} = wins \cup {Len(runs) + 1}
      <4>1. \A i \in 1..Len(runs) : runs'[i].success = runs[i].success
        BY <1>4
      <4>2. runs'[Len(runs) + 1].success
        BY <1>3, <1>4, <2>3
      <4> QED
        BY <1>4, <4>1, <4>2
    <3>2. Len(runs) + 1 \notin wins
      BY <1>4
    <3>3. Cardinality(wins \cup {Len(runs) + 1}) = Cardinality(wins) + 1
      BY <2>1, <3>2, FS_AddElement
    <3> QED
      BY <1>1, <1>6, <2>2, <2>3, <3>1, <3>3
  <2>4. CASE ~success
    <3>1. {i \in DOMAIN runs' : runs'[i].success} = wins
      BY <1>3, <1>4, <2>4
    <3> QED
      BY <1>1, <2>2, <2>4, <3>1
  <2> QED
    BY <2>3, <2>4
<1>10. A!SuccessWasApproved'
  BY <1>8, <1>9, Cardinalities DEF A!SuccessWasApproved
<1> QED
  BY <1>1, <1>2, <1>4, <1>5, <1>7, <1>10 DEF SandboxInv

LEMMA CancelledNext ==
    ASSUME SandboxInv, A!RunCancelled PROVE SandboxInv'
<1>1. /\ Len(batch) + 1 <= Len(Capsules) /\ UNCHANGED <<gate, runs, granted>>
      /\ batch' = Append(batch, FALSE)
  BY DEF A!RunCancelled, A!InSandbox, A!Current
<1>2. /\ batch' \in Seq(BOOLEAN) /\ Len(batch') = Len(batch) + 1 /\ Len(batch) \in Nat
      /\ DOMAIN batch = 1..Len(batch) /\ DOMAIN batch' = 1..(Len(batch) + 1)
      /\ \A i \in 1..Len(batch) : batch'[i] = batch[i]
      /\ batch'[Len(batch) + 1] = FALSE
  BY <1>1, Appends DEF SandboxInv
<1>3. \A i \in DOMAIN batch' : batch'[i] => i \in DOMAIN batch /\ batch[i]
  BY <1>2
<1>4. A!SuccessWasApproved'
  BY <1>1, <1>3 DEF SandboxInv, A!SuccessWasApproved
<1>5. gate' \in BOOLEAN
  BY <1>1, Zenon DEF SandboxInv
<1> QED
  BY <1>1, <1>2, <1>4, <1>5 DEF SandboxInv

LEMMA SandboxRests == SandboxInv /\ UNCHANGED <<gate, runs, granted, batch>> => SandboxInv'
<1> SUFFICES ASSUME SandboxInv, UNCHANGED <<gate, runs, granted, batch>> PROVE SandboxInv'
  OBVIOUS
<1>1. gate' \in BOOLEAN
  BY Zenon DEF SandboxInv
<1> QED
  BY <1>1 DEF SandboxInv, A!SuccessWasApproved

LEMMA Risks == \A r : A!riskOrd(r) \in 0..4
BY DEF A!riskOrd

LEMMA ReviewNext ==
    ASSUME ReviewInv, NEW d \in {"approved", "deferred", "rejected"}, A!ReviewOne(d)
    PROVE  ReviewInv'
<1> DEFINE n == review.next
           ds == review.decisions
<1>1. /\ n <= Len(Batch) /\ n \in 1..Len(Batch) + 1 /\ review.pc = "review"
      /\ ds \in Seq({"approved", "deferred", "rejected"}) /\ Len(ds) = n - 1
      /\ d \in {A!AutoDecision(Batch[n]), "rejected"}
      /\ review' = [review EXCEPT !.next = @ + 1, !.decisions = Append(@, d)]
      /\ events' \in {events, events \cup {[of |-> n, applied |-> d = "approved"]}}
  BY DEF ReviewInv, A!ReviewOne, A!InReview
<1>2. Len(Batch) \in Nat /\ DOMAIN Batch = 1..Len(Batch)
  BY AdoptConstants
<1>3. n \in 1..Len(Batch) /\ n + 1 \in 1..Len(Batch) + 1 /\ n \in DOMAIN Batch
  BY <1>1, <1>2
<1>4. /\ Append(ds, d) \in Seq({"approved", "deferred", "rejected"})
      /\ Len(Append(ds, d)) = n
      /\ DOMAIN ds = 1..(n - 1) /\ DOMAIN Append(ds, d) = 1..n
      /\ \A i \in 1..(n - 1) : Append(ds, d)[i] = ds[i]
      /\ Append(ds, d)[n] = d
  BY <1>1, <1>3, Appends
<1>5. review' = [pc |-> "review", next |-> n + 1, decisions |-> Append(ds, d)]
  BY <1>1 DEF ReviewInv
<1>6. review' \in [pc : {"review", "returned", "failed"}, next : 1..Len(Batch) + 1,
                   decisions : Seq({"approved", "deferred", "rejected"})]
      /\ review'.next = n + 1 /\ review'.decisions = Append(ds, d)
  BY <1>3, <1>4, <1>5
<1>7. \A i \in 1..(n - 1) : ds[i] = "approved" => A!riskOrd(Batch[i]) <= A!riskOrd(MaxRisk)
  BY <1>4 DEF ReviewInv
<1>8. d = "approved" => A!riskOrd(Batch[n]) <= A!riskOrd(MaxRisk)
  <2>1. A!riskOrd(Batch[n]) \in Int /\ A!riskOrd(MaxRisk) \in Int
    BY Risks
  <2> QED
    BY <1>1, <2>1 DEF A!AutoDecision
<1>9. \A i \in 1..n : Append(ds, d)[i] = "approved" => A!riskOrd(Batch[i]) <= A!riskOrd(MaxRisk)
  <2> SUFFICES ASSUME NEW i \in 1..n, Append(ds, d)[i] = "approved"
               PROVE  A!riskOrd(Batch[i]) <= A!riskOrd(MaxRisk)
    OBVIOUS
  <2>1. CASE i = n
    BY <1>4, <1>8, <2>1
  <2>2. CASE i # n
    <3>1. i \in 1..(n - 1)
      BY <1>3, <2>2
    <3> QED
      BY <1>4, <1>7, <3>1
  <2> QED
    BY <2>1, <2>2
<1>10. (d = "approved") \in BOOLEAN
  BY Zenon
<1>11. events' \subseteq [of : DOMAIN Batch, applied : BOOLEAN]
  <2>1. [of |-> n, applied |-> d = "approved"] \in [of : DOMAIN Batch, applied : BOOLEAN]
    BY <1>3, <1>10
  <2> QED
    BY <1>1, <2>1 DEF ReviewInv
<1>12. ASSUME NEW e \in events'
       PROVE  /\ e.of < n + 1 /\ e.of \in 1..n
              /\ e.applied <=> Append(ds, d)[e.of] = "approved"
  <2>1. CASE e \in events
    <3>1. e.of < n /\ (e.applied <=> ds[e.of] = "approved") /\ e.of \in 1..Len(Batch)
      BY <1>2, <2>1 DEF ReviewInv, A!ReviewIsRecorded
    <3>2. e.of \in 1..(n - 1)
      BY <1>3, <3>1
    <3> QED
      BY <1>3, <1>4, <3>1, <3>2
  <2>2. CASE e = [of |-> n, applied |-> d = "approved"]
    <3>1. e.of = n /\ (e.applied <=> d = "approved")
      BY <2>2
    <3> QED
      BY <1>3, <1>4, <3>1
  <2> QED
    BY <1>1, <2>1, <2>2
<1>13. A!ReviewIsRecorded'
  BY <1>6, <1>9, <1>12 DEF A!ReviewIsRecorded
<1> QED
  BY <1>3, <1>4, <1>6, <1>9, <1>11, <1>13 DEF ReviewInv

LEMMA ReviewStops ==
    ASSUME ReviewInv, A!ReviewFails \/ A!ReviewReturns PROVE ReviewInv'
<1>1. events' = events /\ \E p \in {"returned", "failed"} : review' = [review EXCEPT !.pc = p]
  BY DEF A!ReviewFails, A!ReviewReturns
<1>2. /\ review' \in [pc : {"review", "returned", "failed"}, next : 1..Len(Batch) + 1,
                      decisions : Seq({"approved", "deferred", "rejected"})]
      /\ review'.next = review.next /\ review'.decisions = review.decisions
  BY <1>1 DEF ReviewInv
<1> QED
  BY <1>1, <1>2 DEF ReviewInv, A!ReviewIsRecorded

LEMMA ReviewRests == ReviewInv /\ UNCHANGED <<review, events>> => ReviewInv'
BY DEF ReviewInv, A!ReviewIsRecorded

(***************************************************************************)
(* Applying and rolling back.                                              *)
(***************************************************************************)
LEMMA ProposeNext ==
    ASSUME ApplyInv, NEW m \in Mutations, A!Propose(m) PROVE ApplyInv'
<1>1. /\ before' = [before EXCEPT ![m] = target] /\ UNCHANGED <<way, target, stack, sound>>
  BY DEF A!Propose, A!Applying
<1>2. before' \in [Mutations -> Contents \cup {"none"}]
  BY <1>1 DEF ApplyInv
<1>3. ASSUME Undone PROVE Undone'
  <2>1. \A k \in Mutations : k # m => before'[k] = before[k]
    BY <1>1 DEF ApplyInv
  <2>2. before'[m] = target
    BY <1>1 DEF ApplyInv
  <2>3. ASSUME way = "config", stack = <<>>, NEW k \in A!Waiting' PROVE before'[k] \in Original
    <3>1. target \in Original /\ \A j \in A!Waiting : before[j] \in Original
      BY <1>3, <2>3 DEF Undone
    <3>2. k # m => k \in A!Waiting
      BY <1>1, <2>1, <2>3 DEF A!Waiting
    <3> QED
      BY <2>1, <2>2, <2>3, <3>1, <3>2 DEF A!Waiting
  <2> QED
    BY <1>1, <1>3, <2>3 DEF Undone
<1>4. sound' \in BOOLEAN
  BY <1>1, Zenon DEF ApplyInv
<1> QED
  BY <1>1, <1>2, <1>3, <1>4 DEF ApplyInv

LEMMA ApplyNext ==
    ASSUME ApplyInv, NEW m \in Mutations, A!Apply(m) PROVE ApplyInv'
<1> DEFINE old == IF way = "config" THEN A!FileUndo(m) ELSE A!ThresholdUndo
           top == [of |-> m, old |-> old]
<1>1. /\ way \in {"config", "threshold"} /\ m \in A!Waiting
      /\ target' = m /\ stack' = Append(stack, top) /\ UNCHANGED <<way, before, sound>>
  BY DEF A!Apply, A!Applying
<1>2. old \in Contents
  BY <1>1 DEF ApplyInv, A!Waiting, A!FileUndo, A!ThresholdUndo
<1>3. top \in [of : Mutations, old : Contents] /\ top.of = m /\ top.old = old
  BY <1>2
<1>4. /\ stack' \in Seq([of : Mutations, old : Contents])
      /\ Len(stack) \in Nat /\ Len(stack') = Len(stack) + 1
      /\ DOMAIN stack = 1..Len(stack) /\ DOMAIN stack' = 1..(Len(stack) + 1)
      /\ \A i \in 1..Len(stack) : stack'[i] = stack[i]
      /\ stack'[Len(stack) + 1] = top
  <2> HIDE DEF top
  <2> QED
    BY <1>1, <1>3, Appends DEF ApplyInv
<1> HIDE DEF top
<1>5. stack = <<>> <=> Len(stack) = 0
  BY DEF ApplyInv
<1>6. stack' # <<>>
  BY <1>4
<1>7. ASSUME Undone, way = "threshold"
      PROVE  /\ target' = stack'[Len(stack')].of
             /\ \A i \in DOMAIN stack' :
                   stack'[i].old \in IF i = 1 THEN Original ELSE {stack'[i - 1].of}
  <2>1. old = target
    BY <1>7 DEF A!ThresholdUndo
  <2>2. target \in IF Len(stack) = 0 THEN Original ELSE {stack[Len(stack)].of}
    BY <1>5, <1>7 DEF Undone
  <2>3. \A i \in 1..Len(stack) : stack[i].old \in IF i = 1 THEN Original ELSE {stack[i - 1].of}
    BY <1>4, <1>7 DEF Undone
  <2>4. ASSUME NEW i \in DOMAIN stack'
        PROVE  stack'[i].old \in IF i = 1 THEN Original ELSE {stack'[i - 1].of}
    <3>1. CASE i = Len(stack) + 1
      <4>1. stack'[i].old = target
        BY <1>3, <1>4, <2>1, <3>1
      <4>2. CASE Len(stack) = 0
        BY <2>2, <3>1, <4>1, <4>2
      <4>3. CASE Len(stack) # 0
        <5>1. i # 1 /\ i - 1 = Len(stack) /\ i - 1 \in 1..Len(stack)
          BY <1>4, <3>1, <4>3
        <5>2. stack'[i - 1] = stack[Len(stack)]
          BY <1>4, <5>1
        <5> QED
          BY <2>2, <4>1, <4>3, <5>1, <5>2
      <4> QED
        BY <4>2, <4>3
    <3>2. CASE i # Len(stack) + 1
      <4>1. i \in 1..Len(stack) /\ stack'[i] = stack[i]
        BY <1>4, <3>2
      <4>2. i # 1 => i - 1 \in 1..Len(stack) /\ stack'[i - 1] = stack[i - 1]
        BY <1>4, <4>1
      <4> QED
        BY <2>3, <4>1, <4>2
    <3> QED
      BY <3>1, <3>2
  <2> QED
    BY <1>1, <1>3, <1>4, <2>4
<1>8. ASSUME Undone, way = "config" PROVE stack'[1].old \in Original
  <2>1. CASE stack = <<>>
    <3>1. old \in Original
      BY <1>1, <1>8, <2>1 DEF Undone, A!FileUndo
    <3> QED
      BY <1>3, <1>4, <1>5, <2>1, <3>1
  <2>2. CASE stack # <<>>
    <3>1. stack'[1] = stack[1]
      BY <1>4, <1>5, <2>2
    <3> QED
      BY <1>8, <2>2, <3>1 DEF Undone
  <2> QED
    BY <2>1, <2>2
<1>9. Undone => Undone'
  BY <1>1, <1>6, <1>7, <1>8 DEF Undone
<1>10. target' \in Contents
  BY <1>1 DEF Contents
<1>11. sound' \in BOOLEAN
  BY <1>1, Zenon DEF ApplyInv
<1> QED
  BY <1>1, <1>4, <1>9, <1>10, <1>11 DEF ApplyInv

LEMMA ApplyFailsNext ==
    ASSUME ApplyInv, NEW m \in Mutations, A!ApplyFails(m) PROVE ApplyInv'
<1>1. target' = "torn" /\ ~sound' /\ sound' \in BOOLEAN
  BY Zenon DEF A!ApplyFails
<1>2. UNCHANGED <<before, stack>>
  BY DEF A!ApplyFails
<1> QED
  BY <1>1, <1>2 DEF ApplyInv, Contents

LEMMA RollbackNext ==
    ASSUME ApplyInv, NEW i \in DOMAIN stack, A!Rollback(i) PROVE ApplyInv'
<1> DEFINE n == Len(stack)
           low == SubSeq(stack, 1, i - 1)
           high == SubSeq(stack, i + 1, n)
           entries == [of : Mutations, old : Contents]
<1>1. /\ way \in {"config", "threshold"} /\ way' = way
      /\ target' = stack[i].old
      /\ sound' = (sound /\ i = n /\ (way = "threshold" \/ A!Waiting = {}))
      /\ stack' = low \o high
      /\ before' = [before EXCEPT ![stack[i].of] = "none"]
  BY DEF A!Rollback, A!Applying
<1>2. n \in Nat /\ DOMAIN stack = 1..n /\ i \in 1..n
      /\ \A j \in 1..n : stack[j] \in entries
  <2>1. stack \in Seq(entries)
    BY DEF ApplyInv
  <2> HIDE DEF entries
  <2> QED
    BY <2>1, LenProperties, ElementOfSeq
<1>3. /\ low \in Seq(entries) /\ Len(low) = i - 1 /\ \A j \in 1..(i - 1) : low[j] = stack[j]
  <2>1. \A j \in 1..(i - 1) : stack[j] \in entries
    BY <1>2
  <2> HIDE DEF entries
  <2> QED
    BY <1>2, <2>1, SubSeqProperties
<1>4. high \in Seq(entries) /\ (i = n => high = <<>>)
  <2>1. \A j \in i + 1..n : stack[j] \in entries
    BY <1>2
  <2> HIDE DEF entries
  <2>2. high \in Seq(entries)
    BY <1>2, <2>1, SubSeqProperties
  <2>3. i = n => high = <<>>
    BY <1>2, SubSeqEmpty
  <2> QED
    BY <2>2, <2>3
<1>5. stack' \in Seq(entries) /\ (i = n => stack' = low)
  <2> HIDE DEF entries
  <2> QED
    BY <1>1, <1>3, <1>4, ConcatProperties, ConcatEmptySeq
<1>6. stack[i] \in entries /\ stack[i].of \in Mutations /\ stack[i].old \in Contents
  BY <1>2
<1>7. before' \in [Mutations -> Contents \cup {"none"}] /\ before'[stack[i].of] = "none"
      /\ \A k \in Mutations : k # stack[i].of => before'[k] = before[k]
  BY SMTT(60), <1>1, <1>6 DEF ApplyInv
<1>8. ASSUME sound' PROVE Undone'
  <2>1. i = n /\ Undone /\ (way = "threshold" \/ A!Waiting = {}) /\ stack' = low
    BY <1>1, <1>5, <1>8 DEF ApplyInv
  <2>2. stack # <<>> /\ (stack' = <<>> <=> n = 1) /\ Len(stack') = n - 1 /\ DOMAIN stack' = 1..(n - 1)
    <3>1. stack' \in Seq(entries) /\ Len(stack') = n - 1
      BY <1>3, <1>5, <2>1
    <3>2. stack # <<>>
      BY <1>2
    <3>3. DOMAIN stack' = 1..(n - 1) /\ (stack' = <<>> <=> n - 1 = 0)
      <4> HIDE DEF entries
      <4> QED
        BY <3>1, LenProperties, EmptySeq
    <3> QED
      BY <1>2, <3>1, <3>2, <3>3
  <2>3. \A j \in 1..(n - 1) : stack'[j] = stack[j]
    BY <1>3, <2>1
  <2>4. ASSUME way = "threshold"
        PROVE  /\ target' \in IF stack' = <<>> THEN Original ELSE {stack'[Len(stack')].of}
               /\ \A j \in DOMAIN stack' :
                    stack'[j].old \in IF j = 1 THEN Original ELSE {stack'[j - 1].of}
    <3>1. \A j \in 1..n : stack[j].old \in IF j = 1 THEN Original ELSE {stack[j - 1].of}
      BY <1>2, <2>1, <2>4 DEF Undone
    <3>2. target' \in IF n = 1 THEN Original ELSE {stack[n - 1].of}
      BY <1>1, <1>2, <2>1, <3>1
    <3>3. n # 1 => stack'[Len(stack')] = stack[n - 1]
      BY <1>2, <2>2, <2>3
    <3>4. ASSUME NEW j \in DOMAIN stack'
          PROVE  stack'[j].old \in IF j = 1 THEN Original ELSE {stack'[j - 1].of}
      <4>1. j \in 1..n /\ j \in 1..(n - 1) /\ (j # 1 => j - 1 \in 1..(n - 1))
        BY <1>2, <2>2
      <4> QED
        BY <2>3, <3>1, <4>1
    <3> QED
      BY <2>2, <3>2, <3>3, <3>4
  <2>5. ASSUME way = "config"
        PROVE  IF stack' = <<>>
               THEN target' \in Original /\ \A m \in A!Waiting' : before'[m] \in Original
               ELSE stack'[1].old \in Original
    <3>1. A!Waiting = {} /\ stack[1].old \in Original
      BY <2>1, <2>2, <2>5 DEF Undone
    <3>2. CASE n = 1
      <4>1. A!Waiting' = {}
        <5> SUFFICES ASSUME NEW m \in A!Waiting' PROVE FALSE
          OBVIOUS
        <5>1. m \in Mutations /\ before'[m] # "none"
          BY DEF A!Waiting
        <5>2. m # stack[i].of /\ before[m] # "none"
          BY <1>7, <5>1
        <5>3. \A j \in DOMAIN stack : stack[j].of # m
          BY <1>2, <2>1, <3>2, <5>2
        <5>4. m \in A!Waiting
          BY <5>1, <5>2, <5>3 DEF A!Waiting
        <5> QED
          BY <3>1, <5>4
      <4> QED
        BY <1>1, <2>1, <2>2, <3>1, <3>2, <4>1
    <3>3. CASE n # 1
      BY <1>2, <2>2, <2>3, <3>1, <3>3
    <3> QED
      BY <3>2, <3>3
  <2> QED
    BY Zenon, <1>1, <2>4, <2>5 DEF Undone
<1>9. sound' \in BOOLEAN
  BY <1>1, Zenon
<1> QED
  BY <1>1, <1>5, <1>6, <1>7, <1>8, <1>9 DEF ApplyInv

LEMMA RollbackFailsNext ==
    ASSUME ApplyInv, NEW i \in DOMAIN stack, A!RollbackFails(i) PROVE ApplyInv'
<1>1. way = "config" /\ UNCHANGED <<way, before, stack, sound>>
  BY DEF A!RollbackFails, A!Applying
<1>2. target' \in {target, "torn", stack[i].old}
  BY Zenon DEF A!RollbackFails
<1>3. stack[i].old \in Contents
  <2> DEFINE entries == [of : Mutations, old : Contents]
  <2>1. stack \in Seq(entries)
    BY DEF ApplyInv
  <2>2. stack[i] \in entries
    <3> HIDE DEF entries
    <3> QED
      BY <2>1, LenProperties, ElementOfSeq
  <2> QED
    BY <2>2
<1>4. target' \in Contents
  BY <1>2, <1>3 DEF ApplyInv, Contents
<1>5. stack # <<>>
  OBVIOUS
<1>6. Undone => Undone'
  BY <1>1, <1>5 DEF Undone
<1>7. sound' \in BOOLEAN
  BY <1>1, Zenon DEF ApplyInv
<1> QED
  BY <1>1, <1>4, <1>6, <1>7 DEF ApplyInv

LEMMA ApplyRests == ApplyInv /\ UNCHANGED <<way, A!applied>> => ApplyInv'
<1> SUFFICES ASSUME ApplyInv, UNCHANGED <<way, A!applied>> PROVE ApplyInv'
  OBVIOUS
<1>1. UNCHANGED <<way, target, before, stack, sound>>
  BY DEF A!applied
<1>2. Undone => Undone'
  BY <1>1 DEF Undone, A!Waiting
<1>3. sound' \in BOOLEAN
  BY <1>1, Zenon DEF ApplyInv
<1> QED
  BY <1>1, <1>2, <1>3 DEF ApplyInv

LEMMA AdoptNext == AdoptInv /\ A!Next => AdoptInv'
<1> SUFFICES ASSUME AdoptInv, A!Next PROVE AdoptInv'
  OBVIOUS
<1>1. SandboxInv /\ ReviewInv /\ ApplyInv
  BY DEF AdoptInv
<1>2. CASE \E o \in A!Outcomes, c \in BOOLEAN : A!RunEvolution(o, c)
  <2>1. UNCHANGED <<way, review, events, A!applied>>
    BY <1>2 DEF A!RunEvolution, A!InSandbox
  <2> QED
    BY <1>1, <1>2, <2>1, RunNext, ReviewRests, ApplyRests DEF AdoptInv
<1>3. CASE A!CancelBatch \/ A!RunCancelled
  <2>1. UNCHANGED <<way, review, events, A!applied>>
    BY <1>3 DEF A!CancelBatch, A!RunCancelled, A!InSandbox
  <2>2. A!CancelBatch => UNCHANGED <<gate, runs, granted, batch>>
    BY DEF A!CancelBatch
  <2> QED
    BY <1>1, <1>3, <2>1, <2>2, CancelledNext, SandboxRests, ReviewRests, ApplyRests DEF AdoptInv
<1>4. CASE (\E d \in {"approved", "deferred", "rejected"} : A!ReviewOne(d))
           \/ A!ReviewFails \/ A!ReviewReturns
  <2>1. UNCHANGED <<way, A!sandbox, A!applied>>
    BY <1>4 DEF A!ReviewOne, A!ReviewFails, A!ReviewReturns, A!InReview
  <2>2. UNCHANGED <<gate, runs, granted, batch>>
    BY <2>1 DEF A!sandbox
  <2> QED
    BY <1>1, <1>4, <2>1, <2>2, SandboxRests, ReviewNext, ReviewStops, ApplyRests DEF AdoptInv
<1>5. CASE (\E m \in Mutations : A!Propose(m) \/ A!Apply(m) \/ A!ApplyFails(m))
           \/ \E i \in DOMAIN stack : A!Rollback(i) \/ A!RollbackFails(i)
  <2>1. UNCHANGED <<A!sandbox, review, events>>
    BY <1>5 DEF A!Propose, A!Apply, A!ApplyFails, A!Rollback, A!RollbackFails, A!Applying
  <2>2. UNCHANGED <<gate, runs, granted, batch>>
    BY <2>1 DEF A!sandbox
  <2> QED
    BY <1>1, <1>5, <2>1, <2>2, SandboxRests, ReviewRests, ProposeNext, ApplyNext,
       ApplyFailsNext, RollbackNext, RollbackFailsNext DEF AdoptInv
<1> QED
  BY <1>2, <1>3, <1>4, <1>5 DEF A!Next, A!Progress

LEMMA AdoptRests == AdoptInv /\ UNCHANGED adoptVars => AdoptInv'
<1> SUFFICES ASSUME AdoptInv, UNCHANGED adoptVars PROVE AdoptInv'
  OBVIOUS
<1>1. UNCHANGED <<gate, runs, granted, batch>> /\ UNCHANGED <<review, events>>
      /\ UNCHANGED <<way, A!applied>>
  BY DEF adoptVars, A!applied
<1> QED
  BY <1>1, SandboxRests, ReviewRests, ApplyRests DEF AdoptInv

(***************************************************************************)
(* The searches.                                                           *)
(***************************************************************************)
Optimizing == {"optimize", "try", "converged", "ended", "cancelled"}

\* The improvement history of Optimize: it never falls, its last quiet + 1
\* entries are the best score, and the one before them is below it.
HistoryInv ==
    /\ Len(history) = iter + 1 /\ quiet <= iter
    /\ \A i \in 1..Len(history) : i >= iter + 1 - quiet => history[i] = best.score
    /\ quiet < iter => history[iter - quiet] < best.score
    /\ pc = "converged" => quiet = Quiet
    /\ pc # "converged" => quiet < Quiet

\* The trials are within the mutations that the iterations allow.
TrialsInv ==
    /\ pc \in {"optimize", "converged", "ended", "cancelled"} =>
          trial <= 1 + iter * MutationsPerIteration
    /\ pc = "try" =>
          iter < MaxIterations
            /\ trial <= 1 + iter * MutationsPerIteration + MutationsPerIteration - left

TuningInv ==
    /\ trial = iter + 1 /\ Len(history) = 1
    /\ pc = "evaluate" => held = trial /\ iter < MaxIterations
    /\ pc # "evaluate" => held = best.version

SearchInv ==
    /\ S!TypeOK
    /\ trial >= 1 /\ best.version < trial /\ scored[best.version] = best.score
    /\ \A i, j \in 1..Len(history) : i <= j => history[i] <= history[j]
    /\ pc \in Optimizing => HistoryInv /\ TrialsInv
    /\ pc \notin Optimizing => TuningInv

LEMMA SearchConstants ==
    /\ Scores \subseteq Nat /\ Threshold \in Nat \ {0} /\ MaxIterations \in Nat \ {0}
    /\ MutationsPerIteration \in Nat \ {0} /\ Quiet \in Nat \ {0}
    /\ S!Bound = MaxIterations * MutationsPerIteration
    /\ S!Bound \in Nat
<1>1. /\ Scores \subseteq Nat /\ Threshold \in Nat \ {0} /\ MaxIterations \in Nat \ {0}
      /\ MutationsPerIteration \in Nat \ {0} /\ Quiet \in Nat \ {0}
  BY EvolutionAssumption DEF EvolutionAssumption, S!SearchAssumption
<1> QED
  BY <1>1 DEF S!Bound

\* The mutations of the iterations so far and of the present one.
LEMMA Bounded ==
    ASSUME NEW i \in Nat, i < MaxIterations
    PROVE  /\ i * MutationsPerIteration \in Nat
           /\ (i + 1) * MutationsPerIteration = i * MutationsPerIteration + MutationsPerIteration
           /\ i * MutationsPerIteration + MutationsPerIteration <= S!Bound
           /\ i + 1 <= S!Bound
<1>1. (i + 1) * MutationsPerIteration = i * MutationsPerIteration + MutationsPerIteration
  BY SearchConstants
<1>2. (i + 1) * MutationsPerIteration <= S!Bound /\ i * MutationsPerIteration \in Nat
  BY SearchConstants, Product
<1>3. i + 1 <= (i + 1) * MutationsPerIteration
  <2>1. 1 * (i + 1) <= MutationsPerIteration * (i + 1)
    BY SearchConstants, Product
  <2> QED
    BY <2>1, SearchConstants
<1> QED
  BY <1>1, <1>2, <1>3, SearchConstants

LEMMA Rises ==
    ASSUME NEW s \in Scores, best.score \in Scores, S!Improves(s) PROVE s > best.score
<1>1. s \in Nat /\ best.score \in Nat
  BY SearchConstants
<1>2. CASE best.score > 0
  <2>1. 1 * best.score <= Threshold * best.score
    BY <1>1, SearchConstants, Product
  <2>2. (s - best.score) * 100 >= Threshold * best.score
    BY <1>2 DEF S!Improves
  <2>3. Threshold * best.score \in Int
    BY <1>1, SearchConstants
  <2> QED
    BY <1>1, <1>2, <2>1, <2>2, <2>3
<1>3. CASE ~(best.score > 0)
  BY <1>3 DEF S!Improves
<1> QED
  BY <1>2, <1>3

LEMMA SearchTypes ==
    ASSUME SearchInv
    PROVE  /\ best.score \in Nat /\ best.score \in Scores /\ best.version \in Nat
           /\ history \in Seq(Scores) /\ Len(history) \in Nat /\ DOMAIN history = 1..Len(history)
           /\ \A i \in 1..Len(history) : history[i] \in Nat
           /\ quiet \in Nat /\ left \in Nat /\ trial \in Nat /\ held \in Nat /\ iter \in Nat
<1>1. /\ best \in [score : Scores, version : 0..S!Bound] /\ history \in Seq(Scores)
      /\ quiet \in 0..Quiet /\ left \in 0..MutationsPerIteration /\ trial \in 0..S!Bound + 1
      /\ held \in 0..S!Bound /\ iter \in 0..MaxIterations
  BY DEF SearchInv, S!TypeOK
<1>2. /\ quiet \in Nat /\ left \in Nat /\ trial \in Nat /\ held \in Nat /\ iter \in Nat
  <2>1. \A n \in Nat : 0..n \subseteq Nat
    OBVIOUS
  <2>2. S!Bound + 1 \in Nat
    BY SearchConstants
  <2> QED
    BY <1>1, <2>1, <2>2, SearchConstants
<1>3. best.score \in Nat /\ best.score \in Scores /\ best.version \in Nat
  <2>1. best.score \in Scores /\ best.version \in 0..S!Bound
    BY <1>1
  <2>2. Scores \subseteq Nat /\ S!Bound \in Nat
    BY SearchConstants
  <2>3. best.score \in Nat
    BY <2>1, <2>2
  <2>4. best.version \in Nat
    BY <2>1, <2>2
  <2> QED
    BY <2>1, <2>3, <2>4
<1>4. Len(history) \in Nat /\ DOMAIN history = 1..Len(history)
      /\ \A i \in 1..Len(history) : history[i] \in Nat
  BY <1>1, SearchConstants, LenProperties, ElementOfSeq
<1> QED
  BY <1>1, <1>2, <1>3, <1>4

LEMMA SearchHolds == SearchInv => S!TypeOK /\ S!SearchIsHonest /\ S!PromptRestored
<1> SUFFICES ASSUME SearchInv PROVE S!SearchIsHonest /\ S!PromptRestored
  BY DEF SearchInv
<1>1. S!PromptRestored
  BY DEF SearchInv, S!PromptRestored, TuningInv, Optimizing
<1>2. \A i \in 1..Len(history) - 1 : history[i] <= history[i + 1]
  <2>1. \A i \in 1..Len(history) - 1 : i \in 1..Len(history) /\ i + 1 \in 1..Len(history) /\ i <= i + 1
    BY SearchTypes
  <2> QED
    BY <2>1 DEF SearchInv
<1>3. ASSUME pc \in {"converged", "ended", "cancelled"}
      PROVE  /\ Len(history) = iter + 1 /\ history[Len(history)] = best.score
             /\ (pc = "converged") <=>
                  (iter >= Quiet /\ history[Len(history) - Quiet] = best.score)
  <2>1. HistoryInv
    BY <1>3 DEF SearchInv, Optimizing
  <2>5. Len(history) = iter + 1 /\ Len(history) - Quiet = iter + 1 - Quiet
    BY <2>1, SearchTypes, SearchConstants DEF HistoryInv
  <2>2. Len(history) = iter + 1 /\ history[iter + 1] = best.score
    BY <2>1, SearchTypes DEF HistoryInv
  <2>3. CASE pc = "converged"
    <3>1. quiet = Quiet /\ quiet <= iter /\ iter + 1 - Quiet \in 1..Len(history)
      BY <2>1, <2>2, <2>3, SearchTypes, SearchConstants DEF HistoryInv
    <3>2. history[iter + 1 - Quiet] = best.score
      BY <2>1, <3>1, SearchTypes DEF HistoryInv
    <3> QED
      <4>1. iter >= Quiet /\ history[Len(history) - Quiet] = best.score
        BY <2>5, <3>1, <3>2
      <4> QED
        BY <2>2, <2>3, <4>1
  <2>4. CASE pc # "converged"
    <3>1. quiet < Quiet
      BY <2>1, <2>4 DEF HistoryInv
    <3>2. ASSUME iter >= Quiet PROVE history[iter + 1 - Quiet] # best.score
      <4>1. iter + 1 - Quiet \in 1..Len(history) /\ iter - quiet \in 1..Len(history)
            /\ iter + 1 - Quiet <= iter - quiet
        BY SMTT(60), <2>2, <3>1, <3>2, SearchTypes, SearchConstants
      <4>2. history[iter + 1 - Quiet] <= history[iter - quiet]
        BY <4>1 DEF SearchInv
      <4>3. history[iter - quiet] < best.score
        BY <2>1, <3>1, <3>2, SearchTypes, SearchConstants DEF HistoryInv
      <4> QED
        BY <4>1, <4>2, <4>3, SearchTypes
    <3> QED
      <4>1. ~(iter >= Quiet /\ history[Len(history) - Quiet] = best.score)
        BY <2>5, <3>2
      <4> QED
        BY <2>2, <2>4, <4>1
  <2> QED
    BY <2>3, <2>4
<1>4. scored[best.version] = best.score
  BY DEF SearchInv
<1> QED
  BY <1>1, <1>2, <1>3, <1>4 DEF S!SearchIsHonest

LEMMA SearchInit == S!Init => SearchInv
<1> SUFFICES ASSUME S!Init PROVE SearchInv
  OBVIOUS
<1>1. PICK score \in Scores, w \in SUBSET S!Weaknesses :
        /\ pc \in {"optimize", "gradient"}
        /\ best = [score |-> score, version |-> 0]
        /\ history = <<score>> /\ quiet = 0 /\ left = 0 /\ trial = 1 /\ held = 0
        /\ scored = [v \in 0..S!Bound |-> IF v = 0 THEN score ELSE -1]
        /\ weak = w /\ iter = 0
  BY DEF S!Init
<1>2. S!TypeOK
  BY <1>1, SearchConstants DEF S!TypeOK
<1>3. /\ history[1] = score /\ Len(history) = 1 /\ score \in Nat
      /\ best.score = score /\ best.version = 0 /\ scored[0] = score
  BY <1>1, SearchConstants
<1>4. HistoryInv /\ TrialsInv /\ TuningInv
  BY <1>1, <1>3, SearchConstants DEF HistoryInv, TrialsInv, TuningInv
<1> QED
  BY <1>1, <1>2, <1>3, <1>4 DEF SearchInv

\* The end of an iteration.
LEMMA Iterated ==
    ASSUME SearchInv, pc = "try", NEW accepted \in BOOLEAN, NEW s \in Scores,
           S!EndIteration(accepted, s), best'.score = s, best' \in [score : Scores, version : 0..S!Bound],
           IF accepted THEN s > best.score ELSE s = best.score,
           trial' \in 0..S!Bound + 1,
           trial' <= 1 + iter * MutationsPerIteration + MutationsPerIteration,
           trial' >= 1, best'.version < trial',
           scored' \in [0..S!Bound -> Scores \cup {-1}], scored'[best'.version] = s,
           UNCHANGED <<held, weak>>
    PROVE  SearchInv'
<1>1. HistoryInv /\ TrialsInv /\ iter < MaxIterations
  BY DEF SearchInv, Optimizing, TrialsInv
<1>2. /\ iter' = iter + 1 /\ history' = Append(history, s)
      /\ quiet' = (IF accepted THEN 0 ELSE quiet + 1)
      /\ pc' = (IF ~accepted /\ quiet + 1 >= Quiet THEN "converged" ELSE "optimize")
      /\ left' = 0
  BY DEF S!EndIteration
<1>3. /\ history' \in Seq(Scores) /\ Len(history') = iter + 2
      /\ Len(history) = iter + 1
      /\ \A i \in 1..(iter + 1) : history'[i] = history[i]
      /\ history'[iter + 2] = s
  <2>1. Len(history) = iter + 1
    BY <1>1 DEF HistoryInv
  <2> QED
    BY <1>2, <2>1, SearchTypes, Appends
<1>4. quiet < Quiet /\ quiet <= iter
  BY <1>1 DEF HistoryInv
<1>5. \A i \in 1..(iter + 1) : history[i] <= best.score
  <2>1. history[iter + 1] = best.score
    BY SMTT(60), <1>1, <1>3, SearchTypes DEF HistoryInv
  <2> QED
    BY SMTT(60), <1>3, <2>1, SearchTypes DEF SearchInv
<1>6. s \in Nat /\ best.score <= s
  BY SMTT(60), SearchConstants, SearchTypes
<1>7. \A i, j \in 1..Len(history') : i <= j => history'[i] <= history'[j]
  <2> SUFFICES ASSUME NEW i \in 1..(iter + 2), NEW j \in 1..(iter + 2), i <= j
               PROVE  history'[i] <= history'[j]
    BY <1>3
  <2>1. CASE j = iter + 2
    <3>1. CASE i = iter + 2
      BY <1>3, <1>6, <2>1, <3>1
    <3>2. CASE i # iter + 2
      <4>1. i \in 1..(iter + 1)
        BY <3>2, SearchTypes
      <4> QED
        BY SMTT(60), <1>3, <1>5, <1>6, <2>1, <4>1, SearchTypes
    <3> QED
      BY <3>1, <3>2
  <2>2. CASE j # iter + 2
    <3>1. i \in 1..(iter + 1) /\ j \in 1..(iter + 1)
      BY SMTT(60), <2>2, SearchTypes
    <3> QED
      BY <1>3, <3>1 DEF SearchInv
  <2> QED
    BY <2>1, <2>2
<1>12. iter' + 1 = iter + 2 /\ iter' = iter + 1 /\ iter \in Nat /\ quiet \in Nat /\ Len(history') = iter' + 1
  BY SMTT(60), <1>2, <1>3, SearchTypes
<1>8. HistoryInv'
  <2>1. CASE accepted
    <3>1. quiet' = 0 /\ pc' = "optimize"
      BY <1>2, <2>1
    <3>2. history'[iter + 1] < s
      BY SMTT(60), <1>3, <1>5, <2>1, SearchTypes, <1>6
    <3>3. \A i \in 1..Len(history') : i >= iter' + 1 - quiet' => history'[i] = best'.score
      BY SMTT(60), <1>2, <1>3, <3>1, SearchTypes
    <3>4. quiet' <= iter' /\ iter' - quiet' = iter + 1 /\ quiet' < Quiet
      BY <1>12, <3>1, SearchConstants
    <3> QED
      BY <1>12, <3>1, <3>2, <3>3, <3>4 DEF HistoryInv
  <2>2. CASE ~accepted
    <3>1. quiet' = quiet + 1 /\ s = best.score
      BY <1>2, <2>2
    <3>2. \A i \in 1..Len(history') : i >= iter' + 1 - quiet' => history'[i] = best'.score
      <4> SUFFICES ASSUME NEW i \in 1..(iter + 2), i >= iter + 1 - quiet PROVE history'[i] = s
        <5>1. iter' + 1 - quiet' = iter + 1 - quiet
          BY <1>12, <3>1
        <5> QED
          BY <1>3, <1>12, <3>1, <5>1
      <4>1. CASE i = iter + 2
        BY <1>3, <4>1
      <4>2. CASE i # iter + 2
        <5>1. i \in 1..(iter + 1)
          BY <4>2, SearchTypes
        <5> QED
          BY <1>1, <1>3, <3>1, <5>1 DEF HistoryInv
      <4> QED
        BY <4>1, <4>2
    <3>3. quiet' < iter' => history'[iter' - quiet'] < best'.score
      <4>1. ASSUME quiet < iter PROVE history'[iter - quiet] < s
        <5>1. iter - quiet \in 1..(iter + 1)
          BY <4>1, SearchTypes
        <5> QED
          BY <1>1, <1>3, <3>1, <4>1, <5>1 DEF HistoryInv
      <4> QED
        <5>1. iter' - quiet' = iter - quiet /\ (quiet' < iter' <=> quiet < iter)
          BY <1>12, <3>1
        <5> QED
          BY <4>1, <5>1
    <3>4. quiet' <= iter'
      BY <1>4, <1>12, <3>1
    <3>5. (pc' = "converged" => quiet' = Quiet) /\ (pc' # "converged" => quiet' < Quiet)
      BY <1>2, <1>4, <1>12, <2>2, <3>1, SearchConstants
    <3> QED
      BY <1>12, <3>2, <3>3, <3>4, <3>5 DEF HistoryInv
  <2> QED
    BY <2>1, <2>2
<1>9. TrialsInv'
  <2>1. (iter + 1) * MutationsPerIteration = iter * MutationsPerIteration + MutationsPerIteration
        /\ iter * MutationsPerIteration \in Nat
    BY <1>1, <1>12, Bounded
  <2>2. pc' \in {"optimize", "converged"}
    BY <1>2
  <2>3. trial' <= 1 + iter' * MutationsPerIteration
    BY <1>12, <2>1, SearchConstants
  <2> QED
    BY <2>2, <2>3 DEF TrialsInv
<1>10. quiet' \in 0..Quiet
  BY SMTT(60), <1>2, <1>4, SearchTypes, SearchConstants
<1>11. S!TypeOK'
  BY <1>1, <1>2, <1>3, <1>10, SearchTypes, SearchConstants DEF SearchInv, S!TypeOK
<1> QED
  BY <1>2, <1>7, <1>8, <1>9, <1>11 DEF SearchInv, Optimizing

LEMMA OptimizeNext ==
    ASSUME SearchInv,
           \/ S!Iterate \/ S!Unscored \/ S!NoneAccepted \/ S!Stop
           \/ \E s \in Scores : S!Accepted(s) \/ S!Declined(s)
    PROVE  SearchInv'
<1>1. pc \in Optimizing /\ HistoryInv /\ TrialsInv
  BY DEF SearchInv, Optimizing, S!Iterate, S!Unscored, S!NoneAccepted, S!Stop, S!Accepted,
     S!Declined
<1>2. /\ S!TypeOK /\ trial >= 1 /\ best.version < trial /\ scored[best.version] = best.score
      /\ scored \in [0..S!Bound -> Scores \cup {-1}] /\ best.version \in 0..S!Bound
      /\ best \in [score : Scores, version : 0..S!Bound]
  BY DEF SearchInv, S!TypeOK
<1>3. CASE S!Iterate
  <2>1. pc = "optimize" /\ iter < MaxIterations /\ pc' = "try" /\ left' = MutationsPerIteration
        /\ UNCHANGED <<best, history, quiet, trial, held, scored, weak, iter>>
    BY <1>3 DEF S!Iterate
  <2>2. trial <= 1 + iter * MutationsPerIteration + MutationsPerIteration - MutationsPerIteration
    BY <1>1, <2>1, Bounded, SearchTypes, SearchConstants DEF TrialsInv
  <2>3. S!TypeOK' /\ TrialsInv'
    BY <1>2, <2>1, <2>2, SearchConstants DEF S!TypeOK, TrialsInv
  <2>4. HistoryInv'
    BY <1>1, <2>1 DEF HistoryInv
  <2> QED
    BY <2>1, <2>3, <2>4 DEF SearchInv, Optimizing
<1>4. CASE S!Stop
  <2>1. pc = "optimize" /\ pc' \in {"cancelled", "ended"}
        /\ UNCHANGED <<best, history, quiet, left, trial, held, scored, weak, iter>>
    BY <1>4 DEF S!Stop
  <2>2. S!TypeOK'
    BY <1>2, <2>1 DEF S!TypeOK
  <2>3. HistoryInv' /\ TrialsInv'
    BY <1>1, <2>1 DEF HistoryInv, TrialsInv
  <2> QED
    BY <2>1, <2>2, <2>3 DEF SearchInv, Optimizing
<1>5. ASSUME pc = "try", left > 0
      PROVE  /\ iter < MaxIterations /\ trial \in 0..S!Bound /\ trial + 1 \in 0..S!Bound + 1
             /\ left - 1 \in 0..MutationsPerIteration
             /\ trial + 1 <= 1 + iter * MutationsPerIteration + MutationsPerIteration - (left - 1)
             /\ trial + 1 <= 1 + iter * MutationsPerIteration + MutationsPerIteration
  <2>1. /\ iter < MaxIterations
        /\ trial <= 1 + iter * MutationsPerIteration + MutationsPerIteration - left
        /\ left \in 0..MutationsPerIteration
    BY <1>1, <1>2, <1>5 DEF TrialsInv, S!TypeOK
  <2>2. /\ iter * MutationsPerIteration \in Nat
        /\ iter * MutationsPerIteration + MutationsPerIteration <= S!Bound
    BY <2>1, Bounded, SearchTypes
  <2> DEFINE p == iter * MutationsPerIteration
  <2>3. /\ p \in Nat /\ p + MutationsPerIteration <= S!Bound /\ S!Bound \in Nat
        /\ trial <= 1 + p + MutationsPerIteration - left
        /\ MutationsPerIteration \in Nat /\ trial \in Nat /\ left \in Nat
        /\ left \in 0..MutationsPerIteration /\ left > 0
    BY <1>5, <2>1, <2>2, SearchTypes, SearchConstants
  <2> HIDE DEF p
  <2>4. /\ trial \in 0..S!Bound /\ trial + 1 \in 0..S!Bound + 1
        /\ left - 1 \in 0..MutationsPerIteration
        /\ trial + 1 <= 1 + p + MutationsPerIteration - (left - 1)
        /\ trial + 1 <= 1 + p + MutationsPerIteration
    BY <2>3
  <2> QED
    BY <2>1, <2>4 DEF p
<1>6. CASE S!Unscored
  <2>1. pc = "try" /\ left > 0 /\ left' = left - 1 /\ trial' = trial + 1
        /\ UNCHANGED <<pc, best, history, quiet, held, scored, weak, iter>>
    BY <1>6 DEF S!Unscored
  <2>2. S!TypeOK' /\ TrialsInv'
    BY <1>2, <1>5, <2>1 DEF S!TypeOK, TrialsInv
  <2>3. HistoryInv'
    BY <1>1, <2>1 DEF HistoryInv
  <2>4. trial' >= 1 /\ best.version < trial'
    BY <1>2, <2>1, SearchTypes
  <2> QED
    BY <1>1, <2>1, <2>2, <2>3, <2>4 DEF SearchInv
<1>7. ASSUME NEW s \in Scores, S!Declined(s) PROVE SearchInv'
  <2>1. pc = "try" /\ left > 0 /\ left' = left - 1 /\ trial' = trial + 1
        /\ scored' = [scored EXCEPT ![trial] = s]
        /\ UNCHANGED <<pc, best, history, quiet, held, weak, iter>>
    BY <1>7 DEF S!Declined
  <2>2. scored' \in [0..S!Bound -> Scores \cup {-1}] /\ scored'[best.version] = best.score
    BY <1>2, <1>5, <2>1, SearchTypes
  <2>3. S!TypeOK' /\ TrialsInv'
    BY <1>2, <1>5, <2>1, <2>2 DEF S!TypeOK, TrialsInv
  <2>4. HistoryInv'
    BY <1>1, <2>1 DEF HistoryInv
  <2>5. trial' >= 1 /\ best.version < trial'
    BY <1>2, <2>1, SearchTypes
  <2> QED
    BY <1>1, <2>1, <2>2, <2>3, <2>4, <2>5 DEF SearchInv
<1>8. ASSUME NEW s \in Scores, S!Accepted(s) PROVE SearchInv'
  <2>1. pc = "try" /\ left > 0 /\ S!Improves(s) /\ trial' = trial + 1
        /\ best' = [score |-> s, version |-> trial]
        /\ scored' = [scored EXCEPT ![trial] = s]
        /\ S!EndIteration(TRUE, s) /\ UNCHANGED <<held, weak>>
    BY <1>8 DEF S!Accepted
  <2>2. s > best.score
    BY <2>1, SearchTypes, Rises
  <2>3. /\ scored' \in [0..S!Bound -> Scores \cup {-1}] /\ scored'[best'.version] = s
        /\ best'.score = s /\ best'.version = trial
        /\ best' \in [score : Scores, version : 0..S!Bound]
    BY <1>2, <1>5, <2>1
  <2>4. trial' >= 1 /\ best'.version < trial'
    BY <2>1, <2>3, SearchTypes
  <2>5. TRUE \in BOOLEAN
    OBVIOUS
  <2> QED
    BY <1>5, <2>1, <2>2, <2>3, <2>4, <2>5, Iterated
<1>9. CASE S!NoneAccepted
  <2>1. pc = "try" /\ S!EndIteration(FALSE, best.score)
        /\ UNCHANGED <<best, trial, held, scored, weak>>
    BY <1>9 DEF S!NoneAccepted
  <2>2. /\ iter < MaxIterations
        /\ trial <= 1 + iter * MutationsPerIteration + MutationsPerIteration - left
    BY <1>1, <2>1 DEF TrialsInv
  <2>3. trial' <= 1 + iter * MutationsPerIteration + MutationsPerIteration
    <3>1. iter * MutationsPerIteration \in Nat
      BY <2>2, Bounded, SearchTypes
    <3> QED
      BY SMTT(60), <2>1, <2>2, <3>1, SearchTypes, SearchConstants
  <2>4. trial' \in 0..S!Bound + 1
    BY <1>2, <2>1 DEF S!TypeOK
  <2>5. /\ best'.score = best.score /\ best' \in [score : Scores, version : 0..S!Bound]
        /\ trial' >= 1 /\ best'.version < trial' /\ scored'[best'.version] = best.score
        /\ scored' \in [0..S!Bound -> Scores \cup {-1}]
    BY <1>2, <2>1
  <2>6. FALSE \in BOOLEAN /\ best.score \in Scores
    BY SearchTypes
  <2> QED
    BY <2>1, <2>3, <2>4, <2>5, <2>6, Iterated
<1> QED
  BY <1>3, <1>4, <1>6, <1>7, <1>8, <1>9

LEMMA TuneNext ==
    ASSUME SearchInv,
           \/ S!Gradient \/ S!TuneEnds \/ S!Restore
           \/ \E s \in Scores : S!Tuned(s)
    PROVE  SearchInv'
<1>1. pc \in {"gradient", "evaluate"} /\ TuningInv
  BY DEF SearchInv, Optimizing, S!Gradient, S!TuneEnds, S!Restore, S!Tuned
<1>2. /\ S!TypeOK /\ trial >= 1 /\ best.version < trial /\ scored[best.version] = best.score
      /\ scored \in [0..S!Bound -> Scores \cup {-1}] /\ best.version \in 0..S!Bound
      /\ best \in [score : Scores, version : 0..S!Bound]
  BY DEF SearchInv, S!TypeOK
<1>3. ASSUME iter < MaxIterations
      PROVE  trial \in 0..S!Bound /\ trial + 1 \in 0..S!Bound + 1 /\ iter + 1 \in 0..MaxIterations
  <2>1. trial = iter + 1 /\ iter + 1 <= S!Bound
    BY <1>1, <1>3, Bounded, SearchTypes DEF TuningInv
  <2> QED
    BY <1>3, <2>1, SearchTypes, SearchConstants
<1>4. CASE S!Gradient
  <2>1. iter < MaxIterations /\ held' = trial /\ pc' = "evaluate"
        /\ UNCHANGED <<best, history, quiet, left, trial, scored, weak, iter>>
    BY <1>4 DEF S!Gradient
  <2>2. S!TypeOK'
    BY <1>2, <1>3, <2>1 DEF S!TypeOK
  <2>3. TuningInv'
    BY <1>1, <2>1 DEF TuningInv
  <2> QED
    BY <2>1, <2>2, <2>3 DEF SearchInv, Optimizing
<1>5. CASE S!TuneEnds
  <2>1. pc = "gradient" /\ pc' = "tuned"
        /\ UNCHANGED <<best, history, quiet, left, trial, held, scored, weak, iter>>
    BY <1>5 DEF S!TuneEnds
  <2>2. S!TypeOK'
    BY <1>2, <2>1 DEF S!TypeOK
  <2>3. TuningInv'
    BY <1>1, <2>1 DEF TuningInv
  <2> QED
    BY <2>1, <2>2, <2>3 DEF SearchInv, Optimizing
<1>6. CASE S!Restore
  <2>1. /\ pc = "evaluate" /\ held' = best.version
        /\ trial' = trial + 1 /\ iter' = iter + 1 /\ pc' = "gradient"
        /\ UNCHANGED <<best, history, quiet, left, weak>>
        /\ scored' = scored \/ \E s \in Scores : scored' = [scored EXCEPT ![trial] = s]
    BY <1>6 DEF S!Restore
  <2>2. iter < MaxIterations /\ trial = iter + 1 /\ Len(history) = 1
    BY <1>1, <2>1 DEF TuningInv
  <2>3. scored' \in [0..S!Bound -> Scores \cup {-1}] /\ scored'[best.version] = best.score
    <3>1. trial \in 0..S!Bound /\ trial # best.version
      BY <1>2, <1>3, <2>2, SearchTypes
    <3>2. ASSUME NEW s \in Scores
          PROVE  /\ [scored EXCEPT ![trial] = s] \in [0..S!Bound -> Scores \cup {-1}]
                 /\ [scored EXCEPT ![trial] = s][best.version] = best.score
      BY <1>2, <3>1
    <3> QED
      BY <1>2, <2>1, <3>2
  <2>4. S!TypeOK'
    BY <1>2, <1>3, <2>1, <2>2, <2>3 DEF S!TypeOK
  <2>5. TuningInv' /\ trial' >= 1 /\ best.version < trial'
    BY SMTT(60), <1>2, <2>1, <2>2, SearchTypes DEF TuningInv
  <2> QED
    BY <2>1, <2>3, <2>4, <2>5 DEF SearchInv, Optimizing
<1>7. ASSUME NEW s \in Scores, S!Tuned(s) PROVE SearchInv'
  <2>1. /\ pc = "evaluate" /\ best' = [score |-> s, version |-> trial]
        /\ scored' = [scored EXCEPT ![trial] = s]
        /\ trial' = trial + 1 /\ iter' = iter + 1 /\ pc' = "gradient"
        /\ weak' \in S!Cured(weak)
        /\ UNCHANGED <<history, quiet, left, held>>
    BY <1>7 DEF S!Tuned
  <2>2. iter < MaxIterations /\ trial = iter + 1 /\ held = trial /\ Len(history) = 1
    BY <1>1, <2>1 DEF TuningInv
  <2>3. /\ scored' \in [0..S!Bound -> Scores \cup {-1}] /\ scored'[best'.version] = best'.score
        /\ best' \in [score : Scores, version : 0..S!Bound] /\ best'.version = trial
    BY <1>2, <1>3, <2>1, <2>2
  <2>4. weak' \subseteq S!Weaknesses
    <3>1. weak \subseteq S!Weaknesses
      BY <1>2 DEF S!TypeOK
    <3> QED
      BY <2>1, <3>1 DEF S!Cured, S!Weaknesses
  <2>5. S!TypeOK'
    BY <1>2, <1>3, <2>1, <2>2, <2>3, <2>4 DEF S!TypeOK
  <2>6. TuningInv' /\ trial' >= 1 /\ best'.version < trial'
    BY SMTT(60), <1>2, <2>1, <2>2, <2>3, SearchTypes DEF TuningInv
  <2> QED
    BY <2>1, <2>3, <2>5, <2>6 DEF SearchInv, Optimizing
<1> QED
  BY <1>4, <1>5, <1>6, <1>7

LEMMA SearchNext == SearchInv /\ S!Next => SearchInv'
BY OptimizeNext, TuneNext DEF S!Next, S!Progress

LEMMA SearchRests == SearchInv /\ UNCHANGED searchVars => SearchInv'
BY DEF searchVars, SearchInv, S!TypeOK, HistoryInv, TrialsInv, TuningInv

(***************************************************************************)
(* The fleet.                                                              *)
(***************************************************************************)
Sends == [pc : {"idle", "share", "save", "done"}, target : Nat, capsule : Nat,
          sent : Nat, reached : Nat, errors : Nat]

\* Where a call of Propagate is; a share that is saved next is in memory.
SendInv ==
    /\ send \in Sends
    /\ send.pc \in {"share", "save"} =>
          send.target \in 1..Len(Targets) /\ send.capsule \in 1..Len(F!Eligible)
    /\ send.target >= 1 /\ send.capsule >= 1
    /\ send.sent + send.errors
          \in IF send.pc = "done" THEN {F!Attempts, F!Attempts + 1} ELSE {F!Attempts}
    /\ send.sent + (IF send.pc = "save" THEN 1 ELSE 0) <= Len(shares)

\* A readable file holds a share of its name, no name is both readable and
\* torn, and an acknowledged share's name is one of the two.
FilesInv ==
    /\ \A f \in DOMAIN shareFile : shareFile[f] \in F!Share /\ f = F!FileName(shareFile[f])
    /\ cutOff \subseteq {F!FileName(s) : s \in F!Share} \ DOMAIN shareFile
    /\ acked \subseteq F!Share
    /\ \A s \in acked : F!FileName(s) \in DOMAIN shareFile \cup cutOff

FleetInv ==
    /\ F!TypeOK
    /\ SendInv
    /\ FilesInv
    /\ \A t \in delegated : t.source \in nodes

LEMMA FleetConstants ==
    /\ Source \in Nodes /\ Targets \in Seq(Nodes) /\ Len(Targets) \in Nat
    /\ MaxTime \in Nat /\ MaxCalls \in Nat /\ MaxRestarts \in Nat
    /\ F!Eligible \in Seq(Active) /\ Len(F!Eligible) \in Nat
<1>1. F!FleetAssumption
  BY EvolutionAssumption DEF EvolutionAssumption
<1>2. /\ Source \in Nodes /\ Targets \in Seq(Nodes) /\ Len(Capsules) \in Nat
      /\ MaxTime \in Nat /\ MaxCalls \in Nat /\ MaxRestarts \in Nat
  BY <1>1 DEF F!FleetAssumption
<1> DEFINE upTo(i) == {j \in 1..i : Capsules[j] \in Active}
           active == upTo(Len(Capsules))
           picked == {i \in active : MaxCapsules > 0 => Cardinality(upTo(i)) <= MaxCapsules}
           nth(k) == CHOOSE i \in active : Cardinality(upTo(i)) = k
           eligible == [k \in 1..Cardinality(picked) |-> Capsules[nth(k)]]
<1>3. F!Eligible = eligible
  BY DEF F!Eligible, F!Cardinality, Cardinality
<1>4. active \in SUBSET (1..Len(Capsules)) /\ picked \in SUBSET active
  OBVIOUS
<1>5. \A i \in active : upTo(i) = {j \in active : j <= i}
  BY <1>2
<1>6. IsFiniteSet(active) /\ Cardinality(active) \in Nat
      /\ \A k \in 1..Cardinality(active) : \E i \in active : Cardinality(upTo(i)) = k
  <2>1. IsFiniteSet(active) /\ Cardinality(active) \in Nat
        /\ \A k \in 1..Cardinality(active) : \E i \in active :
              Cardinality({j \in active : j <= i}) = k
    <3> HIDE DEF active
    <3> QED
      BY <1>2, <1>4, Ranks
  <2> HIDE DEF upTo, active
  <2> QED
    BY <1>5, <2>1
<1>7. Cardinality(picked) \in Nat /\ Cardinality(picked) <= Cardinality(active)
  <2> HIDE DEF active, picked
  <2> QED
    BY <1>4, <1>6, FS_Subset, FS_CardinalityType
<1>8. \A i \in active : Capsules[i] \in Active
  OBVIOUS
<1>9. \A k \in 1..Cardinality(picked) : nth(k) \in active
  <2> HIDE DEF active, picked, upTo
  <2> QED
    BY <1>6, <1>7
<1>10. eligible \in [1..Cardinality(picked) -> Active]
  <2> HIDE DEF active, picked, nth
  <2> QED
    BY <1>8, <1>9
<1>11. eligible \in Seq(Active) /\ Len(eligible) \in Nat
  <2> HIDE DEF picked, eligible
  <2> QED
    BY <1>7, <1>10, Sequence
<1> HIDE DEF eligible
<1> QED
  BY <1>2, <1>3, <1>11, LenProperties

LEMMA FleetHolds == FleetInv => F!TypeOK /\ F!PropagationAddsUp /\ F!SharesSurvive
<1> SUFFICES ASSUME FleetInv PROVE F!PropagationAddsUp /\ F!SharesSurvive
  BY DEF FleetInv
<1>1. F!PropagationAddsUp
  <2>1. send.sent \in Nat /\ Len(shares) \in Nat
    BY DEF FleetInv, SendInv, Sends, F!TypeOK
  <2> QED
    BY <2>1 DEF FleetInv, SendInv, F!PropagationAddsUp
<1>2. F!SharesSurvive
  <2>1. ASSUME NEW s \in acked, F!FileName(s) \notin cutOff
        PROVE  \E f \in DOMAIN shareFile :
                  /\ shareFile[f].source = s.source
                  /\ shareFile[f].pattern = s.pattern
                  /\ shareFile[f].at = s.at
    <3>1. F!FileName(s) \in DOMAIN shareFile
          /\ F!FileName(s) = F!FileName(shareFile[F!FileName(s)])
      BY <2>1 DEF FleetInv, FilesInv
    <3>2. <<s.source, s.pattern, s.at>>
            = <<shareFile[F!FileName(s)].source, shareFile[F!FileName(s)].pattern,
                shareFile[F!FileName(s)].at>>
      BY <3>1 DEF F!FileName
    <3> QED
      BY <3>1, <3>2
  <2> QED
    BY <2>1 DEF FleetInv, F!SharesSurvive
<1> QED
  BY <1>1, <1>2

LEMMA FleetInit == F!Init => FleetInv
<1> SUFFICES ASSUME F!Init PROVE FleetInv
  OBVIOUS
<1>1. F!TypeOK
  BY FleetConstants DEF F!Init, F!TypeOK, F!NoSend
<1>5. FilesInv
  BY DEF F!Init, FilesInv
<1>2. send = [pc |-> "idle", target |-> 1, capsule |-> 1, sent |-> 0, reached |-> 0, errors |-> 0]
      /\ Len(shares) = 0
  BY DEF F!Init, F!NoSend
<1>3. F!Attempts = 0
  BY <1>2, FleetConstants DEF F!Attempts
<1>4. SendInv
  BY <1>2, <1>3 DEF SendInv, Sends
<1> QED
  BY <1>1, <1>4, <1>5 DEF FleetInv, F!Init

LEMMA Sent ==
    ASSUME NEW s \in Sends
    PROVE  s = [pc |-> s.pc, target |-> s.target, capsule |-> s.capsule,
                sent |-> s.sent, reached |-> s.reached, errors |-> s.errors]
BY DEF Sends

\* A share was tried, so the loops go on.
LEMMA Advanced ==
    ASSUME FleetInv, send.pc \in {"share", "save"},
           send' = F!Advance([send EXCEPT !.sent = @ + 1]) \/ send' = F!Advance([send EXCEPT !.errors = @ + 1]),
           shares' = shares,
           send.sent + (IF send' = F!Advance([send EXCEPT !.errors = @ + 1]) THEN 0 ELSE 1)
              <= Len(shares)
    PROVE  SendInv'
<1> DEFINE len == Len(F!Eligible)
           s == IF send' = F!Advance([send EXCEPT !.errors = @ + 1])
                THEN [send EXCEPT !.errors = @ + 1] ELSE [send EXCEPT !.sent = @ + 1]
<1>1. /\ send \in Sends /\ len \in Nat /\ Len(Targets) \in Nat /\ Len(shares) \in Nat
      /\ send.target \in 1..Len(Targets) /\ send.capsule \in 1..len
      /\ send.sent + send.errors = F!Attempts
  BY SMTT(60), FleetConstants DEF FleetInv, SendInv, F!TypeOK
<1>2. /\ s \in Sends /\ s.target = send.target /\ s.capsule = send.capsule
      /\ s.sent + s.errors = send.sent + send.errors + 1
      /\ s.sent <= Len(shares)
  BY SMTT(60), <1>1 DEF Sends
<1>3. send' = F!Advance(s)
  OBVIOUS
<1> HIDE DEF s
<1>4. F!Attempts = (send.target - 1) * len + send.capsule - 1
  BY DEF F!Attempts
<1>5. CASE s.capsule < len
  <2>1. send' = [s EXCEPT !.pc = "share", !.capsule = @ + 1]
    BY <1>3, <1>5 DEF F!Advance
  <2>7. send' = [pc |-> "share", target |-> s.target, capsule |-> s.capsule + 1,
                 sent |-> s.sent, reached |-> s.reached, errors |-> s.errors]
    BY ZenonT(90), <1>2, <2>1, Sent
  <2>2. /\ send' \in Sends /\ send'.pc = "share" /\ send'.target = send.target
        /\ send'.capsule = send.capsule + 1 /\ send'.sent = s.sent /\ send'.errors = s.errors
    BY <1>2, <2>7 DEF Sends
  <2>3. F!Attempts' = (send.target - 1) * len + (send.capsule + 1) - 1
    BY <2>2 DEF F!Attempts
  <2>4. F!Attempts' = F!Attempts + 1
    <3> DEFINE p == (send.target - 1) * len
    <3>1. p \in Int /\ send.capsule \in Int
      BY <1>1
    <3> HIDE DEF p
    <3>2. p + (send.capsule + 1) - 1 = (p + send.capsule - 1) + 1
      BY <3>1
    <3> QED
      BY <1>4, <2>3, <3>2 DEF p
  <2>5. send'.sent + send'.errors = F!Attempts'
    BY <1>1, <1>2, <2>2, <2>4
  <2>6. send'.capsule \in 1..len /\ send'.target \in 1..Len(Targets)
    BY <1>1, <1>2, <1>5, <2>2
  <2> QED
    <3>1. send'.target >= 1 /\ send'.capsule >= 1 /\ send'.sent <= Len(shares')
      BY <1>1, <1>2, <2>2
    <3> QED
      BY <2>2, <2>5, <2>6, <3>1, <1>1 DEF SendInv, Sends
<1>6. CASE ~(s.capsule < len)
  <2>1. send' = [s EXCEPT !.pc = IF s.target < Len(Targets) THEN "share" ELSE "done",
                          !.target = @ + 1, !.capsule = 1, !.reached = @ + 1]
    BY <1>3, <1>6 DEF F!Advance
  <2> DEFINE next == IF s.target < Len(Targets) THEN "share" ELSE "done"
  <2>7. send' = [pc |-> next, target |-> s.target + 1, capsule |-> 1,
                 sent |-> s.sent, reached |-> s.reached + 1, errors |-> s.errors]
    BY ZenonT(90), <1>2, <2>1, Sent
  <2>8. next \in {"share", "done"}
    OBVIOUS
  <2>9. next = IF send.target < Len(Targets) THEN "share" ELSE "done"
    BY <1>2
  <2> HIDE DEF next
  <2>2. /\ send' \in Sends /\ send'.target = send.target + 1 /\ send'.capsule = 1
        /\ send'.pc = next /\ send'.sent = s.sent /\ send'.errors = s.errors
    BY <1>2, <2>7, <2>8 DEF Sends
  <2>3. send.capsule = len
    BY <1>1, <1>2, <1>6
  <2>4. F!Attempts' = F!Attempts + 1
    <3>5. F!Attempts' = (send'.target - 1) * len + send'.capsule - 1
      BY DEF F!Attempts
    <3>6. send'.target - 1 = send.target /\ send'.capsule = 1
      BY <1>1, <2>2
    <3>1. F!Attempts' = send.target * len + 1 - 1
      BY <3>5, <3>6
    <3>2. send.target * len = (send.target - 1) * len + len
      BY <1>1
    <3> DEFINE p == (send.target - 1) * len
    <3>3. p \in Int /\ len \in Nat
      BY <1>1
    <3> HIDE DEF p, len
    <3>4. (p + len) + 1 - 1 = (p + len - 1) + 1
      BY <3>3
    <3> QED
      BY <1>4, <2>3, <3>1, <3>2, <3>4 DEF p
  <2>5. send'.sent + send'.errors = F!Attempts'
    BY <1>1, <1>2, <2>2, <2>4
  <2>6. send'.pc = "share" => send'.capsule \in 1..len /\ send'.target \in 1..Len(Targets)
    BY <1>1, <2>2, <2>9
  <2> QED
    <3>1. send'.target >= 1 /\ send'.capsule >= 1 /\ send'.sent <= Len(shares')
      BY <1>1, <1>2, <2>2
    <3> QED
      BY SMTT(60), <2>2, <2>5, <2>6, <2>8, <3>1, <1>1 DEF SendInv, Sends
<1> QED
  BY <1>5, <1>6

LEMMA Sendings ==
    ASSUME FleetInv, send.pc \in {"share", "save"}
    PROVE  F!Sending(ms) \in F!Share
<1>1. send.target \in 1..Len(Targets) /\ send.capsule \in 1..Len(F!Eligible)
  BY DEF FleetInv, SendInv
<1>2. Targets[send.target] \in Nodes /\ F!Eligible[send.capsule] \in Active
  BY <1>1, FleetConstants, ElementOfSeq
<1> QED
  BY <1>2, FleetConstants DEF F!Sending, F!Share, FleetInv, F!TypeOK

\* However a write of a share ends, the files stay what they are, and what is
\* acknowledged was written.
LEMMA SharesKept ==
    ASSUME FleetInv, NEW s \in F!Share,
           F!Written(s) \/ F!Torn(s) \/ UNCHANGED <<shareFile, cutOff>>,
           acked' = acked \/ (F!Written(s) /\ acked' = acked \cup {s})
    PROVE  FilesInv'
<1> DEFINE name == F!FileName(s)
           names == {F!FileName(t) : t \in F!Share}
<1>1. /\ \A f \in DOMAIN shareFile : shareFile[f] \in F!Share /\ f = F!FileName(shareFile[f])
      /\ cutOff \subseteq names \ DOMAIN shareFile
      /\ acked \subseteq F!Share
      /\ \A t \in acked : F!FileName(t) \in DOMAIN shareFile \cup cutOff
      /\ name \in names
  BY DEF FleetInv, FilesInv
<1>2. CASE F!Written(s)
  <2>1. /\ shareFile' = [f \in DOMAIN shareFile \cup {name} |-> IF f = name THEN s ELSE shareFile[f]]
        /\ cutOff' = cutOff \ {name}
    BY <1>2 DEF F!Written
  <2> HIDE DEF name, names
  <2>2. \A f \in DOMAIN shareFile' : shareFile'[f] \in F!Share /\ f = F!FileName(shareFile'[f])
    BY <1>1, <2>1 DEF name
  <2>3. cutOff' \subseteq names \ DOMAIN shareFile'
    BY <1>1, <2>1
  <2>4. acked' \subseteq F!Share /\ \A t \in acked' : F!FileName(t) \in DOMAIN shareFile' \cup cutOff'
    BY <1>1, <2>1 DEF name
  <2> QED
    BY <2>2, <2>3, <2>4 DEF FilesInv, F!Share, F!FileName, names
<1>3. CASE F!Torn(s) /\ acked' = acked
  <2>1. /\ shareFile' = [f \in DOMAIN shareFile \ {name} |-> shareFile[f]]
        /\ cutOff' = cutOff \cup {name}
    BY <1>3 DEF F!Torn
  <2> HIDE DEF name, names
  <2>2. \A f \in DOMAIN shareFile' : shareFile'[f] \in F!Share /\ f = F!FileName(shareFile'[f])
    BY <1>1, <2>1
  <2>3. cutOff' \subseteq names \ DOMAIN shareFile'
    BY <1>1, <2>1
  <2>4. \A t \in acked' : F!FileName(t) \in DOMAIN shareFile' \cup cutOff'
    BY <1>1, <1>3, <2>1
  <2> QED
    BY <1>1, <1>3, <2>2, <2>3, <2>4 DEF FilesInv, F!Share, F!FileName, names
<1>4. CASE UNCHANGED <<shareFile, cutOff, acked>>
  BY <1>4 DEF FleetInv, FilesInv, F!Share, F!FileName
<1> QED
  BY <1>2, <1>3, <1>4

\* What a step leaves alone of the shares.
LEMMA FilesRest == FleetInv /\ UNCHANGED <<shareFile, cutOff, acked>> => FilesInv'
BY DEF FleetInv, FilesInv, F!Share, F!FileName

\* The type of the share files is a part of what they are.
LEMMA FilesTyped ==
    ASSUME FilesInv'
    PROVE  /\ acked' \subseteq F!Share
           /\ \A f \in DOMAIN shareFile' : shareFile'[f] \in F!Share /\ f = F!FileName(shareFile'[f])
           /\ cutOff' \subseteq {F!FileName(s) : s \in F!Share} \ DOMAIN shareFile'
BY DEF FilesInv, F!Share, F!FileName

LEMMA FleetProgress == ASSUME FleetInv, F!Progress PROVE FleetInv'
<1>1. /\ F!TypeOK /\ SendInv /\ send \in Sends
      /\ (UNCHANGED <<shareFile, cutOff, acked>> => FilesInv')
      /\ \A t \in delegated : t.source \in nodes
      /\ shares \in Seq(F!Share) /\ Len(shares) \in Nat
      /\ send.sent \in Nat
  BY FilesRest DEF FleetInv, SendInv, Sends, F!TypeOK
<1>2. CASE F!PropagateCancelled
  <2>1. send.pc = "share" /\ send' = [send EXCEPT !.pc = "done", !.errors = @ + 1]
        /\ UNCHANGED <<ms, nodes, shares, delegated, nodeFile, shareFile, taskFile, calls, restarts, acked, cutOff>>
    BY <1>2 DEF F!PropagateCancelled
  <2>7. send' = [pc |-> "done", target |-> send.target, capsule |-> send.capsule,
                 sent |-> send.sent, reached |-> send.reached, errors |-> send.errors + 1]
    <3>1. send = [pc |-> send.pc, target |-> send.target, capsule |-> send.capsule,
                  sent |-> send.sent, reached |-> send.reached, errors |-> send.errors]
      BY <1>1, Sent
    <3>2. send' = [send EXCEPT !.pc = "done", !.errors = send.errors + 1]
      BY <2>1
    <3> QED
      BY <3>1, <3>2
  <2>2. /\ send' \in Sends /\ send'.pc = "done" /\ send'.target = send.target
        /\ send'.capsule = send.capsule /\ send'.sent = send.sent
        /\ send'.errors = send.errors + 1
    BY <1>1, <2>7 DEF Sends
  <2>3. F!Attempts' = F!Attempts
    BY <2>2 DEF F!Attempts
  <2>4. send.sent + send.errors = F!Attempts /\ send.sent <= Len(shares)
    BY <1>1, <2>1 DEF SendInv
  <2>5. send'.sent + send'.errors = F!Attempts + 1
    BY <1>1, <2>2, <2>4 DEF Sends
  <2>6. SendInv'
    BY <1>1, <2>1, <2>2, <2>3, <2>4, <2>5 DEF SendInv
  <2> QED
    BY <1>1, <2>1, <2>2, <2>6 DEF FleetInv, F!TypeOK, F!FileName, Sends
<1>3. CASE F!ShareInMemory
  <2>1. send.pc = "share" /\ shares' = Append(shares, F!Sending(ms))
        /\ send' = [send EXCEPT !.pc = "save"]
        /\ UNCHANGED <<ms, nodes, delegated, nodeFile, shareFile, taskFile, calls, restarts, acked, cutOff>>
    BY <1>3 DEF F!ShareInMemory
  <2>2. /\ send' \in Sends /\ send'.pc = "save" /\ send'.target = send.target
        /\ send'.capsule = send.capsule /\ send'.sent = send.sent
        /\ send'.errors = send.errors
    BY <1>1, <2>1 DEF Sends
  <2>3. F!Attempts' = F!Attempts
    BY <2>2 DEF F!Attempts
  <2>4. shares' \in Seq(F!Share) /\ Len(shares') = Len(shares) + 1
    BY <1>1, <2>1, Sendings, Appends
  <2>5. send.sent + send.errors = F!Attempts /\ send.sent <= Len(shares)
    BY <1>1, <2>1 DEF SendInv
  <2>6. SendInv'
    BY <1>1, <2>1, <2>2, <2>3, <2>4, <2>5 DEF SendInv
  <2> QED
    BY <1>1, <2>1, <2>2, <2>4, <2>6 DEF FleetInv, F!TypeOK, Sends
<1>4. CASE F!ShareRefused \/ F!SaveShareFails
  <2>1. /\ send.pc \in {"share", "save"} /\ send' = F!Advance([send EXCEPT !.errors = @ + 1])
        /\ UNCHANGED <<ms, nodes, shares, delegated, nodeFile, taskFile, calls, restarts, acked>>
        /\ \/ UNCHANGED <<shareFile, cutOff>>
           \/ F!Torn(F!Sending(ms)) \/ F!Written(F!Sending(ms))
    BY <1>4 DEF F!ShareRefused, F!SaveShareFails
  <2>2. send.sent + 0 <= Len(shares)
    BY <1>1, <2>1 DEF SendInv
  <2>3. SendInv'
    BY <2>1, <2>2, Advanced
  <2>4. FilesInv'
    BY <2>1, Sendings, SharesKept
  <2>5. send' \in Sends
    BY <2>3 DEF SendInv
  <2>6. F!TypeOK'
    BY <1>1, <2>1, <2>4, <2>5, FilesTyped DEF F!TypeOK, F!Share, F!FileName, Sends
  <2> QED
    BY <1>1, <2>1, <2>3, <2>4, <2>6 DEF FleetInv
<1>5. CASE F!SaveShare
  <2>1. /\ send.pc = "save"
        /\ F!Written(F!Sending(ms))
        /\ acked' = acked \cup {F!Sending(ms)}
        /\ send' = F!Advance([send EXCEPT !.sent = @ + 1])
        /\ UNCHANGED <<ms, nodes, shares, delegated, nodeFile, taskFile, calls, restarts>>
    BY <1>5 DEF F!SaveShare
  <2>3. send.sent + 1 <= Len(shares) /\ send.sent + 0 <= Len(shares)
    BY <1>1, <2>1 DEF SendInv
  <2>4. SendInv'
    BY <2>1, <2>3, Advanced
  <2>5. FilesInv'
    BY <2>1, Sendings, SharesKept
  <2>8. send' \in Sends
    BY <2>4 DEF SendInv
  <2>9. F!TypeOK'
    BY <1>1, <2>1, <2>5, <2>8, FilesTyped DEF F!TypeOK, F!Share, F!FileName, Sends
  <2> QED
    BY <1>1, <2>1, <2>4, <2>5, <2>9 DEF FleetInv
<1> QED
  BY <1>2, <1>3, <1>4, <1>5 DEF F!Progress

LEMMA FleetNext == FleetInv /\ F!Next => FleetInv'
<1> SUFFICES ASSUME FleetInv, F!Next PROVE FleetInv'
  OBVIOUS
<1>1. /\ F!TypeOK /\ SendInv /\ send \in Sends
      /\ (UNCHANGED <<shareFile, cutOff, acked>> => FilesInv')
      /\ \A t \in delegated : t.source \in nodes
  BY FilesRest DEF FleetInv, SendInv
<1>2. UNCHANGED <<send, shares>> => SendInv'
  BY <1>1 DEF SendInv, F!Attempts
<1>3. ASSUME NEW n \in Nodes, F!RegisterNode(n) PROVE FleetInv'
  BY <1>1, <1>2, <1>3 DEF FleetInv, F!TypeOK, F!RegisterNode, F!Saves, F!Share, F!FileName
<1>4. ASSUME NEW t \in Tasks, F!DelegateTask(t) PROVE FleetInv'
  BY <1>1, <1>2, <1>4 DEF FleetInv, F!TypeOK, F!DelegateTask, F!Saves, F!Share, F!FileName
<1>5. CASE F!Pass
  <2>1. ms' \in 0..MaxTime
    BY <1>1, <1>5, FleetConstants DEF F!Pass, F!TypeOK
  <2> QED
    BY <1>1, <1>2, <1>5, <2>1 DEF FleetInv, F!TypeOK, F!Pass, F!Share, F!FileName
<1>6. F!NoSend \in Sends /\ F!NoSend.pc = "idle" /\ F!NoSend.target = 1 /\ F!NoSend.capsule = 1
      /\ F!NoSend.sent = 0 /\ F!NoSend.errors = 0
  BY DEF F!NoSend, Sends
<1>7. CASE F!Restart
  <2>1. /\ restarts < MaxRestarts /\ restarts' = restarts + 1 /\ nodes' \in {nodeFile, {}}
        /\ shares' = <<>> /\ delegated' = {} /\ send' = F!NoSend
        /\ UNCHANGED <<ms, nodeFile, taskFile, calls, acked>>
        /\ \/ UNCHANGED <<shareFile, cutOff>>
           \/ send.pc = "save" /\ (F!Torn(F!Sending(ms)) \/ F!Written(F!Sending(ms)))
    BY <1>7 DEF F!Restart
  <2>2. F!Attempts' = 0
    BY <1>6, <2>1, FleetConstants DEF F!Attempts
  <2>3. SendInv'
    BY <1>6, <2>1, <2>2 DEF SendInv
  <2>4. restarts' \in 0..MaxRestarts /\ nodes' \subseteq Nodes /\ shares' \in Seq(F!Share)
        /\ send' \in Sends
    BY <1>1, <1>6, <2>1, FleetConstants DEF F!TypeOK
  <2>6. FilesInv'
    BY <1>1, <2>1, Sendings, SharesKept
  <2>5. F!TypeOK'
    BY <1>1, <2>1, <2>4, <2>6, FilesTyped DEF F!TypeOK, Sends, F!Share, F!FileName
  <2> QED
    BY <1>1, <2>1, <2>3, <2>5, <2>6 DEF FleetInv
<1>8. CASE F!Propagate
  <2>1. /\ Targets # <<>> /\ F!Eligible # <<>> /\ calls < MaxCalls /\ calls' = calls + 1
        /\ send' = [F!NoSend EXCEPT !.pc = "share"]
        /\ UNCHANGED <<ms, nodes, shares, delegated, nodeFile, shareFile, taskFile, restarts, acked, cutOff>>
    BY <1>8 DEF F!Propagate
  <2>2. /\ send' \in Sends /\ send'.pc = "share" /\ send'.target = 1 /\ send'.capsule = 1
        /\ send'.sent = 0 /\ send'.errors = 0
    BY <1>6, <2>1 DEF Sends
  <2>3. F!Attempts' = 0
    BY <2>2, FleetConstants DEF F!Attempts
  <2>4. 1 \in 1..Len(Targets) /\ 1 \in 1..Len(F!Eligible) /\ Len(shares) \in Nat
    BY SMTT(60), <1>1, <2>1, FleetConstants, EmptySeq DEF F!TypeOK
  <2>5. SendInv'
    BY <2>1, <2>2, <2>3, <2>4 DEF SendInv
  <2>6. calls' \in 0..MaxCalls
    BY <1>1, <2>1, FleetConstants DEF F!TypeOK
  <2>7. F!TypeOK'
    BY <1>1, <2>1, <2>2, <2>6 DEF F!TypeOK, Sends, F!Share, F!FileName
  <2> QED
    BY <1>1, <2>1, <2>5, <2>7 DEF FleetInv
<1> QED
  BY <1>3, <1>4, <1>5, <1>7, <1>8, FleetProgress DEF F!Next

LEMMA FleetRests == FleetInv /\ UNCHANGED fleetVars => FleetInv'
BY FilesRest DEF fleetVars, FleetInv, F!TypeOK, F!Share, F!FileName, SendInv, F!Attempts

(***************************************************************************)
(* The rubric.                                                             *)
(***************************************************************************)
Kept == [runs : Nat, success : Nat, latency : Nat, cost : Nat, size : Nat]

RubricInv ==
    /\ metrics \in [G!Graphs -> Kept]
    /\ G!RubricTypeOK
    /\ compare \in [pc : {"idle", "half", "baseline", "candidate"}, base : Kept, cand : Kept]
    /\ compare.base.success <= compare.base.runs /\ compare.cand.success <= compare.cand.runs
    /\ compare.pc = "baseline" => ~G!Above(compare.cand, compare.base)

LEMMA RubricConstants == Sizes \subseteq Nat /\ Latencies \subseteq Nat /\ Costs \subseteq Nat /\ MaxRuns \in Nat
BY EvolutionAssumption DEF EvolutionAssumption, G!RubricAssumption

\* A mean that is no higher than another stays within its bounds.
LEMMA MeansFall ==
    ASSUME NEW x \in Nat, NEW p \in Nat, p > 0, NEW y \in Nat, NEW q \in Nat, q > 0,
           x * q <= y * p, NEW k \in Nat, G!MeanAtMost(y, q, k)
    PROVE  G!MeanAtMost(x, p, k)
<1>1. y <= k * q
  BY DEF G!MeanAtMost
<1>2. y * p <= (k * q) * p
  BY <1>1, Product
<1>3. x * q <= (k * p) * q
  BY <1>2
<1>4. ASSUME ~(x <= k * p) PROVE FALSE
  <2>1. k * p \in Nat /\ k * p + 1 <= x
    BY <1>4
  <2>2. (k * p + 1) * q <= x * q
    BY <2>1, Product
  <2>3. (k * p + 1) * q = (k * p) * q + q
    BY <2>1
  <2> DEFINE u == (k * p) * q
             v == x * q
             w == (k * p + 1) * q
  <2>4. u \in Nat /\ v \in Nat /\ w \in Nat /\ v <= u /\ w <= v /\ w = u + q
    BY <1>3, <2>1, <2>2, <2>3
  <2> HIDE DEF u, v, w
  <2> QED
    BY <2>4
<1> QED
  BY <1>4 DEF G!MeanAtMost

LEMMA ScoresFall ==
    ASSUME NEW a \in Kept, NEW b \in Kept, G!NoWorse(a, b), b.size <= 50,
           G!MeanAtMost(b.latency, b.runs, 5000)
    PROVE  /\ G!LatencyScore(a) >= G!LatencyScore(b) /\ G!CostScore(a) >= G!CostScore(b)
           /\ G!SimplicityScore(a) >= G!SimplicityScore(b)
           /\ \A m \in {a, b} : G!LatencyScore(m) \in Nat /\ G!CostScore(m) \in Nat
                                  /\ G!SimplicityScore(m) \in Nat
<1>1. /\ a.runs \in Nat /\ b.runs \in Nat /\ a.latency \in Nat /\ b.latency \in Nat
      /\ a.cost \in Nat /\ b.cost \in Nat /\ a.size \in Nat /\ b.size \in Nat
  BY DEF Kept
<1>2. /\ a.runs > 0 /\ b.runs > 0 /\ a.latency * b.runs <= b.latency * a.runs
      /\ a.cost * b.runs <= b.cost * a.runs /\ a.size <= b.size
  BY DEF G!NoWorse
<1>3. \A k \in Nat : /\ G!MeanAtMost(b.latency, b.runs, k) => G!MeanAtMost(a.latency, a.runs, k)
                     /\ G!MeanAtMost(b.cost, b.runs, k) => G!MeanAtMost(a.cost, a.runs, k)
  BY SMTT(60), <1>1, <1>2, MeansFall
<1>4. /\ G!MeanAtMost(b.latency, b.runs, 500) => G!MeanAtMost(a.latency, a.runs, 500)
      /\ G!MeanAtMost(b.latency, b.runs, 2000) => G!MeanAtMost(a.latency, a.runs, 2000)
      /\ G!MeanAtMost(b.latency, b.runs, 5000) => G!MeanAtMost(a.latency, a.runs, 5000)
      /\ G!MeanAtMost(b.cost, b.runs, 10) => G!MeanAtMost(a.cost, a.runs, 10)
      /\ G!MeanAtMost(b.cost, b.runs, 50) => G!MeanAtMost(a.cost, a.runs, 50)
      /\ G!MeanAtMost(b.cost, b.runs, 100) => G!MeanAtMost(a.cost, a.runs, 100)
  BY <1>3
<1>5. G!LatencyScore(a) >= G!LatencyScore(b)
  BY <1>4 DEF G!LatencyScore
<1>6. G!CostScore(a) >= G!CostScore(b)
  <2> DEFINE a1 == G!MeanAtMost(a.cost, a.runs, 10)
             a2 == G!MeanAtMost(a.cost, a.runs, 50)
             a3 == G!MeanAtMost(a.cost, a.runs, 100)
             b1 == G!MeanAtMost(b.cost, b.runs, 10)
             b2 == G!MeanAtMost(b.cost, b.runs, 50)
             b3 == G!MeanAtMost(b.cost, b.runs, 100)
  <2>1. (b1 => a1) /\ (b2 => a2) /\ (b3 => a3)
    BY <1>4
  <2>2. /\ G!CostScore(a) = IF a1 THEN 95 ELSE IF a2 THEN 75 ELSE IF a3 THEN 50 ELSE 20
        /\ G!CostScore(b) = IF b1 THEN 95 ELSE IF b2 THEN 75 ELSE IF b3 THEN 50 ELSE 20
    BY DEF G!CostScore
  <2> HIDE DEF a1, a2, a3, b1, b2, b3
  <2> QED
    BY <2>1, <2>2
<1>7. G!SimplicityScore(a) >= G!SimplicityScore(b)
  BY <1>1, <1>2 DEF G!SimplicityScore
<1>8. \A m : G!LatencyScore(m) \in Nat /\ G!CostScore(m) \in Nat /\ G!SimplicityScore(m) \in Nat
  BY DEF G!LatencyScore, G!CostScore, G!SimplicityScore
<1> QED
  BY <1>5, <1>6, <1>7, <1>8

\* Where the scores fall, a graph that is no worse is scored no lower.
LEMMA ScoredNoLower ==
    ASSUME NEW a \in Kept, NEW b \in Kept, G!NoWorse(a, b), b.size <= 50,
           a.success <= a.runs, b.success <= b.runs,
           G!MeanAtMost(b.latency, b.runs, 5000)
    PROVE  ~G!Above(b, a)
<1> DEFINE bands(m) == 20 * G!LatencyScore(m) + 20 * G!CostScore(m) + 15 * G!SimplicityScore(m)
<1>1. /\ a.runs \in Nat /\ b.runs \in Nat /\ a.success \in Nat /\ b.success \in Nat
      /\ a.runs > 0 /\ b.runs > 0 /\ b.success * a.runs <= a.success * b.runs
      /\ G!Runs(a) = a.runs /\ G!Runs(b) = b.runs
  BY DEF Kept, G!NoWorse, G!Runs
<1>2. bands(a) \in Nat /\ bands(b) \in Nat /\ bands(b) <= bands(a)
  BY ScoresFall
<1>3. \A m \in {a, b} : G!OverallScore(m) = 4500 * m.success + m.runs * bands(m)
  <2>1. \A m \in {a, b} : G!LatencyScore(m) \in Nat /\ G!CostScore(m) \in Nat
                            /\ G!SimplicityScore(m) \in Nat
    BY ScoresFall
  <2>2. /\ G!Weight.completion = 30 /\ G!Weight.errors = 15 /\ G!Weight.latency = 20
        /\ G!Weight.cost = 20 /\ G!Weight.simplicity = 15
    BY DEF G!Weight
  <2> SUFFICES ASSUME NEW m \in {a, b}
               PROVE  G!OverallScore(m) = 4500 * m.success + m.runs * bands(m)
    OBVIOUS
  <2>3. G!OverallScore(m) = 30 * 100 * m.success + 15 * 100 * (m.runs - (m.runs - m.success))
                              + m.runs * bands(m)
    BY <1>1, <2>1, <2>2 DEF G!OverallScore
  <2>4. m.runs \in Nat /\ m.success \in Nat /\ m.runs * bands(m) \in Nat
    BY <1>1, <1>2
  <2> HIDE DEF bands
  <2> QED
    BY <2>3, <2>4
<1> HIDE DEF bands
<1> DEFINE x == bands(a)
           y == bands(b)
<1>4. y * (a.runs * b.runs) <= x * (a.runs * b.runs)
  BY <1>1, <1>2, Product
<1>5. G!OverallScore(a) * b.runs = 4500 * (a.success * b.runs) + x * (a.runs * b.runs)
  BY <1>1, <1>2, <1>3
<1>6. G!OverallScore(b) * a.runs = 4500 * (b.success * a.runs) + y * (a.runs * b.runs)
  BY <1>1, <1>2, <1>3
<1>7. /\ a.success * b.runs \in Nat /\ b.success * a.runs \in Nat
      /\ x * (a.runs * b.runs) \in Nat /\ y * (a.runs * b.runs) \in Nat
  BY <1>1, <1>2
<1>8. G!OverallScore(b) * a.runs <= G!OverallScore(a) * b.runs
  <2> DEFINE s == a.success * b.runs
             t == b.success * a.runs
             u == x * (a.runs * b.runs)
             v == y * (a.runs * b.runs)
  <2>1. s \in Nat /\ t \in Nat /\ u \in Nat /\ v \in Nat /\ t <= s /\ v <= u
    BY <1>1, <1>4, <1>7
  <2>2. G!OverallScore(a) * b.runs = 4500 * s + u /\ G!OverallScore(b) * a.runs = 4500 * t + v
    BY <1>5, <1>6
  <2> HIDE DEF s, t, u, v
  <2> QED
    BY <2>1, <2>2
<1>9. G!OverallScore(b) * a.runs \in Int /\ G!OverallScore(a) * b.runs \in Int
  BY <1>5, <1>6, <1>7
<1> QED
  BY <1>1, <1>8, <1>9 DEF G!Above

LEMMA RubricHolds == RubricInv => G!RubricTypeOK /\ G!BetterWinsBelow
<1> SUFFICES ASSUME RubricInv, compare.pc = "baseline", compare.base.size <= 50,
                    G!MeanAtMost(compare.base.latency, compare.base.runs, 5000),
                    G!NoWorse(compare.cand, compare.base)
             PROVE  ~G!Above(compare.cand, compare.base) /\ ~G!Above(compare.base, compare.cand)
  BY DEF RubricInv, G!BetterWinsBelow, G!Better
<1>1. compare.base \in Kept /\ compare.cand \in Kept
      /\ compare.base.success <= compare.base.runs /\ compare.cand.success <= compare.cand.runs
      /\ ~G!Above(compare.cand, compare.base)
  BY DEF RubricInv
<1> QED
  BY <1>1, ScoredNoLower

LEMMA RubricInit == G!RubricInit => RubricInv
<1> SUFFICES ASSUME G!RubricInit PROVE RubricInv
  OBVIOUS
<1>1. PICK s \in [G!Graphs -> Sizes] : metrics = [g \in G!Graphs |-> G!NoRuns(s[g])]
  BY DEF G!RubricInit
<1>2. \A n \in Nat : G!NoRuns(n) \in Kept /\ G!NoRuns(n).runs = 0 /\ G!NoRuns(n).success = 0
                       /\ G!NoRuns(n).size = n
  BY DEF G!NoRuns, Kept
<1>3. compare = [pc |-> "idle", base |-> G!NoRuns(0), cand |-> G!NoRuns(0)]
  BY DEF G!RubricInit
<1>4. metrics \in [G!Graphs -> Kept]
  BY <1>1, <1>2, RubricConstants
<1>5. G!RubricTypeOK
  <2>1. \A g \in G!Graphs : metrics[g] = G!NoRuns(s[g]) /\ s[g] \in Nat /\ s[g] \in Sizes
    BY <1>1, RubricConstants
  <2>2. \A g \in G!Graphs : metrics[g].runs = 0 /\ metrics[g].success = 0
                              /\ metrics[g].size \in Sizes
    BY <1>2, <2>1
  <2>3. compare.pc = "idle"
    BY <1>3
  <2>4. 0 \in 0..MaxRuns /\ 0 \in 0..0
    BY RubricConstants
  <2> QED
    BY <2>2, <2>3, <2>4 DEF G!RubricTypeOK
<1> QED
  BY <1>2, <1>3, <1>4, <1>5 DEF RubricInv

LEMMA Recorded ==
    ASSUME RubricInv, NEW g \in G!Graphs, NEW ok \in BOOLEAN, NEW l \in Latencies, NEW c \in Costs,
           G!RecordRun(g, ok, l, c)
    PROVE  RubricInv'
<1> DEFINE m == metrics[g]
           won == m.success + (IF ok THEN 1 ELSE 0)
           rec == [runs |-> m.runs + 1, success |-> won, latency |-> m.latency + l,
                   cost |-> m.cost + c, size |-> m.size]
<1>1. m \in Kept /\ m.runs < MaxRuns /\ m.runs \in 0..MaxRuns /\ m.success \in 0..m.runs
      /\ m.size \in Sizes
  BY DEF RubricInv, G!RubricTypeOK, G!RecordRun
<1>3. metrics' = [metrics EXCEPT ![g] = rec] /\ compare' = compare
  BY DEF G!RecordRun
<1>4. won \in 0..(m.runs + 1) /\ won \in Nat
  BY <1>1, RubricConstants
<1> HIDE DEF won
<1>5. rec \in Kept /\ rec.runs \in 0..MaxRuns /\ rec.success \in 0..rec.runs /\ rec.size \in Sizes
  BY <1>1, <1>4, RubricConstants DEF Kept
<1> HIDE DEF rec
<1>6. metrics' \in [G!Graphs -> Kept]
  BY <1>3, <1>5 DEF RubricInv
<1>7. G!RubricTypeOK'
  BY <1>3, <1>5 DEF RubricInv, G!RubricTypeOK
<1> QED
  BY <1>3, <1>6, <1>7 DEF RubricInv

LEMMA RubricNext == RubricInv /\ G!RubricNext => RubricInv'
<1> SUFFICES ASSUME RubricInv, G!RubricNext PROVE RubricInv'
  OBVIOUS
<1> DEFINE base == metrics["baseline"]
           cand == metrics["candidate"]
           kinds == [pc : {"idle", "half", "baseline", "candidate"}, base : Kept, cand : Kept]
<1>1. base \in Kept /\ cand \in Kept /\ base.success <= base.runs /\ cand.success <= cand.runs
      /\ compare \in kinds
  BY RubricConstants DEF RubricInv, G!RubricTypeOK, G!Graphs
<1>2. CASE G!CompareBegins
  <2>1. metrics' = metrics /\ compare' = [pc |-> "half", base |-> base, cand |-> compare.cand]
    BY <1>1, <1>2 DEF G!CompareBegins
  <2>2. compare' \in kinds /\ compare'.pc = "half" /\ compare'.base = base
        /\ compare'.cand = compare.cand
    BY <1>1, <2>1
  <2> QED
    BY <1>1, <2>1, <2>2 DEF RubricInv, G!RubricTypeOK
<1>3. CASE G!CompareEnds
  <2> DEFINE verdict == IF G!Above(cand, compare.base) THEN "candidate" ELSE "baseline"
  <2>1. metrics' = metrics /\ compare' = [pc |-> verdict, base |-> compare.base, cand |-> cand]
    BY <1>1, <1>3 DEF G!CompareEnds
  <2>2. verdict \in {"candidate", "baseline"} /\ (verdict = "baseline" => ~G!Above(cand, compare.base))
    OBVIOUS
  <2> HIDE DEF verdict
  <2>3. compare' \in kinds /\ compare'.pc = verdict /\ compare'.base = compare.base
        /\ compare'.cand = cand
    BY <1>1, <2>1, <2>2
  <2> QED
    BY <1>1, <2>1, <2>2, <2>3 DEF RubricInv, G!RubricTypeOK
<1> QED
  BY <1>2, <1>3, Recorded DEF G!RubricNext

LEMMA RubricRests == RubricInv /\ UNCHANGED rubricVars => RubricInv'
BY DEF rubricVars, RubricInv, G!RubricTypeOK


(***************************************************************************)
(* The traces.                                                             *)
(***************************************************************************)
Places(lines, ts) == {i \in DOMAIN lines : lines[i] \in ts}
Lost == recorded \ (T!OnFile \cup {buffer[i] : i \in DOMAIN buffer})

\* What was recorded is in the buffer once, or on the file, or was cut off; a
\* trace is on the file no oftener than once and once for every flush that
\* failed, and one that is still in the buffer was put there by those alone.
FileInv ==
    /\ buffer \in Seq(Traces) /\ file \in Seq(Traces \cup {T!Garbage})
    /\ cut \in BOOLEAN /\ recorded \in SUBSET Traces
    /\ faults \in 0..MaxFaults /\ torn \in 0..faults
    /\ \A i, j \in 1..Len(buffer) : buffer[i] = buffer[j] => i = j
    /\ \A i \in 1..Len(buffer) : buffer[i] \in recorded
    /\ \A i \in 1..Len(file) : file[i] \in recorded \cup {T!Garbage}
    /\ Cardinality(Lost) + (IF cut THEN 1 ELSE 0) <= torn
    /\ \A t \in Traces : Cardinality(Places(file, {t})) <= 1 + faults
    /\ \A i \in 1..Len(buffer) : Cardinality(Places(file, {buffer[i]})) <= faults

\* One call may be about to count what it recorded, and one to load what it
\* flushed.
CallsInv ==
    /\ counting \in BOOLEAN /\ (counting => recorded # {})
    /\ counts = Cardinality(recorded) - (IF counting THEN 1 ELSE 0)
    /\ mark \in T!NoMining..Len(file)

MiningInv ==
    /\ CallsInv
    /\ signals \subseteq T!Signals
    /\ T!SignalsAreEarned

\* One loop runs while stopCh is open; Stop closes it after a start, and what
\* runs then was started again.
LoopInv ==
    /\ running \in BOOLEAN /\ closed \in BOOLEAN /\ stop \in {"idle", "flush", "panic"}
    /\ starts \in 0..MaxStarts /\ loops \in 0..starts
    /\ ~closed => loops = IF running THEN 1 ELSE 0
    /\ running \/ closed => starts >= 1
    /\ closed /\ running => starts > 1
    /\ stop = "panic" => starts > 1

TraceInv == FileInv /\ MiningInv /\ LoopInv

LEMMA TraceConstants ==
    /\ IsFiniteSet(Traces) /\ Failures \subseteq Traces /\ Slow \subseteq Traces
    /\ Cost \in [Traces -> Nat]
    /\ RepeatThreshold \in Nat /\ SpikeFactor \in Nat /\ MaxFaults \in Nat /\ MaxStarts \in Nat
    /\ T!Garbage \notin Traces
BY EvolutionAssumption, Cardinalities
   DEF EvolutionAssumption, T!TraceAssumption, T!Garbage

LEMMA PlacesFinite ==
    ASSUME NEW U, NEW lines \in Seq(U), NEW ts
    PROVE  /\ Places(lines, ts) \in SUBSET (1..Len(lines)) /\ IsFiniteSet(Places(lines, ts))
           /\ Cardinality(Places(lines, ts)) \in Nat
           /\ T!Count(lines, ts) = Cardinality(Places(lines, ts))
<1>1. DOMAIN lines = 1..Len(lines) /\ Len(lines) \in Nat
  OBVIOUS
<1>2. Places(lines, ts) \in SUBSET (1..Len(lines))
  BY <1>1 DEF Places
<1>3. IsFiniteSet(Places(lines, ts)) /\ Cardinality(Places(lines, ts)) \in Nat
  <2>1. IsFiniteSet(1..Len(lines))
    BY <1>1, FS_Interval
  <2> QED
    BY <1>2, <2>1, FS_Subset, FS_CardinalityType
<1> QED
  BY <1>2, <1>3, Cardinalities DEF T!Count, Places

\* Traces of which none is on a line of the file oftener than c times.
LEMMA Counted ==
    ASSUME NEW U, NEW lines \in Seq(U), NEW ts, IsFiniteSet(ts), NEW c \in Nat,
           \A t \in ts : Cardinality(Places(lines, {t})) <= c
    PROVE  Cardinality(ts) \in Nat /\ Cardinality(Places(lines, ts)) <= c * Cardinality(ts)
<1> DEFINE few(us) == Cardinality(Places(lines, us)) <= c * Cardinality(us)
           P == {n \in Nat : \A us \in SUBSET ts : Cardinality(us) = n => few(us)}
<1>1. 0 \in P
  <2>1. ASSUME NEW us \in SUBSET ts, Cardinality(us) = 0 PROVE few(us)
    <3>1. us = {}
      BY <2>1, FS_Subset, FS_EmptySet
    <3>2. Places(lines, us) = {}
      BY <3>1 DEF Places
    <3> QED
      BY <2>1, <3>2, FS_EmptySet
  <2> QED
    BY <2>1
<1>2. ASSUME NEW n \in P PROVE n + 1 \in P
  <2> SUFFICES ASSUME NEW us \in SUBSET ts, Cardinality(us) = n + 1 PROVE few(us)
    OBVIOUS
  <2> DEFINE rest == us \ {First(us)}
  <2>1. us # {}
    <3>1. n + 1 # 0
      OBVIOUS
    <3> QED
      BY <3>1, FS_EmptySet
  <2>2. First(us) \in us /\ rest \in SUBSET ts /\ Cardinality(rest) = n
    BY <2>1, FirstTaken
  <2>3. Cardinality(Places(lines, rest)) <= c * n
    BY <2>2
  <2>4. Places(lines, us) = Places(lines, rest) \cup Places(lines, {First(us)})
    BY <2>2 DEF Places
  <2>5. Cardinality(Places(lines, {First(us)})) <= c
    BY <2>2
  <2> HIDE DEF rest, P
  <2>6. Cardinality(Places(lines, us))
          <= Cardinality(Places(lines, rest)) + Cardinality(Places(lines, {First(us)}))
    <3> DEFINE p == Places(lines, rest)
               q == Places(lines, {First(us)})
    <3>1. IsFiniteSet(p) /\ IsFiniteSet(q)
      BY PlacesFinite
    <3>2. Cardinality(p) \in Nat /\ Cardinality(q) \in Nat /\ Cardinality(p \cap q) \in Nat
      BY <3>1, FS_Subset, FS_CardinalityType, FS_Intersection
    <3> HIDE DEF p, q
    <3>3. Cardinality(p \cup q) = Cardinality(p) + Cardinality(q) - Cardinality(p \cap q)
      BY <3>1, FS_Union
    <3>4. Cardinality(p \cup q) <= Cardinality(p) + Cardinality(q)
      BY <3>2, <3>3
    <3> QED
      BY <2>4, <3>4 DEF p, q
  <2>7. n \in Nat /\ c * n \in Nat /\ c * (n + 1) = c * n + c
    BY <1>2 DEF P
  <2> DEFINE product == c * n
  <2>8. product \in Nat /\ c * (n + 1) = product + c /\ Cardinality(Places(lines, rest)) <= product
    BY <2>3, <2>7
  <2>9. /\ Cardinality(Places(lines, us)) \in Nat /\ Cardinality(Places(lines, rest)) \in Nat
        /\ Cardinality(Places(lines, {First(us)})) \in Nat
    BY PlacesFinite
  <2> HIDE DEF product
  <2>10. Cardinality(Places(lines, us)) <= product + c
    BY <2>5, <2>6, <2>8, <2>9
  <2> QED
    BY <2>8, <2>10
<1>3. P = Nat
  <2> HIDE DEF P
  <2> QED
    BY <1>1, <1>2, Induction DEF P
<1>4. Cardinality(ts) \in Nat
  BY FS_CardinalityType
<1> QED
  BY <1>3, <1>4

\* No trace costs more than all of them.
LEMMA TotalCovers ==
    ASSUME NEW lines \in Seq(Traces \cup {T!Garbage})
    PROVE  /\ T!Total(lines) \in Nat
           /\ \A i \in T!Loaded(lines) : lines[i] \in Traces /\ Cost[lines[i]] <= T!Total(lines)
<1> DEFINE U == T!Loaded(lines)
           w == [i \in U |-> Cost[lines[i]]]
           it == CHOOSE sums : sums = [s \in SUBSET U |->
                     IF s = {} THEN 0
                     ELSE sums[s \ {CHOOSE x \in s : TRUE}] + Cost[lines[CHOOSE x \in s : TRUE]]]
<1>1. IsFiniteSet(U) /\ \A i \in U : lines[i] \in Traces
  <2>1. U = Places(lines, Traces)
    <3>1. DOMAIN lines = 1..Len(lines) /\ \A i \in 1..Len(lines) : lines[i] \in Traces \cup {T!Garbage}
      OBVIOUS
    <3> QED
      BY <3>1, TraceConstants DEF T!Loaded, Places
  <2> QED
    BY SMTT(60), <2>1, PlacesFinite DEF Places
<1>2. w \in [U -> Nat]
  BY <1>1, TraceConstants
<1>3. T!Total(lines) = it[U]
  BY DEF T!Total, T!FoldSet, T!MapThenFoldSet
<1>4. PICK jt : Sums(U, w, jt)
  BY <1>1, <1>2, SumsExist
<1>5. jt = [s \in SUBSET U |->
                     IF s = {} THEN 0
                     ELSE jt[s \ {CHOOSE x \in s : TRUE}] + Cost[lines[CHOOSE x \in s : TRUE]]]
  <2>1. \A s \in SUBSET U : s # {} => w[First(s)] = Cost[lines[CHOOSE x \in s : TRUE]]
    BY DEF First
  <2> HIDE DEF U, w
  <2> QED
    BY SMTT(60), <1>4, <2>1 DEF Sums, First
<1>6. it = [s \in SUBSET U |->
                     IF s = {} THEN 0
                     ELSE it[s \ {CHOOSE x \in s : TRUE}] + Cost[lines[CHOOSE x \in s : TRUE]]]
  <2> HIDE DEF U
  <2> QED
    BY ZenonT(90), <1>5
<1>7. Sums(U, w, it)
  <2>1. \A s \in SUBSET U : s # {} => w[First(s)] = Cost[lines[CHOOSE x \in s : TRUE]]
    BY DEF First
  <2> HIDE DEF U, w, it
  <2>2. \A s \in SUBSET U :
           (IF s = {} THEN 0 ELSE it[s \ {First(s)}] + w[First(s)])
             = (IF s = {} THEN 0
                ELSE it[s \ {CHOOSE x \in s : TRUE}] + Cost[lines[CHOOSE x \in s : TRUE]])
    BY <2>1 DEF First
  <2> QED
    BY ZenonT(90), <1>6, <2>2 DEF Sums
<1>8. it[U] \in Nat
  <2>1. PICK kt : Sums(U, w, kt)
    BY <1>7
  <2> HIDE DEF U, w, it
  <2> QED
    BY <1>1, <1>2, <1>7, SumsGrow
<1>9. ASSUME NEW i \in U PROVE Cost[lines[i]] <= it[U]
  <2>1. w[i] = Cost[lines[i]]
    OBVIOUS
  <2> HIDE DEF U, w, it
  <2> QED
    BY <1>1, <1>2, <1>7, <2>1, SumsCover
<1> QED
  BY <1>1, <1>3, <1>8, <1>9

LEMMA TraceHolds ==
    TraceInv => T!TypeOK /\ T!SignalsAreEarned /\ T!OneLoop /\ T!TracesSurvive
<1> SUFFICES ASSUME TraceInv PROVE T!TypeOK /\ T!SignalsAreEarned /\ T!OneLoop /\ T!TracesSurvive
  OBVIOUS
<1>1. T!TypeOK
  <2>1. counts \in 0..Cardinality(Traces)
    <3>1. recorded \in SUBSET Traces
      BY DEF TraceInv, FileInv
    <3>2. /\ Cardinality(recorded) \in Nat /\ Cardinality(Traces) \in Nat
          /\ Cardinality(recorded) <= Cardinality(Traces) /\ IsFiniteSet(recorded)
      BY <3>1, TraceConstants, FS_Subset, FS_CardinalityType
    <3>3. recorded # {} => Cardinality(recorded) # 0
      BY <3>2, FS_EmptySet
    <3> QED
      BY <3>2, <3>3 DEF TraceInv, MiningInv, CallsInv
  <2> QED
    BY <2>1, Cardinalities DEF TraceInv, FileInv, MiningInv, CallsInv, LoopInv, T!TypeOK
<1>2. T!OneLoop
  BY DEF TraceInv, LoopInv, T!OneLoop
<1>3. T!TracesSurvive
  <2>1. Cardinality(recorded \ (T!OnFile \cup T!ToSet(buffer))) <= torn
    <3>1. Lost = recorded \ (T!OnFile \cup T!ToSet(buffer))
      BY DEF Lost, T!ToSet
    <3>2. Cardinality(Lost) \in Nat
      <4>1. Lost \in SUBSET Traces
        BY DEF Lost, TraceInv, FileInv
      <4> QED
        BY <4>1, TraceConstants, FS_Subset, FS_CardinalityType
    <3>3. Cardinality(Lost) + (IF cut THEN 1 ELSE 0) <= torn /\ torn \in Nat
      BY DEF TraceInv, FileInv
    <3> QED
      BY <3>1, <3>2, <3>3
  <2>2. \A t \in Traces : T!Count(file, {t}) <= 1 + faults
    BY PlacesFinite DEF TraceInv, FileInv
  <2> QED
    BY <2>1, <2>2, Cardinalities DEF TraceInv, MiningInv, CallsInv, T!TracesSurvive
<1> QED
  BY <1>1, <1>2, <1>3 DEF TraceInv, MiningInv

LEMMA TraceInit == T!Init => TraceInv
<1> SUFFICES ASSUME T!Init PROVE TraceInv
  OBVIOUS
<1>1. buffer = <<>> /\ file = <<>> /\ recorded = {} /\ cut = FALSE /\ faults = 0 /\ torn = 0
  BY DEF T!Init
<1>2. Cardinality({}) = 0
  BY FS_EmptySet
<1>3. \A t : Places(file, {t}) = {}
  BY <1>1 DEF Places
<1>4. Lost = {}
  BY <1>1 DEF Lost
<1>5. buffer \in Seq(Traces) /\ file \in Seq(Traces \cup {T!Garbage}) /\ Len(buffer) = 0 /\ Len(file) = 0
  BY <1>1
<1>6. FileInv
  <2>1. 0 \in 0..MaxFaults /\ 0 \in 0..0 /\ cut \in BOOLEAN /\ recorded \in SUBSET Traces
    <3>1. cut \in BOOLEAN /\ recorded \in SUBSET Traces
      BY <1>1
    <3>2. 0 \in 0..MaxFaults /\ 0 \in 0..0
      BY TraceConstants
    <3> QED
      BY <3>1, <3>2
  <2>2. \A i, j \in 1..0 : FALSE
    OBVIOUS
  <2>3. Cardinality(Lost) + (IF cut THEN 1 ELSE 0) <= torn
    BY <1>1, <1>2, <1>4
  <2>4. \A t \in Traces : Cardinality(Places(file, {t})) <= 1 + faults
    <3>1. \A t : Cardinality(Places(file, {t})) = 0
      BY <1>2, <1>3
    <3> QED
      BY <1>1, <3>1
  <2> QED
    BY <1>1, <1>5, <2>1, <2>2, <2>3, <2>4 DEF FileInv
<1>7. MiningInv
  <2>1. /\ counting = FALSE /\ counts = 0 /\ mark = -1 /\ signals = {}
    BY DEF T!Init, T!NoMining
  <2>2. Len(file) = 0 /\ recorded = {}
    BY DEF T!Init
  <2>3. Cardinality(recorded) = 0
    BY <2>2, FS_EmptySet
  <2>4. mark \in T!NoMining..Len(file)
    BY <2>1, <2>2 DEF T!NoMining
  <2>5. counts = Cardinality(recorded) - (IF FALSE THEN 1 ELSE 0)
    BY <2>1, <2>3
  <2>6. CallsInv
    BY <2>1, <2>4, <2>5 DEF CallsInv
  <2> QED
    BY <2>1, <2>6 DEF MiningInv, T!SignalsAreEarned
<1>8. LoopInv
  <2>1. 0 \in 0..MaxStarts /\ 0 \in 0..0
    BY TraceConstants
  <2> QED
    BY <2>1 DEF LoopInv, T!Init
<1> QED
  BY <1>6, <1>7, <1>8 DEF TraceInv

\* A flush that writes the first k traces puts them behind the file in their
\* order; the first of them may share the line that was cut off.
LEMMA Written ==
    ASSUME FileInv, NEW k \in 0..Len(buffer), NEW g, g = T!Appended(SubSeq(buffer, 1, k))
    PROVE  /\ g \in Seq(Traces \cup {T!Garbage}) /\ Len(g) = Len(file) + k /\ Len(file) \in Nat
           /\ \A i \in 1..Len(file) : g[i] = file[i]
           /\ \A j \in 1..k : g[Len(file) + j] = buffer[j]
                                \/ (j = 1 /\ cut /\ g[Len(file) + j] = T!Garbage)
<1> DEFINE ts == SubSeq(buffer, 1, k)
           V == Traces \cup {T!Garbage}
<1>1. buffer \in Seq(Traces) /\ file \in Seq(V) /\ k \in Nat /\ k <= Len(buffer) /\ Len(buffer) \in Nat
  BY DEF FileInv
<1>2. ts \in Seq(Traces) /\ Len(ts) = k /\ \A j \in 1..k : ts[j] = buffer[j]
  BY <1>1
<1>3. ts # <<>> => k > 0
  BY <1>2
<1>4. ts \in Seq(V)
  BY <1>2, SeqMonotonic
<1> HIDE DEF ts, V
<1>5. CASE cut /\ ts # <<>>
  <2>1. T!Garbage \in V
    BY DEF V
  <2>2. g = file \o <<T!Garbage>> \o Tail(ts)
    BY <1>5 DEF T!Appended, ts
  <2>3. Tail(ts) \in Seq(V) /\ Len(Tail(ts)) = k - 1 /\ \A j \in 1..(k - 1) : Tail(ts)[j] = ts[j + 1]
    BY <1>2, <1>4, <1>5
  <2>4. /\ <<T!Garbage>> \in Seq(V) /\ Len(<<T!Garbage>>) = 1 /\ <<T!Garbage>>[1] = T!Garbage
    BY <2>1
  <2> DEFINE head == file \o <<T!Garbage>>
             rest == Tail(ts)
  <2>5. /\ head \in Seq(V) /\ Len(head) = Len(file) + 1 /\ Len(file) \in Nat
        /\ \A i \in 1..Len(file) : head[i] = file[i]
        /\ head[Len(file) + 1] = T!Garbage
    <3> DEFINE end == <<T!Garbage>>
    <3>1. end \in Seq(V) /\ Len(end) = 1 /\ end[1] = T!Garbage
      BY <2>4
    <3>2. head = file \o end
      OBVIOUS
    <3> HIDE DEF head, end
    <3> QED
      <4>1. file \in Seq(V) /\ end \in Seq(V) /\ head = file \o end
        BY <1>1, <3>1, <3>2
      <4>2. /\ head \in Seq(V) /\ Len(file) \in Nat /\ Len(end) \in Nat /\ Len(head) = Len(file) + Len(end)
            /\ \A i \in 1..Len(file) : head[i] = file[i]
            /\ \A j \in 1..Len(end) : head[Len(file) + j] = end[j]
        BY ONLY <4>1, Joined
      <4> QED
        BY <3>1, <4>2
  <2>6. g = head \o rest
    BY <2>2 DEF head, rest
  <2>7. /\ rest \in Seq(V) /\ Len(rest) = k - 1 /\ \A j \in 1..(k - 1) : rest[j] = ts[j + 1]
    BY <2>3
  <2> HIDE DEF head, rest
  <2>8. /\ g \in Seq(V) /\ Len(g) = Len(head) + Len(rest)
        /\ \A i \in 1..Len(head) : g[i] = head[i]
        /\ \A j \in 1..Len(rest) : g[Len(head) + j] = rest[j]
    <3>1. head \in Seq(V) /\ rest \in Seq(V) /\ g = head \o rest
      BY <2>5, <2>6, <2>7
    <3>2. /\ g \in Seq(V) /\ Len(head) \in Nat /\ Len(rest) \in Nat /\ Len(g) = Len(head) + Len(rest)
          /\ \A i \in 1..Len(head) : g[i] = head[i]
          /\ \A j \in 1..Len(rest) : g[Len(head) + j] = rest[j]
      BY ONLY <3>1, Joined
    <3> QED
      BY <3>2
  <2>9. Len(g) = Len(file) + k /\ \A i \in 1..Len(file) : g[i] = file[i]
    BY <1>1, <2>5, <2>7, <2>8
  <2>10. g[Len(file) + 1] = T!Garbage
    BY <2>5, <2>8
  <2>11. ASSUME NEW j \in 1..k, j # 1 PROVE g[Len(file) + j] = buffer[j]
    <3>1. j - 1 \in 1..(k - 1) /\ Len(file) + j = Len(head) + (j - 1) /\ (j - 1) + 1 = j
      BY <1>1, <2>5, <2>7, <2>11
    <3>2. g[Len(head) + (j - 1)] = rest[j - 1] /\ rest[j - 1] = ts[(j - 1) + 1]
      BY <2>7, <2>8, <3>1
    <3> QED
      BY <1>2, <3>1, <3>2
  <2> QED
    BY <1>5, <2>5, <2>8, <2>9, <2>10, <2>11 DEF V
<1>6. CASE ~(cut /\ ts # <<>>)
  <2>1. g = file \o ts
    BY <1>6 DEF T!Appended, ts
  <2>2. g \in Seq(V) /\ Len(g) = Len(file) + k /\ Len(file) \in Nat
        /\ (\A i \in 1..Len(file) : g[i] = file[i])
        /\ (\A j \in 1..k : g[Len(file) + j] = ts[j])
    <3>1. file \in Seq(V) /\ ts \in Seq(V) /\ g = file \o ts
      BY <1>1, <1>4, <2>1
    <3>2. /\ g \in Seq(V) /\ Len(file) \in Nat /\ Len(ts) \in Nat /\ Len(g) = Len(file) + Len(ts)
          /\ \A i \in 1..Len(file) : g[i] = file[i]
          /\ \A j \in 1..Len(ts) : g[Len(file) + j] = ts[j]
      BY ONLY <3>1, Joined
    <3> QED
      BY <1>2, <3>2
  <2> QED
    BY <1>2, <2>2 DEF V
<1> QED
  BY <1>5, <1>6

\* What such a flush makes of the file: no trace is there once more than it
\* was, unless it is one of the buffer, which is there once more at most.
LEMMA Grown ==
    ASSUME FileInv, NEW k \in 0..Len(buffer), NEW g, g = T!Appended(SubSeq(buffer, 1, k))
    PROVE  /\ g \in Seq(Traces \cup {T!Garbage})
           /\ \A i \in 1..Len(g) : g[i] \in recorded \cup {T!Garbage}
           /\ \A t \in Traces : Cardinality(Places(g, {t})) <= Cardinality(Places(file, {t})) + 1
           /\ \A t \in Traces : (\A j \in 1..k : buffer[j] # t)
                 => Cardinality(Places(g, {t})) <= Cardinality(Places(file, {t}))
           /\ \A i \in DOMAIN file : i \in DOMAIN g /\ g[i] = file[i]
           /\ \A j \in 1..k : ~(j = 1 /\ cut) => \E i \in DOMAIN g : g[i] = buffer[j]
<1> DEFINE n == Len(file)
<1>1. /\ g \in Seq(Traces \cup {T!Garbage}) /\ Len(g) = n + k /\ n \in Nat
      /\ \A i \in 1..n : g[i] = file[i]
      /\ \A j \in 1..k : g[n + j] = buffer[j] \/ (j = 1 /\ cut /\ g[n + j] = T!Garbage)
  BY Written
<1>2. /\ file \in Seq(Traces \cup {T!Garbage}) /\ buffer \in Seq(Traces)
      /\ k \in Nat /\ k <= Len(buffer) /\ Len(buffer) \in Nat
      /\ \A i, j \in 1..Len(buffer) : buffer[i] = buffer[j] => i = j
      /\ \A i \in 1..Len(buffer) : buffer[i] \in recorded
      /\ \A i \in 1..n : file[i] \in recorded \cup {T!Garbage}
  BY DEF FileInv
<1>3. DOMAIN g = 1..(n + k) /\ DOMAIN file = 1..n
  BY <1>1, <1>2
<1> HIDE DEF n
<1>4. ASSUME NEW i \in 1..(n + k), ~(i \in 1..n)
      PROVE  i - n \in 1..k /\ n + (i - n) = i
  BY <1>1, <1>2, <1>4
<1>5. ASSUME NEW i \in 1..(n + k) PROVE g[i] \in recorded \cup {T!Garbage}
  <2>1. CASE i \in 1..n
    BY <1>1, <1>2, <2>1
  <2>2. CASE ~(i \in 1..n)
    <3>1. i - n \in 1..k /\ n + (i - n) = i /\ i - n \in 1..Len(buffer)
      BY <1>2, <1>4, <2>2
    <3> QED
      BY ZenonT(90), <1>1, <1>2, <3>1
  <2> QED
    BY <2>1, <2>2
<1>6. ASSUME NEW t \in Traces
      PROVE  /\ Cardinality(Places(g, {t})) <= Cardinality(Places(file, {t})) + 1
             /\ (\A j \in 1..k : buffer[j] # t)
                  => Cardinality(Places(g, {t})) <= Cardinality(Places(file, {t}))
  <2>1. t # T!Garbage
    BY TraceConstants
  <2>2. ASSUME NEW i \in Places(g, {t}), i \notin Places(file, {t})
        PROVE  i - n \in 1..k /\ buffer[i - n] = t /\ i = n + (i - n)
    <3>1. i \in 1..(n + k) /\ g[i] = t
      BY <1>3 DEF Places
    <3>2. ~(i \in 1..n)
      BY <1>1, <1>3, <2>2, <3>1 DEF Places
    <3>3. i - n \in 1..k /\ n + (i - n) = i
      BY <1>4, <3>1, <3>2
    <3> QED
      BY <1>1, <2>1, <3>1, <3>3
  <2>3. /\ IsFiniteSet(Places(g, {t})) /\ Cardinality(Places(g, {t})) \in Nat
        /\ IsFiniteSet(Places(file, {t})) /\ Cardinality(Places(file, {t})) \in Nat
    BY <1>1, <1>2, PlacesFinite
  <2>4. CASE \A j \in 1..k : buffer[j] # t
    <3>1. Places(g, {t}) \subseteq Places(file, {t})
      BY <2>2, <2>4
    <3>2. Cardinality(Places(g, {t})) <= Cardinality(Places(file, {t}))
      BY <2>3, <3>1, FS_Subset
    <3> QED
      BY <2>3, <3>2
  <2>5. CASE ~(\A j \in 1..k : buffer[j] # t)
    <3>1. PICK j \in 1..k : buffer[j] = t
      BY <2>5
    <3>2. \A h \in 1..k : buffer[h] = t => h = j
      BY <1>2, <3>1
    <3>3. Places(g, {t}) \subseteq Places(file, {t}) \cup {n + j}
      BY <2>2, <3>2
    <3>4. /\ IsFiniteSet(Places(file, {t}) \cup {n + j})
          /\ Cardinality(Places(file, {t}) \cup {n + j}) <= Cardinality(Places(file, {t})) + 1
      <4>1. \/ Cardinality(Places(file, {t}) \cup {n + j}) = Cardinality(Places(file, {t})) + 1
            \/ Cardinality(Places(file, {t}) \cup {n + j}) = Cardinality(Places(file, {t}))
        BY <2>3, FS_AddElement
      <4>2. IsFiniteSet(Places(file, {t}) \cup {n + j})
        BY <2>3, FS_AddElement
      <4> QED
        BY <2>3, <4>1, <4>2
    <3>5. Cardinality(Places(g, {t})) <= Cardinality(Places(file, {t}) \cup {n + j})
          /\ Cardinality(Places(file, {t}) \cup {n + j}) \in Nat
      BY <3>3, <3>4, FS_Subset, FS_CardinalityType
    <3>6. Cardinality(Places(g, {t})) <= Cardinality(Places(file, {t})) + 1
      BY <2>3, <3>4, <3>5
    <3> QED
      BY <2>5, <3>6
  <2> QED
    BY <2>4, <2>5
<1>7. \A i \in DOMAIN file : i \in DOMAIN g /\ g[i] = file[i]
  <2>1. \A i \in 1..n : i \in 1..(n + k)
    BY <1>1, <1>2
  <2> QED
    BY <1>1, <1>3, <2>1
<1>8. ASSUME NEW j \in 1..k, ~(j = 1 /\ cut) PROVE \E i \in DOMAIN g : g[i] = buffer[j]
  <2>1. g[n + j] = buffer[j] /\ n + j \in 1..(n + k)
    BY <1>1, <1>2, <1>8
  <2> QED
    BY <1>3, <2>1
<1>9. \A i \in 1..Len(g) : g[i] \in recorded \cup {T!Garbage}
  BY <1>1, <1>5
<1> QED
  BY <1>1, <1>6, <1>7, <1>8, <1>9

LEMMA LostFinite == FileInv => IsFiniteSet(Lost) /\ Cardinality(Lost) \in Nat
<1> SUFFICES ASSUME FileInv PROVE IsFiniteSet(Lost) /\ Cardinality(Lost) \in Nat
  OBVIOUS
<1>1. Lost \in SUBSET Traces
  BY DEF Lost, FileInv
<1> QED
  BY <1>1, TraceConstants, FS_Subset, FS_CardinalityType

LEMMA FlushKeeps == FileInv /\ T!Flush /\ UNCHANGED recorded => FileInv'
<1> SUFFICES ASSUME FileInv, T!Flush, UNCHANGED recorded PROVE FileInv'
  OBVIOUS
<1>0. PICK k : k = Len(buffer)
  OBVIOUS
<1>1. /\ file' = T!Appended(SubSeq(buffer, 1, k)) /\ cut' = (cut /\ buffer = <<>>)
      /\ buffer' = <<>> /\ faults' = faults /\ torn' = torn /\ recorded' = recorded
      /\ k \in 0..Len(buffer)
  <2>1. buffer \in Seq(Traces)
    BY DEF FileInv
  <2>2. SubSeq(buffer, 1, Len(buffer)) = buffer /\ Len(buffer) \in 0..Len(buffer)
    BY <2>1
  <2> QED
    BY <1>0, <2>2 DEF T!Flush
<1>2. /\ file' \in Seq(Traces \cup {T!Garbage})
      /\ \A i \in 1..Len(file') : file'[i] \in recorded \cup {T!Garbage}
      /\ \A t \in Traces : Cardinality(Places(file', {t})) <= Cardinality(Places(file, {t})) + 1
      /\ \A t \in Traces : (\A j \in 1..k : buffer[j] # t)
            => Cardinality(Places(file', {t})) <= Cardinality(Places(file, {t}))
      /\ \A i \in DOMAIN file : i \in DOMAIN file' /\ file'[i] = file[i]
      /\ \A j \in 1..k : ~(j = 1 /\ cut) => \E i \in DOMAIN file' : file'[i] = buffer[j]
  <2>1. FileInv /\ k \in 0..Len(buffer) /\ file' = T!Appended(SubSeq(buffer, 1, k))
    BY <1>1
  <2>2. /\ file' \in Seq(Traces \cup {T!Garbage})
        /\ \A i \in 1..Len(file') : file'[i] \in recorded \cup {T!Garbage}
        /\ \A t \in Traces : Cardinality(Places(file', {t})) <= Cardinality(Places(file, {t})) + 1
        /\ \A i \in DOMAIN file : i \in DOMAIN file' /\ file'[i] = file[i]
    BY ONLY <2>1, Grown
  <2>3. \A t \in Traces : (\A j \in 1..k : buffer[j] # t)
            => Cardinality(Places(file', {t})) <= Cardinality(Places(file, {t}))
    BY ONLY <2>1, Grown
  <2>4. \A j \in 1..k : ~(j = 1 /\ cut) => \E i \in DOMAIN file' : file'[i] = buffer[j]
    BY ONLY SMTT(60), <2>1, Grown
  <2> QED
    BY <2>2, <2>3, <2>4
<1>3. /\ buffer \in Seq(Traces) /\ file \in Seq(Traces \cup {T!Garbage}) /\ faults \in Nat /\ torn \in Nat
      /\ Cardinality(Lost) + (IF cut THEN 1 ELSE 0) <= torn
      /\ \A t \in Traces : Cardinality(Places(file, {t})) <= 1 + faults
      /\ \A i \in 1..Len(buffer) : Cardinality(Places(file, {buffer[i]})) <= faults
  BY TraceConstants DEF FileInv
<1>4. ASSUME NEW t \in Traces PROVE Cardinality(Places(file', {t})) <= 1 + faults
  <2>1. Cardinality(Places(file', {t})) \in Nat /\ Cardinality(Places(file, {t})) \in Nat
    BY <1>2, <1>3, PlacesFinite
  <2>2. CASE \A j \in 1..k : buffer[j] # t
    BY SMTT(60), <1>2, <1>3, <2>1, <2>2
  <2>3. CASE ~(\A j \in 1..k : buffer[j] # t)
    <3>1. Cardinality(Places(file, {t})) <= faults
      BY <1>0, <1>3, <2>3
    <3>2. Cardinality(Places(file', {t})) <= Cardinality(Places(file, {t})) + 1
      BY <1>2
    <3> QED
      BY <1>3, <2>1, <3>1, <3>2
  <2> QED
    BY <2>2, <2>3
<1>5. Lost' \subseteq Lost \cup (IF cut /\ buffer # <<>> THEN {buffer[1]} ELSE {})
  <2>1. ASSUME NEW t \in Lost', t \notin Lost PROVE cut /\ buffer # <<>> /\ t = buffer[1]
    <3>1. t \in recorded /\ t \in Traces /\ (\A i \in DOMAIN file' : file'[i] # t)
      BY <1>1 DEF Lost, FileInv, T!OnFile
    <3>2. \A i \in DOMAIN file : file[i] # t
      BY <1>2, <3>1
    <3>3. PICK j \in DOMAIN buffer : buffer[j] = t
      BY <2>1, <3>1, <3>2 DEF Lost, T!OnFile
    <3>4. j \in 1..k /\ buffer # <<>>
      BY <1>0, <1>3, <3>3
    <3> QED
      BY <1>2, <3>1, <3>3, <3>4
  <2> QED
    BY <2>1
<1>6. Cardinality(Lost') + (IF cut' THEN 1 ELSE 0) <= torn
  <2>1. IsFiniteSet(Lost) /\ Cardinality(Lost) \in Nat
    BY LostFinite
  <2>2. CASE cut /\ buffer # <<>>
    <3>1. Lost' \subseteq Lost \cup {buffer[1]}
      BY <1>5, <2>2
    <3>2. /\ IsFiniteSet(Lost \cup {buffer[1]})
          /\ \/ Cardinality(Lost \cup {buffer[1]}) = Cardinality(Lost) + 1
             \/ Cardinality(Lost \cup {buffer[1]}) = Cardinality(Lost)
      BY <2>1, FS_AddElement
    <3>3. Cardinality(Lost') <= Cardinality(Lost \cup {buffer[1]}) /\ Cardinality(Lost') \in Nat
      BY <3>1, <3>2, FS_Subset, FS_CardinalityType
    <3>4. cut' = FALSE /\ Cardinality(Lost) + 1 <= torn
      BY <1>1, <1>3, <2>2
    <3> QED
      BY <1>3, <2>1, <3>2, <3>3, <3>4
  <2>3. CASE ~(cut /\ buffer # <<>>)
    <3>1. Lost' \subseteq Lost
      BY <1>5, <2>3
    <3>2. Cardinality(Lost') <= Cardinality(Lost) /\ Cardinality(Lost') \in Nat
      BY <2>1, <3>1, FS_Subset, FS_CardinalityType
    <3>3. cut' => cut
      BY <1>1
    <3>4. CASE cut'
      <4>1. Cardinality(Lost) + 1 <= torn
        BY <1>3, <3>3, <3>4
      <4>2. (IF cut' THEN 1 ELSE 0) = 1
        BY <3>4
      <4> QED
        BY <1>3, <2>1, <3>2, <4>1, <4>2
    <3>5. CASE ~cut'
      BY <1>3, <2>1, <3>2, <3>5
    <3> QED
      BY <3>4, <3>5
  <2> QED
    BY <2>2, <2>3
<1>7. buffer' \in Seq(Traces) /\ Len(buffer') = 0 /\ \A i \in 1..0 : FALSE
  BY <1>1
<1>8. cut' \in BOOLEAN
  BY <1>1 DEF FileInv
<1>9. recorded' \in SUBSET Traces /\ faults' \in 0..MaxFaults /\ torn' \in 0..faults'
  BY <1>1 DEF FileInv
<1> QED
  BY <1>1, <1>2, <1>4, <1>6, <1>7, <1>8, <1>9 DEF FileInv

LEMMA FlushFailsKeeps == FileInv /\ T!FlushFails /\ UNCHANGED recorded => FileInv'
<1> SUFFICES ASSUME FileInv, T!FlushFails, UNCHANGED recorded PROVE FileInv'
  OBVIOUS
<1>1. PICK k \in 0..(Len(buffer) - 1) : \E tears \in BOOLEAN :
        /\ file' = T!Appended(SubSeq(buffer, 1, k))
        /\ cut' = (tears \/ (cut /\ k = 0))
        /\ torn' = IF tears THEN torn + 1 ELSE torn
  BY DEF T!FlushFails
<1>2. PICK tears \in BOOLEAN :
        /\ file' = T!Appended(SubSeq(buffer, 1, k))
        /\ cut' = (tears \/ (cut /\ k = 0))
        /\ torn' = IF tears THEN torn + 1 ELSE torn
  BY <1>1
<1>3. faults' = faults + 1 /\ faults < MaxFaults /\ buffer' = buffer /\ recorded' = recorded
  BY DEF T!FlushFails
<1>4. /\ buffer \in Seq(Traces) /\ Len(buffer) \in Nat /\ file \in Seq(Traces \cup {T!Garbage})
      /\ faults \in Nat /\ torn \in Nat /\ torn <= faults /\ MaxFaults \in Nat
      /\ Cardinality(Lost) + (IF cut THEN 1 ELSE 0) <= torn
      /\ \A t \in Traces : Cardinality(Places(file, {t})) <= 1 + faults
      /\ \A i \in 1..Len(buffer) : Cardinality(Places(file, {buffer[i]})) <= faults
  BY TraceConstants DEF FileInv
<1>5. /\ file' \in Seq(Traces \cup {T!Garbage})
      /\ \A i \in 1..Len(file') : file'[i] \in recorded \cup {T!Garbage}
      /\ \A t \in Traces : Cardinality(Places(file', {t})) <= Cardinality(Places(file, {t})) + 1
      /\ \A i \in DOMAIN file : i \in DOMAIN file' /\ file'[i] = file[i]
  <2>1. FileInv /\ k \in 0..Len(buffer) /\ file' = T!Appended(SubSeq(buffer, 1, k))
    BY <1>2, <1>4
  <2> QED
    BY ONLY <2>1, Grown
<1>6. \A t \in Traces : Cardinality(Places(file', {t})) \in Nat /\ Cardinality(Places(file, {t})) \in Nat
  BY <1>4, <1>5, PlacesFinite
<1>7. ASSUME NEW t \in Traces PROVE Cardinality(Places(file', {t})) <= 1 + faults'
  <2>1. /\ Cardinality(Places(file', {t})) <= Cardinality(Places(file, {t})) + 1
        /\ Cardinality(Places(file, {t})) <= 1 + faults
    BY <1>4, <1>5
  <2> QED
    BY <1>3, <1>4, <1>6, <2>1
<1>8. ASSUME NEW i \in 1..Len(buffer) PROVE Cardinality(Places(file', {buffer[i]})) <= faults'
  <2>1. buffer[i] \in Traces
    BY <1>4
  <2>2. /\ Cardinality(Places(file', {buffer[i]})) <= Cardinality(Places(file, {buffer[i]})) + 1
        /\ Cardinality(Places(file, {buffer[i]})) <= faults
    BY <1>4, <1>5, <2>1
  <2> QED
    BY <1>3, <1>4, <1>6, <2>1, <2>2
<1>9. Cardinality(Lost') + (IF cut' THEN 1 ELSE 0) <= torn'
  <2>1. IsFiniteSet(Lost) /\ Cardinality(Lost) \in Nat
    BY LostFinite
  <2>2. Lost' \subseteq Lost
    BY <1>3, <1>5 DEF Lost, T!OnFile
  <2>3. Cardinality(Lost') <= Cardinality(Lost) /\ Cardinality(Lost') \in Nat
    BY <2>1, <2>2, FS_Subset, FS_CardinalityType
  <2>4. CASE tears
    <3>1. torn' = torn + 1
      BY <1>2, <2>4
    <3>2. Cardinality(Lost) <= torn
      BY <1>4, <2>1
    <3> QED
      BY <1>4, <2>1, <2>3, <3>1, <3>2
  <2>5. CASE ~tears
    <3>1. torn' = torn /\ (cut' => cut)
      BY <1>2, <2>5
    <3>2. CASE cut'
      <4>1. Cardinality(Lost) + 1 <= torn
        BY <1>4, <3>1, <3>2
      <4> QED
        BY <1>4, <2>1, <2>3, <3>1, <3>2, <4>1
    <3>3. CASE ~cut'
      <4>1. Cardinality(Lost) <= torn
        BY <1>4, <2>1
      <4> QED
        BY <1>4, <2>1, <2>3, <3>1, <3>3, <4>1
    <3> QED
      BY <3>2, <3>3
  <2> QED
    BY <2>4, <2>5
<1>10. cut' \in BOOLEAN
  BY <1>2 DEF FileInv
<1>11. torn' \in 0..faults' /\ faults' \in 0..MaxFaults
  <2>1. torn' = torn + 1 \/ torn' = torn
    BY <1>2
  <2> QED
    BY <1>3, <1>4, <2>1
<1>12. /\ \A i, j \in 1..Len(buffer') : buffer'[i] = buffer'[j] => i = j
       /\ \A i \in 1..Len(buffer') : buffer'[i] \in recorded'
       /\ recorded' \in SUBSET Traces
  BY <1>3 DEF FileInv
<1> QED
  BY <1>3, <1>4, <1>5, <1>7, <1>8, <1>9, <1>10, <1>11, <1>12 DEF FileInv

\* What earned a signal stays recorded.
LEMMA EarnedStays ==
    ASSUME FileInv, FileInv', T!SignalsAreEarned, UNCHANGED signals,
           recorded \subseteq recorded', faults <= faults'
    PROVE  T!SignalsAreEarned'
<1>1. recorded' \in SUBSET Traces /\ faults \in Nat /\ faults' \in Nat /\ faults <= faults'
  BY TraceConstants DEF FileInv
<1>2. ASSUME NEW us, NEW vs \in SUBSET Traces, us \subseteq vs
      PROVE  /\ (1 + faults) * Cardinality(us) <= (1 + faults') * Cardinality(vs)
             /\ (1 + faults) * Cardinality(us) \in Nat /\ (1 + faults') * Cardinality(vs) \in Nat
  <2>1. /\ Cardinality(us) \in Nat /\ Cardinality(vs) \in Nat
        /\ Cardinality(us) <= Cardinality(vs)
    BY <1>2, TraceConstants, FS_Subset, FS_CardinalityType
  <2> DEFINE a == Cardinality(us)
             b == Cardinality(vs)
  <2>2. a * (1 + faults) <= b * (1 + faults) /\ a * (1 + faults) \in Nat /\ b * (1 + faults) \in Nat
    <3> HIDE DEF a, b
    <3>1. 1 + faults \in Nat
      BY <1>1
    <3> QED
      BY <2>1, <3>1, Product DEF a, b
  <2>3. (1 + faults) * b <= (1 + faults') * b /\ (1 + faults') * b \in Nat
    <3>1. 1 + faults \in Nat /\ 1 + faults' \in Nat /\ 1 + faults <= 1 + faults'
      <4>1. \A x, y \in Nat : x <= y => 1 + x \in Nat /\ 1 + y \in Nat /\ 1 + x <= 1 + y
        OBVIOUS
      <4> QED
        BY <1>1, <4>1
    <3> QED
      BY <2>1, <3>1, Product
  <2> HIDE DEF a, b
  <2>4. a \in Nat /\ b \in Nat
    BY <2>1 DEF a, b
  <2>5. a * (1 + faults) = (1 + faults) * a /\ b * (1 + faults) = (1 + faults) * b
    BY <1>1, <2>4
  <2>6. (1 + faults) * a <= (1 + faults') * b
    <3> DEFINE p == (1 + faults) * a
               q == (1 + faults) * b
               r == (1 + faults') * b
    <3>1. p \in Nat /\ q \in Nat /\ r \in Nat /\ p <= q /\ q <= r
      BY <2>2, <2>3, <2>5
    <3> HIDE DEF p, q, r
    <3>2. p <= r
      BY <3>1
    <3> QED
      BY <3>2 DEF p, r
  <2> QED
    BY <2>2, <2>3, <2>5, <2>6 DEF a, b
<1>3. /\ (1 + faults) * Cardinality(Failures \cap recorded)
           <= (1 + faults') * Cardinality(Failures \cap recorded')
      /\ (1 + faults) * Cardinality(Failures \cap recorded) \in Nat
      /\ (1 + faults') * Cardinality(Failures \cap recorded') \in Nat
  BY <1>1, <1>2
<1>4. /\ (1 + faults) * Cardinality(recorded) <= (1 + faults') * Cardinality(recorded')
      /\ (1 + faults) * Cardinality(recorded) \in Nat
      /\ (1 + faults') * Cardinality(recorded') \in Nat
  BY <1>1, <1>2
<1> DEFINE p == (1 + faults) * Cardinality(Failures \cap recorded)
           q == (1 + faults') * Cardinality(Failures \cap recorded')
           r == (1 + faults) * Cardinality(recorded)
           s == (1 + faults') * Cardinality(recorded')
<1>5. /\ (\E e \in signals : e.type = "repeated_failure") => p >= RepeatThreshold
      /\ (\E e \in signals : e.type = "cost_spike") => r > SpikeFactor
  BY Cardinalities DEF T!SignalsAreEarned
<1>6. /\ p <= q /\ p \in Nat /\ q \in Nat /\ r <= s /\ r \in Nat /\ s \in Nat
      /\ RepeatThreshold \in Nat /\ SpikeFactor \in Nat
  BY <1>3, <1>4, TraceConstants
<1>7. /\ (\E e \in signals' : e.type = "repeated_failure") => q >= RepeatThreshold
      /\ (\E e \in signals' : e.type = "cost_spike") => s > SpikeFactor
  <2> HIDE DEF p, q, r, s
  <2> QED
    BY <1>5, <1>6
<1> QED
  BY <1>7, Cardinalities DEF T!SignalsAreEarned

\* A signal of a mining is earned by what the file holds.
LEMMA Earned ==
    ASSUME NEW lines \in Seq(Traces \cup {T!Garbage}), NEW rec \in SUBSET Traces, NEW c \in Nat,
           \A i \in 1..Len(lines) : lines[i] \in rec \cup {T!Garbage},
           \A t \in Traces : Cardinality(Places(lines, {t})) <= 1 + c
    PROVE  /\ T!Mine(lines) \subseteq T!Signals
           /\ (\E e \in T!Mine(lines) : e.type = "repeated_failure")
                 => (1 + c) * Cardinality(Failures \cap rec) >= RepeatThreshold
           /\ (\E e \in T!Mine(lines) : e.type = "cost_spike")
                 => (1 + c) * Cardinality(rec) > SpikeFactor
<1>1. T!Mine(lines) \subseteq T!Signals
  <2>1. T!RepeatedFailures(lines) \subseteq T!Signals
    BY DEF T!RepeatedFailures, T!Signal, T!Signals
  <2>2. T!HighLatency(lines) \subseteq T!Signals
    BY DEF T!HighLatency, T!Signal, T!Signals
  <2>3. T!CostSpikes(lines) \subseteq T!Signals
    BY DEF T!CostSpikes, T!Signal, T!Signals
  <2>4. T!LowSuccessRate(lines) \subseteq T!Signals
    BY DEF T!LowSuccessRate, T!Signal, T!Signals
  <2> QED
    BY <2>1, <2>2, <2>3, <2>4 DEF T!Mine
<1>2. DOMAIN lines = 1..Len(lines) /\ 1 + c \in Nat
  OBVIOUS
<1>3. ASSUME NEW us \in SUBSET rec
      PROVE  /\ Cardinality(us) \in Nat
             /\ Cardinality(Places(lines, us)) <= (1 + c) * Cardinality(us)
  <2>1. IsFiniteSet(us) /\ \A t \in us : t \in Traces
    BY TraceConstants, FS_Subset
  <2>2. \A t \in us : Cardinality(Places(lines, {t})) <= 1 + c
    BY <2>1
  <2> QED
    BY <1>2, <2>1, <2>2, Counted
<1>4. Places(lines, Failures) = Places(lines, Failures \cap rec)
  BY <1>2, TraceConstants DEF Places
<1>5. T!Loaded(lines) = Places(lines, rec)
  BY <1>2, TraceConstants DEF Places, T!Loaded
<1>6. ASSUME NEW e \in T!Mine(lines), e.type = "repeated_failure"
      PROVE  (1 + c) * Cardinality(Failures \cap rec) >= RepeatThreshold
  <2>1. T!Count(lines, Failures) >= RepeatThreshold
    BY <1>6 DEF T!Mine, T!RepeatedFailures, T!HighLatency, T!CostSpikes, T!LowSuccessRate, T!Signal
  <2>2. /\ Cardinality(Failures \cap rec) \in Nat
        /\ Cardinality(Places(lines, Failures)) <= (1 + c) * Cardinality(Failures \cap rec)
    BY <1>3, <1>4
  <2>3. /\ T!Count(lines, Failures) = Cardinality(Places(lines, Failures))
        /\ Cardinality(Places(lines, Failures)) \in Nat
    BY PlacesFinite
  <2> DEFINE p == (1 + c) * Cardinality(Failures \cap rec)
  <2>4. p \in Nat /\ Cardinality(Places(lines, Failures)) <= p
    BY <1>2, <2>2
  <2> HIDE DEF p
  <2>5. p >= RepeatThreshold
    BY <2>1, <2>3, <2>4, TraceConstants
  <2> QED
    BY <2>5 DEF p
<1>7. ASSUME NEW e \in T!Mine(lines), e.type = "cost_spike"
      PROVE  (1 + c) * Cardinality(rec) > SpikeFactor
  <2>1. \E i \in T!Loaded(lines) : Cost[lines[i]] * T!Runs(lines) > SpikeFactor * T!Total(lines)
    BY <1>7 DEF T!Mine, T!RepeatedFailures, T!HighLatency, T!CostSpikes, T!LowSuccessRate, T!Signal
  <2>2. PICK i \in T!Loaded(lines) : Cost[lines[i]] * T!Runs(lines) > SpikeFactor * T!Total(lines)
    BY <2>1
  <2> DEFINE x == Cost[lines[i]]
             n == T!Runs(lines)
             all == T!Total(lines)
  <2>3. x \in Nat /\ all \in Nat /\ x <= all
    BY TotalCovers, TraceConstants
  <2>4. n = Cardinality(Places(lines, rec)) /\ n \in Nat
    BY <1>5, PlacesFinite, Cardinalities DEF T!Runs
  <2>5. x * n > SpikeFactor * all
    BY <2>2
  <2> HIDE DEF x, n, all
  <2>6. ASSUME n <= SpikeFactor PROVE FALSE
    <3>1. n * x <= SpikeFactor * x /\ x * SpikeFactor <= all * SpikeFactor
      BY <2>3, <2>4, <2>6, TraceConstants, Product
    <3>2. x * n = n * x /\ x * SpikeFactor = SpikeFactor * x /\ all * SpikeFactor = SpikeFactor * all
      BY <2>3, <2>4, TraceConstants
    <3> DEFINE p == n * x
               q == SpikeFactor * x
               r == SpikeFactor * all
    <3>3. p \in Nat /\ q \in Nat /\ r \in Nat /\ p > r /\ p <= q /\ q <= r
      BY <2>3, <2>4, <2>5, <3>1, <3>2, TraceConstants
    <3> HIDE DEF p, q, r
    <3> QED
      BY <3>3
  <2>7. Cardinality(rec) \in Nat /\ n <= (1 + c) * Cardinality(rec)
    BY <1>3, <2>4
  <2> DEFINE p == (1 + c) * Cardinality(rec)
  <2>8. p \in Nat /\ n <= p /\ n > SpikeFactor
    BY <1>2, <2>4, <2>6, <2>7, TraceConstants
  <2> HIDE DEF p
  <2>9. p > SpikeFactor
    BY <2>4, <2>8, TraceConstants
  <2> QED
    BY <2>9 DEF p
<1> QED
  BY <1>1, <1>6, <1>7

LEMMA RecordKeeps ==
    ASSUME FileInv, NEW t \in Traces, T!Record(t)
    PROVE  FileInv' /\ Cardinality(recorded') = Cardinality(recorded) + 1
<1>1. /\ t \notin recorded /\ recorded' = recorded \cup {t} /\ buffer' = Append(buffer, t)
      /\ file' = file /\ cut' = cut /\ faults' = faults /\ torn' = torn
  BY DEF T!Record
<1>2. /\ buffer \in Seq(Traces) /\ file \in Seq(Traces \cup {T!Garbage})
      /\ \A i, j \in 1..Len(buffer) : buffer[i] = buffer[j] => i = j
      /\ \A i \in 1..Len(buffer) : buffer[i] \in recorded
      /\ \A i \in 1..Len(file) : file[i] \in recorded \cup {T!Garbage}
      /\ Cardinality(Lost) + (IF cut THEN 1 ELSE 0) <= torn
      /\ \A s \in Traces : Cardinality(Places(file, {s})) <= 1 + faults
      /\ \A i \in 1..Len(buffer) : Cardinality(Places(file, {buffer[i]})) <= faults
      /\ recorded \in SUBSET Traces /\ faults \in Nat
  BY TraceConstants DEF FileInv
<1> DEFINE n == Len(buffer)
<1>3. /\ buffer' \in Seq(Traces) /\ n \in Nat /\ Len(buffer') = n + 1
      /\ DOMAIN buffer = 1..n /\ DOMAIN buffer' = 1..(n + 1)
      /\ \A i \in 1..n : buffer'[i] = buffer[i]
      /\ buffer'[n + 1] = t
  BY <1>1, <1>2, Appends
<1> HIDE DEF n
<1>4. \A i \in 1..(n + 1) : i \in 1..n \/ i = n + 1
  BY <1>3
<1>5. \A i, j \in 1..(n + 1) : buffer'[i] = buffer'[j] => i = j
  BY <1>1, <1>2, <1>3, <1>4 DEF n
<1>6. \A i \in 1..(n + 1) : buffer'[i] \in recorded'
  BY <1>1, <1>2, <1>3, <1>4 DEF n
<1>7. Places(file, {t}) = {}
  <2>1. DOMAIN file = 1..Len(file)
    BY <1>2
  <2> QED
    BY <1>1, <1>2, <2>1, TraceConstants DEF Places
<1>8. ASSUME NEW i \in 1..(n + 1) PROVE Cardinality(Places(file, {buffer'[i]})) <= faults
  <2>1. CASE i \in 1..n
    BY <1>2, <1>3, <2>1 DEF n
  <2>2. CASE i = n + 1
    <3>1. buffer'[i] = t
      BY <1>3, <2>2
    <3>2. Cardinality(Places(file, {t})) = 0
      BY <1>7, FS_EmptySet
    <3>3. faults \in Nat /\ 0 <= faults
      BY <1>2
    <3> QED
      BY <3>1, <3>2, <3>3
  <2> QED
    BY <1>4, <2>1, <2>2
<1>9. Lost' = Lost
  <2>1. \A s : (\E i \in DOMAIN buffer' : buffer'[i] = s) <=> (\E i \in DOMAIN buffer : buffer[i] = s) \/ s = t
    <3>1. n + 1 \in 1..(n + 1) /\ \A i \in 1..n : i \in 1..(n + 1)
      BY <1>3
    <3> QED
      BY <1>3, <1>4, <3>1
  <2>2. T!OnFile' = T!OnFile
    BY <1>1 DEF T!OnFile
  <2>3. t \notin T!OnFile
    BY <1>7 DEF T!OnFile, Places
  <2> QED
    BY <1>1, <2>1, <2>2, <2>3 DEF Lost
<1>10. IsFiniteSet(recorded)
  BY <1>2, TraceConstants, FS_Subset
<1>11. Cardinality(recorded') = Cardinality(recorded) + 1
  BY <1>1, <1>10, FS_AddElement
<1>12. Cardinality(Lost') + (IF cut' THEN 1 ELSE 0) <= torn'
  BY <1>1, <1>2, <1>9
<1>13. cut' \in BOOLEAN
  BY <1>1 DEF FileInv
<1>14. recorded' \in SUBSET Traces /\ faults' \in 0..MaxFaults /\ torn' \in 0..faults'
  BY <1>1 DEF FileInv
<1>15. \A i \in 1..Len(file') : file'[i] \in recorded' \cup {T!Garbage}
  BY <1>1, <1>2
<1>16. FileInv'
  BY ZenonT(90), <1>1, <1>2, <1>3, <1>5, <1>6, <1>8, <1>12, <1>13, <1>14, <1>15 DEF FileInv
<1> QED
  BY <1>1, <1>11, <1>16

\* A flush appends to the file, whether it fails or not.
LEMMA FileGrows ==
    ASSUME FileInv, T!Flush \/ T!FlushFails
    PROVE  Len(file) \in Nat /\ Len(file') \in Nat /\ Len(file) <= Len(file')
<1>1. buffer \in Seq(Traces) /\ Len(buffer) \in Nat
  BY DEF FileInv
<1>2. \E k \in 0..Len(buffer) : file' = T!Appended(SubSeq(buffer, 1, k))
  <2>1. CASE T!Flush
    <3>1. SubSeq(buffer, 1, Len(buffer)) = buffer
      BY <1>1
    <3>2. file' = T!Appended(SubSeq(buffer, 1, Len(buffer)))
      BY <2>1, <3>1 DEF T!Flush
    <3>3. Len(buffer) \in 0..Len(buffer)
      BY <1>1
    <3> QED
      BY <3>2, <3>3
  <2>2. CASE T!FlushFails
    BY <1>1, <2>2 DEF T!FlushFails
  <2> QED
    BY <2>1, <2>2
<1>3. PICK k \in 0..Len(buffer) : file' = T!Appended(SubSeq(buffer, 1, k))
  BY <1>2
<1>4. Len(file') = Len(file) + k /\ Len(file) \in Nat
  BY <1>3, Written
<1> QED
  BY <1>1, <1>4

LEMMA MiningStays ==
    ASSUME FileInv, FileInv', MiningInv, UNCHANGED <<signals, counting, counts, mark, recorded>>,
           T!Flush \/ T!FlushFails, faults <= faults'
    PROVE  MiningInv'
<1>1. T!SignalsAreEarned'
  BY EarnedStays DEF MiningInv
<1>2. mark' \in T!NoMining..Len(file')
  BY FileGrows DEF MiningInv, CallsInv, T!NoMining
<1> QED
  BY <1>1, <1>2 DEF MiningInv, CallsInv

\* A mining of the first n lines finds what they earned.
LEMMA PrefixEarned ==
    ASSUME FileInv, NEW n \in 0..Len(file)
    PROVE  /\ T!Mine(SubSeq(file, 1, n)) \subseteq T!Signals
           /\ (\E e \in T!Mine(SubSeq(file, 1, n)) : e.type = "repeated_failure")
                 => (1 + faults) * Cardinality(Failures \cap recorded) >= RepeatThreshold
           /\ (\E e \in T!Mine(SubSeq(file, 1, n)) : e.type = "cost_spike")
                 => (1 + faults) * Cardinality(recorded) > SpikeFactor
<1> DEFINE V == Traces \cup {T!Garbage}
           lines == SubSeq(file, 1, n)
<1>1. /\ file \in Seq(V) /\ n \in Nat /\ Len(file) \in Nat /\ n <= Len(file)
      /\ recorded \in SUBSET Traces /\ faults \in Nat
      /\ \A i \in 1..Len(file) : file[i] \in recorded \cup {T!Garbage}
      /\ \A t \in Traces : Cardinality(Places(file, {t})) <= 1 + faults
  BY TraceConstants DEF FileInv
<1>2. lines \in Seq(V) /\ Len(lines) = n /\ \A i \in 1..n : lines[i] = file[i]
  BY <1>1
<1>3. \A i \in 1..n : i \in 1..Len(file)
  BY <1>1
<1>4. \A i \in 1..Len(lines) : lines[i] \in recorded \cup {T!Garbage}
  BY <1>1, <1>2, <1>3
<1>5. ASSUME NEW t \in Traces PROVE Cardinality(Places(lines, {t})) <= 1 + faults
  <2>1. DOMAIN lines = 1..n /\ DOMAIN file = 1..Len(file)
    BY <1>1, <1>2
  <2> HIDE DEF lines, V
  <2>2. Places(lines, {t}) \subseteq Places(file, {t})
    BY <1>2, <1>3, <2>1 DEF Places
  <2>3. /\ IsFiniteSet(Places(file, {t})) /\ Cardinality(Places(file, {t})) \in Nat
        /\ Cardinality(Places(lines, {t})) \in Nat
    BY <1>1, <1>2, PlacesFinite
  <2>4. Cardinality(Places(lines, {t})) <= Cardinality(Places(file, {t}))
    BY <2>2, <2>3, FS_Subset
  <2>5. Cardinality(Places(file, {t})) <= 1 + faults
    BY <1>1
  <2> QED
    BY <1>1, <2>3, <2>4, <2>5
<1> HIDE DEF lines, V
<1>6. lines \in Seq(Traces \cup {T!Garbage})
  BY <1>2 DEF V
<1>7. /\ T!Mine(lines) \subseteq T!Signals
      /\ (\E e \in T!Mine(lines) : e.type = "repeated_failure")
            => (1 + faults) * Cardinality(Failures \cap recorded) >= RepeatThreshold
      /\ (\E e \in T!Mine(lines) : e.type = "cost_spike")
            => (1 + faults) * Cardinality(recorded) > SpikeFactor
  BY <1>1, <1>4, <1>5, <1>6, Earned
<1> QED
  BY <1>7 DEF lines

LEMMA FaultsGrow == ASSUME FileInv, T!Flush \/ T!FlushFails PROVE faults <= faults'
<1>1. faults \in Nat
  BY TraceConstants DEF FileInv
<1>2. faults' = faults \/ faults' = faults + 1
  BY DEF T!Flush, T!FlushFails
<1> QED
  BY <1>1, <1>2

LEMMA TraceNext == TraceInv /\ T!Next => TraceInv'
<1> SUFFICES ASSUME TraceInv, T!Next PROVE TraceInv'
  OBVIOUS
<1> USE DEF TraceInv
<1>1. ASSUME NEW t \in Traces, T!Record(t) PROVE TraceInv'
  <2>1. FileInv' /\ Cardinality(recorded') = Cardinality(recorded) + 1
    BY <1>1, RecordKeeps
  <2>2. T!SignalsAreEarned'
    <3>1. /\ UNCHANGED signals /\ recorded \subseteq recorded' /\ faults <= faults'
      <4>1. faults' = faults /\ faults \in Nat
        BY <1>1, TraceConstants DEF T!Record, FileInv
      <4> QED
        BY <1>1, <4>1 DEF T!Record
    <3> QED
      BY <2>1, <3>1, EarnedStays DEF MiningInv
  <2>3. /\ UNCHANGED <<file, counts, mark, signals, running, closed, loops, starts, stop>>
        /\ counting = FALSE /\ counting' = TRUE /\ recorded' # {}
    BY <1>1 DEF T!Record, T!cycle, MiningInv, CallsInv
  <2>4. Cardinality(recorded) \in Nat
    BY TraceConstants, FS_Subset, FS_CardinalityType DEF FileInv
  <2>5. CallsInv'
    BY <2>1, <2>3, <2>4 DEF CallsInv, MiningInv
  <2> QED
    BY <2>1, <2>2, <2>3, <2>5 DEF MiningInv, LoopInv
<1>2. CASE T!MineSignals
  <2>1. UNCHANGED <<counting, counts, signals, recorded, running, closed, loops, starts, stop>>
        /\ mark = T!NoMining
    BY <1>2 DEF T!MineSignals, T!cycle
  <2>2. CASE T!Flush /\ mark' = Len(file')
    <3>1. FileInv' /\ T!SignalsAreEarned'
      <4>1. FileInv' /\ faults <= faults'
        BY <2>1, <2>2, FlushKeeps, FaultsGrow
      <4> QED
        BY <2>1, <4>1, EarnedStays DEF MiningInv
    <3>2. mark' \in T!NoMining..Len(file')
      BY <2>2, FileGrows DEF T!NoMining
    <3>3. MiningInv'
      BY <2>1, <3>1, <3>2 DEF MiningInv, CallsInv
    <3> QED
      BY <2>1, <3>1, <3>3 DEF LoopInv
  <2>3. CASE T!FlushFails /\ UNCHANGED mark
    <3>1. FileInv'
      BY <2>1, <2>3, FlushFailsKeeps
    <3>2. MiningInv'
      BY <2>1, <2>3, <3>1, FaultsGrow, MiningStays
    <3> QED
      BY <2>1, <3>1, <3>2 DEF LoopInv
  <2> QED
    BY <1>2, <2>2, <2>3 DEF T!MineSignals
<1>11. CASE T!Counted
  <2>1. /\ counting = TRUE /\ counting' = FALSE /\ counts' = counts + 1
        /\ UNCHANGED <<buffer, file, cut, mark, signals, faults, torn, recorded>>
        /\ UNCHANGED <<running, closed, loops, starts, stop>>
    BY <1>11 DEF T!Counted, T!cycle, MiningInv, CallsInv
  <2>2. FileInv' /\ T!SignalsAreEarned'
    BY <2>1 DEF FileInv, MiningInv, Lost, T!OnFile, T!SignalsAreEarned
  <2>3. Cardinality(recorded) \in Nat
    BY TraceConstants, FS_Subset, FS_CardinalityType DEF FileInv
  <2>4. counts = Cardinality(recorded) - 1
    BY <2>1 DEF CallsInv, MiningInv
  <2>5. counts' = Cardinality(recorded) - (IF FALSE THEN 1 ELSE 0)
    BY <2>1, <2>3, <2>4
  <2>6. mark' \in T!NoMining..Len(file')
    BY <2>1 DEF CallsInv, MiningInv
  <2>7. CallsInv'
    BY <2>1, <2>5, <2>6 DEF CallsInv
  <2> QED
    BY <2>1, <2>2, <2>7 DEF MiningInv, LoopInv
<1>12. CASE T!LoadTraces
  <2>1. /\ mark # T!NoMining /\ mark' = T!NoMining
        /\ \E n \in mark..Len(file) : signals' = T!Mine(SubSeq(file, 1, n))
        /\ UNCHANGED <<buffer, file, cut, counting, counts, faults, torn, recorded>>
        /\ UNCHANGED <<running, closed, loops, starts, stop>>
    BY <1>12 DEF T!LoadTraces, T!cycle
  <2>2. Len(file) \in Nat /\ mark \in T!NoMining..Len(file)
    BY DEF FileInv, MiningInv, CallsInv
  <2>3. PICK n \in 0..Len(file) : signals' = T!Mine(SubSeq(file, 1, n))
    <3>1. mark \in Nat
      BY <2>1, <2>2 DEF T!NoMining
    <3> QED
      BY <2>1, <2>2, <3>1
  <2>4. /\ T!Mine(SubSeq(file, 1, n)) \subseteq T!Signals
        /\ (\E e \in T!Mine(SubSeq(file, 1, n)) : e.type = "repeated_failure")
              => (1 + faults) * Cardinality(Failures \cap recorded) >= RepeatThreshold
        /\ (\E e \in T!Mine(SubSeq(file, 1, n)) : e.type = "cost_spike")
              => (1 + faults) * Cardinality(recorded) > SpikeFactor
    BY PrefixEarned
  <2>5. signals' \subseteq T!Signals /\ T!SignalsAreEarned'
    BY <2>1, <2>3, <2>4, Cardinalities DEF T!SignalsAreEarned
  <2>6. CallsInv'
    BY <2>1, <2>2 DEF CallsInv, MiningInv, T!NoMining
  <2>7. FileInv'
    BY <2>1 DEF FileInv, Lost, T!OnFile
  <2> QED
    BY <2>1, <2>5, <2>6, <2>7 DEF MiningInv, LoopInv
<1>3. ASSUME T!Flush \/ T!FlushFails, UNCHANGED <<counting, counts, mark, signals, recorded>>
      PROVE  FileInv' /\ MiningInv'
  <2>1. FileInv'
    BY <1>3, FlushKeeps, FlushFailsKeeps
  <2> QED
    BY <1>3, <2>1, FaultsGrow, MiningStays
<1>4. CASE T!Tick
  <2>1. UNCHANGED <<counting, counts, mark, signals, recorded, running, closed, loops, starts, stop>>
        /\ (T!Flush \/ T!FlushFails)
    BY <1>4 DEF T!Tick, T!cycle, T!underway
  <2>2. FileInv' /\ MiningInv'
    BY <1>3, <2>1
  <2> QED
    BY <2>1, <2>2 DEF LoopInv
<1>5. CASE T!StopFlushes
  <2>1. /\ UNCHANGED <<counting, counts, mark, signals, recorded, running, closed, loops, starts>>
        /\ stop' = "idle" /\ (T!Flush \/ T!FlushFails)
    BY <1>5 DEF T!StopFlushes, T!underway
  <2>2. FileInv' /\ MiningInv'
    BY <1>3, <2>1
  <2> QED
    BY <2>1, <2>2 DEF LoopInv
<1>6. ASSUME UNCHANGED <<buffer, file, cut, counting, counts, mark, signals, faults, torn, recorded>>
      PROVE  FileInv' /\ MiningInv'
  BY <1>6 DEF FileInv, MiningInv, CallsInv, Lost, T!OnFile, T!SignalsAreEarned
<1>7. MaxStarts \in Nat
  BY TraceConstants
<1>8. CASE T!Start
  <2>1. LoopInv'
    BY <1>7, <1>8 DEF T!Start, LoopInv
  <2> QED
    BY <1>6, <1>8, <2>1 DEF T!Start, T!files, T!underway
<1>9. CASE T!Stop
  <2>1. LoopInv'
    BY <1>7, <1>9 DEF T!Stop, LoopInv
  <2> QED
    BY <1>6, <1>9, <2>1 DEF T!Stop, T!files, T!underway
<1>10. CASE T!LoopEnds
  <2>1. LoopInv'
    BY <1>7, <1>10 DEF T!LoopEnds, LoopInv
  <2> QED
    BY <1>6, <1>10, <2>1 DEF T!LoopEnds, T!files, T!underway
<1> QED
  BY <1>1, <1>2, <1>4, <1>5, <1>8, <1>9, <1>10, <1>11, <1>12 DEF T!Next, T!Progress

LEMMA TraceRests == TraceInv /\ UNCHANGED traceVars => TraceInv'
<1> SUFFICES ASSUME TraceInv, UNCHANGED traceVars PROVE TraceInv'
  OBVIOUS
<1>1. /\ UNCHANGED <<buffer, file, cut, counting, counts, mark, signals, faults, torn, recorded>>
      /\ UNCHANGED <<running, closed, loops, starts, stop>>
  BY DEF traceVars
<1>2. FileInv' /\ MiningInv'
  BY <1>1 DEF TraceInv, FileInv, MiningInv, CallsInv, Lost, T!OnFile, T!SignalsAreEarned
<1>3. LoopInv'
  BY <1>1 DEF TraceInv, LoopInv
<1> QED
  BY <1>2, <1>3 DEF TraceInv

(***************************************************************************)
(* The evolution cycle.                                                    *)
(***************************************************************************)
\* The sum of w over the runners.
Summed(w) == (CHOOSE it : Sums(Runners, w, it))[Runners]

Applied   == [r \in Runners |-> run[r].applied]
Allowed   == [r \in Runners |-> IF run[r].pc = "idle" THEN 0 ELSE Limit]
Signalled == [r \in Runners |-> Len(run[r].signals)]

Mutation == [risk : I!Risk, status : I!Status, approved : SUBSET I!Approver]
Cycles   == [pc      : {"idle", "mine", "evolve", "loop", "evaluate", "approve"},
             signals : Seq(I!Severity), todo : Seq(Nat), applied : 0..Limit]

IronTypes ==
    /\ setup \in I!Configs /\ stats \in [I!Sums -> Nat]
    /\ muts \in Seq(Mutation) /\ run \in [Runners -> Cycles]

\* Signals wait for Evolve alone; a mutation on trial is the next one, within
\* the limit, and not one that safety blocks.
Phases ==
    \A r \in Runners :
       /\ run[r].pc # "evolve" => run[r].signals = <<>>
       /\ run[r].pc \in {"idle", "mine", "evolve"} => run[r].applied = 0
       /\ run[r].pc \in {"evaluate", "approve"} =>
             /\ run[r].todo # <<>> /\ run[r].applied < Limit
             /\ setup.safety => muts[run[r].todo[1]].risk # "high"

\* A mutation still to do is one runner's, once, and not approved by it yet.
Owned ==
    /\ \A r \in Runners : \A i \in 1..Len(run[r].todo) :
          /\ run[r].todo[i] \in 1..Len(muts)
          /\ "iron-evolver" \notin muts[run[r].todo[i]].approved
    /\ \A r, q \in Runners : \A i \in 1..Len(run[r].todo), j \in 1..Len(run[q].todo) :
          run[r].todo[i] = run[q].todo[j] => r = q /\ i = j

Sound ==
    /\ stats["applied"] + Summed(Applied) = Cardinality(I!ByEvolver)
    /\ stats["applied"] + Summed(Allowed) <= Limit * stats["cycles"]
    /\ Len(muts) = stats["created"]
    /\ stats["created"] + Summed(Signalled) <= stats["found"]
    /\ I!HighRiskIsBlocked

IronInv == IronTypes /\ Phases /\ Owned /\ Sound

LEMMA IronConstants ==
    /\ IsFiniteSet(Runners) /\ Limit \in Nat /\ Limit > 0 /\ Setups \subseteq I!Configs
    /\ MaxMutationsPerRun \in Nat /\ MaxSignals \in Nat /\ MaxCycles \in Nat
BY EvolutionAssumption, Cardinalities DEF EvolutionAssumption, I!IronAssumption

LEMMA SummedIs ==
    ASSUME NEW w \in [Runners -> Nat], NEW it, Sums(Runners, w, it)
    PROVE  Summed(w) = it[Runners] /\ Summed(w) \in Nat
<1> DEFINE jt == CHOOSE kt : Sums(Runners, w, kt)
<1>1. Sums(Runners, w, jt)
  <2>1. \E kt : Sums(Runners, w, kt)
    OBVIOUS
  <2> QED
    BY <2>1
<1>2. Summed(w) = jt[Runners]
  BY DEF Summed
<1> HIDE DEF jt
<1>3. \A x \in Runners : w[x] <= w[x]
  <2>1. \A n \in Nat : n <= n
    OBVIOUS
  <2> QED
    BY <2>1
<1>4. \A s \in SUBSET Runners : it[s] \in Nat /\ jt[s] \in Nat /\ it[s] <= jt[s]
  BY <1>1, <1>3, IronConstants, SumsGrow
<1>5. \A s \in SUBSET Runners : jt[s] \in Nat /\ it[s] \in Nat /\ jt[s] <= it[s]
  BY <1>1, <1>3, IronConstants, SumsGrow
<1>6. it[Runners] \in Nat /\ jt[Runners] \in Nat /\ it[Runners] <= jt[Runners]
      /\ jt[Runners] <= it[Runners]
  BY <1>4, <1>5
<1> QED
  BY <1>2, <1>6

LEMMA SummedMoves ==
    ASSUME NEW v \in [Runners -> Nat], NEW w \in [Runners -> Nat], NEW d \in Runners,
           \A x \in Runners : x # d => v[x] = w[x]
    PROVE  Summed(v) \in Nat /\ Summed(w) \in Nat /\ Summed(v) + w[d] = Summed(w) + v[d]
<1>1. PICK it : Sums(Runners, v, it)
  BY IronConstants, SumsExist
<1>2. PICK jt : Sums(Runners, w, jt)
  BY IronConstants, SumsExist
<1>3. it[Runners] \in Nat /\ jt[Runners] \in Nat /\ it[Runners] + w[d] = jt[Runners] + v[d]
  BY <1>1, <1>2, IronConstants, SumsMove
<1>4. Summed(v) = it[Runners] /\ Summed(w) = jt[Runners]
  BY <1>1, <1>2, SummedIs
<1> QED
  BY <1>3, <1>4

LEMMA SummedGrows ==
    ASSUME NEW v \in [Runners -> Nat], NEW w \in [Runners -> Nat],
           \A x \in Runners : v[x] <= w[x]
    PROVE  Summed(v) \in Nat /\ Summed(w) \in Nat /\ Summed(v) <= Summed(w)
<1>1. PICK it : Sums(Runners, v, it)
  BY IronConstants, SumsExist
<1>2. PICK jt : Sums(Runners, w, jt)
  BY IronConstants, SumsExist
<1>3. it[Runners] \in Nat /\ jt[Runners] \in Nat /\ it[Runners] <= jt[Runners]
  BY <1>1, <1>2, IronConstants, SumsGrow
<1>4. Summed(v) = it[Runners] /\ Summed(w) = jt[Runners]
  BY <1>1, <1>2, SummedIs
<1> QED
  BY <1>3, <1>4

LEMMA SummedZero ==
    ASSUME NEW w \in [Runners -> Nat], \A x \in Runners : w[x] = 0 PROVE Summed(w) = 0
<1> DEFINE it == [s \in SUBSET Runners |-> 0]
<1>1. \A s \in SUBSET Runners : s # {} => it[s \ {First(s)}] + w[First(s)] = 0
  <2>1. \A s \in SUBSET Runners : s # {} => First(s) \in Runners /\ s \ {First(s)} \in SUBSET Runners
    BY IronConstants, FirstTaken
  <2> QED
    BY <2>1
<1>2. Sums(Runners, w, it)
  <2>1. \A s \in SUBSET Runners :
           0 = IF s = {} THEN 0 ELSE it[s \ {First(s)}] + w[First(s)]
    BY <1>1
  <2> QED
    BY <2>1 DEF Sums
<1>3. it[Runners] = 0
  OBVIOUS
<1> HIDE DEF it
<1> QED
  BY <1>2, <1>3, SummedIs

LEMMA WeightTypes ==
    ASSUME run \in [Runners -> Cycles]
    PROVE  /\ Applied \in [Runners -> Nat] /\ Allowed \in [Runners -> Nat]
           /\ Signalled \in [Runners -> Nat]
           /\ Summed(Applied) \in Nat /\ Summed(Allowed) \in Nat /\ Summed(Signalled) \in Nat
<1>1. \A r \in Runners : run[r].applied \in Nat /\ Len(run[r].signals) \in Nat
  BY IronConstants DEF Cycles
<1>2. Applied \in [Runners -> Nat] /\ Allowed \in [Runners -> Nat] /\ Signalled \in [Runners -> Nat]
  BY <1>1, IronConstants DEF Applied, Allowed, Signalled
<1>3. \A w \in [Runners -> Nat] : Summed(w) \in Nat
  BY SumsExist, SummedIs, IronConstants
<1> QED
  BY <1>2, <1>3

\* AppliedNow adds up what the runners applied.
LEMMA AppliedAdds == run \in [Runners -> Cycles] => I!AppliedNow = Summed(Applied)
<1> SUFFICES ASSUME run \in [Runners -> Cycles] PROVE I!AppliedNow = Summed(Applied)
  OBVIOUS
<1> DEFINE it == CHOOSE sums : sums = [s \in SUBSET Runners |->
                     IF s = {} THEN 0
                     ELSE sums[s \ {CHOOSE x \in s : TRUE}] + run[CHOOSE x \in s : TRUE].applied]
<1>1. I!AppliedNow = it[Runners]
  BY DEF I!AppliedNow, I!FoldSet, I!MapThenFoldSet
<1>2. PICK jt : Sums(Runners, Applied, jt)
  BY WeightTypes, SumsExist, IronConstants
<1>3. \A s \in SUBSET Runners : s # {} => Applied[First(s)] = run[CHOOSE x \in s : TRUE].applied
  BY DEF First, Applied
<1>4. jt = [s \in SUBSET Runners |->
                     IF s = {} THEN 0
                     ELSE jt[s \ {CHOOSE x \in s : TRUE}] + run[CHOOSE x \in s : TRUE].applied]
  BY <1>2, <1>3 DEF Sums, First
<1>5. it = [s \in SUBSET Runners |->
                     IF s = {} THEN 0
                     ELSE it[s \ {CHOOSE x \in s : TRUE}] + run[CHOOSE x \in s : TRUE].applied]
  BY ZenonT(90), <1>4
<1> HIDE DEF it
<1>6. \A s \in SUBSET Runners :
         (IF s = {} THEN 0 ELSE it[s \ {First(s)}] + Applied[First(s)])
           = (IF s = {} THEN 0
              ELSE it[s \ {CHOOSE x \in s : TRUE}] + run[CHOOSE x \in s : TRUE].applied)
  BY <1>3 DEF First
<1>7. Sums(Runners, Applied, it)
  BY ZenonT(90), <1>5, <1>6 DEF Sums
<1> QED
  BY <1>1, <1>7, WeightTypes, SummedIs

\* The weights of a runner that moved.
LEMMA WeightsMove ==
    ASSUME run \in [Runners -> Cycles], run' \in [Runners -> Cycles], NEW r \in Runners,
           \A q \in Runners : q # r => run'[q] = run[q]
    PROVE  /\ Summed(Applied)' + run[r].applied = Summed(Applied) + run'[r].applied
           /\ Summed(Allowed)' + (IF run[r].pc = "idle" THEN 0 ELSE Limit)
                = Summed(Allowed) + (IF run'[r].pc = "idle" THEN 0 ELSE Limit)
           /\ Summed(Signalled)' + Len(run[r].signals) = Summed(Signalled) + Len(run'[r].signals)
           /\ Summed(Applied)' \in Nat /\ Summed(Allowed)' \in Nat /\ Summed(Signalled)' \in Nat
           /\ Summed(Applied) \in Nat /\ Summed(Allowed) \in Nat /\ Summed(Signalled) \in Nat
<1>1. /\ Applied \in [Runners -> Nat] /\ Allowed \in [Runners -> Nat] /\ Signalled \in [Runners -> Nat]
      /\ Summed(Applied) \in Nat /\ Summed(Allowed) \in Nat /\ Summed(Signalled) \in Nat
  BY WeightTypes
<1>2. /\ Applied' \in [Runners -> Nat] /\ Allowed' \in [Runners -> Nat] /\ Signalled' \in [Runners -> Nat]
  <2>1. \A q \in Runners : run'[q].applied \in Nat /\ Len(run'[q].signals) \in Nat
    BY IronConstants DEF Cycles
  <2> QED
    BY <2>1, IronConstants DEF Applied, Allowed, Signalled
<1>3. Summed(Applied)' = Summed(Applied') /\ Summed(Allowed)' = Summed(Allowed')
      /\ Summed(Signalled)' = Summed(Signalled')
  BY DEF Summed
<1>4. \A q \in Runners : q # r => Applied'[q] = Applied[q] /\ Allowed'[q] = Allowed[q]
                                    /\ Signalled'[q] = Signalled[q]
  BY DEF Applied, Allowed, Signalled
<1>5. /\ Summed(Applied') \in Nat /\ Summed(Applied') + Applied[r] = Summed(Applied) + Applied'[r]
      /\ Summed(Allowed') \in Nat /\ Summed(Allowed') + Allowed[r] = Summed(Allowed) + Allowed'[r]
      /\ Summed(Signalled') \in Nat
      /\ Summed(Signalled') + Signalled[r] = Summed(Signalled) + Signalled'[r]
  BY <1>1, <1>2, <1>4, SummedMoves
<1>6. /\ Applied[r] = run[r].applied /\ Applied'[r] = run'[r].applied
      /\ Allowed[r] = (IF run[r].pc = "idle" THEN 0 ELSE Limit)
      /\ Allowed'[r] = (IF run'[r].pc = "idle" THEN 0 ELSE Limit)
      /\ Signalled[r] = Len(run[r].signals) /\ Signalled'[r] = Len(run'[r].signals)
  BY DEF Applied, Allowed, Signalled
<1> QED
  BY <1>1, <1>3, <1>5, <1>6

LEMMA IronHolds == IronInv => I!TypeOK /\ I!StatsAgree /\ I!HighRiskIsBlocked
<1> SUFFICES ASSUME IronInv PROVE I!TypeOK /\ I!StatsAgree /\ I!HighRiskIsBlocked
  OBVIOUS
<1>1. I!TypeOK
  BY DEF IronInv, IronTypes, I!TypeOK, Mutation, Cycles
<1>2. /\ stats["applied"] \in Nat /\ stats["cycles"] \in Nat /\ stats["created"] \in Nat
      /\ stats["found"] \in Nat /\ run \in [Runners -> Cycles]
  BY DEF IronInv, IronTypes, I!Sums
<1>3. \A r \in Runners : Applied[r] <= Allowed[r]
  <2>1. \A r \in Runners : run[r].applied \in Nat /\ run[r].applied <= Limit
    BY <1>2, IronConstants DEF Cycles
  <2>2. \A r \in Runners : run[r].pc = "idle" => run[r].applied = 0
    BY DEF IronInv, Phases
  <2> QED
    BY <2>1, <2>2, IronConstants DEF Applied, Allowed
<1>4. /\ Summed(Applied) \in Nat /\ Summed(Allowed) \in Nat /\ Summed(Applied) <= Summed(Allowed)
      /\ Summed(Signalled) \in Nat
  BY <1>2, <1>3, WeightTypes, SummedGrows
<1>5. I!AppliedNow = Summed(Applied)
  BY <1>2, AppliedAdds
<1>6. /\ stats["applied"] + Summed(Applied) = Cardinality(I!ByEvolver)
      /\ stats["applied"] + Summed(Allowed) <= Limit * stats["cycles"]
      /\ Len(muts) = stats["created"]
      /\ stats["created"] + Summed(Signalled) <= stats["found"]
      /\ I!HighRiskIsBlocked
  BY DEF IronInv, Sound
<1> DEFINE p == Limit * stats["cycles"]
<1>7. p \in Nat
  BY <1>2, IronConstants
<1> HIDE DEF p
<1>8. stats["applied"] + Summed(Allowed) <= p
  BY <1>6 DEF p
<1>9. Cardinality(I!ByEvolver) <= p
  BY <1>2, <1>4, <1>6, <1>7, <1>8
<1>10. stats["created"] <= stats["found"]
  BY <1>2, <1>4, <1>6
<1>11. I!StatsAgree
  BY <1>5, <1>6, <1>9, <1>10, Cardinalities DEF I!StatsAgree, p
<1> QED
  BY <1>1, <1>6, <1>11

LEMMA IronInit == I!Init => IronInv
<1> SUFFICES ASSUME I!Init PROVE IronInv
  OBVIOUS
<1>1. /\ setup \in I!Configs /\ stats = [s \in I!Sums |-> 0] /\ muts = <<>>
      /\ run = [r \in Runners |-> I!Idle]
  BY IronConstants DEF I!Init
<1>2. /\ I!Idle \in Cycles /\ I!Idle.pc = "idle" /\ I!Idle.signals = <<>> /\ I!Idle.todo = <<>>
      /\ I!Idle.applied = 0
  BY IronConstants DEF I!Idle, Cycles
<1>3. \A r \in Runners : run[r] = I!Idle
  BY <1>1
<1>4. muts \in Seq(Mutation) /\ Len(muts) = 0 /\ DOMAIN muts = {}
  BY <1>1
<1>5. IronTypes
  <2>1. stats \in [I!Sums -> Nat]
    BY <1>1
  <2>2. run \in [Runners -> Cycles]
    BY <1>1, <1>2
  <2> QED
    BY <1>1, <1>4, <2>1, <2>2 DEF IronTypes
<1>6. Phases
  BY <1>2, <1>3 DEF Phases
<1>7. Owned
  <2>1. \A r \in Runners : Len(run[r].todo) = 0
    BY <1>2, <1>3
  <2> QED
    BY <2>1 DEF Owned
<1>8. Summed(Applied) = 0 /\ Summed(Allowed) = 0 /\ Summed(Signalled) = 0
  <2>1. /\ Applied \in [Runners -> Nat] /\ Allowed \in [Runners -> Nat] /\ Signalled \in [Runners -> Nat]
    BY <1>5, WeightTypes DEF IronTypes
  <2>2. \A r \in Runners : Applied[r] = 0 /\ Allowed[r] = 0 /\ Signalled[r] = 0
    <3>1. \A r \in Runners : Len(run[r].signals) = 0
      BY <1>2, <1>3
    <3> QED
      BY <1>2, <1>3, <3>1 DEF Applied, Allowed, Signalled
  <2> QED
    BY <2>1, <2>2, SummedZero
<1>9. I!ByEvolver = {} /\ Cardinality(I!ByEvolver) = 0
  BY <1>4, FS_EmptySet DEF I!ByEvolver
<1>10. stats["applied"] = 0 /\ stats["cycles"] = 0 /\ stats["created"] = 0 /\ stats["found"] = 0
  BY <1>1 DEF I!Sums
<1>11. Sound
  BY <1>4, <1>8, <1>9, <1>10, IronConstants DEF Sound, I!HighRiskIsBlocked
<1> QED
  BY <1>5, <1>6, <1>7, <1>11 DEF IronInv

\* Evolve produces at most one mutation per signal, each of them new.
LEMMA Produces ==
    ASSUME NEW s \in Seq(I!Severity), NEW answered \in SUBSET DOMAIN s
    PROVE  /\ I!Produced(s, answered) \in Seq(Mutation)
           /\ Len(I!Produced(s, answered)) \in Nat /\ Len(I!Produced(s, answered)) <= Len(s)
           /\ \A i \in 1..Len(I!Produced(s, answered)) :
                 I!Produced(s, answered)[i].status = "new" /\ I!Produced(s, answered)[i].approved = {}
<1> DEFINE ranked(i) == {j \in answered : j <= i /\ I!ShouldProcess(s[j])}
           picked == {i \in answered : I!ShouldProcess(s[i])
                                         /\ Cardinality(ranked(i)) <= MaxMutationsPerRun}
           nth(k) == CHOOSE i \in picked : Cardinality(ranked(i)) = k
           new(k) == [risk |-> I!EstimateRisk(s[nth(k)]), status |-> "new", approved |-> {}]
           out == [k \in 1..Cardinality(picked) |-> new(k)]
<1>1. DOMAIN s = 1..Len(s) /\ Len(s) \in Nat /\ answered \in SUBSET (1..Len(s))
      /\ (\A i \in answered : i \in Nat)
  OBVIOUS
<1>2. I!Produced(s, answered) = out
  BY DEF I!Produced, I!Cardinality, Cardinality
<1>3. picked \in SUBSET (1..Len(s))
  BY <1>1
<1>4. IsFiniteSet(1..Len(s)) /\ Cardinality(1..Len(s)) = Len(s)
  BY <1>1, FS_Interval
<1>5. \A i : IsFiniteSet(ranked(i)) /\ Cardinality(ranked(i)) \in Nat
  <2> SUFFICES ASSUME NEW i PROVE IsFiniteSet(ranked(i)) /\ Cardinality(ranked(i)) \in Nat
    OBVIOUS
  <2>1. ranked(i) \in SUBSET (1..Len(s))
    BY <1>1
  <2> HIDE DEF ranked
  <2> QED
    BY <1>4, <2>1, FS_Subset, FS_CardinalityType
<1>6. ASSUME NEW i \in picked PROVE {j \in picked : j <= i} = ranked(i)
  <2>1. ASSUME NEW j \in ranked(i) PROVE j \in picked
    <3>1. ranked(j) \subseteq ranked(i)
      <4>1. \A h \in answered : h <= j => h <= i
        BY <1>1
      <4> QED
        BY <4>1
    <3>2. Cardinality(ranked(j)) <= Cardinality(ranked(i))
      <4> HIDE DEF ranked
      <4> QED
        BY <1>5, <3>1, FS_Subset
    <3>3. Cardinality(ranked(i)) <= MaxMutationsPerRun /\ MaxMutationsPerRun \in Nat
      BY IronConstants
    <3>4. Cardinality(ranked(j)) <= MaxMutationsPerRun
      <4> HIDE DEF ranked
      <4> QED
        BY <1>5, <3>2, <3>3
    <3> QED
      BY <3>4
  <2> QED
    BY <2>1
<1>7. /\ IsFiniteSet(picked) /\ Cardinality(picked) \in Nat
      /\ \A k \in 1..Cardinality(picked) : \E i \in picked : Cardinality({j \in picked : j <= i}) = k
  <2> HIDE DEF picked
  <2> QED
    BY <1>1, <1>3, Ranks
<1>8. ASSUME NEW k \in 1..Cardinality(picked) PROVE new(k) \in Mutation
  <2>1. \E i \in picked : Cardinality(ranked(i)) = k
    BY <1>6, <1>7
  <2>2. nth(k) \in picked
    <3> HIDE DEF picked, ranked
    <3> QED
      BY <2>1
  <2>3. s[nth(k)] \in I!Severity
    <3> HIDE DEF nth
    <3> QED
      BY <1>1, <2>2
  <2> HIDE DEF nth
  <2>4. \A v \in I!Severity : I!EstimateRisk(v) \in I!Risk
    BY DEF I!Severity, I!EstimateRisk, I!Risk
  <2>5. "new" \in I!Status
    BY DEF I!Status
  <2> QED
    BY <2>3, <2>4, <2>5 DEF Mutation
<1>9. out \in [1..Cardinality(picked) -> Mutation]
  <2> HIDE DEF new, picked
  <2> QED
    BY <1>8
<1>10. Cardinality(picked) <= Len(s)
  <2> HIDE DEF picked
  <2> QED
    BY ZenonT(90), <1>3, <1>4, FS_Subset
<1>11. \A k \in 1..Cardinality(picked) : out[k].status = "new" /\ out[k].approved = {}
  <2> HIDE DEF picked, nth
  <2> QED
    OBVIOUS
<1> HIDE DEF out, picked
<1>12. out \in Seq(Mutation) /\ Len(out) = Cardinality(picked)
  BY <1>7, <1>9, Sequence
<1> QED
  BY <1>2, <1>7, <1>10, <1>11, <1>12

\* What a step of one runner moves.
LEMMA Stepped ==
    ASSUME IronTypes, NEW r \in Runners, NEW new \in Cycles, run' = [run EXCEPT ![r] = new]
    PROVE  /\ run' \in [Runners -> Cycles] /\ run'[r] = new
           /\ \A q \in Runners : q # r => run'[q] = run[q]
           /\ Summed(Applied)' + run[r].applied = Summed(Applied) + new.applied
           /\ Summed(Allowed)' + (IF run[r].pc = "idle" THEN 0 ELSE Limit)
                = Summed(Allowed) + (IF new.pc = "idle" THEN 0 ELSE Limit)
           /\ Summed(Signalled)' + Len(run[r].signals) = Summed(Signalled) + Len(new.signals)
           /\ Summed(Applied)' \in Nat /\ Summed(Allowed)' \in Nat /\ Summed(Signalled)' \in Nat
           /\ Summed(Applied) \in Nat /\ Summed(Allowed) \in Nat /\ Summed(Signalled) \in Nat
           /\ run[r].applied \in Nat /\ run[r].applied <= Limit
           /\ Len(run[r].signals) \in Nat
<1>1. run \in [Runners -> Cycles]
  BY DEF IronTypes
<1>2. /\ run' \in [Runners -> Cycles] /\ run'[r] = new /\ \A q \in Runners : q # r => run'[q] = run[q]
  BY <1>1
<1>3. run[r].applied \in Nat /\ run[r].applied <= Limit /\ Len(run[r].signals) \in Nat
  BY <1>1, IronConstants DEF Cycles
<1>4. /\ Summed(Applied)' + run[r].applied = Summed(Applied) + run'[r].applied
      /\ Summed(Allowed)' + (IF run[r].pc = "idle" THEN 0 ELSE Limit)
                = Summed(Allowed) + (IF run'[r].pc = "idle" THEN 0 ELSE Limit)
      /\ Summed(Signalled)' + Len(run[r].signals) = Summed(Signalled) + Len(run'[r].signals)
      /\ Summed(Applied)' \in Nat /\ Summed(Allowed)' \in Nat /\ Summed(Signalled)' \in Nat
      /\ Summed(Applied) \in Nat /\ Summed(Allowed) \in Nat /\ Summed(Signalled) \in Nat
  BY <1>1, <1>2, WeightsMove
<1> QED
  BY <1>2, <1>3, <1>4

\* The runner leaves d mutations behind; one that the evolver approves by it
\* is the first of them.
LEMMA OwnedStays ==
    ASSUME IronTypes, Owned, NEW r \in Runners, NEW d \in {0, 1},
           \A q \in Runners : q # r => run'[q] = run[q],
           run'[r].todo \in Seq(Nat),
           \A i \in 1..Len(run'[r].todo) : /\ i + d \in 1..Len(run[r].todo)
                                           /\ run'[r].todo[i] = run[r].todo[i + d],
           Len(muts') = Len(muts),
           \A m \in 1..Len(muts) : "iron-evolver" \in muts'[m].approved =>
              \/ "iron-evolver" \in muts[m].approved
              \/ d = 1 /\ Len(run[r].todo) >= 1 /\ m = run[r].todo[1]
    PROVE  Owned'
<1> DEFINE shift(q) == IF q = r THEN d ELSE 0
<1>1. \A q \in Runners : Len(run[q].todo) \in Nat
  BY DEF IronTypes, Cycles
<1>2. ASSUME NEW q \in Runners, NEW i \in 1..Len(run'[q].todo)
      PROVE  /\ i \in Nat /\ i >= 1 /\ i + shift(q) \in 1..Len(run[q].todo)
             /\ run'[q].todo[i] = run[q].todo[i + shift(q)]
  <2>1. CASE q = r
    <3>1. i \in Nat /\ i >= 1
      <4>1. Len(run'[r].todo) \in Nat
        OBVIOUS
      <4> QED
        BY <2>1, <4>1
    <3> QED
      BY <2>1, <3>1
  <2>2. CASE q # r
    <3>1. i \in 1..Len(run[q].todo) /\ i \in Nat /\ i >= 1 /\ i + 0 = i
      BY <1>1, <2>2
    <3> QED
      BY <2>2, <3>1
  <2> QED
    BY <2>1, <2>2
<1>3. ASSUME NEW q \in Runners, NEW i \in 1..Len(run'[q].todo)
      PROVE  /\ run'[q].todo[i] \in 1..Len(muts')
             /\ "iron-evolver" \notin muts'[run'[q].todo[i]].approved
  <2> DEFINE m == run[q].todo[i + shift(q)]
  <2>1. i + shift(q) \in 1..Len(run[q].todo) /\ run'[q].todo[i] = m /\ i \in Nat /\ i >= 1
    BY <1>2
  <2>2. m \in 1..Len(muts) /\ "iron-evolver" \notin muts[m].approved
    BY <2>1 DEF Owned
  <2>3. ASSUME d = 1, Len(run[r].todo) >= 1, m = run[r].todo[1] PROVE FALSE
    <3>1. 1 \in 1..Len(run[r].todo)
      BY <1>1, <2>3
    <3>2. q = r /\ i + shift(q) = 1
      BY <2>1, <2>3, <3>1 DEF Owned
    <3> QED
      BY <2>1, <2>3, <3>2
  <2> QED
    BY <2>1, <2>2, <2>3
<1>4. ASSUME NEW q \in Runners, NEW p \in Runners, NEW i \in 1..Len(run'[q].todo),
             NEW j \in 1..Len(run'[p].todo), run'[q].todo[i] = run'[p].todo[j]
      PROVE  q = p /\ i = j
  <2>1. /\ i \in Nat /\ i + shift(q) \in 1..Len(run[q].todo)
        /\ run'[q].todo[i] = run[q].todo[i + shift(q)]
    BY <1>2
  <2>2. /\ j \in Nat /\ j + shift(p) \in 1..Len(run[p].todo)
        /\ run'[p].todo[j] = run[p].todo[j + shift(p)]
    BY <1>2
  <2>3. q = p /\ i + shift(q) = j + shift(p)
    <3> HIDE DEF shift
    <3>1. \A x \in 1..Len(run[q].todo), y \in 1..Len(run[p].todo) :
             run[q].todo[x] = run[p].todo[y] => q = p /\ x = y
      BY DEF Owned
    <3>2. run[q].todo[i + shift(q)] = run[p].todo[j + shift(p)]
      BY <1>4, <2>1, <2>2
    <3> QED
      BY <2>1, <2>2, <3>1, <3>2
  <2>4. shift(q) \in Nat /\ shift(p) = shift(q)
    BY <2>3
  <2> HIDE DEF shift
  <2> QED
    BY <2>1, <2>2, <2>3, <2>4
<1> QED
  BY <1>3, <1>4 DEF Owned

LEMMA PhasesStay ==
    ASSUME Phases, Owned, NEW r \in Runners, \A q \in Runners : q # r => run'[q] = run[q],
           setup' = setup, \A m \in 1..Len(muts) : muts'[m].risk = muts[m].risk,
           IronTypes,
           /\ run'[r].pc # "evolve" => run'[r].signals = <<>>
           /\ run'[r].pc \in {"idle", "mine", "evolve"} => run'[r].applied = 0
           /\ run'[r].pc \in {"evaluate", "approve"} =>
                 /\ run'[r].todo # <<>> /\ run'[r].applied < Limit
                 /\ setup'.safety => muts'[run'[r].todo[1]].risk # "high"
    PROVE  Phases'
<1>1. ASSUME NEW q \in Runners, q # r, run'[q].pc \in {"evaluate", "approve"}
      PROVE  /\ run'[q].todo # <<>> /\ run'[q].applied < Limit
             /\ setup'.safety => muts'[run'[q].todo[1]].risk # "high"
  <2>1. /\ run'[q] = run[q] /\ run[q].todo # <<>> /\ run[q].applied < Limit
        /\ setup.safety => muts[run[q].todo[1]].risk # "high"
    BY <1>1 DEF Phases
  <2>2. run[q].todo \in Seq(Nat)
    BY DEF IronTypes, Cycles
  <2>3. 1 \in 1..Len(run[q].todo)
    BY <2>1, <2>2
  <2>4. run[q].todo[1] \in 1..Len(muts)
    BY <2>3 DEF Owned
  <2> QED
    BY <2>1, <2>4
<1>2. ASSUME NEW q \in Runners, q # r
      PROVE  /\ run'[q].pc # "evolve" => run'[q].signals = <<>>
             /\ run'[q].pc \in {"idle", "mine", "evolve"} => run'[q].applied = 0
  BY <1>2 DEF Phases
<1> QED
  BY <1>1, <1>2 DEF Phases

LEMMA Decides ==
    ASSUME IronTypes, NEW m \in 1..Len(muts), NEW st \in I!Status, NEW by \in SUBSET I!Approver,
           muts' = I!Decided(m, st, by)
    PROVE  /\ muts' \in Seq(Mutation) /\ Len(muts') = Len(muts) /\ Len(muts) \in Nat
           /\ DOMAIN muts = 1..Len(muts) /\ DOMAIN muts' = 1..Len(muts)
           /\ \A k \in 1..Len(muts) : muts'[k].risk = muts[k].risk /\ (k # m => muts'[k] = muts[k])
           /\ muts'[m].status = st /\ muts'[m].approved = muts[m].approved \cup by
<1> DEFINE rec == [risk |-> muts[m].risk, status |-> st, approved |-> muts[m].approved \cup by]
<1>1. muts \in Seq(Mutation) /\ muts[m] \in Mutation
  BY DEF IronTypes
<1>2. muts' = [muts EXCEPT ![m] = rec]
  BY DEF I!Decided
<1>3. rec \in Mutation /\ rec.risk = muts[m].risk /\ rec.status = st
      /\ rec.approved = muts[m].approved \cup by
  BY <1>1 DEF Mutation
<1> HIDE DEF rec
<1> QED
  BY <1>1, <1>2, <1>3

\* Who approved is the same but for the evolver and m.
LEMMA EvolverFinite ==
    IronTypes => IsFiniteSet(I!ByEvolver) /\ Cardinality(I!ByEvolver) \in Nat
<1> SUFFICES ASSUME IronTypes PROVE IsFiniteSet(I!ByEvolver) /\ Cardinality(I!ByEvolver) \in Nat
  OBVIOUS
<1>1. DOMAIN muts = 1..Len(muts) /\ Len(muts) \in Nat
  BY DEF IronTypes
<1>2. I!ByEvolver \in SUBSET (1..Len(muts))
  BY <1>1 DEF I!ByEvolver
<1>3. IsFiniteSet(1..Len(muts))
  BY <1>1, FS_Interval
<1> QED
  BY <1>2, <1>3, FS_Subset, FS_CardinalityType

LEMMA StatsAdd ==
    ASSUME IronTypes, NEW s \in I!Sums, NEW n \in Nat, I!Add(s, n)
    PROVE  /\ stats' \in [I!Sums -> Nat] /\ stats'[s] = stats[s] + n
           /\ \A q \in I!Sums : q # s => stats'[q] = stats[q]
           /\ \A q \in I!Sums : stats[q] \in Nat /\ stats'[q] \in Nat
BY DEF IronTypes, I!Add

LEMMA SumNames == {"cycles", "found", "created", "applied", "errors"} \subseteq I!Sums
BY DEF I!Sums

LEMMA Idling ==
    /\ I!Idle = [pc |-> "idle", signals |-> <<>>, todo |-> <<>>, applied |-> 0]
    /\ I!Idle \in Cycles
BY IronConstants DEF I!Idle, Cycles

\* A step by which no mutation changes and r goes on, or ends its cycle.
LEMMA RunnerKeeps ==
    ASSUME IronInv, NEW r \in Runners, NEW new \in Cycles, run' = [run EXCEPT ![r] = new],
           setup' = setup, muts' = muts,
           NEW d \in {0, 1},
           \A i \in 1..Len(new.todo) : /\ i + d \in 1..Len(run[r].todo)
                                       /\ new.todo[i] = run[r].todo[i + d],
           new.pc # "evolve" => new.signals = <<>>,
           new.pc \in {"idle", "mine", "evolve"} => new.applied = 0,
           new.pc \notin {"evaluate", "approve"}
    PROVE  Phases' /\ Owned' /\ I!HighRiskIsBlocked' /\ I!ByEvolver' = I!ByEvolver
           /\ muts' \in Seq(Mutation) /\ Len(muts') = Len(muts)
<1> USE DEF IronInv
<1>1. run'[r] = new /\ \A q \in Runners : q # r => run'[q] = run[q]
  BY Stepped
<1>2. new.todo \in Seq(Nat)
  BY DEF Cycles
<1>3. Owned'
  <2>1. IronTypes /\ Owned /\ run'[r].todo \in Seq(Nat) /\ Len(muts') = Len(muts)
    BY <1>1, <1>2
  <2>2. \A i \in 1..Len(run'[r].todo) : /\ i + d \in 1..Len(run[r].todo)
                                         /\ run'[r].todo[i] = run[r].todo[i + d]
    BY <1>1
  <2>3. \A m \in 1..Len(muts) : "iron-evolver" \in muts'[m].approved =>
           \/ "iron-evolver" \in muts[m].approved
           \/ d = 1 /\ Len(run[r].todo) >= 1 /\ m = run[r].todo[1]
    OBVIOUS
  <2> QED
    BY <1>1, <2>1, <2>2, <2>3, OwnedStays
<1>4. Phases'
  BY <1>1, PhasesStay
<1>5. I!HighRiskIsBlocked' /\ I!ByEvolver' = I!ByEvolver
  BY DEF Sound, I!HighRiskIsBlocked, I!ByEvolver
<1> QED
  BY <1>3, <1>4, <1>5 DEF IronTypes

LEMMA BeginKeeps == ASSUME IronInv, NEW r \in Runners, I!Begin(r) PROVE IronInv'
<1> USE DEF IronInv
<1> DEFINE new == [pc |-> "mine", signals |-> run[r].signals, todo |-> run[r].todo,
                   applied |-> run[r].applied]
<1>1. /\ run[r] \in Cycles /\ run[r].pc = "idle" /\ run[r].signals = <<>> /\ run[r].applied = 0
      /\ run[r] = [pc |-> run[r].pc, signals |-> run[r].signals, todo |-> run[r].todo,
                   applied |-> run[r].applied]
      /\ run[r].todo \in Seq(Nat)
  BY DEF IronTypes, Phases, Cycles, I!Begin, I!At
<1>2. /\ setup' = setup /\ muts' = muts /\ I!Add("cycles", 1)
  BY DEF I!Begin
<1>3. run' = [run EXCEPT ![r] = new]
  <2>1. run' = [run EXCEPT ![r].pc = "mine"]
    BY DEF I!Begin, I!Goto
  <2>2. run' = [run EXCEPT ![r] = [run[r] EXCEPT !.pc = "mine"]]
    BY <2>1
  <2>3. [run[r] EXCEPT !.pc = "mine"] = new
    BY <1>1
  <2> QED
    BY <2>2, <2>3
<1>4. new \in Cycles /\ new.pc = "mine" /\ new.signals = <<>> /\ new.applied = 0
      /\ new.todo = run[r].todo
  BY <1>1 DEF Cycles
<1> HIDE DEF new
<1>5. \A i \in 1..Len(new.todo) : i + 0 \in 1..Len(run[r].todo) /\ new.todo[i] = run[r].todo[i + 0]
  BY <1>1, <1>4
<1>6. Phases' /\ Owned' /\ I!HighRiskIsBlocked' /\ I!ByEvolver' = I!ByEvolver
      /\ muts' \in Seq(Mutation) /\ Len(muts') = Len(muts)
  BY <1>2, <1>3, <1>4, <1>5, RunnerKeeps
<1>7. /\ stats' \in [I!Sums -> Nat] /\ stats'["cycles"] = stats["cycles"] + 1
      /\ stats'["applied"] = stats["applied"] /\ stats'["created"] = stats["created"]
      /\ stats'["found"] = stats["found"] /\ stats["cycles"] \in Nat /\ stats["applied"] \in Nat
  BY <1>2, StatsAdd, SumNames
<1>8. /\ run' \in [Runners -> Cycles] /\ Summed(Applied)' = Summed(Applied)
      /\ Summed(Allowed)' = Summed(Allowed) + Limit /\ Summed(Signalled)' = Summed(Signalled)
      /\ Summed(Allowed) \in Nat
  <2>1. IronTypes
    OBVIOUS
  <2>2. /\ run' \in [Runners -> Cycles]
        /\ Summed(Applied)' + run[r].applied = Summed(Applied) + new.applied
        /\ Summed(Allowed)' + (IF run[r].pc = "idle" THEN 0 ELSE Limit)
             = Summed(Allowed) + (IF new.pc = "idle" THEN 0 ELSE Limit)
        /\ Summed(Signalled)' + Len(run[r].signals) = Summed(Signalled) + Len(new.signals)
        /\ Summed(Applied)' \in Nat /\ Summed(Allowed)' \in Nat /\ Summed(Signalled)' \in Nat
        /\ Summed(Applied) \in Nat /\ Summed(Allowed) \in Nat /\ Summed(Signalled) \in Nat
    BY <1>3, <1>4, <2>1, Stepped
  <2> QED
    BY <1>1, <1>4, <2>2, IronConstants
<1>9. Limit * (stats["cycles"] + 1) = Limit * stats["cycles"] + Limit
      /\ Limit * stats["cycles"] \in Nat
  BY <1>7, IronConstants
<1>10. stats'["applied"] + Summed(Allowed)' <= Limit * stats'["cycles"]
  <2> DEFINE p == Limit * stats["cycles"]
  <2>1. stats["applied"] + Summed(Allowed) <= p /\ p \in Nat
    BY <1>9 DEF Sound
  <2>2. Limit * stats'["cycles"] = p + Limit
    BY <1>7, <1>9
  <2> HIDE DEF p
  <2>3. stats["applied"] + (Summed(Allowed) + Limit) <= p + Limit
    BY <1>7, <1>8, <2>1, IronConstants
  <2> QED
    BY <1>7, <1>8, <2>2, <2>3
<1>11. Sound'
  BY <1>2, <1>6, <1>7, <1>8, <1>10 DEF Sound
<1> QED
  BY <1>2, <1>6, <1>7, <1>8, <1>11 DEF IronTypes

\* A runner that is in its cycle leaves it.
LEMMA Leaves ==
    ASSUME IronInv, NEW r \in Runners, run[r].pc # "idle", run' = [run EXCEPT ![r] = I!Idle],
           setup' = setup, muts' = muts,
           NEW n \in Nat, n = run[r].applied, stats' \in [I!Sums -> Nat],
           stats'["applied"] = stats["applied"] + n, stats'["cycles"] = stats["cycles"],
           stats'["created"] = stats["created"], stats'["found"] = stats["found"]
    PROVE  IronInv'
<1> USE DEF IronInv
<1>1. I!Idle \in Cycles /\ I!Idle.pc = "idle" /\ I!Idle.signals = <<>> /\ I!Idle.applied = 0
      /\ I!Idle.todo = <<>> /\ Len(I!Idle.todo) = 0
  BY Idling
<1>2. \A i \in 1..Len(I!Idle.todo) : /\ i + 0 \in 1..Len(run[r].todo)
                                     /\ I!Idle.todo[i] = run[r].todo[i + 0]
  BY <1>1
<1>3. Phases' /\ Owned' /\ I!HighRiskIsBlocked' /\ I!ByEvolver' = I!ByEvolver
      /\ muts' \in Seq(Mutation) /\ Len(muts') = Len(muts)
  BY <1>1, <1>2, RunnerKeeps
<1>4. IronTypes
  OBVIOUS
<1>5. /\ run' \in [Runners -> Cycles]
      /\ Summed(Applied)' + run[r].applied = Summed(Applied) + I!Idle.applied
      /\ Summed(Allowed)' + (IF run[r].pc = "idle" THEN 0 ELSE Limit)
           = Summed(Allowed) + (IF I!Idle.pc = "idle" THEN 0 ELSE Limit)
      /\ Summed(Signalled)' + Len(run[r].signals) = Summed(Signalled) + Len(I!Idle.signals)
      /\ Summed(Applied)' \in Nat /\ Summed(Allowed)' \in Nat /\ Summed(Signalled)' \in Nat
      /\ Summed(Applied) \in Nat /\ Summed(Allowed) \in Nat /\ Summed(Signalled) \in Nat
      /\ run[r].applied <= Limit /\ Len(run[r].signals) \in Nat
  BY <1>1, <1>4, Stepped
<1>6. /\ Summed(Applied)' + n = Summed(Applied) /\ Summed(Allowed)' + Limit = Summed(Allowed)
      /\ Summed(Signalled)' <= Summed(Signalled) /\ n <= Limit
  <2>1. Len(I!Idle.signals) = 0
    BY <1>1
  <2> QED
    BY <1>1, <1>5, <2>1
<1>7. /\ stats["applied"] \in Nat /\ stats["created"] \in Nat /\ stats["found"] \in Nat
      /\ stats["cycles"] \in Nat
  BY SumNames DEF IronTypes
<1>8. /\ stats["applied"] + Summed(Applied) = Cardinality(I!ByEvolver)
      /\ stats["applied"] + Summed(Allowed) <= Limit * stats["cycles"]
      /\ Len(muts) = stats["created"]
      /\ stats["created"] + Summed(Signalled) <= stats["found"]
  BY DEF Sound
<1>9. stats'["applied"] + Summed(Applied)' = Cardinality(I!ByEvolver)
  BY SMTT(60), <1>5, <1>6, <1>7, <1>8
<1>10. stats'["applied"] + Summed(Allowed)' <= Limit * stats'["cycles"]
  <2> DEFINE p == Limit * stats["cycles"]
  <2>1. p \in Nat /\ stats["applied"] + Summed(Allowed) <= p
    BY <1>7, <1>8, IronConstants
  <2> HIDE DEF p
  <2> DEFINE a == stats["applied"]
             x == Summed(Allowed)'
             y == Summed(Allowed)
  <2>2. /\ stats'["applied"] = a + n /\ a \in Nat /\ x \in Nat /\ y \in Nat /\ x + Limit = y
        /\ n <= Limit /\ a + y <= p
    BY <1>5, <1>6, <1>7, <2>1
  <2> HIDE DEF a, x, y
  <2>3. a + n + x <= p
    BY <2>1, <2>2, IronConstants
  <2>4. stats'["applied"] + x <= p
    BY <2>2, <2>3
  <2> QED
    BY <2>4 DEF p, x
<1>11. stats'["created"] + Summed(Signalled)' <= stats'["found"]
  BY SMTT(60), <1>5, <1>6, <1>7, <1>8
<1>12. Sound'
  BY <1>3, <1>8, <1>9, <1>10, <1>11 DEF Sound
<1> QED
  BY <1>3, <1>5, <1>12 DEF IronTypes

LEMMA EndsKeep ==
    ASSUME IronInv, NEW r \in Runners, I!MineFails(r) \/ I!Finish(r) PROVE IronInv'
<1> USE DEF IronInv
<1>1. run[r].applied \in Nat
  BY IronConstants DEF IronTypes, Cycles
<1>2. CASE I!MineFails(r)
  <2>1. /\ run[r].pc # "idle" /\ run' = [run EXCEPT ![r] = I!Idle] /\ setup' = setup /\ muts' = muts
        /\ I!Add("errors", 1)
    BY <1>2 DEF I!MineFails, I!At
  <2>2. run[r].applied = 0
    BY <1>2 DEF I!MineFails, I!At, Phases
  <2>3. /\ stats' \in [I!Sums -> Nat] /\ stats'["cycles"] = stats["cycles"]
        /\ stats'["created"] = stats["created"] /\ stats'["found"] = stats["found"]
        /\ stats'["applied"] = stats["applied"] + 0
    BY <2>1, StatsAdd, SumNames
  <2> QED
    BY <1>1, <2>1, <2>2, <2>3, Leaves
<1>3. CASE I!Finish(r)
  <2>1. /\ run[r].pc # "idle" /\ run' = [run EXCEPT ![r] = I!Idle] /\ setup' = setup /\ muts' = muts
        /\ I!Add("applied", run[r].applied)
    BY <1>3 DEF I!Finish, I!At
  <2>2. /\ stats' \in [I!Sums -> Nat] /\ stats'["cycles"] = stats["cycles"]
        /\ stats'["created"] = stats["created"] /\ stats'["found"] = stats["found"]
        /\ stats'["applied"] = stats["applied"] + run[r].applied
    BY <1>1, <2>1, StatsAdd, SumNames
  <2> QED
    BY <1>1, <2>1, <2>2, Leaves
<1> QED
  BY <1>2, <1>3

LEMMA MineKeeps == ASSUME IronInv, NEW r \in Runners, I!Mine(r) PROVE IronInv'
<1> USE DEF IronInv
<1>1. PICK n \in 0..(MaxSignals - stats["found"]) : \E signs \in [1..n -> I!Severity] :
        /\ I!Add("found", n)
        /\ run' = [run EXCEPT ![r] = IF n = 0 THEN I!Idle
                                     ELSE [pc |-> "evolve", signals |-> signs, todo |-> <<>>,
                                           applied |-> 0]]
  BY DEF I!Mine
<1>2. PICK signs \in [1..n -> I!Severity] :
        /\ I!Add("found", n)
        /\ run' = [run EXCEPT ![r] = IF n = 0 THEN I!Idle
                                     ELSE [pc |-> "evolve", signals |-> signs, todo |-> <<>>,
                                           applied |-> 0]]
  BY <1>1
<1>3. /\ run[r].pc = "mine" /\ setup' = setup /\ muts' = muts /\ run[r].applied = 0
      /\ run[r].signals = <<>>
  BY DEF I!Mine, I!At, Phases
<1>4. n \in Nat /\ signs \in Seq(I!Severity) /\ Len(signs) = n
  <2>1. n \in Nat
    BY <1>1, IronConstants, SumNames DEF IronTypes
  <2> QED
    BY <2>1, Sequence
<1> DEFINE new == IF n = 0 THEN I!Idle
                  ELSE [pc |-> "evolve", signals |-> signs, todo |-> <<>>, applied |-> 0]
<1>5. run' = [run EXCEPT ![r] = new]
  BY <1>2
<1>6. /\ new \in Cycles /\ new.todo = <<>> /\ new.applied = 0 /\ new.pc \in {"idle", "evolve"}
      /\ (new.pc # "evolve" => new.signals = <<>>) /\ new.signals \in Seq(I!Severity)
      /\ Len(new.signals) = n
  <2>1. CASE n = 0
    BY <2>1, Idling
  <2>2. CASE n # 0
    <3>1. new = [pc |-> "evolve", signals |-> signs, todo |-> <<>>, applied |-> 0]
      BY <2>2
    <3>2. <<>> \in Seq(Nat) /\ 0 \in 0..Limit
      BY IronConstants
    <3> HIDE DEF new
    <3> QED
      BY <1>4, <3>1, <3>2 DEF Cycles
  <2> QED
    BY <2>1, <2>2
<1> HIDE DEF new
<1>7. \A i \in 1..Len(new.todo) : i + 0 \in 1..Len(run[r].todo) /\ new.todo[i] = run[r].todo[i + 0]
  <2>1. Len(new.todo) = 0
    BY <1>6
  <2> QED
    BY <2>1
<1>8. Phases' /\ Owned' /\ I!HighRiskIsBlocked' /\ I!ByEvolver' = I!ByEvolver
      /\ muts' \in Seq(Mutation) /\ Len(muts') = Len(muts)
  <2>1. new.pc \notin {"evaluate", "approve"}
    BY <1>6
  <2> QED
    BY <1>3, <1>5, <1>6, <1>7, <2>1, RunnerKeeps
<1>9. IronTypes
  OBVIOUS
<1>10. /\ run' \in [Runners -> Cycles]
       /\ Summed(Applied)' + run[r].applied = Summed(Applied) + new.applied
       /\ Summed(Allowed)' + (IF run[r].pc = "idle" THEN 0 ELSE Limit)
            = Summed(Allowed) + (IF new.pc = "idle" THEN 0 ELSE Limit)
       /\ Summed(Signalled)' + Len(run[r].signals) = Summed(Signalled) + Len(new.signals)
       /\ Summed(Applied)' \in Nat /\ Summed(Allowed)' \in Nat /\ Summed(Signalled)' \in Nat
       /\ Summed(Applied) \in Nat /\ Summed(Allowed) \in Nat /\ Summed(Signalled) \in Nat
  BY <1>5, <1>6, <1>9, Stepped
<1>11. /\ Summed(Applied)' = Summed(Applied) /\ Summed(Allowed)' <= Summed(Allowed)
       /\ Summed(Signalled)' = Summed(Signalled) + n
  <2>1. Len(run[r].signals) = 0
    BY <1>3
  <2> QED
    BY <1>3, <1>4, <1>6, <1>10, <2>1, IronConstants
<1>12. /\ stats' \in [I!Sums -> Nat] /\ stats'["cycles"] = stats["cycles"]
       /\ stats'["created"] = stats["created"] /\ stats'["applied"] = stats["applied"]
       /\ stats'["found"] = stats["found"] + n
       /\ stats["applied"] \in Nat /\ stats["created"] \in Nat /\ stats["found"] \in Nat
       /\ stats["cycles"] \in Nat
  BY <1>2, <1>4, StatsAdd, SumNames
<1>13. stats'["applied"] + Summed(Allowed)' <= Limit * stats'["cycles"]
  <2> DEFINE p == Limit * stats["cycles"]
  <2>1. stats["applied"] + Summed(Allowed) <= p /\ p \in Nat
    BY <1>12, IronConstants DEF Sound
  <2> HIDE DEF p
  <2>2. stats["applied"] + Summed(Allowed)' <= p
    BY <1>10, <1>11, <1>12, <2>1
  <2> QED
    BY <1>12, <2>2 DEF p
<1>14. stats'["created"] + Summed(Signalled)' <= stats'["found"]
  <2>1. stats["created"] + Summed(Signalled) <= stats["found"]
    BY DEF Sound
  <2>2. stats["created"] + (Summed(Signalled) + n) <= stats["found"] + n
    BY SMTT(60), <1>4, <1>10, <1>12, <2>1
  <2> QED
    BY <1>11, <1>12, <2>2
<1>15. Sound'
  BY <1>3, <1>8, <1>11, <1>12, <1>13, <1>14 DEF Sound
<1> QED
  BY <1>3, <1>8, <1>10, <1>12, <1>15 DEF IronTypes

LEMMA EvolveKeeps == ASSUME IronInv, NEW r \in Runners, I!Evolve(r) PROVE IronInv'
<1> USE DEF IronInv
<1> DEFINE s == run[r].signals
           len == Len(muts)
           jobs(b) == [i \in 1..Len(b) |-> Len(muts) + i]
<1>1. PICK answered \in SUBSET DOMAIN s :
        /\ muts' = muts \o I!Produced(s, answered)
        /\ I!Add("created", Len(I!Produced(s, answered)))
        /\ run' = [run EXCEPT ![r] =
              IF setup.dryRun THEN I!Idle
              ELSE [pc |-> "loop", signals |-> <<>>, todo |-> jobs(I!Produced(s, answered)),
                    applied |-> 0]]
  BY DEF I!Evolve
<1>2. PICK b : b = I!Produced(s, answered)
  OBVIOUS
<1>3. /\ run[r].pc = "evolve" /\ setup' = setup /\ run[r].applied = 0 /\ s \in Seq(I!Severity)
      /\ Len(s) \in Nat
  BY DEF I!Evolve, I!At, Phases, IronTypes, Cycles
<1>4. /\ b \in Seq(Mutation) /\ Len(b) \in Nat /\ Len(b) <= Len(s)
      /\ \A i \in 1..Len(b) : b[i].status = "new" /\ b[i].approved = {}
  <2>1. s \in Seq(I!Severity) /\ answered \in SUBSET DOMAIN s
    BY <1>3
  <2> HIDE DEF s
  <2> QED
    BY <1>2, <2>1, Produces
<1>5. /\ muts \in Seq(Mutation) /\ muts' \in Seq(Mutation) /\ len \in Nat /\ Len(muts') = len + Len(b)
      /\ \A i \in 1..len : muts'[i] = muts[i]
      /\ \A j \in 1..Len(b) : muts'[len + j] = b[j]
  <2>1. muts \in Seq(Mutation) /\ b \in Seq(Mutation) /\ muts' = muts \o b
    BY <1>1, <1>2, <1>4 DEF IronTypes
  <2>2. /\ muts' \in Seq(Mutation) /\ Len(muts) \in Nat /\ Len(b) \in Nat
        /\ Len(muts') = Len(muts) + Len(b)
        /\ \A i \in 1..Len(muts) : muts'[i] = muts[i]
        /\ \A j \in 1..Len(b) : muts'[Len(muts) + j] = b[j]
    BY ONLY <2>1, Joined
  <2> QED
    BY <2>1, <2>2
<1> DEFINE new == IF setup.dryRun THEN I!Idle
                  ELSE [pc |-> "loop", signals |-> <<>>, todo |-> jobs(b), applied |-> 0]
<1>6. run' = [run EXCEPT ![r] = new]
  BY <1>1, <1>2
<1>7. /\ jobs(b) \in Seq(Nat) /\ Len(jobs(b)) = Len(b) /\ \A i \in 1..Len(b) : jobs(b)[i] = len + i
  <2>1. jobs(b) \in [1..Len(b) -> Nat]
    BY <1>4, <1>5
  <2>2. \A i \in 1..Len(b) : jobs(b)[i] = len + i
    OBVIOUS
  <2> HIDE DEF jobs
  <2> QED
    BY <1>4, <2>1, <2>2, Sequence
<1> HIDE DEF jobs
<1>8. /\ new \in Cycles /\ new.signals = <<>> /\ new.applied = 0 /\ new.pc \in {"idle", "loop"}
      /\ new.todo \in Seq(Nat) /\ Len(new.todo) \in Nat /\ Len(new.todo) <= Len(b)
      /\ \A i \in 1..Len(new.todo) : new.todo[i] = len + i
  <2>1. CASE setup.dryRun
    <3>1. new = [pc |-> "idle", signals |-> <<>>, todo |-> <<>>, applied |-> 0] /\ new \in Cycles
      BY <2>1, Idling
    <3> HIDE DEF new
    <3> QED
      BY <1>4, <3>1
  <2>2. CASE ~setup.dryRun
    <3>1. new = [pc |-> "loop", signals |-> <<>>, todo |-> jobs(b), applied |-> 0]
      BY <2>2
    <3>2. <<>> \in Seq(I!Severity) /\ 0 \in 0..Limit
      BY IronConstants
    <3> HIDE DEF new
    <3>3. new.todo = jobs(b) /\ new.signals = <<>> /\ new.applied = 0 /\ new.pc = "loop"
      BY <3>1
    <3>4. new \in Cycles
      BY <1>7, <3>1, <3>2 DEF Cycles
    <3> QED
      BY <1>4, <1>7, <3>3, <3>4
  <2> QED
    BY <2>1, <2>2
<1> HIDE DEF new, len, s
<1>9. IronTypes
  OBVIOUS
<1>10. /\ run' \in [Runners -> Cycles] /\ run'[r] = new
       /\ \A q \in Runners : q # r => run'[q] = run[q]
       /\ Summed(Applied)' + run[r].applied = Summed(Applied) + new.applied
       /\ Summed(Allowed)' + (IF run[r].pc = "idle" THEN 0 ELSE Limit)
            = Summed(Allowed) + (IF new.pc = "idle" THEN 0 ELSE Limit)
       /\ Summed(Signalled)' + Len(run[r].signals) = Summed(Signalled) + Len(new.signals)
       /\ Summed(Applied)' \in Nat /\ Summed(Allowed)' \in Nat /\ Summed(Signalled)' \in Nat
       /\ Summed(Applied) \in Nat /\ Summed(Allowed) \in Nat /\ Summed(Signalled) \in Nat
  BY <1>6, <1>8, <1>9, Stepped
<1>11. /\ Summed(Applied)' = Summed(Applied) /\ Summed(Allowed)' <= Summed(Allowed)
       /\ Summed(Signalled)' + Len(s) = Summed(Signalled)
  <2>1. Len(new.signals) = 0
    BY <1>8
  <2> QED
    BY <1>3, <1>8, <1>10, <2>1, IronConstants DEF s
<1>12. /\ stats' \in [I!Sums -> Nat] /\ stats'["cycles"] = stats["cycles"]
       /\ stats'["created"] = stats["created"] + Len(b) /\ stats'["applied"] = stats["applied"]
       /\ stats'["found"] = stats["found"]
       /\ stats["applied"] \in Nat /\ stats["created"] \in Nat /\ stats["found"] \in Nat
       /\ stats["cycles"] \in Nat
  BY <1>1, <1>2, <1>4, StatsAdd, SumNames
<1>13. \A i \in 1..(len + Len(b)) : i \in 1..len \/ (i - len \in 1..Len(b) /\ len + (i - len) = i)
  BY <1>4, <1>5
<1>14. ASSUME NEW i \in 1..(len + Len(b)), i \notin 1..len
       PROVE  muts'[i].status = "new" /\ muts'[i].approved = {}
  <2>1. PICK j \in 1..Len(b) : len + j = i
    BY <1>13, <1>14
  <2>2. muts'[len + j] = b[j] /\ b[j].status = "new" /\ b[j].approved = {}
    BY <1>4, <1>5, <2>1
  <2> QED
    BY <2>1, <2>2
<1>15. DOMAIN muts = 1..len /\ DOMAIN muts' = 1..(len + Len(b)) /\ 1..len \subseteq 1..(len + Len(b))
  BY <1>4, <1>5 DEF len
<1>16. I!ByEvolver' = I!ByEvolver
  BY <1>5, <1>14, <1>15 DEF I!ByEvolver
<1>17. I!HighRiskIsBlocked'
  BY <1>3, <1>5, <1>14, <1>15 DEF I!HighRiskIsBlocked, Sound
<1>18. ASSUME NEW q \in Runners, q # r, NEW i \in 1..Len(run[q].todo)
       PROVE  /\ run[q].todo[i] \in 1..len /\ muts'[run[q].todo[i]] = muts[run[q].todo[i]]
  BY <1>5 DEF Owned, len
<1>19. Phases'
  <2>1. ASSUME NEW q \in Runners, q # r, run[q].pc \in {"evaluate", "approve"}
        PROVE  /\ run[q].todo # <<>> /\ run[q].applied < Limit
               /\ setup.safety => muts'[run[q].todo[1]].risk # "high"
    <3>1. /\ run[q].todo # <<>> /\ run[q].applied < Limit /\ run[q].todo \in Seq(Nat)
          /\ setup.safety => muts[run[q].todo[1]].risk # "high"
      BY <2>1 DEF Phases, IronTypes, Cycles
    <3>2. 1 \in 1..Len(run[q].todo)
      BY <3>1
    <3> QED
      BY <1>18, <2>1, <3>1, <3>2
  <2> QED
    BY ZenonT(90), <1>3, <1>8, <1>10, <2>1 DEF Phases
<1>20. Owned'
  <2>1. ASSUME NEW q \in Runners, NEW i \in 1..Len(run'[q].todo)
        PROVE  /\ run'[q].todo[i] \in 1..Len(muts')
               /\ "iron-evolver" \notin muts'[run'[q].todo[i]].approved
    <3>1. CASE q = r
      <4>1. i \in 1..Len(new.todo) /\ run'[q].todo[i] = len + i /\ i \in 1..Len(b)
        BY <1>4, <1>8, <1>10, <3>1
      <4>2. muts'[len + i].approved = {} /\ len + i \in 1..Len(muts')
        BY SMTT(60), <1>4, <1>5, <4>1
      <4> QED
        BY <4>1, <4>2
    <3>2. CASE q # r
      <4>1. run'[q] = run[q]
        BY <1>10, <3>2
      <4>2. "iron-evolver" \notin muts[run[q].todo[i]].approved
        BY <4>1 DEF Owned
      <4> QED
        BY <1>5, <1>15, <1>18, <3>2, <4>1, <4>2
    <3> QED
      BY <3>1, <3>2
  <2>2. ASSUME NEW q \in Runners, NEW i \in 1..Len(run'[q].todo)
        PROVE  IF q = r THEN i \in Nat /\ run'[q].todo[i] = len + i
               ELSE run'[q] = run[q] /\ run'[q].todo[i] \in 1..len
    BY SMTT(60), <1>8, <1>10, <1>18
  <2>3. ASSUME NEW q \in Runners, NEW p \in Runners, NEW i \in 1..Len(run'[q].todo),
               NEW j \in 1..Len(run'[p].todo), run'[q].todo[i] = run'[p].todo[j]
        PROVE  q = p /\ i = j
    <3>1. CASE q = r /\ p = r
      BY <1>5, <2>2, <2>3, <3>1
    <3>2. CASE q = r /\ p # r
      <4>1. len + i \in 1..len /\ i \in Nat /\ i >= 1
        <5>1. Len(new.todo) \in Nat /\ i \in 1..Len(new.todo)
          BY <1>8, <1>10, <3>2
        <5> QED
          BY <2>2, <2>3, <3>2, <5>1
      <4> QED
        BY <1>5, <4>1
    <3>3. CASE q # r /\ p = r
      <4>1. len + j \in 1..len /\ j \in Nat /\ j >= 1
        <5>1. Len(new.todo) \in Nat /\ j \in 1..Len(new.todo)
          BY <1>8, <1>10, <3>3
        <5> QED
          BY <2>2, <2>3, <3>3, <5>1
      <4> QED
        BY <1>5, <4>1
    <3>4. CASE q # r /\ p # r
      <4>1. run'[q] = run[q] /\ run'[p] = run[p]
        BY <2>2, <3>4
      <4> QED
        BY <2>3, <4>1 DEF Owned
    <3> QED
      BY <3>1, <3>2, <3>3, <3>4
  <2> QED
    BY <2>1, <2>3 DEF Owned
<1>21. stats'["applied"] + Summed(Allowed)' <= Limit * stats'["cycles"]
  <2> DEFINE p == Limit * stats["cycles"]
  <2>1. stats["applied"] + Summed(Allowed) <= p /\ p \in Nat
    BY <1>12, IronConstants DEF Sound
  <2> HIDE DEF p
  <2>2. stats["applied"] + Summed(Allowed)' <= p
    BY <1>10, <1>11, <1>12, <2>1
  <2> QED
    BY <1>12, <2>2 DEF p
<1>22. stats'["created"] + Summed(Signalled)' <= stats'["found"]
  <2>1. stats["created"] + Summed(Signalled) <= stats["found"]
    BY DEF Sound
  <2>2. stats["created"] + Len(b) + Summed(Signalled)' <= stats["found"]
    BY SMTT(60), <1>3, <1>4, <1>10, <1>11, <1>12, <2>1
  <2> QED
    BY <1>12, <2>2
<1>23. Sound'
  <2>1. Len(muts') = stats'["created"]
    BY <1>5, <1>12 DEF Sound, len
  <2>2. stats'["applied"] + Summed(Applied)' = Cardinality(I!ByEvolver')
    BY <1>11, <1>12, <1>16 DEF Sound
  <2> QED
    BY <1>17, <1>21, <1>22, <2>1, <2>2 DEF Sound
<1> QED
  BY <1>3, <1>5, <1>10, <1>12, <1>19, <1>20, <1>23 DEF IronTypes

\* The next mutation of a runner, and what is left after it.
LEMMA Heads ==
    ASSUME IronTypes, Owned, NEW r \in Runners, run[r].todo # <<>>
    PROVE  /\ I!Head1(r) = run[r].todo[1] /\ run[r].todo[1] \in 1..Len(muts)
           /\ Len(run[r].todo) \in Nat /\ Len(run[r].todo) >= 1 /\ 1 \in 1..Len(run[r].todo)
           /\ "iron-evolver" \notin muts[run[r].todo[1]].approved
           /\ Tail(run[r].todo) \in Seq(Nat)
           /\ \A i \in 1..Len(Tail(run[r].todo)) :
                 i + 1 \in 1..Len(run[r].todo) /\ Tail(run[r].todo)[i] = run[r].todo[i + 1]
<1>1. run[r].todo \in Seq(Nat)
  BY DEF IronTypes, Cycles
<1>2. PICK s \in Seq(Nat) : s = run[r].todo
  BY <1>1
<1>3. /\ Head(s) = s[1] /\ Len(s) \in Nat /\ Len(s) >= 1 /\ 1 \in 1..Len(s)
      /\ Tail(s) \in Seq(Nat) /\ Len(Tail(s)) = Len(s) - 1
  BY <1>2
<1>4. \A i \in 1..Len(Tail(s)) : i + 1 \in 1..Len(s) /\ Tail(s)[i] = s[i + 1]
  BY <1>3
<1>5. run[r].todo[1] \in 1..Len(muts) /\ "iron-evolver" \notin muts[run[r].todo[1]].approved
  BY <1>2, <1>3 DEF Owned
<1> QED
  BY <1>2, <1>3, <1>4, <1>5 DEF I!Head1

\* A step of the loop, by which d mutations are done with and e of them approved.
LEMMA LoopKeeps ==
    ASSUME IronInv, NEW r \in Runners, NEW new \in Cycles, run' = [run EXCEPT ![r] = new],
           setup' = setup, stats' = stats, run[r].pc \in {"loop", "evaluate", "approve"},
           new.pc \in {"loop", "evaluate", "approve"}, new.signals = <<>>,
           NEW d \in {0, 1}, NEW e \in {0, d}, new.applied = run[r].applied + e,
           e = 1 => run[r].todo # <<>>,
           \A i \in 1..Len(new.todo) : /\ i + d \in 1..Len(run[r].todo)
                                       /\ new.todo[i] = run[r].todo[i + d],
           muts' \in Seq(Mutation), Len(muts') = Len(muts),
           \A m \in 1..Len(muts) : /\ muts'[m].risk = muts[m].risk
                                   /\ "iron-evolver" \in muts'[m].approved <=>
                                        \/ "iron-evolver" \in muts[m].approved
                                        \/ e = 1 /\ m = run[r].todo[1],
           new.pc # "loop" => /\ new.todo # <<>> /\ new.applied < Limit
                              /\ setup.safety => muts[new.todo[1]].risk # "high",
           I!HighRiskIsBlocked'
    PROVE  IronInv'
<1> USE DEF IronInv
<1>1. /\ run' \in [Runners -> Cycles] /\ run'[r] = new
      /\ \A q \in Runners : q # r => run'[q] = run[q]
      /\ Summed(Applied)' + run[r].applied = Summed(Applied) + new.applied
      /\ Summed(Allowed)' + (IF run[r].pc = "idle" THEN 0 ELSE Limit)
           = Summed(Allowed) + (IF new.pc = "idle" THEN 0 ELSE Limit)
      /\ Summed(Signalled)' + Len(run[r].signals) = Summed(Signalled) + Len(new.signals)
      /\ Summed(Applied)' \in Nat /\ Summed(Allowed)' \in Nat /\ Summed(Signalled)' \in Nat
      /\ Summed(Applied) \in Nat /\ Summed(Allowed) \in Nat /\ Summed(Signalled) \in Nat
      /\ run[r].applied \in Nat
  BY Stepped
<1>2. /\ Summed(Applied)' = Summed(Applied) + e /\ Summed(Allowed)' = Summed(Allowed)
      /\ Summed(Signalled)' = Summed(Signalled)
  <2>1. Len(run[r].signals) = 0 /\ Len(new.signals) = 0
    <3>1. run[r].signals = <<>>
      BY DEF Phases
    <3> QED
      BY <3>1
  <2>2. run[r].pc # "idle" /\ new.pc # "idle"
    OBVIOUS
  <2>3. e \in Nat /\ Limit \in Nat /\ new.applied = run[r].applied + e
    BY IronConstants
  <2>4. Summed(Applied)' = Summed(Applied) + e
    <3>1. /\ Summed(Applied)' \in Nat /\ Summed(Applied) \in Nat /\ run[r].applied \in Nat
          /\ Summed(Applied)' + run[r].applied = Summed(Applied) + new.applied
      BY ONLY <1>1
    <3> QED
      BY ONLY <2>3, <3>1
  <2>5. Summed(Allowed)' = Summed(Allowed)
    <3>1. /\ Summed(Allowed)' \in Nat /\ Summed(Allowed) \in Nat
          /\ Summed(Allowed)' + Limit = Summed(Allowed) + Limit
      BY ONLY <1>1, <2>2
    <3> QED
      BY ONLY <2>3, <3>1
  <2>6. Summed(Signalled)' = Summed(Signalled)
    <3>1. /\ Summed(Signalled)' \in Nat /\ Summed(Signalled) \in Nat
          /\ Summed(Signalled)' + 0 = Summed(Signalled) + 0
      BY ONLY <1>1, <2>1
    <3> QED
      BY ONLY <3>1
  <2> QED
    BY ONLY <2>4, <2>5, <2>6
<1>3. new.todo \in Seq(Nat) /\ muts \in Seq(Mutation) /\ Len(muts) \in Nat
      /\ DOMAIN muts = 1..Len(muts) /\ DOMAIN muts' = 1..Len(muts)
  BY DEF Cycles, IronTypes
<1>4. e = 1 => run[r].todo[1] \in 1..Len(muts) /\ d = 1 /\ Len(run[r].todo) >= 1
               /\ run[r].todo[1] \notin I!ByEvolver
  BY <1>3, Heads DEF I!ByEvolver
<1>5. Owned'
  <2>1. run'[r].todo \in Seq(Nat)
    BY <1>1, <1>3
  <2>2. \A i \in 1..Len(run'[r].todo) : /\ i + d \in 1..Len(run[r].todo)
                                         /\ run'[r].todo[i] = run[r].todo[i + d]
    BY <1>1
  <2>3. \A m \in 1..Len(muts) : "iron-evolver" \in muts'[m].approved =>
           \/ "iron-evolver" \in muts[m].approved
           \/ d = 1 /\ Len(run[r].todo) >= 1 /\ m = run[r].todo[1]
    BY <1>4
  <2> QED
    BY ZenonT(90), <1>1, <2>1, <2>2, <2>3, OwnedStays
<1>6. ASSUME new.pc # "loop" PROVE setup.safety => muts'[new.todo[1]].risk # "high"
  <2>1. 1 \in 1..Len(new.todo)
    BY <1>3, <1>6
  <2>2. new.todo[1] \in 1..Len(muts)
    BY <2>1 DEF Owned
  <2> QED
    BY <1>6, <2>2
<1>7. Phases'
  <2>1. \A m \in 1..Len(muts) : muts'[m].risk = muts[m].risk
    OBVIOUS
  <2> QED
    BY <1>1, <1>6, <2>1, PhasesStay
<1>8. Cardinality(I!ByEvolver') = Cardinality(I!ByEvolver) + e
  <2>1. CASE e = 0
    <3>1. I!ByEvolver' = I!ByEvolver
      BY <1>3, <2>1 DEF I!ByEvolver
    <3> QED
      BY <2>1, <3>1, EvolverFinite
  <2>2. CASE e = 1
    <3>1. I!ByEvolver' = I!ByEvolver \cup {run[r].todo[1]}
      BY <1>3, <1>4, <2>2 DEF I!ByEvolver
    <3> QED
      BY <1>4, <2>2, <3>1, EvolverFinite, FS_AddElement
  <2> QED
    BY <2>1, <2>2
<1>9. /\ stats["applied"] \in Nat /\ stats["created"] \in Nat /\ stats["found"] \in Nat
      /\ Cardinality(I!ByEvolver) \in Nat /\ e \in Nat
  BY SumNames, EvolverFinite DEF IronTypes
<1>10. stats'["applied"] + Summed(Applied)' = Cardinality(I!ByEvolver')
  <2>1. stats["applied"] + Summed(Applied) = Cardinality(I!ByEvolver)
    BY DEF Sound
  <2>2. stats["applied"] + (Summed(Applied) + e) = Cardinality(I!ByEvolver) + e
    BY <1>1, <1>9, <2>1
  <2> QED
    BY <1>2, <1>8, <2>2
<1>11. Sound'
  BY <1>2, <1>10 DEF Sound
<1> QED
  BY <1>1, <1>5, <1>7, <1>11 DEF IronTypes

LEMMA Continues ==
    ASSUME IronInv, NEW r \in Runners, run[r].pc \in {"loop", "evaluate", "approve"},
           run[r].todo # <<>>, NEW e \in {0, 1}, run[r].applied + e <= Limit,
           I!NextMutation(r, e)
    PROVE  \E new \in Cycles :
              /\ run' = [run EXCEPT ![r] = new]
              /\ new.pc = "loop" /\ new.signals = <<>> /\ new.applied = run[r].applied + e
              /\ \A i \in 1..Len(new.todo) : /\ i + 1 \in 1..Len(run[r].todo)
                                             /\ new.todo[i] = run[r].todo[i + 1]
<1> USE DEF IronInv
<1> DEFINE new == [pc |-> "loop", signals |-> run[r].signals, todo |-> Tail(run[r].todo),
                   applied |-> run[r].applied + e]
<1>1. run' = [run EXCEPT ![r] = new]
  BY DEF I!NextMutation
<1>2. /\ run[r].signals = <<>> /\ run[r].signals \in Seq(I!Severity) /\ run[r].applied \in Nat
      /\ Tail(run[r].todo) \in Seq(Nat)
      /\ \A i \in 1..Len(Tail(run[r].todo)) :
            i + 1 \in 1..Len(run[r].todo) /\ Tail(run[r].todo)[i] = run[r].todo[i + 1]
  BY Heads, IronConstants DEF Phases, IronTypes, Cycles
<1>3. run[r].applied + e \in 0..Limit
  BY <1>2, IronConstants
<1>4. /\ new \in Cycles /\ new.pc = "loop" /\ new.signals = <<>> /\ new.applied = run[r].applied + e
      /\ new.todo = Tail(run[r].todo)
  BY <1>2, <1>3 DEF Cycles
<1> HIDE DEF new
<1> QED
  BY <1>1, <1>2, <1>4

\* Only the pc of r changes.
LEMMA Goes ==
    ASSUME IronTypes, NEW r \in Runners, NEW at \in {"evaluate", "approve"}, I!Goto(r, at)
    PROVE  \E new \in Cycles :
              /\ run' = [run EXCEPT ![r] = new]
              /\ new.pc = at /\ new.signals = run[r].signals /\ new.applied = run[r].applied
              /\ new.todo = run[r].todo
<1> DEFINE new == [pc |-> at, signals |-> run[r].signals, todo |-> run[r].todo,
                   applied |-> run[r].applied]
<1>1. /\ run[r] \in Cycles
      /\ run[r] = [pc |-> run[r].pc, signals |-> run[r].signals, todo |-> run[r].todo,
                   applied |-> run[r].applied]
  BY DEF IronTypes, Cycles
<1>2. run' = [run EXCEPT ![r] = new]
  <2>1. run' = [run EXCEPT ![r].pc = at]
    BY DEF I!Goto
  <2>2. run' = [run EXCEPT ![r] = [run[r] EXCEPT !.pc = at]]
    BY <2>1
  <2>3. [run[r] EXCEPT !.pc = at] = new
    BY <1>1
  <2> QED
    BY <2>2, <2>3
<1>3. new \in Cycles
  BY <1>1 DEF Cycles
<1> QED
  BY <1>2, <1>3

\* The mutation is skipped, its evaluation failed, or it is not the evolver
\* that approved it.
LEMMA SkipKeeps ==
    ASSUME IronInv, NEW r \in Runners, run[r].pc \in {"loop", "evaluate", "approve"},
           run[r].todo # <<>>, I!NextMutation(r, 0), UNCHANGED <<setup, stats, muts>>
    PROVE  IronInv'
<1> USE DEF IronInv
<1>1. run[r].applied \in 0..Limit /\ run[r].applied + 0 = run[r].applied
  BY IronConstants DEF IronTypes, Cycles
<1>2. run[r].applied + 0 <= Limit
  BY <1>1, IronConstants
<1>3. PICK new \in Cycles :
         /\ run' = [run EXCEPT ![r] = new]
         /\ new.pc = "loop" /\ new.signals = <<>> /\ new.applied = run[r].applied + 0
         /\ \A i \in 1..Len(new.todo) : /\ i + 1 \in 1..Len(run[r].todo)
                                        /\ new.todo[i] = run[r].todo[i + 1]
  BY <1>2, Continues
<1>4. muts' \in Seq(Mutation) /\ Len(muts') = Len(muts)
  BY DEF IronTypes
<1>5. \A m \in 1..Len(muts) : /\ muts'[m].risk = muts[m].risk
                              /\ "iron-evolver" \in muts'[m].approved <=>
                                    \/ "iron-evolver" \in muts[m].approved
                                    \/ 0 = 1 /\ m = run[r].todo[1]
  OBVIOUS
<1>6. I!HighRiskIsBlocked'
  BY DEF Sound, I!HighRiskIsBlocked
<1> QED
  BY <1>3, <1>4, <1>5, <1>6, LoopKeeps

LEMMA SubmitKeeps == ASSUME IronInv, NEW r \in Runners, I!Submit(r) PROVE IronInv'
<1> USE DEF IronInv
<1>1. /\ run[r].pc = "loop" /\ run[r].todo # <<>> /\ ~(run[r].applied >= Limit)
      /\ ~(setup.safety /\ muts[I!Head1(r)].risk = "high")
      /\ muts' = I!Decided(I!Head1(r), "pending", {}) /\ I!Goto(r, "evaluate")
      /\ setup' = setup /\ stats' = stats
  BY DEF I!Submit, I!At, I!Stops, I!Skips
<1>2. PICK new \in Cycles :
         /\ run' = [run EXCEPT ![r] = new]
         /\ new.pc = "evaluate" /\ new.signals = run[r].signals /\ new.applied = run[r].applied
         /\ new.todo = run[r].todo
  BY <1>1, Goes
<1>3. /\ I!Head1(r) = run[r].todo[1] /\ run[r].todo[1] \in 1..Len(muts)
      /\ Len(run[r].todo) \in Nat
  BY <1>1, Heads
<1>4. PICK m \in 1..Len(muts) : m = run[r].todo[1]
  BY <1>3
<1>5. /\ muts' \in Seq(Mutation) /\ Len(muts') = Len(muts)
      /\ DOMAIN muts = 1..Len(muts) /\ DOMAIN muts' = 1..Len(muts)
      /\ \A k \in 1..Len(muts) : muts'[k].risk = muts[k].risk /\ (k # m => muts'[k] = muts[k])
      /\ muts'[m].status = "pending" /\ muts'[m].approved = muts[m].approved \cup {}
  <2>1. "pending" \in I!Status /\ {} \in SUBSET I!Approver
    BY DEF I!Status
  <2>2. muts' = I!Decided(m, "pending", {})
    BY <1>1, <1>3, <1>4
  <2> QED
    BY <2>1, <2>2, Decides
<1>6. \A k \in 1..Len(muts) : /\ muts'[k].risk = muts[k].risk
                              /\ "iron-evolver" \in muts'[k].approved <=>
                                    \/ "iron-evolver" \in muts[k].approved
                                    \/ 0 = 1 /\ k = run[r].todo[1]
  BY <1>5
<1>7. /\ new.applied = run[r].applied + 0 /\ new.applied < Limit /\ new.signals = <<>>
      /\ setup.safety => muts[new.todo[1]].risk # "high"
  <2>1. run[r].applied \in Nat /\ run[r].signals = <<>>
    BY <1>1, IronConstants DEF IronTypes, Cycles, Phases
  <2> QED
    BY <1>1, <1>2, <1>3, <2>1, IronConstants
<1>8. \A i \in 1..Len(new.todo) : i + 0 \in 1..Len(run[r].todo) /\ new.todo[i] = run[r].todo[i + 0]
  BY <1>2, <1>3
<1>9. I!HighRiskIsBlocked'
  <2>1. setup.safety => muts[m].risk # "high"
    BY <1>1, <1>3, <1>4
  <2> QED
    BY <1>1, <1>5, <2>1 DEF Sound, I!HighRiskIsBlocked
<1> QED
  BY ZenonT(90), <1>1, <1>2, <1>5, <1>6, <1>7, <1>8, <1>9, LoopKeeps

LEMMA EvaluateKeeps == ASSUME IronInv, NEW r \in Runners, I!Evaluate(r) PROVE IronInv'
<1> USE DEF IronInv
<1>1. /\ run[r].pc = "evaluate" /\ run[r].todo # <<>> /\ run[r].applied < Limit
      /\ I!Goto(r, "approve") /\ setup' = setup /\ stats' = stats
      /\ setup.safety => muts[run[r].todo[1]].risk # "high"
  BY DEF I!Evaluate, I!At, Phases
<1>2. PICK new \in Cycles :
         /\ run' = [run EXCEPT ![r] = new]
         /\ new.pc = "approve" /\ new.signals = run[r].signals /\ new.applied = run[r].applied
         /\ new.todo = run[r].todo
  BY <1>1, Goes
<1>3. /\ I!Head1(r) = run[r].todo[1] /\ run[r].todo[1] \in 1..Len(muts)
      /\ Len(run[r].todo) \in Nat
  BY <1>1, Heads
<1>4. PICK m \in 1..Len(muts) : m = run[r].todo[1]
  BY <1>3
<1>5. \E st \in I!Status, by \in SUBSET I!Approver :
         muts' = I!Decided(m, st, by) /\ "iron-evolver" \notin by
  <2>1. {"rejected", "approved", "evaluated"} \subseteq I!Status
        /\ {} \in SUBSET I!Approver /\ {"auto_promote"} \in SUBSET I!Approver
    BY DEF I!Status, I!Approver
  <2>2. \/ muts' = I!Decided(m, "rejected", {})
        \/ muts' = I!Decided(m, "approved", {"auto_promote"})
        \/ muts' = I!Decided(m, "evaluated", {})
    BY <1>3, <1>4 DEF I!Evaluate
  <2> QED
    BY <2>1, <2>2
<1>6. PICK st \in I!Status, by \in SUBSET I!Approver :
         muts' = I!Decided(m, st, by) /\ "iron-evolver" \notin by
  BY <1>5
<1>7. /\ muts' \in Seq(Mutation) /\ Len(muts') = Len(muts)
      /\ DOMAIN muts = 1..Len(muts) /\ DOMAIN muts' = 1..Len(muts)
      /\ \A k \in 1..Len(muts) : muts'[k].risk = muts[k].risk /\ (k # m => muts'[k] = muts[k])
      /\ muts'[m].status = st /\ muts'[m].approved = muts[m].approved \cup by
  BY <1>6, Decides
<1>8. \A k \in 1..Len(muts) : /\ muts'[k].risk = muts[k].risk
                              /\ "iron-evolver" \in muts'[k].approved <=>
                                    \/ "iron-evolver" \in muts[k].approved
                                    \/ 0 = 1 /\ k = run[r].todo[1]
  BY <1>6, <1>7
<1>9. /\ new.applied = run[r].applied + 0 /\ new.applied < Limit /\ new.signals = <<>>
      /\ setup.safety => muts[new.todo[1]].risk # "high"
  <2>1. run[r].applied \in Nat /\ run[r].signals = <<>>
    BY <1>1, IronConstants DEF IronTypes, Cycles, Phases
  <2> QED
    BY <1>1, <1>2, <1>3, <2>1, IronConstants
<1>10. \A i \in 1..Len(new.todo) : i + 0 \in 1..Len(run[r].todo) /\ new.todo[i] = run[r].todo[i + 0]
  BY <1>2, <1>3
<1>11. I!HighRiskIsBlocked'
  BY <1>1, <1>4, <1>7 DEF Sound, I!HighRiskIsBlocked
<1>12. new.todo # <<>> /\ new.pc \in {"loop", "evaluate", "approve"}
       /\ run[r].pc \in {"loop", "evaluate", "approve"}
  BY <1>1, <1>2
<1> QED
  BY <1>1, <1>2, <1>7, <1>8, <1>9, <1>10, <1>11, <1>12, LoopKeeps

LEMMA ApproveKeeps == ASSUME IronInv, NEW r \in Runners, I!Approve(r) PROVE IronInv'
<1> USE DEF IronInv
<1>1. /\ run[r].pc = "approve" /\ run[r].todo # <<>> /\ run[r].applied < Limit
      /\ setup' = setup /\ stats' = stats
      /\ setup.safety => muts[run[r].todo[1]].risk # "high"
  BY DEF I!Approve, I!At, Phases
<1>2. /\ I!Head1(r) = run[r].todo[1] /\ run[r].todo[1] \in 1..Len(muts)
      /\ Len(run[r].todo) \in Nat
  BY <1>1, Heads
<1>3. PICK m \in 1..Len(muts) : m = run[r].todo[1]
  BY <1>2
<1>4. CASE muts[m].status # "evaluated"
  <2>1. I!NextMutation(r, 0) /\ muts' = muts
    BY <1>2, <1>3, <1>4 DEF I!Approve
  <2> QED
    BY <1>1, <2>1, SkipKeeps
<1>5. CASE muts[m].status = "evaluated"
  <2>1. I!NextMutation(r, 1) /\ muts' = I!Decided(m, "approved", {"iron-evolver"})
    BY <1>2, <1>3, <1>5 DEF I!Approve
  <2>2. run[r].applied + 1 <= Limit
    <3>1. run[r].applied \in Nat
      BY IronConstants DEF IronTypes, Cycles
    <3> QED
      BY <1>1, <3>1, IronConstants
  <2>3. PICK new \in Cycles :
           /\ run' = [run EXCEPT ![r] = new]
           /\ new.pc = "loop" /\ new.signals = <<>> /\ new.applied = run[r].applied + 1
           /\ \A i \in 1..Len(new.todo) : /\ i + 1 \in 1..Len(run[r].todo)
                                          /\ new.todo[i] = run[r].todo[i + 1]
    BY <1>1, <2>1, <2>2, Continues
  <2>4. /\ muts' \in Seq(Mutation) /\ Len(muts') = Len(muts)
        /\ DOMAIN muts = 1..Len(muts) /\ DOMAIN muts' = 1..Len(muts)
        /\ \A k \in 1..Len(muts) : muts'[k].risk = muts[k].risk /\ (k # m => muts'[k] = muts[k])
        /\ muts'[m].status = "approved" /\ muts'[m].approved = muts[m].approved \cup {"iron-evolver"}
    <3>1. "approved" \in I!Status /\ {"iron-evolver"} \in SUBSET I!Approver
      BY DEF I!Status, I!Approver
    <3> QED
      BY <2>1, <3>1, Decides
  <2>5. \A k \in 1..Len(muts) : /\ muts'[k].risk = muts[k].risk
                                /\ "iron-evolver" \in muts'[k].approved <=>
                                      \/ "iron-evolver" \in muts[k].approved
                                      \/ 1 = 1 /\ k = run[r].todo[1]
    BY <1>3, <2>4
  <2>6. I!HighRiskIsBlocked'
    BY <1>1, <1>3, <2>4 DEF Sound, I!HighRiskIsBlocked
  <2>7. run[r].pc \in {"loop", "evaluate", "approve"} /\ new.pc \in {"loop", "evaluate", "approve"}
    BY <1>1, <2>3
  <2> QED
    BY <1>1, <2>3, <2>4, <2>5, <2>6, <2>7, LoopKeeps
<1> QED
  BY <1>4, <1>5

LEMMA HumanKeeps ==
    ASSUME IronInv, NEW m \in DOMAIN muts, I!HumanApproves(m) \/ I!HumanRejects(m)
    PROVE  IronInv'
<1> USE DEF IronInv
<1>1. DOMAIN muts = 1..Len(muts) /\ Len(muts) \in Nat
  BY DEF IronTypes
<1>2. \E st \in I!Status, by \in SUBSET I!Approver :
         muts' = I!Decided(m, st, by) /\ "iron-evolver" \notin by
  <2>1. {"rejected", "approved"} \subseteq I!Status
        /\ {} \in SUBSET I!Approver /\ {"human"} \in SUBSET I!Approver
    BY DEF I!Status, I!Approver
  <2> QED
    BY <2>1 DEF I!HumanApproves, I!HumanRejects
<1>3. PICK st \in I!Status, by \in SUBSET I!Approver :
         muts' = I!Decided(m, st, by) /\ "iron-evolver" \notin by
  BY <1>2
<1>4. setup' = setup /\ stats' = stats /\ run' = run /\ muts[m].status # "new"
  BY DEF I!HumanApproves, I!HumanRejects
<1>5. /\ muts' \in Seq(Mutation) /\ Len(muts') = Len(muts)
      /\ DOMAIN muts' = 1..Len(muts)
      /\ \A k \in 1..Len(muts) : muts'[k].risk = muts[k].risk /\ (k # m => muts'[k] = muts[k])
      /\ muts'[m].approved = muts[m].approved \cup by
  BY <1>1, <1>3, Decides
<1>6. \A k \in 1..Len(muts) :
         "iron-evolver" \in muts'[k].approved <=> "iron-evolver" \in muts[k].approved
  BY <1>3, <1>5
<1>7. ASSUME NEW r \in Runners PROVE \A i \in 1..Len(run[r].todo) : run[r].todo[i] \in 1..Len(muts)
  BY DEF Owned
<1>8. Phases'
  <2>1. ASSUME NEW r \in Runners, run[r].pc \in {"evaluate", "approve"}
        PROVE  setup.safety => muts'[run[r].todo[1]].risk # "high"
    <3>1. run[r].todo \in Seq(Nat) /\ run[r].todo # <<>>
      BY <2>1 DEF Phases, IronTypes, Cycles
    <3>2. 1 \in 1..Len(run[r].todo)
      BY <3>1
    <3> QED
      BY <1>5, <1>7, <2>1, <3>2 DEF Phases
  <2> QED
    BY <1>4, <2>1 DEF Phases
<1>9. Owned'
  BY SMTT(60), <1>4, <1>5, <1>6 DEF Owned
<1>10. I!ByEvolver' = I!ByEvolver
  BY <1>1, <1>5, <1>6 DEF I!ByEvolver
<1>11. I!HighRiskIsBlocked'
  <2>1. setup.safety => muts[m].risk # "high"
    BY <1>4 DEF Sound, I!HighRiskIsBlocked
  <2> QED
    BY <1>1, <1>4, <1>5, <2>1 DEF Sound, I!HighRiskIsBlocked
<1>12. Summed(Applied)' = Summed(Applied) /\ Summed(Allowed)' = Summed(Allowed)
       /\ Summed(Signalled)' = Summed(Signalled)
  BY <1>4 DEF Summed, Applied, Allowed, Signalled
<1>13. Sound'
  BY <1>4, <1>5, <1>10, <1>11, <1>12 DEF Sound
<1> QED
  BY <1>4, <1>5, <1>8, <1>9, <1>13 DEF IronTypes

LEMMA IronNext == IronInv /\ I!Next => IronInv'
<1> SUFFICES ASSUME IronInv, I!Next PROVE IronInv'
  OBVIOUS
<1>1. ASSUME NEW r \in Runners, I!Skip(r) PROVE IronInv'
  BY <1>1, SkipKeeps DEF I!Skip, I!At, I!Stops
<1>2. ASSUME NEW r \in Runners, I!EvaluateFails(r) PROVE IronInv'
  <2>1. run[r].pc = "evaluate" /\ run[r].todo # <<>>
    BY <1>2 DEF I!EvaluateFails, I!At, IronInv, Phases
  <2> QED
    BY <1>2, <2>1, SkipKeeps DEF I!EvaluateFails
<1> QED
  BY <1>1, <1>2, BeginKeeps, EndsKeep, MineKeeps, EvolveKeeps, SubmitKeeps, EvaluateKeeps,
     ApproveKeeps, HumanKeeps DEF I!Next, I!Progress

LEMMA IronRests == IronInv /\ UNCHANGED <<setup, stats, muts, run>> => IronInv'
<1> SUFFICES ASSUME IronInv, setup' = setup, stats' = stats, muts' = muts, run' = run PROVE IronInv'
  OBVIOUS
<1>1. Summed(Applied)' = Summed(Applied) /\ Summed(Allowed)' = Summed(Allowed)
       /\ Summed(Signalled)' = Summed(Signalled)
  BY DEF Summed, Applied, Allowed, Signalled
<1>2. I!ByEvolver' = I!ByEvolver
  BY DEF I!ByEvolver
<1>3. I!HighRiskIsBlocked'
  BY DEF IronInv, Sound, I!HighRiskIsBlocked
<1>4. Sound'
  BY <1>1, <1>2, <1>3 DEF IronInv, Sound
<1> QED
  BY <1>4 DEF IronInv, IronTypes, Phases, Owned

(***************************************************************************)
(* Workflow graphs.                                                        *)
(***************************************************************************)
Onto(f, m, P) == /\ f \in [1..m -> P]
                 /\ \A x, y \in 1..m : f[x] = f[y] => x = y
                 /\ \A i \in P : \E x \in 1..m : f[x] = i

Once(s)   == \A i, j \in DOMAIN s : s[i] = s[j] => i = j
Listed(s) == {s[i] : i \in DOMAIN s}

LEMMA GraphConstants == IsFiniteSet(NodeIDs) /\ NoNode \notin NodeIDs
BY EvolutionAssumption, Cardinalities DEF EvolutionAssumption, G!GraphAssumption

\* As many places as members.
LEMMA OntoCounts ==
    ASSUME NEW m \in Nat, NEW f, NEW P, Onto(f, m, P)
    PROVE  IsFiniteSet(P) /\ Cardinality(P) = m
<1>1. f \in Bijection(1..m, P)
  BY DEF Onto, Bijection, Injection, Surjection, IsInjective
<1>2. IsFiniteSet(1..m) /\ Cardinality(1..m) = m
  BY FS_Interval
<1>3. ExistsBijection(1..m, P)
  BY <1>1 DEF ExistsBijection
<1> QED
  BY <1>2, <1>3, FS_Bijection

\* The entries of s at its places P, one after the other.
LEMMA AtIs ==
    ASSUME NEW U, NEW s \in Seq(U), NEW P \in SUBSET DOMAIN s
    PROVE  /\ IsFiniteSet(P) /\ Cardinality(P) \in Nat
           /\ G!At(s, P) \in Seq(U) /\ Len(G!At(s, P)) = Cardinality(P)
           /\ DOMAIN G!At(s, P) = 1..Cardinality(P)
           /\ \E f : /\ Onto(f, Cardinality(P), P)
                     /\ \A k \in 1..Cardinality(P) : G!At(s, P)[k] = s[f[k]]
<1> DEFINE rank(i) == Cardinality({j \in P : j <= i})
           m == Cardinality(P)
           nth(k) == CHOOSE i \in P : rank(i) = k
           f == [k \in 1..m |-> nth(k)]
           out == [k \in 1..m |-> s[nth(k)]]
<1>1. DOMAIN s = 1..Len(s) /\ Len(s) \in Nat /\ (\A i \in P : i \in Nat /\ s[i] \in U)
  OBVIOUS
<1>2. G!At(s, P) = out
  BY DEF G!At, G!Cardinality, Cardinality
<1>3. /\ IsFiniteSet(P) /\ m \in Nat
      /\ \A k \in 1..m : \E i \in P : rank(i) = k
      /\ \A i \in P : rank(i) \in 1..m
      /\ \A i, h \in P : i < h => rank(i) < rank(h)
  BY <1>1, Ranks
<1>4. ASSUME NEW k \in 1..m PROVE nth(k) \in P /\ rank(nth(k)) = k
  <2>1. \E i \in P : rank(i) = k
    BY <1>3
  <2> HIDE DEF rank
  <2> QED
    BY <2>1
<1>5. ASSUME NEW i \in P, NEW h \in P, rank(i) = rank(h) PROVE i = h
  <2>1. rank(i) \in Nat /\ rank(h) \in Nat
    BY SMTT(60), <1>3
  <2>2. ~(rank(i) < rank(h)) /\ ~(rank(h) < rank(i))
    <3> HIDE DEF rank
    <3> QED
      BY <1>5, <2>1
  <2>3. ~(i < h) /\ ~(h < i)
    <3> HIDE DEF rank
    <3> QED
      BY <1>3, <2>2
  <2> HIDE DEF rank
  <2> QED
    BY <1>1, <2>3
<1> HIDE DEF rank
<1>6. Onto(f, m, P)
  <2>1. f \in [1..m -> P]
    BY <1>4
  <2>2. ASSUME NEW x \in 1..m, NEW y \in 1..m, f[x] = f[y] PROVE x = y
    BY <1>4, <2>2
  <2>3. ASSUME NEW i \in P PROVE \E x \in 1..m : f[x] = i
    <3>1. rank(i) \in 1..m
      BY <1>3
    <3>2. nth(rank(i)) = i
      BY <1>4, <1>5, <3>1
    <3> QED
      BY <3>1, <3>2
  <2> QED
    BY <2>1, <2>2, <2>3 DEF Onto
<1>7. out \in Seq(U) /\ Len(out) = m /\ DOMAIN out = 1..m
  <2>1. out \in [1..m -> U]
    BY <1>1, <1>4
  <2> QED
    BY <1>3, <2>1, Sequence
<1>8. \A k \in 1..m : out[k] = s[f[k]]
  OBVIOUS
<1> HIDE DEF out, f, m
<1>9. \E jt : Onto(jt, m, P) /\ \A k \in 1..m : G!At(s, P)[k] = s[jt[k]]
  BY <1>2, <1>6, <1>8
<1> QED
  BY <1>2, <1>3, <1>7, <1>9 DEF m

\* A list without repetitions of members of a finite set.
LEMMA ListedCounts ==
    ASSUME NEW U, IsFiniteSet(U), NEW s \in Seq(U), Once(s)
    PROVE  /\ Listed(s) \in SUBSET U /\ Cardinality(Listed(s)) = Len(s) /\ Len(s) \in Nat
           /\ Len(s) = Cardinality(U) => Listed(s) = U
<1>1. DOMAIN s = 1..Len(s) /\ Len(s) \in Nat /\ \A i \in 1..Len(s) : s[i] \in U
  OBVIOUS
<1>2. s \in [1..Len(s) -> Listed(s)]
  <2>1. s = [i \in 1..Len(s) |-> s[i]]
    OBVIOUS
  <2>2. \A i \in 1..Len(s) : s[i] \in Listed(s)
    BY <1>1 DEF Listed
  <2> QED
    BY <2>1, <2>2
<1>3. Onto(s, Len(s), Listed(s))
  BY <1>1, <1>2 DEF Onto, Once, Listed
<1>4. Cardinality(Listed(s)) = Len(s)
  BY <1>1, <1>3, OntoCounts
<1>5. Listed(s) \in SUBSET U
  BY <1>1 DEF Listed
<1>6. Len(s) = Cardinality(U) => Listed(s) = U
  BY <1>4, <1>5, FS_Subset
<1> QED
  BY <1>1, <1>4, <1>5, <1>6

----------------------------------------------------------------------------
Wired(g) ==
    /\ g \in G!Graph
    /\ \A i \in DOMAIN g.edges : g.edges[i].from \in g.nodes /\ g.edges[i].to \in g.nodes
    /\ g.entry \in g.nodes \cup {NoNode}

Between(g, u, v) == {i \in DOMAIN g.edges : g.edges[i].from = u /\ g.edges[i].to = v}

LEMMA WiredFinite ==
    ASSUME NEW g, Wired(g)
    PROVE  /\ g.nodes \in SUBSET NodeIDs /\ IsFiniteSet(g.nodes) /\ Cardinality(g.nodes) \in Nat
           /\ g.edges \in Seq(G!Edge) /\ DOMAIN g.edges = 1..Len(g.edges) /\ Len(g.edges) \in Nat
           /\ \A P \in SUBSET DOMAIN g.edges : IsFiniteSet(P) /\ Cardinality(P) \in Nat
<1>1. /\ g.nodes \in SUBSET NodeIDs /\ g.edges \in Seq(G!Edge)
  BY DEF Wired, G!Graph
<1>2. DOMAIN g.edges = 1..Len(g.edges) /\ Len(g.edges) \in Nat
  BY <1>1
<1>3. IsFiniteSet(1..Len(g.edges))
  BY <1>2, FS_Interval
<1>4. \A P \in SUBSET DOMAIN g.edges : IsFiniteSet(P) /\ Cardinality(P) \in Nat
  BY <1>2, <1>3, FS_Subset, FS_CardinalityType
<1> QED
  BY <1>1, <1>2, <1>4, GraphConstants, FS_Subset, FS_CardinalityType

\* The successors of u, each as often as there are edges to it.
LEMMA AdjacentIs ==
    ASSUME NEW g, Wired(g), NEW u
    PROVE  /\ G!Adjacent(g, u) \in Seq(g.nodes)
           /\ \A v : Cardinality({k \in DOMAIN G!Adjacent(g, u) : G!Adjacent(g, u)[k] = v})
                       = Cardinality(Between(g, u, v))
           /\ \A i \in DOMAIN g.edges : g.edges[i].from = u =>
                 g.edges[i].to \in Listed(G!Adjacent(g, u))
           /\ G!Adjacent(g, u) = <<>> => \A i \in DOMAIN g.edges : g.edges[i].from # u
<1> DEFINE P == {i \in DOMAIN g.edges : g.edges[i].from = u}
           es == G!At(g.edges, P)
           vs == G!Adjacent(g, u)
           m == Cardinality(P)
<1>1. g.edges \in Seq(G!Edge) /\ P \in SUBSET DOMAIN g.edges
  BY WiredFinite
<1>2. m \in Nat /\ DOMAIN es = 1..m /\ IsFiniteSet(P)
  <2> HIDE DEF P
  <2> QED
    BY <1>1, AtIs
<1>3. PICK f : Onto(f, m, P) /\ \A k \in 1..m : es[k] = g.edges[f[k]]
  <2> HIDE DEF P
  <2> QED
    BY <1>1, AtIs
<1>4. vs = [k \in DOMAIN es |-> es[k].to]
  BY DEF G!Adjacent
<1> HIDE DEF vs, es, m
<1>5. /\ DOMAIN vs = 1..m
      /\ \A k \in 1..m : f[k] \in P /\ vs[k] = g.edges[f[k]].to
  <2>1. \A k \in 1..m : f[k] \in P
    BY <1>3 DEF Onto
  <2> HIDE DEF P
  <2> QED
    BY <1>2, <1>3, <1>4, <2>1
<1>6. vs \in Seq(g.nodes) /\ Len(vs) = m
  <2>1. \A k \in 1..m : vs[k] \in g.nodes
    BY <1>5 DEF Wired
  <2>2. vs = [k \in 1..m |-> vs[k]]
    BY <1>2, <1>4
  <2>3. vs \in [1..m -> g.nodes]
    BY <2>1, <2>2
  <2> QED
    BY <1>2, <2>3, Sequence
<1>7. ASSUME NEW v
      PROVE  Cardinality({k \in DOMAIN vs : vs[k] = v}) = Cardinality(Between(g, u, v))
  <2> DEFINE K == {k \in DOMAIN vs : vs[k] = v}
             h == [k \in K |-> f[k]]
             Q == Between(g, u, v)
  <2>1. K \in SUBSET (1..m) /\ IsFiniteSet(1..m)
    BY <1>2, <1>5, FS_Interval
  <2>2. IsFiniteSet(K)
    <3> HIDE DEF K
    <3> QED
      BY <2>1, FS_Subset
  <2>3. \A k \in K : f[k] \in Q
    BY <1>5 DEF Between
  <2>4. \A i \in Q : \E k \in K : f[k] = i
    <3>1. \A i \in Q : i \in P /\ g.edges[i].to = v
      BY DEF Between
    <3>2. \A i \in P : \E x \in 1..m : f[x] = i
      BY <1>3 DEF Onto
    <3> QED
      BY <1>5, <3>1, <3>2
  <2>5. \A x, y \in 1..m : f[x] = f[y] => x = y
    BY <1>3 DEF Onto
  <2>6. h \in Bijection(K, Q)
    <3> HIDE DEF K, Q
    <3> QED
      BY <2>1, <2>3, <2>4, <2>5 DEF Bijection, Injection, Surjection, IsInjective
  <2>7. ExistsBijection(K, Q)
    BY <2>6 DEF ExistsBijection
  <2> HIDE DEF K, Q, h
  <2>8. Cardinality(Q) = Cardinality(K)
    BY <2>2, <2>7, FS_Bijection
  <2> QED
    BY <2>8 DEF K, Q
<1>8. ASSUME NEW i \in DOMAIN g.edges, g.edges[i].from = u PROVE g.edges[i].to \in Listed(vs)
  <2>1. PICK x \in 1..m : f[x] = i
    BY <1>3, <1>8 DEF Onto
  <2> QED
    BY <1>5, <2>1 DEF Listed
<1>9. ASSUME vs = <<>>, NEW i \in DOMAIN g.edges, g.edges[i].from = u PROVE FALSE
  <2>1. DOMAIN vs = {}
    BY <1>9
  <2>2. g.edges[i].to \in Listed(vs)
    BY <1>8, <1>9
  <2> QED
    BY <2>1, <2>2 DEF Listed
<1> QED
  BY <1>6, <1>7, <1>8, <1>9 DEF vs

----------------------------------------------------------------------------
\* What can be reached from the entry.
Closed(g, C) == \A i \in DOMAIN g.edges : g.edges[i].from \in C => g.edges[i].to \in C

Reaches(g) == \A C \in SUBSET g.nodes : g.entry \in C /\ Closed(g, C) => C = g.nodes

Wider(g, w) == w \cup {g.edges[i].to : i \in {j \in DOMAIN g.edges : g.edges[j].from \in w}}

Widening(g, n, it) ==
    it = [k \in 0..n |-> IF k = 0 THEN {g.entry} ELSE Wider(g, it[k - 1])]

LEMMA WideningExists == ASSUME NEW g, NEW n \in Nat PROVE \E it : Widening(g, n, it)
<1> DEFINE good == {k \in Nat : \E it : Widening(g, k, it)}
<1>1. 0 \in good
  <2> DEFINE it == [k \in 0..0 |-> {g.entry}]
  <2>1. \A k \in 0..0 : k = 0
    OBVIOUS
  <2>2. Widening(g, 0, it)
    BY <2>1 DEF Widening
  <2> QED
    BY <2>2
<1>2. ASSUME NEW k \in good PROVE k + 1 \in good
  <2>1. PICK it : Widening(g, k, it)
    OBVIOUS
  <2> DEFINE jt == [h \in 0..(k + 1) |-> IF h = k + 1 THEN Wider(g, it[k]) ELSE it[h]]
             up(h) == IF h = 0 THEN {g.entry} ELSE Wider(g, jt[h - 1])
  <2>2. k \in Nat
    OBVIOUS
  <2>3. ASSUME NEW h \in 0..(k + 1) PROVE jt[h] = up(h)
    <3>1. CASE h = k + 1
      <4>1. h # 0 /\ h - 1 = k /\ k \in 0..(k + 1) /\ k # k + 1
        BY <2>2, <3>1
      <4>2. jt[h - 1] = it[k]
        BY <4>1
      <4> QED
        BY <3>1, <4>1, <4>2
    <3>2. CASE h # k + 1
      <4>1. h \in 0..k
        BY <2>2, <3>2
      <4>2. jt[h] = IF h = 0 THEN {g.entry} ELSE Wider(g, it[h - 1])
        BY <2>1, <3>2, <4>1 DEF Widening
      <4>3. h # 0 => h - 1 \in 0..(k + 1) /\ h - 1 # k + 1
        BY <2>2, <4>1
      <4>4. h # 0 => jt[h - 1] = it[h - 1]
        BY <4>3
      <4> HIDE DEF jt
      <4> QED
        BY <4>2, <4>4
    <3> QED
      BY <3>1, <3>2
  <2>4. jt = [h \in 0..(k + 1) |-> jt[h]]
    OBVIOUS
  <2> HIDE DEF jt
  <2>5. jt = [h \in 0..(k + 1) |-> up(h)]
    BY <2>3, <2>4
  <2>6. Widening(g, k + 1, jt)
    BY <2>5 DEF Widening
  <2> QED
    BY <2>2, <2>6
<1>3. good = Nat
  <2> HIDE DEF good
  <2>1. good \in SUBSET Nat
    BY DEF good
  <2> QED
    BY <1>1, <1>2, <2>1, Induction
<1> QED
  BY <1>3

LEMMA ReachableIs ==
    ASSUME NEW g, Cardinality(g.nodes) \in Nat
    PROVE  \E it : Widening(g, Cardinality(g.nodes), it)
                     /\ G!Reachable(g) = it[Cardinality(g.nodes)]
<1> DEFINE n == Cardinality(g.nodes)
           it == CHOOSE within : within = [k \in 0..n |->
                    IF k = 0 THEN {g.entry}
                    ELSE within[k - 1] \cup
                           {g.edges[i].to : i \in {j \in DOMAIN g.edges :
                                                     g.edges[j].from \in within[k - 1]}}]
<1>1. G!Reachable(g) = it[n]
  BY DEF G!Reachable, G!Cardinality, Cardinality
<1>2. \E jt : Widening(g, n, jt)
  BY WideningExists
<1>3. Widening(g, n, it)
  <2>1. \E within : within = [k \in 0..n |->
                    IF k = 0 THEN {g.entry}
                    ELSE within[k - 1] \cup
                           {g.edges[i].to : i \in {j \in DOMAIN g.edges :
                                                     g.edges[j].from \in within[k - 1]}}]
    BY <1>2 DEF Widening, Wider
  <2>2. it = [k \in 0..n |->
                    IF k = 0 THEN {g.entry}
                    ELSE it[k - 1] \cup
                           {g.edges[i].to : i \in {j \in DOMAIN g.edges :
                                                     g.edges[j].from \in it[k - 1]}}]
    BY <2>1
  <2> HIDE DEF it
  <2> QED
    BY <2>2 DEF Widening, Wider
<1> HIDE DEF it
<1> QED
  BY <1>1, <1>3

\* Each step adds a node, or nothing more can be reached; no step leaves a
\* set that is closed.
LEMMA Widens ==
    ASSUME NEW g, Wired(g), g.entry \in g.nodes, NEW n \in Nat, NEW it, Widening(g, n, it)
    PROVE  \A k \in 0..n :
              /\ it[k] \in SUBSET g.nodes /\ g.entry \in it[k]
              /\ Closed(g, it[k]) \/ Cardinality(it[k]) >= k + 1
              /\ \A C : g.entry \in C /\ Closed(g, C) => it[k] \subseteq C
<1> DEFINE fine(k) == /\ it[k] \in SUBSET g.nodes /\ g.entry \in it[k]
                      /\ Closed(g, it[k]) \/ Cardinality(it[k]) >= k + 1
                      /\ \A C : g.entry \in C /\ Closed(g, C) => it[k] \subseteq C
           good == {k \in Nat : k <= n => fine(k)}
<1>1. 0 \in good
  <2>1. it[0] = {g.entry}
    BY DEF Widening
  <2>2. Cardinality({g.entry}) = 1
    BY FS_Singleton
  <2>3. Cardinality(it[0]) >= 0 + 1
    BY <2>1, <2>2
  <2> QED
    BY <2>1, <2>3
<1>2. ASSUME NEW k \in good PROVE k + 1 \in good
  <2>1. SUFFICES ASSUME k + 1 <= n PROVE fine(k + 1)
    OBVIOUS
  <2>2. k \in Nat /\ k <= n /\ k + 1 \in 0..n /\ k + 1 # 0 /\ (k + 1) - 1 = k
    BY <2>1
  <2>3. fine(k)
    BY <2>2
  <2>4. it[k + 1] = Wider(g, it[k])
    BY <2>2 DEF Widening
  <2>5. PICK w : w = it[k]
    OBVIOUS
  <2>6. /\ w \in SUBSET g.nodes /\ g.entry \in w /\ (Closed(g, w) \/ Cardinality(w) >= k + 1)
        /\ \A C : g.entry \in C /\ Closed(g, C) => w \subseteq C
    BY <2>3, <2>5
  <2>7. it[k + 1] = Wider(g, w)
    BY <2>4, <2>5
  <2>8. Wider(g, w) \in SUBSET g.nodes /\ w \subseteq Wider(g, w)
    BY <2>6 DEF Wider, Wired
  <2>9. \A C : g.entry \in C /\ Closed(g, C) => Wider(g, w) \subseteq C
    BY <2>6 DEF Wider, Closed
  <2>10. Closed(g, w) => Wider(g, w) = w
    BY DEF Wider, Closed
  <2>11. ~Closed(g, w) => Cardinality(Wider(g, w)) >= (k + 1) + 1
    <3> SUFFICES ASSUME ~Closed(g, w) PROVE Cardinality(Wider(g, w)) >= (k + 1) + 1
      OBVIOUS
    <3>1. Wider(g, w) # w
      BY DEF Wider, Closed
    <3>2. IsFiniteSet(Wider(g, w)) /\ Cardinality(Wider(g, w)) \in Nat
      BY <2>8, WiredFinite, FS_Subset, FS_CardinalityType
    <3>3. /\ Cardinality(w) <= Cardinality(Wider(g, w)) /\ Cardinality(w) # Cardinality(Wider(g, w))
          /\ Cardinality(w) \in Nat
      BY <2>8, <3>1, <3>2, FS_Subset, FS_CardinalityType
    <3> QED
      BY <2>2, <2>6, <3>2, <3>3
  <2>12. Closed(g, Wider(g, w)) \/ Cardinality(Wider(g, w)) >= (k + 1) + 1
    <3>1. CASE Closed(g, w)
      BY <2>10, <3>1
    <3>2. CASE ~Closed(g, w)
      BY <2>11, <3>2
    <3> QED
      BY <3>1, <3>2
  <2> QED
    BY <2>6, <2>7, <2>8, <2>9, <2>12
<1>3. good = Nat
  <2> HIDE DEF good
  <2>1. good \in SUBSET Nat
    BY DEF good
  <2> QED
    BY <1>1, <1>2, <2>1, Induction
<1>4. ASSUME NEW k \in 0..n PROVE fine(k)
  <2>1. k \in Nat /\ k <= n
    OBVIOUS
  <2>2. k \in good
    BY <1>3, <2>1
  <2> QED
    BY <2>1, <2>2
<1> QED
  BY <1>4

\* As many steps as there are nodes reach all that can be reached.
LEMMA ReachableAll ==
    ASSUME NEW g, Wired(g), g.entry \in g.nodes
    PROVE  (g.nodes \subseteq G!Reachable(g)) <=> Reaches(g)
<1> DEFINE n == Cardinality(g.nodes)
<1>1. n \in Nat /\ IsFiniteSet(g.nodes)
  BY WiredFinite
<1>2. PICK it : Widening(g, n, it) /\ G!Reachable(g) = it[n]
  BY <1>1, ReachableIs
<1>3. PICK w : w = it[n]
  OBVIOUS
<1>4. /\ w \in SUBSET g.nodes /\ g.entry \in w
      /\ Closed(g, w) \/ Cardinality(w) >= n + 1
      /\ \A C : g.entry \in C /\ Closed(g, C) => w \subseteq C
  <2>1. n \in 0..n
    BY <1>1
  <2> QED
    BY <1>1, <1>2, <1>3, <2>1, Widens
<1>5. Closed(g, w)
  <2>1. Cardinality(w) <= n /\ Cardinality(w) \in Nat
    BY <1>1, <1>4, FS_Subset, FS_CardinalityType
  <2>2. ~(Cardinality(w) >= n + 1)
    BY <1>1, <2>1
  <2> QED
    BY <1>4, <2>2
<1>6. ASSUME g.nodes \subseteq w PROVE Reaches(g)
  BY <1>4, <1>6 DEF Reaches
<1>7. ASSUME Reaches(g) PROVE g.nodes \subseteq w
  BY <1>4, <1>5, <1>7 DEF Reaches
<1> QED
  BY <1>2, <1>3, <1>6, <1>7

----------------------------------------------------------------------------
\* Edges are taken from the graph, and none is added.
LEMMA WithoutIs ==
    ASSUME NEW g, Wired(g), NEW n
    PROVE  /\ Wired(G!Without(g, n)) /\ G!Without(g, n).nodes = g.nodes \ {n}
           /\ G!Without(g, n).entry = IF g.entry = n THEN NoNode ELSE g.entry
           /\ \A k \in DOMAIN G!Without(g, n).edges : \E i \in DOMAIN g.edges :
                 /\ G!Without(g, n).edges[k] = g.edges[i]
                 /\ g.edges[i].from # n /\ g.edges[i].to # n
           /\ \A i \in DOMAIN g.edges : g.edges[i].from # n /\ g.edges[i].to # n =>
                 \E k \in DOMAIN G!Without(g, n).edges : G!Without(g, n).edges[k] = g.edges[i]
<1> DEFINE P == {i \in DOMAIN g.edges : n \notin {g.edges[i].from, g.edges[i].to}}
           es == G!At(g.edges, P)
           h == G!Without(g, n)
           m == Cardinality(P)
<1>1. g.edges \in Seq(G!Edge) /\ P \in SUBSET DOMAIN g.edges
  BY WiredFinite
<1>2. es \in Seq(G!Edge) /\ DOMAIN es = 1..m
  <2> HIDE DEF P
  <2> QED
    BY <1>1, AtIs
<1>3. PICK f : Onto(f, m, P) /\ \A k \in 1..m : es[k] = g.edges[f[k]]
  <2> HIDE DEF P
  <2> QED
    BY <1>1, AtIs
<1>4. h = [nodes |-> g.nodes \ {n}, edges |-> es,
           entry |-> IF g.entry = n THEN NoNode ELSE g.entry]
  BY DEF G!Without
<1>5. /\ h.nodes = g.nodes \ {n} /\ h.edges = es
      /\ h.entry = IF g.entry = n THEN NoNode ELSE g.entry
  BY <1>4
<1> HIDE DEF es, h, m
<1>6. \A k \in 1..m : f[k] \in P
  BY <1>3 DEF Onto
<1>7. ASSUME NEW k \in DOMAIN h.edges
      PROVE  \E i \in DOMAIN g.edges : /\ h.edges[k] = g.edges[i]
                                       /\ g.edges[i].from # n /\ g.edges[i].to # n
  <2>1. h.edges[k] = g.edges[f[k]] /\ f[k] \in P
    BY <1>2, <1>3, <1>5, <1>6, <1>7
  <2> QED
    BY <2>1
<1>8. ASSUME NEW i \in DOMAIN g.edges, g.edges[i].from # n, g.edges[i].to # n
      PROVE  \E k \in DOMAIN h.edges : h.edges[k] = g.edges[i]
  <2>1. PICK x \in 1..m : f[x] = i
    BY <1>3, <1>8 DEF Onto
  <2> QED
    BY <1>2, <1>3, <1>5, <2>1
<1>9. h \in G!Graph
  <2>1. g.nodes \in SUBSET NodeIDs /\ g.entry \in NodeIDs \cup {NoNode}
    BY WiredFinite DEF Wired
  <2>2. h.entry \in NodeIDs \cup {NoNode} /\ h.nodes \in SUBSET NodeIDs /\ h.edges \in Seq(G!Edge)
    BY <1>2, <1>5, <2>1
  <2>3. h = [nodes |-> h.nodes, edges |-> h.edges, entry |-> h.entry]
    BY <1>4, <1>5
  <2> QED
    BY <2>2, <2>3 DEF G!Graph
<1>10. Wired(h)
  <2>1. \A i \in DOMAIN g.edges : g.edges[i].from \in g.nodes /\ g.edges[i].to \in g.nodes
    BY DEF Wired
  <2>2. \A k \in DOMAIN h.edges : h.edges[k].from \in h.nodes /\ h.edges[k].to \in h.nodes
    BY <1>5, <1>7, <2>1
  <2>3. h.entry \in h.nodes \cup {NoNode}
    BY <1>5 DEF Wired
  <2> QED
    BY <1>9, <2>2, <2>3 DEF Wired
<1> QED
  BY <1>5, <1>7, <1>8, <1>10 DEF h

\* A graph that loses a node has no cycle that it had not before.
LEMMA WithoutCycles ==
    ASSUME NEW g, Wired(g), NEW n, G!Cyclic(G!Without(g, n)) PROVE G!Cyclic(g)
<1> DEFINE h == G!Without(g, n)
<1>1. PICK U \in (SUBSET h.nodes) \ {{}} : \A a \in U : \E b \in U : <<a, b>> \in G!Precedes(h)
  BY DEF G!Cyclic
<1>2. U \in (SUBSET g.nodes) \ {{}}
  BY <1>1, WithoutIs
<1>3. ASSUME NEW a, NEW b, <<a, b>> \in G!Precedes(h) PROVE <<a, b>> \in G!Precedes(g)
  <2>1. PICK k \in DOMAIN h.edges : <<a, b>> = <<h.edges[k].from, h.edges[k].to>>
    BY <1>3 DEF G!Precedes
  <2>2. PICK i \in DOMAIN g.edges : h.edges[k] = g.edges[i]
    BY WithoutIs
  <2> QED
    BY <2>1, <2>2 DEF G!Precedes
<1> QED
  BY <1>1, <1>2, <1>3 DEF G!Cyclic

\* A node without successors is on no way to another.
LEMMA WithoutReaches ==
    ASSUME NEW g, Wired(g), NEW n, n # g.entry, Reaches(g),
           \A i \in DOMAIN g.edges : g.edges[i].from # n
    PROVE  Reaches(G!Without(g, n))
<1> DEFINE h == G!Without(g, n)
<1>1. h.nodes = g.nodes \ {n} /\ h.entry = g.entry
  BY WithoutIs
<1>2. SUFFICES ASSUME NEW C \in SUBSET h.nodes, h.entry \in C, Closed(h, C) PROVE C = h.nodes
  BY DEF Reaches
<1>3. CASE n \in g.nodes
  <2>1. C \cup {n} \in SUBSET g.nodes /\ g.entry \in C \cup {n}
    BY <1>1, <1>2, <1>3
  <2>2. ASSUME NEW i \in DOMAIN g.edges, g.edges[i].from \in C \cup {n}
        PROVE  g.edges[i].to \in C \cup {n}
    <3>1. CASE g.edges[i].to # n
      <4>1. PICK k \in DOMAIN h.edges : h.edges[k] = g.edges[i]
        BY <3>1, WithoutIs
      <4>2. h.edges[k].from \in C
        BY <2>2, <4>1
      <4> QED
        BY <1>2, <4>1, <4>2 DEF Closed
    <3> QED
      BY <3>1
  <2>3. C \cup {n} = g.nodes
    BY <2>1, <2>2 DEF Reaches, Closed
  <2> QED
    BY <1>1, <1>2, <2>3
<1>4. CASE n \notin g.nodes
  <2>1. C \in SUBSET g.nodes /\ g.entry \in C
    BY <1>1, <1>2
  <2>2. ASSUME NEW i \in DOMAIN g.edges, g.edges[i].from \in C PROVE g.edges[i].to \in C
    <3>1. g.edges[i].to # n
      BY <1>4 DEF Wired
    <3>2. PICK k \in DOMAIN h.edges : h.edges[k] = g.edges[i]
      BY <3>1, WithoutIs
    <3> QED
      BY <1>2, <2>2, <3>2 DEF Closed
  <2>3. C = g.nodes
    BY <2>1, <2>2 DEF Reaches, Closed
  <2> QED
    BY <1>1, <1>4, <2>3
<1> QED
  BY <1>3, <1>4

\* Nodes each of which has a predecessor among them: the fewest such nodes
\* each have a successor among them as well.
LEMMA CycleBack ==
    ASSUME NEW g, Wired(g), NEW U \in SUBSET g.nodes, U # {},
           \A b \in U : \E a \in U : <<a, b>> \in G!Precedes(g)
    PROVE  G!Cyclic(g)
<1> DEFINE fed(C) == \A b \in C : \E a \in C : <<a, b>> \in G!Precedes(g)
           sizes == {k \in Nat : \E C \in SUBSET g.nodes : C # {} /\ fed(C) /\ Cardinality(C) = k}
<1>1. \A C \in SUBSET g.nodes : IsFiniteSet(C) /\ Cardinality(C) \in Nat
  BY WiredFinite, FS_Subset, FS_CardinalityType
<1>2. Cardinality(U) \in sizes
  BY <1>1
<1>3. PICK k \in sizes : \A m \in sizes : k <= m
  <2>1. sizes \in SUBSET Nat /\ sizes # {}
    BY <1>2
  <2> HIDE DEF sizes
  <2> QED
    BY <2>1, Least
<1>4. PICK C \in SUBSET g.nodes : C # {} /\ fed(C) /\ Cardinality(C) = k
  BY <1>3
<1>5. ASSUME NEW a \in C, \A b \in C : <<a, b>> \notin G!Precedes(g) PROVE FALSE
  <2> DEFINE D == C \ {a}
  <2>1. D \in SUBSET g.nodes
    OBVIOUS
  <2>2. D # {}
    <3>1. PICK b \in C : <<b, a>> \in G!Precedes(g)
      BY <1>4
    <3> QED
      BY <1>5, <3>1
  <2>3. fed(D)
    BY <1>4, <1>5
  <2>4. Cardinality(D) \in sizes
    <3> HIDE DEF D
    <3> QED
      BY <1>1, <2>1, <2>2, <2>3
  <2>5. Cardinality(D) = Cardinality(C) - 1 /\ Cardinality(C) \in Nat
    BY <1>1, FS_RemoveElement
  <2> HIDE DEF sizes, D
  <2>6. k <= Cardinality(D)
    BY <1>3, <2>4
  <2> QED
    BY <1>4, <2>5, <2>6
<1> QED
  BY <1>4, <1>5 DEF G!Cyclic

----------------------------------------------------------------------------
\* A list in which every node comes after those that precede it.
Sorts(s, g) ==
    \A i \in DOMAIN g.edges, j \in DOMAIN s : s[j] = g.edges[i].to =>
       \E h \in DOMAIN s : h < j /\ s[h] = g.edges[i].from

\* A graph that can be listed so has no cycle: the last member of one would
\* have a later successor.
LEMMA SortedAcyclic ==
    ASSUME NEW g, Wired(g), NEW s \in Seq(g.nodes), Sorts(s, g), Once(s), Listed(s) = g.nodes
    PROVE  ~G!Cyclic(g)
<1> SUFFICES ASSUME G!Cyclic(g) PROVE FALSE
  OBVIOUS
<1>1. PICK U \in (SUBSET g.nodes) \ {{}} : \A a \in U : \E b \in U : <<a, b>> \in G!Precedes(g)
  BY DEF G!Cyclic
<1>2. DOMAIN s = 1..Len(s) /\ Len(s) \in Nat
  OBVIOUS
<1> DEFINE D == {d \in Nat : \E i \in 1..Len(s) : s[i] \in U /\ d + i = Len(s)}
<1>3. D # {}
  <2>1. PICK i \in 1..Len(s) : s[i] \in U
    <3>1. PICK a \in U : a \in Listed(s)
      <4>1. U # {} /\ U \in SUBSET g.nodes
        BY <1>1
      <4> QED
        BY <4>1
    <3> QED
      BY <1>2, <3>1 DEF Listed
  <2>2. Len(s) - i \in Nat /\ (Len(s) - i) + i = Len(s)
    BY <1>2
  <2>3. Len(s) - i \in D
    BY <2>1, <2>2
  <2> QED
    BY <2>3
<1>4. PICK d \in D : \A e \in D : d <= e
  BY <1>3, Least
<1>5. PICK i \in 1..Len(s) : s[i] \in U /\ d + i = Len(s)
  OBVIOUS
<1>6. PICK b \in U : <<s[i], b>> \in G!Precedes(g)
  BY SMTT(60), <1>1, <1>5
<1>7. PICK k \in DOMAIN g.edges : s[i] = g.edges[k].from /\ b = g.edges[k].to
  BY <1>6 DEF G!Precedes
<1>8. PICK j \in 1..Len(s) : s[j] = b
  BY ZenonT(90), <1>1, <1>2, <1>6 DEF Listed
<1>9. PICK h \in 1..Len(s) : h < j /\ s[h] = s[i]
  <2>1. k \in DOMAIN g.edges /\ j \in DOMAIN s /\ s[j] = g.edges[k].to /\ s[i] = g.edges[k].from
    BY ONLY Zenon, <1>2, <1>7, <1>8
  <2>2. \E h \in DOMAIN s : h < j /\ s[h] = g.edges[k].from
    BY ONLY Zenon, <2>1, Sorts(s, g) DEF Sorts
  <2> QED
    BY ONLY Zenon, <1>2, <2>1, <2>2
<1>10. h = i
  BY ZenonT(90), <1>2, <1>5, <1>9 DEF Once
<1>11. Len(s) - j \in D
  <2>1. \A l \in Nat : \A x \in 1..l : l - x \in Nat /\ (l - x) + x = l
    BY SMTT(60)
  <2>2. Len(s) - j \in Nat /\ (Len(s) - j) + j = Len(s)
    BY Zenon, <1>2, <2>1
  <2> QED
    BY Zenon, <1>6, <1>8, <2>2
<1>12. d <= Len(s) - j /\ d \in Nat
  BY <1>4, <1>11
<1>13. \A l, e \in Nat : \A x, y \in 1..l : e + x = l /\ e <= l - y => ~(x < y)
  OBVIOUS
<1> HIDE DEF D
<1> QED
  BY <1>2, <1>5, <1>9, <1>10, <1>12, <1>13

\* It begins with the entry if that reaches every node.
LEMMA SortedFirst ==
    ASSUME NEW g, Wired(g), NEW s \in Seq(g.nodes), Sorts(s, g), s # <<>>,
           g.entry \in g.nodes, Reaches(g)
    PROVE  Head(s) = g.entry
<1> SUFFICES ASSUME Head(s) # g.entry PROVE FALSE
  OBVIOUS
<1>1. DOMAIN s = 1..Len(s) /\ Len(s) \in Nat /\ 1 \in 1..Len(s) /\ Head(s) = s[1] /\ s[1] \in g.nodes
  OBVIOUS
<1> DEFINE C == g.nodes \ {s[1]}
<1>2. C \in SUBSET g.nodes /\ g.entry \in C
  BY <1>1
<1>3. ASSUME NEW i \in DOMAIN g.edges, g.edges[i].from \in C PROVE g.edges[i].to \in C
  <2>1. g.edges[i].to # s[1]
    <3> SUFFICES ASSUME g.edges[i].to = s[1] PROVE FALSE
      OBVIOUS
    <3>1. PICK h \in DOMAIN s : h < 1
      BY <1>1 DEF Sorts
    <3> QED
      BY <1>1, <3>1
  <2> QED
    BY <2>1 DEF Wired
<1>4. C = g.nodes
  BY <1>2, <1>3 DEF Reaches, Closed
<1> QED
  BY <1>1, <1>4

----------------------------------------------------------------------------
Sorting == [pc : {"none", "queue", "sorted", "cycle"}, queue : Seq(graph.nodes),
            order : Seq(graph.nodes), degree : {<<>>} \cup [graph.nodes -> Nat]]

GraphTypes ==
    /\ Wired(graph) /\ sort \in Sorting
    /\ prune \in [leaves : SUBSET NodeIDs, valid : BOOLEAN, on : BOOLEAN]

\* The edges to n from nodes that are not done.
Waiting(n, done) == {i \in DOMAIN graph.edges : /\ graph.edges[i].to = n
                                                /\ graph.edges[i].from \notin done}

\* While a sort runs, the degree of a node counts its edges from nodes that
\* are not listed, and the nodes of degree zero are listed or in the queue, once.
Queued ==
    sort.pc = "queue" =>
      /\ graph.nodes # {} /\ sort.degree \in [graph.nodes -> Nat]
      /\ Once(sort.queue)
      /\ \A n \in Listed(sort.order) : n \notin Listed(sort.queue)
      /\ \A n \in graph.nodes :
            /\ sort.degree[n] = Cardinality(Waiting(n, Listed(sort.order)))
            /\ sort.degree[n] = 0 <=> n \in Listed(sort.order) \/ n \in Listed(sort.queue)

Ended ==
    /\ sort.pc = "sorted" => Listed(sort.order) = graph.nodes /\ graph.nodes # {}
    /\ sort.pc = "cycle" => G!Cyclic(graph)

\* The leaves still to try stay leaves, and what was valid stays valid.
Pruned ==
    prune.on =>
      /\ sort.pc # "queue" /\ graph.entry \notin prune.leaves
      /\ \A i \in DOMAIN graph.edges : graph.edges[i].from \notin prune.leaves
      /\ prune.valid => /\ graph.entry \in graph.nodes /\ ~G!Cyclic(graph)
                        /\ Reaches(graph)

GraphInv ==
    /\ GraphTypes /\ Once(sort.order) /\ Sorts(sort.order, graph) /\ Queued /\ Ended /\ Pruned

LEMMA GraphHolds == GraphInv => G!TypeOK /\ G!SortIsRight /\ G!PruningKeepsValid
<1> SUFFICES ASSUME GraphInv PROVE G!TypeOK /\ G!SortIsRight /\ G!PruningKeepsValid
  OBVIOUS
<1> USE DEF GraphInv, GraphTypes
<1>1. G!TypeOK
  <2>1. sort.pc \in {"none", "queue", "sorted", "cycle"} /\ sort.order \in Seq(graph.nodes)
        /\ sort.queue \in Seq(graph.nodes)
    BY DEF Sorting
  <2>2. \A i \in DOMAIN graph.edges :
           {graph.edges[i].from, graph.edges[i].to} \subseteq graph.nodes
    BY DEF Wired
  <2>3. graph \in G!Graph /\ graph.entry \in graph.nodes \cup {NoNode}
    BY DEF Wired
  <2> QED
    BY <2>1, <2>2, <2>3 DEF G!TypeOK
<1>2. G!SortIsRight
  <2> DEFINE s == sort.order
  <2>1. s \in Seq(graph.nodes) /\ DOMAIN s = 1..Len(s) /\ Len(s) \in Nat
    BY DEF Sorting
  <2>2. ASSUME sort.pc = "sorted" PROVE G!ToSet(s) = graph.nodes
    BY <2>2 DEF Ended, G!ToSet, Listed
  <2>3. ASSUME sort.pc = "sorted", NEW e \in G!Precedes(graph)
        PROVE  G!Position(e[1]) < G!Position(e[2])
    <3>1. PICK k \in DOMAIN graph.edges : e = <<graph.edges[k].from, graph.edges[k].to>>
      BY DEF G!Precedes
    <3>2. e[2] \in graph.nodes /\ e[1] = graph.edges[k].from /\ e[2] = graph.edges[k].to
      BY <3>1 DEF Wired
    <3>3. PICK j \in DOMAIN s : s[j] = e[2]
      BY <2>3, <3>2 DEF Ended, Listed
    <3>4. PICK h \in DOMAIN s : h < j /\ s[h] = e[1]
      BY <3>2, <3>3 DEF Sorts
    <3>5. G!Position(e[2]) = j /\ G!Position(e[1]) = h
      BY <3>3, <3>4 DEF G!Position, Once
    <3> QED
      BY <3>4, <3>5
  <2>4. ASSUME sort.pc = "sorted", G!Valid(graph, TRUE) PROVE Head(s) = graph.entry
    <3>1. graph.entry \in graph.nodes /\ graph.nodes \subseteq G!Reachable(graph)
      BY <2>4 DEF G!Valid
    <3>2. Reaches(graph)
      BY <3>1, ReachableAll
    <3>3. s # <<>>
      <4>1. Listed(s) # {}
        BY <2>4 DEF Ended
      <4>2. DOMAIN s # {}
        BY <4>1 DEF Listed
      <4> QED
        BY <2>1, <4>2
    <3> QED
      BY <2>1, <3>1, <3>2, <3>3, SortedFirst
  <2> QED
    BY <2>2, <2>3, <2>4 DEF G!SortIsRight, Ended
<1>3. G!PruningKeepsValid
  <2>1. ASSUME prune.on, prune.valid PROVE G!Valid(graph, ~G!Cyclic(graph))
    <3>1. graph.entry \in graph.nodes /\ ~G!Cyclic(graph) /\ Reaches(graph)
      BY <2>1 DEF Pruned
    <3> QED
      BY <3>1, ReachableAll DEF G!Valid
  <2> QED
    BY <2>1 DEF G!PruningKeepsValid
<1> QED
  BY <1>1, <1>2, <1>3

LEMMA NoSorting ==
    /\ \A S0 : G!NoSort.queue \in Seq(S0) /\ G!NoSort.order \in Seq(S0)
    /\ G!NoSort = [pc |-> "none", degree |-> <<>>, queue |-> <<>>, order |-> <<>>]
    /\ G!NoSort.pc = "none" /\ Once(G!NoSort.order) /\ \A g : Sorts(G!NoSort.order, g)
<1>1. /\ G!NoSort = [pc |-> "none", degree |-> <<>>, queue |-> <<>>, order |-> <<>>]
      /\ G!NoSort.order = <<>> /\ G!NoSort.queue = <<>> /\ G!NoSort.pc = "none"
  BY DEF G!NoSort
<1>2. DOMAIN G!NoSort.order = {}
  BY <1>1
<1>3. \A S0 : <<>> \in Seq(S0)
  OBVIOUS
<1> QED
  BY <1>1, <1>2, <1>3 DEF Once, Sorts

\* After an edit nothing is known of a sort.
LEMMA Edits ==
    ASSUME NEW g, Wired(g), G!Edit(g), Pruned',
           prune' \in [leaves : SUBSET NodeIDs, valid : BOOLEAN, on : BOOLEAN]
    PROVE  GraphInv'
<1>1. graph' = g /\ sort' = G!NoSort
  BY DEF G!Edit
<1>2. GraphTypes'
  <2>1. sort' \in Sorting'
    BY <1>1, NoSorting DEF Sorting
  <2> QED
    BY <1>1, <2>1 DEF GraphTypes
<1>3. Queued' /\ Ended'
  BY <1>1, NoSorting DEF Queued, Ended
<1> QED
  BY <1>1, <1>2, <1>3, NoSorting DEF GraphInv

LEMMA GraphInit == G!Init => GraphInv
<1> SUFFICES ASSUME G!Init PROVE GraphInv
  OBVIOUS
<1>1. /\ graph = [nodes |-> {}, edges |-> <<>>, entry |-> NoNode] /\ sort = G!NoSort
      /\ prune = [leaves |-> {}, valid |-> FALSE, on |-> FALSE]
  BY DEF G!Init, G!NoPrune
<1>2. graph.nodes = {} /\ graph.edges = <<>> /\ graph.entry = NoNode /\ ~prune.on
  BY <1>1
<1>3. Wired(graph)
  <2>1. <<>> \in Seq(G!Edge) /\ DOMAIN <<>> = {}
    OBVIOUS
  <2>2. graph \in G!Graph
    BY <1>1, <2>1 DEF G!Graph
  <2> QED
    BY <1>2, <2>1, <2>2 DEF Wired
<1>4. GraphTypes
  <2>1. sort \in Sorting
    BY <1>1, NoSorting DEF Sorting
  <2>2. prune \in [leaves : SUBSET NodeIDs, valid : BOOLEAN, on : BOOLEAN]
    BY <1>1
  <2> QED
    BY <1>3, <2>1, <2>2 DEF GraphTypes
<1>5. Queued /\ Ended /\ Pruned
  BY <1>1, <1>2, NoSorting DEF Queued, Ended, Pruned
<1> QED
  BY <1>1, <1>4, <1>5, NoSorting DEF GraphInv

LEMMA GraphRests == GraphInv /\ UNCHANGED <<graph, sort, prune>> => GraphInv'
<1> SUFFICES ASSUME GraphInv, graph' = graph, sort' = sort, prune' = prune PROVE GraphInv'
  OBVIOUS
<1>1. GraphTypes'
  BY DEF GraphInv, GraphTypes, Sorting
<1>2. Queued'
  BY DEF GraphInv, Queued, Waiting
<1>3. Ended' /\ Pruned'
  BY DEF GraphInv, Ended, Pruned
<1> QED
  BY <1>1, <1>2, <1>3 DEF GraphInv

LEMMA EditKeeps ==
    ASSUME GraphInv, NEW n \in NodeIDs, NEW b \in NodeIDs,
           G!AddNode(n) \/ G!SetEntry(n) \/ G!RemoveNode(n) \/ G!AddEdge(n, b)
    PROVE  GraphInv'
<1> USE DEF GraphInv, GraphTypes
<1>1. /\ ~prune.on /\ prune' = prune
      /\ prune' \in [leaves : SUBSET NodeIDs, valid : BOOLEAN, on : BOOLEAN]
  BY DEF G!AddNode, G!SetEntry, G!RemoveNode, G!AddEdge, G!Editable
<1>2. Pruned'
  BY <1>1 DEF Pruned
<1>3. /\ graph.nodes \in SUBSET NodeIDs /\ graph.edges \in Seq(G!Edge)
      /\ graph.entry \in graph.nodes \cup {NoNode}
      /\ graph = [nodes |-> graph.nodes, edges |-> graph.edges, entry |-> graph.entry]
      /\ \A i \in DOMAIN graph.edges : /\ graph.edges[i].from \in graph.nodes
                                       /\ graph.edges[i].to \in graph.nodes
  BY DEF Wired, G!Graph
<1>4. CASE G!AddNode(n)
  <2>1. PICK g : g = [graph EXCEPT !.nodes = @ \cup {n}]
    OBVIOUS
  <2>2. g = [nodes |-> graph.nodes \cup {n}, edges |-> graph.edges, entry |-> graph.entry]
    BY <1>3, <2>1
  <2>3. g.nodes = graph.nodes \cup {n} /\ g.edges = graph.edges /\ g.entry = graph.entry
    BY <2>2
  <2>4. g \in G!Graph
    BY <1>3, <2>2 DEF G!Graph
  <2>5. Wired(g)
    BY <1>3, <2>3, <2>4 DEF Wired
  <2>6. G!Edit(g)
    BY <1>4, <2>1 DEF G!AddNode
  <2> QED
    BY <1>1, <1>2, <2>5, <2>6, Edits
<1>5. CASE G!SetEntry(n)
  <2>1. PICK g : g = [graph EXCEPT !.entry = n]
    OBVIOUS
  <2>2. g = [nodes |-> graph.nodes, edges |-> graph.edges, entry |-> n]
    BY <1>3, <2>1
  <2>3. g.nodes = graph.nodes /\ g.edges = graph.edges /\ g.entry = n /\ n \in graph.nodes
    BY <1>5, <2>2 DEF G!SetEntry
  <2>4. g \in G!Graph
    BY <1>3, <2>2, <2>3 DEF G!Graph
  <2>5. Wired(g)
    BY <1>3, <2>3, <2>4 DEF Wired
  <2>6. G!Edit(g)
    BY <1>5, <2>1 DEF G!SetEntry
  <2> QED
    BY <1>1, <1>2, <2>5, <2>6, Edits
<1>6. CASE G!RemoveNode(n)
  <2>1. Wired(G!Without(graph, n)) /\ G!Edit(G!Without(graph, n))
    BY <1>6, WithoutIs DEF G!RemoveNode
  <2> QED
    BY <1>1, <1>2, <2>1, Edits
<1>7. CASE G!AddEdge(n, b)
  <2> DEFINE e == [from |-> n, to |-> b]
             es == Append(graph.edges, e)
  <2>1. PICK g : g = [graph EXCEPT !.edges = es]
    OBVIOUS
  <2>2. g = [nodes |-> graph.nodes, edges |-> es, entry |-> graph.entry]
    BY <1>3, <2>1
  <2>3. g.nodes = graph.nodes /\ g.edges = es /\ g.entry = graph.entry
    BY <2>2
  <2>4. n \in graph.nodes /\ b \in graph.nodes /\ e \in G!Edge /\ e.from = n /\ e.to = b
    BY <1>7 DEF G!AddEdge, G!Edge
  <2> HIDE DEF e
  <2>5. /\ es \in Seq(G!Edge) /\ DOMAIN graph.edges = 1..Len(graph.edges)
        /\ DOMAIN es = 1..(Len(graph.edges) + 1) /\ Len(graph.edges) \in Nat
        /\ \A i \in 1..Len(graph.edges) : es[i] = graph.edges[i]
        /\ es[Len(graph.edges) + 1] = e
    BY <1>3, <2>4, Appends
  <2>6. \A i \in DOMAIN es : i \in DOMAIN graph.edges \/ i = Len(graph.edges) + 1
    BY <2>5
  <2> HIDE DEF es
  <2>7. g \in G!Graph
    BY <1>3, <2>2, <2>5 DEF G!Graph
  <2>8. \A i \in DOMAIN g.edges : g.edges[i].from \in g.nodes /\ g.edges[i].to \in g.nodes
    BY <1>3, <2>3, <2>4, <2>5, <2>6
  <2>9. Wired(g)
    BY <1>3, <2>3, <2>7, <2>8 DEF Wired
  <2>10. G!Edit(g)
    BY <1>7, <2>1 DEF G!AddEdge, es, e
  <2> QED
    BY <1>1, <1>2, <2>9, <2>10, Edits
<1> QED
  BY <1>4, <1>5, <1>6, <1>7

LEMMA PruneKeeps ==
    ASSUME GraphInv, NEW n, G!PruneBegins \/ G!PruneLeaf(n) \/ G!PruneEnds
    PROVE  GraphInv'
<1> USE DEF GraphInv, GraphTypes
<1>1. CASE G!PruneBegins
  <2>1. /\ sort.pc = "sorted" /\ graph' = graph /\ sort' = sort
        /\ prune' = [leaves |-> G!Leaves(graph), valid |-> G!Valid(graph, TRUE), on |-> TRUE]
    BY <1>1 DEF G!PruneBegins
  <2>2. /\ prune'.leaves = G!Leaves(graph) /\ prune'.on /\ prune'.valid = G!Valid(graph, TRUE)
    BY <2>1
  <2>3. G!Leaves(graph) \in SUBSET NodeIDs /\ G!Valid(graph, TRUE) \in BOOLEAN
    BY WiredFinite DEF G!Leaves, G!Valid
  <2>4. prune' \in [leaves : SUBSET NodeIDs, valid : BOOLEAN, on : BOOLEAN]
    BY <2>1, <2>3
  <2>5. graph.entry \notin G!Leaves(graph)
    BY DEF G!Leaves
  <2>6. \A i \in DOMAIN graph.edges : graph.edges[i].from \notin G!Leaves(graph)
    BY AdjacentIs DEF G!Leaves
  <2>7. ~G!Cyclic(graph)
    BY <2>1, SortedAcyclic DEF Ended, Sorting
  <2>8. G!Valid(graph, TRUE) => graph.entry \in graph.nodes /\ Reaches(graph)
    BY ReachableAll DEF G!Valid
  <2>9. Pruned'
    <3>1. prune'.valid => graph.entry \in graph.nodes /\ Reaches(graph)
      BY <2>2, <2>8
    <3> QED
      BY <2>1, <2>2, <2>5, <2>6, <2>7, <3>1 DEF Pruned
  <2>10. sort' \in Sorting' /\ Queued' /\ Ended'
    BY <2>1 DEF Sorting, Queued, Ended
  <2> QED
    BY <2>1, <2>4, <2>9, <2>10
<1>2. CASE G!PruneEnds
  <2>1. graph' = graph /\ sort' = sort /\ prune' = [leaves |-> {}, valid |-> FALSE, on |-> FALSE]
    BY <1>2 DEF G!PruneEnds, G!NoPrune
  <2>2. prune' \in [leaves : SUBSET NodeIDs, valid : BOOLEAN, on : BOOLEAN] /\ ~prune'.on
    BY <2>1
  <2>3. sort' \in Sorting' /\ Ended' /\ Pruned'
    BY <2>1, <2>2 DEF Sorting, Ended, Pruned
  <2>4. Queued'
    BY <2>1 DEF Queued, Waiting
  <2> QED
    BY <2>1, <2>2, <2>3, <2>4
<1>3. CASE G!PruneLeaf(n)
  <2>1. /\ prune.on /\ n \in prune.leaves /\ prune' = [prune EXCEPT !.leaves = @ \ {n}]
    BY <1>3 DEF G!PruneLeaf
  <2>2. /\ prune'.leaves = prune.leaves \ {n} /\ prune'.on = prune.on /\ prune'.valid = prune.valid
        /\ prune' \in [leaves : SUBSET NodeIDs, valid : BOOLEAN, on : BOOLEAN]
    BY <2>1
  <2>3. /\ sort.pc # "queue" /\ graph.entry \notin prune.leaves
        /\ \A i \in DOMAIN graph.edges : graph.edges[i].from \notin prune.leaves
        /\ prune.valid => /\ graph.entry \in graph.nodes /\ ~G!Cyclic(graph)
                          /\ Reaches(graph)
    BY <2>1 DEF Pruned
  <2>4. CASE graph' = graph /\ sort' = sort
    <3>1. sort' \in Sorting' /\ Ended'
      BY <2>4 DEF Sorting, Ended
    <3>2. Queued'
      BY <2>3, <2>4 DEF Queued
    <3>3. Pruned'
      BY <2>2, <2>3, <2>4 DEF Pruned
    <3> QED
      BY <2>2, <2>4, <3>1, <3>2, <3>3
  <2>5. CASE G!Edit(G!Without(graph, n))
    <3> DEFINE h == G!Without(graph, n)
    <3>1. graph' = h /\ sort'.pc = "none"
      BY <2>5, NoSorting DEF G!Edit
    <3>2. n # graph.entry /\ \A i \in DOMAIN graph.edges : graph.edges[i].from # n
      BY <2>1, <2>3
    <3>3. /\ Wired(h) /\ h.nodes = graph.nodes \ {n} /\ h.entry = graph.entry
          /\ \A k \in DOMAIN h.edges : \E i \in DOMAIN graph.edges : h.edges[k] = graph.edges[i]
      BY <3>2, WithoutIs
    <3>4. \A k \in DOMAIN h.edges : h.edges[k].from \notin prune.leaves \ {n}
      BY <2>3, <3>3
    <3>5. Reaches(graph) => Reaches(h)
      BY <3>2, WithoutReaches
    <3>6. G!Cyclic(h) => G!Cyclic(graph)
      BY WithoutCycles
    <3> HIDE DEF h
    <3>7. Pruned'
      BY <2>2, <2>3, <3>1, <3>2, <3>3, <3>4, <3>5, <3>6 DEF Pruned
    <3>8. G!Edit(h)
      BY <2>5 DEF h
    <3> QED
      BY <2>2, <3>3, <3>7, <3>8, Edits
  <2> QED
    BY <1>3, <2>4, <2>5 DEF G!PruneLeaf
<1> QED
  BY <1>1, <1>2, <1>3

LEMMA SortEndKeeps == ASSUME GraphInv, G!SortEnds PROVE GraphInv'
<1> USE DEF GraphInv, GraphTypes
<1> DEFINE at == IF Len(sort.order) = Cardinality(graph.nodes) THEN "sorted" ELSE "cycle"
<1>1. /\ sort.pc = "queue" /\ sort.queue = <<>> /\ graph' = graph /\ prune' = prune
      /\ sort' = [sort EXCEPT !.pc = at]
  BY Cardinalities DEF G!SortEnds
<1>2. /\ sort'.pc = at /\ sort'.order = sort.order /\ at \in {"sorted", "cycle"}
      /\ sort' \in Sorting
  BY <1>1 DEF Sorting
<1>3. /\ sort.order \in Seq(graph.nodes) /\ IsFiniteSet(graph.nodes)
  BY WiredFinite DEF Sorting
<1>4. /\ Listed(sort.order) \in SUBSET graph.nodes
      /\ Cardinality(Listed(sort.order)) = Len(sort.order)
      /\ Len(sort.order) = Cardinality(graph.nodes) => Listed(sort.order) = graph.nodes
  BY <1>3, ListedCounts
<1>5. /\ graph.nodes # {}
      /\ \A n \in graph.nodes :
            /\ sort.degree[n] = Cardinality(Waiting(n, Listed(sort.order)))
            /\ sort.degree[n] = 0 <=> n \in Listed(sort.order) \/ n \in Listed(sort.queue)
  BY <1>1 DEF Queued
<1>6. Listed(sort.queue) = {}
  <2>1. DOMAIN sort.queue = {}
    BY <1>1
  <2> QED
    BY <2>1 DEF Listed
<1>7. ASSUME Len(sort.order) # Cardinality(graph.nodes) PROVE G!Cyclic(graph)
  <2> DEFINE U == graph.nodes \ Listed(sort.order)
  <2>1. U \in SUBSET graph.nodes /\ U # {}
    <3>1. Listed(sort.order) # graph.nodes
      BY <1>4, <1>7
    <3> QED
      BY <1>4, <3>1
  <2>2. ASSUME NEW b \in U PROVE \E a \in U : <<a, b>> \in G!Precedes(graph)
    <3> DEFINE W == Waiting(b, Listed(sort.order))
    <3>1. Cardinality(W) # 0
      BY <1>5, <1>6
    <3>2. W # {}
      <4> HIDE DEF W
      <4> QED
        BY <3>1, FS_EmptySet
    <3>3. PICK i \in DOMAIN graph.edges :
             graph.edges[i].to = b /\ graph.edges[i].from \notin Listed(sort.order)
      BY <3>2 DEF Waiting
    <3>4. graph.edges[i].from \in U
      BY <3>3 DEF Wired
    <3>5. <<graph.edges[i].from, b>> \in G!Precedes(graph)
      BY <3>3 DEF G!Precedes
    <3> QED
      BY <3>4, <3>5
  <2> HIDE DEF U
  <2> QED
    BY <2>1, <2>2, CycleBack
<1> HIDE DEF at
<1>8. Ended'
  <2>1. at = "sorted" => Listed(sort.order) = graph.nodes
    BY <1>4 DEF at
  <2>2. at = "cycle" => G!Cyclic(graph)
    BY <1>7 DEF at
  <2> QED
    BY <1>1, <1>2, <1>5, <2>1, <2>2 DEF Ended
<1>9. Queued'
  BY <1>2 DEF Queued
<1>10. Pruned'
  <2>1. ~prune.on
    BY <1>1 DEF Pruned
  <2> QED
    BY <1>1, <2>1 DEF Pruned
<1>11. sort' \in Sorting'
  BY <1>1, <1>2 DEF Sorting
<1> QED
  BY <1>1, <1>2, <1>8, <1>9, <1>10, <1>11

LEMMA SortBeginKeeps == ASSUME GraphInv, G!SortBegins PROVE GraphInv'
<1> USE DEF GraphInv, GraphTypes
<1> DEFINE Z == {n \in graph.nodes : G!InDegree(graph, n) = 0}
           deg == [n \in graph.nodes |-> G!InDegree(graph, n)]
           m == Cardinality(Z)
<1>1. /\ ~prune.on /\ graph' = graph /\ prune' = prune /\ graph.nodes # {}
      /\ \E q \in G!SetToSeqs(Z) :
            sort' = [pc |-> "queue", degree |-> deg, queue |-> q, order |-> <<>>]
  BY DEF G!SortBegins, G!Editable
<1>2. PICK q \in G!SetToSeqs(Z) :
         sort' = [pc |-> "queue", degree |-> deg, queue |-> q, order |-> <<>>]
  BY <1>1
<1>3. IsFiniteSet(Z) /\ m \in Nat /\ Z \in SUBSET graph.nodes
  <2>1. Z \in SUBSET graph.nodes
    OBVIOUS
  <2> HIDE DEF Z
  <2> QED
    BY <2>1, WiredFinite, FS_Subset, FS_CardinalityType
<1> HIDE DEF Z
<1>4. q \in [1..m -> Z] /\ \A i, j \in 1..m : i # j => q[i] # q[j]
  BY Cardinalities DEF G!SetToSeqs
<1>5. q \in Seq(Z) /\ q \in Seq(graph.nodes) /\ Len(q) = m /\ DOMAIN q = 1..m
  BY <1>3, <1>4, Sequence
<1>6. Once(q)
  BY <1>4, <1>5 DEF Once
<1>7. Listed(q) = Z
  BY <1>3, <1>5, <1>6, ListedCounts
<1>8. \A n \in graph.nodes : deg[n] \in Nat /\ deg[n] = Cardinality(Waiting(n, {}))
  <2> SUFFICES ASSUME NEW n \in graph.nodes
               PROVE  deg[n] \in Nat /\ deg[n] = Cardinality(Waiting(n, {}))
    OBVIOUS
  <2>1. Waiting(n, {}) = {i \in DOMAIN graph.edges : graph.edges[i].to = n}
    BY DEF Waiting
  <2>2. deg[n] = Cardinality({i \in DOMAIN graph.edges : graph.edges[i].to = n})
    BY Cardinalities DEF G!InDegree
  <2>3. {i \in DOMAIN graph.edges : graph.edges[i].to = n} \in SUBSET DOMAIN graph.edges
    OBVIOUS
  <2> HIDE DEF deg
  <2> QED
    BY <2>1, <2>2, <2>3, WiredFinite
<1>9. \A n \in graph.nodes : deg[n] = 0 <=> n \in Z
  BY DEF Z
<1>10. deg \in [graph.nodes -> Nat]
  BY <1>8
<1> HIDE DEF deg
<1>11. /\ sort'.pc = "queue" /\ sort'.degree = deg /\ sort'.queue = q /\ sort'.order = <<>>
  BY <1>2
<1>12. DOMAIN sort'.order = {} /\ Listed(sort'.order) = {}
  <2>1. DOMAIN sort'.order = {}
    BY <1>11
  <2> QED
    BY <2>1 DEF Listed
<1>13. Once(sort'.order) /\ Sorts(sort'.order, graph)
  BY <1>12 DEF Once, Sorts
<1>14. sort' \in Sorting'
  <2>1. <<>> \in Seq(graph.nodes)
    OBVIOUS
  <2> QED
    BY <1>1, <1>2, <1>5, <1>10, <2>1 DEF Sorting
<1>15. \A n \in graph.nodes : /\ deg[n] = Cardinality(Waiting(n, {})')
                              /\ deg[n] = 0 <=> n \in {} \/ n \in Z
  BY <1>1, <1>8, <1>9 DEF Waiting
<1>16. Queued'
  BY <1>1, <1>6, <1>7, <1>10, <1>11, <1>12, <1>15 DEF Queued
<1>17. Ended' /\ Pruned'
  BY <1>1, <1>11 DEF Ended, Pruned
<1> QED
  BY <1>1, <1>13, <1>14, <1>16, <1>17

\* The next node of the queue is done: its edges no longer count.
LEMMA LessWaiting ==
    ASSUME Wired(graph), NEW done, NEW u, u \notin done, NEW n
    PROVE  /\ Cardinality(Waiting(n, done)) \in Nat /\ Cardinality(Between(graph, u, n)) \in Nat
           /\ Cardinality(Waiting(n, done \cup {u})) \in Nat
           /\ Cardinality(Waiting(n, done \cup {u}))
                = Cardinality(Waiting(n, done)) - Cardinality(Between(graph, u, n))
<1> DEFINE W == Waiting(n, done \cup {u})
           Q == Between(graph, u, n)
           V == Waiting(n, done)
<1>1. V = W \cup Q /\ W \cap Q = {}
  BY DEF Waiting, Between
<1>2. W \in SUBSET DOMAIN graph.edges /\ Q \in SUBSET DOMAIN graph.edges
      /\ V \in SUBSET DOMAIN graph.edges
  BY DEF Waiting, Between
<1> HIDE DEF V, W, Q
<1>3. /\ IsFiniteSet(W) /\ IsFiniteSet(Q) /\ Cardinality(W) \in Nat /\ Cardinality(Q) \in Nat
      /\ Cardinality(V) \in Nat
  BY <1>2, WiredFinite
<1>4. Cardinality(V) = Cardinality(W) + Cardinality(Q) - Cardinality({})
  BY <1>1, <1>3, FS_Union
<1>5. Cardinality(V) = Cardinality(W) + Cardinality(Q)
  BY <1>3, <1>4, FS_EmptySet
<1>6. Cardinality(W) = Cardinality(V) - Cardinality(Q)
  BY SMTT(60), <1>3, <1>5
<1> QED
  BY <1>3, <1>6 DEF V, W, Q

\* The last place of v in a list.
LEMMA LastPlace ==
    ASSUME NEW U, NEW s \in Seq(U), NEW v \in Listed(s)
    PROVE  \E i \in DOMAIN s : s[i] = v /\ \A j \in DOMAIN s : j > i => s[j] # v
<1>1. DOMAIN s = 1..Len(s) /\ Len(s) \in Nat
  OBVIOUS
<1> DEFINE D == {d \in Nat : \E i \in 1..Len(s) : s[i] = v /\ d + i = Len(s)}
<1>2. D # {}
  <2>1. PICK i \in 1..Len(s) : s[i] = v
    BY <1>1 DEF Listed
  <2>2. Len(s) - i \in Nat /\ (Len(s) - i) + i = Len(s)
    BY <1>1
  <2>3. Len(s) - i \in D
    BY <2>1, <2>2
  <2> QED
    BY <2>3
<1>3. PICK d \in D : \A e \in D : d <= e
  BY <1>2, Least
<1>4. PICK i \in 1..Len(s) : s[i] = v /\ d + i = Len(s)
  OBVIOUS
<1>5. ASSUME NEW j \in 1..Len(s), j > i, s[j] = v PROVE FALSE
  <2>1. \A l \in Nat : \A x \in 1..l : l - x \in Nat /\ (l - x) + x = l
    BY SMTT(60)
  <2>2. Len(s) - j \in D
    BY Zenon, <1>1, <1>5, <2>1
  <2>3. d <= Len(s) - j /\ d \in Nat
    BY <1>3, <2>2
  <2>4. \A l, e \in Nat : \A x, y \in 1..l : e + x = l /\ e <= l - y => ~(y > x)
    OBVIOUS
  <2> HIDE DEF D
  <2> QED
    BY <1>1, <1>4, <1>5, <2>3, <2>4
<1> QED
  BY Zenon, <1>1, <1>4, <1>5

LEMMA OnceTail ==
    ASSUME NEW U, NEW s \in Seq(U), s # <<>>, Once(s)
    PROVE  /\ Head(s) \in U /\ Tail(s) \in Seq(U) /\ Once(Tail(s))
           /\ Head(s) \notin Listed(Tail(s)) /\ Listed(s) = Listed(Tail(s)) \cup {Head(s)}
<1>1. /\ Len(s) \in Nat /\ Len(s) >= 1 /\ DOMAIN s = 1..Len(s) /\ Head(s) = s[1] /\ s[1] \in U
      /\ Tail(s) \in Seq(U) /\ Len(Tail(s)) = Len(s) - 1 /\ DOMAIN Tail(s) = 1..(Len(s) - 1)
      /\ \A i \in 1..(Len(s) - 1) : Tail(s)[i] = s[i + 1]
  OBVIOUS
<1>2. \A l \in Nat : l >= 1 => /\ \A i \in 1..(l - 1) : i + 1 \in 1..l /\ i + 1 # 1
                               /\ \A i, j \in 1..(l - 1) : i + 1 = j + 1 => i = j
                               /\ \A k \in 1..l : k = 1 \/ (k - 1 \in 1..(l - 1) /\ (k - 1) + 1 = k)
                               /\ 1 \in 1..l
  OBVIOUS
<1>3. /\ \A i \in 1..(Len(s) - 1) : i + 1 \in 1..Len(s) /\ i + 1 # 1
      /\ \A i, j \in 1..(Len(s) - 1) : i + 1 = j + 1 => i = j
      /\ \A k \in 1..Len(s) : k = 1 \/ (k - 1 \in 1..(Len(s) - 1) /\ (k - 1) + 1 = k)
      /\ 1 \in 1..Len(s)
  BY <1>1, <1>2
<1>4. \A i, j \in 1..Len(s) : s[i] = s[j] => i = j
  BY <1>1 DEF Once
<1>5. Once(Tail(s))
  BY <1>1, <1>3, <1>4 DEF Once
<1>6. s[1] \notin Listed(Tail(s))
  BY <1>1, <1>3, <1>4 DEF Listed
<1>7. ASSUME NEW v \in Listed(s) PROVE v \in Listed(Tail(s)) \cup {s[1]}
  <2>1. PICK k \in 1..Len(s) : s[k] = v
    BY <1>1 DEF Listed
  <2>2. CASE k = 1
    BY <2>1, <2>2
  <2>3. CASE k # 1
    <3>1. k - 1 \in DOMAIN Tail(s) /\ Tail(s)[k - 1] = v
      BY <1>1, <1>3, <2>1, <2>3
    <3> QED
      BY <3>1 DEF Listed
  <2> QED
    BY <2>2, <2>3
<1>8. ASSUME NEW v \in Listed(Tail(s)) \cup {s[1]} PROVE v \in Listed(s)
  BY <1>1, <1>3 DEF Listed
<1> QED
  BY <1>1, <1>5, <1>6, <1>7, <1>8

Apart(s, t)     == \A v \in Listed(s) : v \notin Listed(t)
Unites(r, s, t) == Listed(r) = Listed(s) \cup Listed(t)

LEMMA OnceJoined ==
    ASSUME NEW U, NEW s \in Seq(U), NEW t \in Seq(U), Once(s), Once(t), Apart(s, t),
           NEW r, r = s \o t
    PROVE  r \in Seq(U) /\ Once(r) /\ Unites(r, s, t)
<1>1. /\ r \in Seq(U) /\ Len(s) \in Nat /\ Len(t) \in Nat /\ Len(r) = Len(s) + Len(t)
      /\ \A i \in 1..Len(s) : r[i] = s[i]
      /\ \A j \in 1..Len(t) : r[Len(s) + j] = t[j]
  <2>1. s \in Seq(U) /\ t \in Seq(U) /\ r = s \o t
    OBVIOUS
  <2> QED
    BY ONLY <2>1, Joined
<1>2. /\ DOMAIN r = 1..(Len(s) + Len(t)) /\ DOMAIN s = 1..Len(s) /\ DOMAIN t = 1..Len(t)
  BY <1>1
<1>3. \A k, l \in Nat : /\ \A i \in 1..(k + l) : i \in 1..k \/ (i - k \in 1..l /\ k + (i - k) = i)
                        /\ \A i \in 1..k : i \in 1..(k + l)
                        /\ \A j \in 1..l : k + j \in 1..(k + l)
  OBVIOUS
<1>4. /\ \A i \in 1..(Len(s) + Len(t)) : \/ i \in 1..Len(s)
                                         \/ i - Len(s) \in 1..Len(t) /\ Len(s) + (i - Len(s)) = i
      /\ \A i \in 1..Len(s) : i \in 1..(Len(s) + Len(t))
      /\ \A j \in 1..Len(t) : Len(s) + j \in 1..(Len(s) + Len(t))
  BY <1>1, <1>3
<1>5. ASSUME NEW i \in 1..(Len(s) + Len(t))
      PROVE  \/ i \in 1..Len(s) /\ r[i] = s[i] /\ r[i] \in Listed(s)
             \/ \E j \in 1..Len(t) : i = Len(s) + j /\ r[i] = t[j] /\ r[i] \in Listed(t)
  <2>1. CASE i \in 1..Len(s)
    BY <1>1, <1>2, <2>1 DEF Listed
  <2>2. CASE i - Len(s) \in 1..Len(t) /\ Len(s) + (i - Len(s)) = i
    <3>1. PICK j \in 1..Len(t) : Len(s) + j = i
      BY <2>2
    <3>2. r[i] = t[j] /\ t[j] \in Listed(t)
      BY <1>1, <1>2, <3>1 DEF Listed
    <3> QED
      BY <3>1, <3>2
  <2> QED
    BY <1>4, <2>1, <2>2
<1>6. ASSUME NEW i \in 1..(Len(s) + Len(t)), NEW k \in 1..(Len(s) + Len(t)), r[i] = r[k]
      PROVE  i = k
  <2>1. CASE i \in 1..Len(s) /\ k \in 1..Len(s) /\ r[i] = s[i] /\ r[k] = s[k]
    BY <1>2, <1>6, <2>1 DEF Once
  <2>2. CASE \E x, y \in 1..Len(t) : /\ i = Len(s) + x /\ r[i] = t[x]
                                     /\ k = Len(s) + y /\ r[k] = t[y]
    BY <1>2, <1>6, <2>2 DEF Once
  <2>3. ~(r[i] \in Listed(s) /\ r[i] \in Listed(t))
    BY DEF Apart
  <2> QED
    BY <1>5, <1>6, <2>1, <2>2, <2>3
<1>7. Once(r)
  BY <1>2, <1>6 DEF Once
<1>8. Listed(r) \subseteq Listed(s) \cup Listed(t)
  BY <1>2, <1>5 DEF Listed
<1>9. Listed(s) \subseteq Listed(r)
  BY <1>1, <1>2, <1>4 DEF Listed
<1>10. ASSUME NEW v \in Listed(t) PROVE v \in Listed(r)
  <2>1. PICK j \in 1..Len(t) : t[j] = v
    BY <1>2 DEF Listed
  <2>2. Len(s) + j \in DOMAIN r /\ r[Len(s) + j] = v
    BY <1>1, <1>2, <1>4, <2>1
  <2> QED
    BY <2>2 DEF Listed
<1> QED
  BY <1>1, <1>7, <1>8, <1>9, <1>10 DEF Unites

Adds(r, s, e) == Listed(r) = Listed(s) \cup {e}

LEMMA OnceAppended ==
    ASSUME NEW U, NEW s \in Seq(U), NEW e \in U, Once(s), e \notin Listed(s),
           NEW r, r = Append(s, e)
    PROVE  r \in Seq(U) /\ Once(r) /\ Adds(r, s, e)
<1>1. r = Append(s, e)
  OBVIOUS
<1>2. /\ r \in Seq(U) /\ Len(s) \in Nat /\ DOMAIN s = 1..Len(s) /\ DOMAIN r = 1..(Len(s) + 1)
      /\ \A i \in 1..Len(s) : r[i] = s[i]
      /\ r[Len(s) + 1] = e
  BY <1>1, Appends
<1>3. /\ \A i \in 1..(Len(s) + 1) : i \in 1..Len(s) \/ i = Len(s) + 1
      /\ \A i \in 1..Len(s) : i \in 1..(Len(s) + 1)
      /\ Len(s) + 1 \in 1..(Len(s) + 1)
  BY <1>2
<1>4. \A i \in 1..Len(s) : s[i] \in Listed(s)
  BY <1>2 DEF Listed
<1>5. Once(r)
  BY <1>2, <1>3, <1>4 DEF Once
<1>6. Adds(r, s, e)
  BY <1>2, <1>3 DEF Listed, Adds
<1> QED
  BY <1>1, <1>2, <1>5, <1>6

\* The nodes that enter the queue: those whose last edges are taken off.
Count(s, v) == Cardinality({k \in DOMAIN s : s[k] = v})

LastOf(s, d) == {i \in DOMAIN s : /\ d[s[i]] = Count(s, s[i])
                                  /\ \A j \in DOMAIN s : j > i => s[j] # s[i]}

\* What enters the queue: the nodes whose degree their edges make up.
Frees(out, s, d) == \A v : v \in Listed(out) <=> Count(s, v) # 0 /\ d[v] = Count(s, v)

LEMMA Freed ==
    ASSUME NEW U, NEW s \in Seq(U), NEW d, NEW out, out = G!At(s, LastOf(s, d))
    PROVE  out \in Seq(U) /\ Once(out) /\ Frees(out, s, d)
<1> DEFINE P == LastOf(s, d)
           m == Cardinality(P)
           at(v) == {k \in DOMAIN s : s[k] = v}
<1>1. P \in SUBSET DOMAIN s /\ DOMAIN s = 1..Len(s) /\ Len(s) \in Nat
  BY DEF LastOf
<1>2. /\ \A i \in P : d[s[i]] = Cardinality(at(s[i])) /\ \A j \in DOMAIN s : j > i => s[j] # s[i]
      /\ \A i \in DOMAIN s : (/\ d[s[i]] = Cardinality(at(s[i]))
                              /\ \A j \in DOMAIN s : j > i => s[j] # s[i]) => i \in P
  BY DEF LastOf, Count
<1>3. out \in Seq(U) /\ DOMAIN out = 1..m /\ m \in Nat
      /\ \E f : Onto(f, m, P) /\ \A k \in 1..m : out[k] = s[f[k]]
  <2>1. s \in Seq(U) /\ P \in SUBSET DOMAIN s
    BY <1>1
  <2> HIDE DEF P
  <2>2. /\ G!At(s, P) \in Seq(U) /\ m \in Nat /\ DOMAIN G!At(s, P) = 1..m
        /\ \E f : Onto(f, m, P) /\ \A k \in 1..m : G!At(s, P)[k] = s[f[k]]
    BY ONLY <2>1, AtIs
  <2> QED
    BY <2>2 DEF P
<1>4. PICK f : Onto(f, m, P) /\ \A k \in 1..m : out[k] = s[f[k]]
  BY <1>3
<1>5. /\ \A k \in 1..m : f[k] \in P
      /\ \A x, y \in 1..m : f[x] = f[y] => x = y
      /\ \A i \in P : \E x \in 1..m : f[x] = i
  BY <1>4 DEF Onto
<1>6. \A v : Cardinality(at(v)) # 0 <=> v \in Listed(s)
  <2>1. \A v : at(v) \in SUBSET (1..Len(s)) /\ (at(v) # {} <=> v \in Listed(s))
    BY <1>1 DEF Listed
  <2>2. IsFiniteSet(1..Len(s))
    BY <1>1, FS_Interval
  <2> HIDE DEF at
  <2>3. \A v : IsFiniteSet(at(v))
    BY <2>1, <2>2, FS_Subset
  <2> QED
    BY <2>1, <2>3, FS_EmptySet
<1> HIDE DEF m, P, at
<1>7. Once(out)
  <2>1. ASSUME NEW x \in 1..m, NEW y \in 1..m, out[x] = out[y] PROVE x = y
    <3>1. s[f[x]] = s[f[y]] /\ f[x] \in P /\ f[y] \in P
      BY <1>4, <1>5, <2>1
    <3>2. ~(f[x] > f[y]) /\ ~(f[y] > f[x])
      BY <1>1, <1>2, <3>1
    <3>3. f[x] \in Nat /\ f[y] \in Nat
      BY <1>1, <3>1
    <3>4. f[x] = f[y]
      BY <3>2, <3>3
    <3> QED
      BY <1>5, <3>4
  <2> QED
    BY <1>3, <2>1 DEF Once
<1>8. ASSUME NEW v \in Listed(out) PROVE v \in Listed(s) /\ d[v] = Cardinality(at(v))
  <2>1. PICK x \in 1..m : v = s[f[x]]
    BY <1>3, <1>4 DEF Listed
  <2>2. f[x] \in P /\ f[x] \in DOMAIN s
    BY <1>1, <1>5
  <2> QED
    BY <1>2, <2>1, <2>2 DEF Listed
<1>9. ASSUME NEW v \in Listed(s), d[v] = Cardinality(at(v)) PROVE v \in Listed(out)
  <2>1. PICK i \in DOMAIN s : s[i] = v /\ \A j \in DOMAIN s : j > i => s[j] # v
    BY LastPlace
  <2>2. i \in P
    BY <1>2, <1>9, <2>1
  <2>3. PICK x \in 1..m : f[x] = i
    BY <1>5, <2>2
  <2> QED
    BY <1>3, <1>4, <2>1, <2>3 DEF Listed
<1>10. \A v : v \in Listed(out) <=> Cardinality(at(v)) # 0 /\ d[v] = Cardinality(at(v))
  BY <1>6, <1>8, <1>9
<1> QED
  BY <1>3, <1>7, <1>10 DEF Count, Frees, at

LEMMA VisitKeeps == ASSUME GraphInv, G!Visit PROVE GraphInv'
<1> USE DEF GraphInv, GraphTypes
<1> DEFINE times(v) == Cardinality({i \in DOMAIN G!Adjacent(graph, Head(sort.queue)) :
                                       G!Adjacent(graph, Head(sort.queue))[i] = v})
           deg == [n \in graph.nodes |-> sort.degree[n] - times(n)]
           last == {i \in DOMAIN G!Adjacent(graph, Head(sort.queue)) :
                      /\ sort.degree[G!Adjacent(graph, Head(sort.queue))[i]]
                           = times(G!Adjacent(graph, Head(sort.queue))[i])
                      /\ \A j \in DOMAIN G!Adjacent(graph, Head(sort.queue)) :
                            j > i => G!Adjacent(graph, Head(sort.queue))[j]
                                       # G!Adjacent(graph, Head(sort.queue))[i]}
           rest == Tail(sort.queue)
           done == Listed(sort.order)
<1>1. PICK u : u = Head(sort.queue)
  OBVIOUS
<1>2. PICK s : s = G!Adjacent(graph, u)
  OBVIOUS
<1>3. PICK freed : freed = G!At(s, LastOf(s, sort.degree))
  BY SMTT(60)
<1>4. /\ sort.pc = "queue" /\ sort.queue # <<>> /\ graph' = graph /\ prune' = prune
      /\ sort' = [pc |-> "queue", degree |-> deg, queue |-> rest \o freed,
                  order |-> Append(sort.order, u)]
  <2>1. G!At(s, LastOf(s, sort.degree)) = G!At(s, last)
    BY <1>1, <1>2 DEF LastOf, Count
  <2> QED
    BY Zenon, <1>1, <1>2, <1>3, <2>1, Cardinalities DEF G!Visit
<1>5. /\ graph.nodes # {} /\ sort.degree \in [graph.nodes -> Nat] /\ Once(sort.queue)
      /\ \A n \in done : n \notin Listed(sort.queue)
      /\ \A n \in graph.nodes :
            /\ sort.degree[n] = Cardinality(Waiting(n, done))
            /\ sort.degree[n] = 0 <=> n \in done \/ n \in Listed(sort.queue)
  BY <1>4 DEF Queued
<1>6. sort.queue \in Seq(graph.nodes) /\ sort.order \in Seq(graph.nodes)
  BY DEF Sorting
<1>7. /\ u \in graph.nodes /\ rest \in Seq(graph.nodes) /\ Once(rest)
      /\ u \notin Listed(rest) /\ Listed(sort.queue) = Listed(rest) \cup {u}
  BY <1>1, <1>4, <1>5, <1>6, OnceTail
<1>8. /\ s \in Seq(graph.nodes)
      /\ \A v : times(v) = Cardinality(Between(graph, u, v))
  BY <1>1, <1>2, AdjacentIs
<1>9. /\ freed \in Seq(graph.nodes) /\ Once(freed)
      /\ \A v : v \in Listed(freed) <=> times(v) # 0 /\ sort.degree[v] = times(v)
  <2>1. \A v : times(v) = Count(s, v)
    BY <1>1, <1>2 DEF Count
  <2> HIDE DEF times
  <2>2. /\ freed \in Seq(graph.nodes) /\ Once(freed)
        /\ \A v : v \in Listed(freed) <=> Count(s, v) # 0 /\ sort.degree[v] = Count(s, v)
    <3>1. s \in Seq(graph.nodes) /\ freed = G!At(s, LastOf(s, sort.degree))
      BY <1>3, <1>8
    <3>2. freed \in Seq(graph.nodes)
      BY ONLY <3>1, Freed
    <3>3. Once(freed)
      BY ONLY <3>1, Freed
    <3>4. Frees(freed, s, sort.degree)
      BY ONLY <3>1, Freed
    <3> QED
      BY <3>2, <3>3, <3>4 DEF Frees
  <2> QED
    BY <2>1, <2>2
<1> HIDE DEF times, last, rest
<1>10. u \notin done
  BY <1>5, <1>7
<1>11. ASSUME NEW n \in graph.nodes
       PROVE  /\ deg[n] \in Nat /\ times(n) \in Nat /\ sort.degree[n] \in Nat
              /\ deg[n] = sort.degree[n] - times(n)
              /\ deg[n] = Cardinality(Waiting(n, done \cup {u}))
  <2> HIDE DEF done
  <2>1. /\ Cardinality(Waiting(n, done)) \in Nat /\ Cardinality(Between(graph, u, n)) \in Nat
        /\ Cardinality(Waiting(n, done \cup {u})) \in Nat
        /\ Cardinality(Waiting(n, done \cup {u}))
             = Cardinality(Waiting(n, done)) - Cardinality(Between(graph, u, n))
    BY <1>10, LessWaiting
  <2>2. deg[n] = sort.degree[n] - times(n)
    OBVIOUS
  <2> HIDE DEF deg
  <2> QED
    BY <1>5, <1>8, <2>1, <2>2
<1>12. deg \in [graph.nodes -> Nat]
  BY <1>11
<1> HIDE DEF deg
<1>13. ASSUME NEW n \in graph.nodes
       PROVE  deg[n] = 0 <=> sort.degree[n] = 0 \/ n \in Listed(freed)
  <2>1. n \in Listed(freed) <=> times(n) # 0 /\ sort.degree[n] = times(n)
    BY <1>9
  <2> QED
    BY <1>11, <2>1
<1>14. PICK q : q = rest \o freed
  OBVIOUS
<1>15. \A v \in Listed(rest) : v \notin Listed(freed)
  <2> SUFFICES ASSUME NEW v \in Listed(rest), v \in Listed(freed) PROVE FALSE
    OBVIOUS
  <2>1. v \in graph.nodes /\ v \in Listed(sort.queue)
    BY <1>7 DEF Listed
  <2>2. sort.degree[v] = 0
    BY <1>5, <2>1
  <2> QED
    BY <1>9, <2>2
<1>16. q \in Seq(graph.nodes) /\ Once(q) /\ Listed(q) = Listed(rest) \cup Listed(freed)
  <2>1. /\ rest \in Seq(graph.nodes) /\ freed \in Seq(graph.nodes) /\ Once(rest) /\ Once(freed)
        /\ Apart(rest, freed) /\ q = rest \o freed
    BY <1>7, <1>9, <1>14, <1>15 DEF Apart
  <2>2. q \in Seq(graph.nodes)
    BY ONLY <2>1, OnceJoined
  <2>3. Once(q)
    BY ONLY <2>1, OnceJoined
  <2>4. Unites(q, rest, freed)
    BY ONLY <2>1, OnceJoined
  <2> QED
    BY <2>2, <2>3, <2>4 DEF Unites
<1>17. PICK o : o = Append(sort.order, u)
  OBVIOUS
<1>18. o \in Seq(graph.nodes) /\ Once(o) /\ Listed(o) = done \cup {u}
  <2>1. /\ sort.order \in Seq(graph.nodes) /\ u \in graph.nodes /\ Once(sort.order)
        /\ u \notin Listed(sort.order) /\ o = Append(sort.order, u)
    BY <1>6, <1>7, <1>10, <1>17
  <2>2. o \in Seq(graph.nodes)
    BY ONLY <2>1, OnceAppended
  <2>3. Once(o)
    BY ONLY <2>1, OnceAppended
  <2>4. Adds(o, sort.order, u)
    BY ONLY <2>1, OnceAppended
  <2> QED
    BY <2>2, <2>3, <2>4 DEF Adds
<1>19. sort' = [pc |-> "queue", degree |-> deg, queue |-> q, order |-> o]
  BY <1>4, <1>14, <1>17
<1>20. sort'.pc = "queue" /\ sort'.degree = deg /\ sort'.queue = q /\ sort'.order = o
  BY <1>19
<1>21. sort' \in Sorting'
  <2>1. [pc |-> "queue", degree |-> deg, queue |-> q, order |-> o] \in Sorting
    BY <1>12, <1>16, <1>18 DEF Sorting
  <2>2. Sorting' = Sorting
    BY <1>4 DEF Sorting
  <2> QED
    BY <1>19, <2>1, <2>2
<1>22. Sorts(o, graph)
  <2>1. /\ Len(sort.order) \in Nat /\ DOMAIN sort.order = 1..Len(sort.order)
        /\ DOMAIN o = 1..(Len(sort.order) + 1)
        /\ \A i \in 1..Len(sort.order) : o[i] = sort.order[i]
        /\ o[Len(sort.order) + 1] = u
    BY <1>6, <1>7, <1>17, Appends
  <2> SUFFICES ASSUME NEW i \in DOMAIN graph.edges, NEW j \in DOMAIN o, o[j] = graph.edges[i].to
               PROVE  \E h \in DOMAIN o : h < j /\ o[h] = graph.edges[i].from
    BY DEF Sorts
  <2>2. CASE j \in 1..Len(sort.order)
    <3>1. PICK h \in DOMAIN sort.order : h < j /\ sort.order[h] = graph.edges[i].from
      BY <2>1, <2>2 DEF Sorts
    <3>2. h \in DOMAIN o /\ o[h] = sort.order[h]
      BY <2>1
    <3> QED
      BY <3>1, <3>2
  <2>3. CASE j = Len(sort.order) + 1
    <3>1. u = graph.edges[i].to /\ sort.degree[u] = 0
      BY <1>5, <1>7, <2>1, <2>3
    <3>2. Cardinality(Waiting(u, done)) = 0
      BY <1>5, <1>7, <3>1
    <3>3. Waiting(u, done) \in SUBSET DOMAIN graph.edges
      BY DEF Waiting
    <3>4. Waiting(u, done) = {}
      <4> HIDE DEF done
      <4> QED
        BY <3>2, <3>3, WiredFinite, FS_EmptySet
    <3>5. graph.edges[i].from \in done
      BY <3>1, <3>4 DEF Waiting
    <3>6. PICK h \in 1..Len(sort.order) : sort.order[h] = graph.edges[i].from
      BY <2>1, <3>5 DEF Listed
    <3>7. h \in DOMAIN o /\ h < j /\ o[h] = sort.order[h]
      BY <2>1, <2>3
    <3> QED
      BY <3>6, <3>7
  <2>4. j \in 1..Len(sort.order) \/ j = Len(sort.order) + 1
    BY <2>1
  <2> QED
    BY <2>2, <2>3, <2>4
<1>23. ASSUME NEW n \in graph.nodes
       PROVE  deg[n] = 0 <=> n \in Listed(o) \/ n \in Listed(q)
  <2>1. sort.degree[n] = 0 <=> n \in done \/ n \in Listed(rest) \/ n = u
    BY <1>5, <1>7
  <2>2. n \in Listed(o) \/ n \in Listed(q) <=> \/ n \in done \/ n = u
                                               \/ n \in Listed(rest) \/ n \in Listed(freed)
    BY <1>16, <1>18
  <2> QED
    BY <1>13, <2>1, <2>2
<1>24. \A n \in Listed(o) : n \notin Listed(q)
  <2> SUFFICES ASSUME NEW n \in Listed(o), n \in Listed(q) PROVE FALSE
    OBVIOUS
  <2>1. n \in done \/ n = u
    BY <1>18
  <2>2. n \notin Listed(rest)
    BY <1>5, <1>7, <2>1
  <2>3. n \in Listed(freed)
    BY <1>16, <2>2
  <2>4. n \in graph.nodes
    BY <1>9, <2>3 DEF Listed
  <2>5. sort.degree[n] = 0
    BY <1>5, <1>7, <2>1, <2>4
  <2> QED
    BY <1>9, <2>3, <2>5
<1>25. Queued'
  <2>1. ASSUME NEW n \in graph.nodes
        PROVE  deg[n] = Cardinality(Waiting(n, Listed(o)))
    BY <1>11, <1>18
  <2>2. ASSUME NEW n \in graph.nodes
        PROVE  sort'.degree[n] = Cardinality(Waiting(n, Listed(sort.order))')
    <3>1. Waiting(n, Listed(sort.order))' = Waiting(n, Listed(o))
      BY <1>4, <1>20 DEF Waiting
    <3> QED
      BY <1>20, <2>1, <3>1
  <2> QED
    BY <1>4, <1>5, <1>12, <1>16, <1>20, <1>23, <1>24, <2>2 DEF Queued
<1>26. Ended'
  BY <1>20 DEF Ended
<1>27. Pruned'
  <2>1. ~prune.on
    BY <1>4 DEF Pruned
  <2> QED
    BY <1>4, <2>1 DEF Pruned
<1> QED
  BY <1>4, <1>18, <1>20, <1>21, <1>22, <1>25, <1>26, <1>27

LEMMA GraphNext == GraphInv /\ G!Next => GraphInv'
<1> SUFFICES ASSUME GraphInv, G!Next PROVE GraphInv'
  OBVIOUS
<1>1. ASSUME NEW n \in NodeIDs, G!AddNode(n) \/ G!SetEntry(n) \/ G!RemoveNode(n) PROVE GraphInv'
  BY <1>1, EditKeeps
<1>2. ASSUME NEW n \in NodeIDs, NEW b \in NodeIDs, G!AddEdge(n, b) PROVE GraphInv'
  BY <1>2, EditKeeps
<1>3. ASSUME NEW n \in NodeIDs, G!PruneLeaf(n) PROVE GraphInv'
  BY <1>3, PruneKeeps
<1>4. ASSUME G!PruneBegins \/ G!PruneEnds PROVE GraphInv'
  BY <1>4, PruneKeeps
<1> QED
  BY <1>1, <1>2, <1>3, <1>4, SortBeginKeeps, VisitKeeps, SortEndKeeps DEF G!Next, G!Progress

(***************************************************************************)
(* The parts side by side.                                                 *)
(***************************************************************************)
Inv ==
    /\ IronInv /\ TraceInv /\ FleetInv /\ GraphInv /\ SearchInv /\ RubricInv /\ AdoptInv
    /\ BaseInv

LEMMA InvInit == Init => Inv
BY IronInit, TraceInit, FleetInit, GraphInit, SearchInit, RubricInit, AdoptInit, BaseInit
   DEF Init, Inv

LEMMA InvNext == Inv /\ [Next]_vars => Inv'
<1> SUFFICES ASSUME Inv, [Next]_vars PROVE Inv'
  OBVIOUS
<1>1. /\ IronInv /\ TraceInv /\ FleetInv /\ GraphInv /\ SearchInv /\ RubricInv /\ AdoptInv
      /\ BaseInv
  BY DEF Inv
<1>2. /\ I!Next \/ UNCHANGED <<setup, stats, muts, run>>
      /\ T!Next \/ UNCHANGED traceVars
      /\ F!Next \/ UNCHANGED fleetVars
      /\ G!Next \/ UNCHANGED <<graph, sort, prune>>
      /\ S!Next \/ UNCHANGED searchVars
      /\ G!RubricNext \/ UNCHANGED rubricVars
      /\ A!Next \/ UNCHANGED adoptVars
      /\ B!Next \/ UNCHANGED baseVars
  BY DEF Next, vars, Iron, Tracing, Fleets, Graph, Search, Rubrics, Adopt, Base,
         ironVars, graphVars
<1>3. IronInv'
  BY <1>1, <1>2, IronNext, IronRests
<1>4. TraceInv'
  BY <1>1, <1>2, TraceNext, TraceRests
<1>5. FleetInv'
  BY <1>1, <1>2, FleetNext, FleetRests
<1>6. GraphInv'
  BY <1>1, <1>2, GraphNext, GraphRests
<1>7. SearchInv'
  BY <1>1, <1>2, SearchNext, SearchRests
<1>8. RubricInv'
  BY <1>1, <1>2, RubricNext, RubricRests
<1>9. AdoptInv'
  BY <1>1, <1>2, AdoptNext, AdoptRests
<1>10. BaseInv'
  BY <1>1, <1>2, BaseNext, BaseRests
<1> QED
  BY <1>3, <1>4, <1>5, <1>6, <1>7, <1>8, <1>9, <1>10 DEF Inv

LEMMA Invariance == Spec => []Inv
BY InvInit, InvNext, PTL DEF Spec

\* Values of the variables of RunCycle, of TraceBridge, of the fleet and its
\* propagation, of the workflow graph, its searches and its rubric, of the
\* sandbox, the review and the applicator, and of the capsule store.
THEOREM TypeCorrect == Spec => []TypeOK
<1>1. Inv => TypeOK
  BY IronHolds, TraceHolds, FleetHolds, GraphHolds, SearchHolds, RubricHolds, AdoptHolds
     DEF Inv, BaseInv, TypeOK
<1> QED
  BY <1>1, Invariance, PTL

\* RunCycle never lets a mutation of high risk through that safety blocks, a
\* run of RunEvolution succeeds only with the approval of its gate,
\* TopologicalSort orders the graph or reports a cycle that is there,
\* pruneLeafNodes keeps a graph valid, CompareGraphs names the better graph,
\* Mine returns only signals that were earned, and one loop runs at a time.
THEOREM DecisionsRight == Spec => []DecisionsAreRight
<1>1. Inv => DecisionsAreRight
  BY IronHolds, AdoptHolds, GraphHolds, RubricHolds, TraceHolds DEF Inv, DecisionsAreRight
<1> QED
  BY <1>1, Invariance, PTL

\* The statistics of IronEvolver are what its cycles did, however they
\* overlap; Propagate reports each node once; the history and the best score
\* of Optimize are those of its trials; ProcessMutations leaves an event for
\* each decision.
THEOREM ReportsTrue == Spec => []ReportsAreTrue
<1>1. Inv => ReportsAreTrue
  BY IronHolds, FleetHolds, SearchHolds, AdoptHolds DEF Inv, ReportsAreTrue
<1> QED
  BY <1>1, Invariance, PTL

\* Traces outlive every Flush that fails, shares every restart, a prompt the
\* trial that fails, and what Apply replaced its Rollback; SyncAll exports the
\* capsules that are stored.
THEOREM NothingLost == Spec => []NothingIsLost
<1>1. Inv => NothingIsLost
  BY TraceHolds, FleetHolds, SearchHolds, AdoptHolds DEF Inv, BaseInv, NothingIsLost
<1> QED
  BY <1>1, Invariance, PTL

=============================================================================
