---------------------------- MODULE AgentProofs ----------------------------
(***************************************************************************)
(* Proofs about MCAgent: the self healer, the member agent's tasks, its    *)
(* concurrent exploration and the model router, each with the invariant    *)
(* that its calls and its reports keep.                                    *)
(***************************************************************************)
EXTENDS MCAgent, FiniteSetTheorems, SequenceTheorems, TLAPS

(***************************************************************************)
(* Cardinalities and breakers.                                             *)
(***************************************************************************)
LEMMA Cardinalities ==
    ASSUME NEW S
    PROVE  /\ H!Cardinality(S) = Cardinality(S) /\ A!Cardinality(S) = Cardinality(S)
           /\ E!Cardinality(S) = Cardinality(S) /\ R!Cardinality(S) = Cardinality(S)
           /\ (H!IsFiniteSet(S) <=> IsFiniteSet(S)) /\ (A!IsFiniteSet(S) <=> IsFiniteSet(S))
           /\ (E!IsFiniteSet(S) <=> IsFiniteSet(S)) /\ (R!IsFiniteSet(S) <=> IsFiniteSet(S))
BY DEF H!Cardinality, A!Cardinality, E!Cardinality, R!Cardinality, Cardinality,
       H!IsFiniteSet, A!IsFiniteSet, E!IsFiniteSet, R!IsFiniteSet, IsFiniteSet

\* Two subsets that differ at most in x.
LEMMA OneMoves ==
    ASSUME NEW S, IsFiniteSet(S), NEW T \in SUBSET S, NEW U \in SUBSET S, NEW x \in S,
           \A y \in S : y # x => (y \in T <=> y \in U)
    PROVE  /\ Cardinality(S) \in Nat /\ Cardinality(T) \in Nat /\ Cardinality(U) \in Nat
           /\ Cardinality(T) <= Cardinality(S) /\ Cardinality(U) <= Cardinality(S)
           /\ Cardinality(U) = Cardinality(T) + (IF x \in U THEN 1 ELSE 0)
                                              - (IF x \in T THEN 1 ELSE 0)
<1>1. /\ IsFiniteSet(T) /\ IsFiniteSet(U)
      /\ Cardinality(T) <= Cardinality(S) /\ Cardinality(U) <= Cardinality(S)
  BY FS_Subset
<1>2. Cardinality(S) \in Nat /\ Cardinality(T) \in Nat /\ Cardinality(U) \in Nat
  BY <1>1, FS_CardinalityType
<1>3. CASE x \in T /\ x \in U
  <2>1. T = U
    BY <1>3
  <2> QED
    BY <1>1, <1>2, <1>3, <2>1
<1>4. CASE x \in T /\ x \notin U
  <2>1. U = T \ {x}
    BY <1>4
  <2>2. Cardinality(U) = Cardinality(T) - 1
    BY <1>1, <1>4, <2>1, FS_RemoveElement
  <2> QED
    BY <1>1, <1>2, <1>4, <2>2
<1>5. CASE x \notin T /\ x \in U
  <2>1. U = T \cup {x}
    BY <1>5
  <2>2. Cardinality(U) = Cardinality(T) + 1
    BY <1>1, <1>5, <2>1, FS_AddElement
  <2> QED
    BY <1>1, <1>2, <1>5, <2>2
<1>6. CASE x \notin T /\ x \notin U
  <2>1. T = U
    BY <1>6
  <2> QED
    BY <1>1, <1>2, <1>6, <2>1
<1> QED
  BY <1>3, <1>4, <1>5, <1>6

----------------------------------------------------------------------------
\* A breaker without a window, n failed calls since its last success or
\* cooldown, c calls under way that may fail and at most `most` of them at once.
Spares(b, n, c, threshold, most) ==
    /\ n > 0 => ~b.cooled
    /\ b.state = "closed" => n <= b.fails /\ b.fails < threshold
    /\ b.state = "half_open" => n = 0
    /\ b.state = "open" => n + c <= threshold - 1 + most

\* A failure: the count rises by at most as much as calls end.
LEMMA SparesFailure ==
    ASSUME NEW b, NEW m, NEW n \in Nat, NEW n2 \in Nat, NEW c \in Nat, NEW c2 \in Nat,
           NEW threshold \in Nat \ {0}, NEW most \in Nat,
           Spares(b, n, c, threshold, most), c <= most,
           n2 <= n + 1, n2 + c2 <= n + c,
           b.fails \in Nat, b.state \in {"closed", "open", "half_open"},
           ~m.cooled, m.state # "half_open",
           m.state = "closed" =>
              b.state = "closed" /\ m.fails = b.fails + 1 /\ m.fails < threshold
    PROVE  Spares(m, n2, c2, threshold, most)
BY DEF Spares

\* A success or a cooldown starts the count anew.
LEMMA SparesReset ==
    ASSUME NEW m, NEW c \in Nat, NEW threshold \in Nat \ {0}, NEW most \in Nat, c <= most,
           m.state = "closed" => m.fails \in Nat /\ m.fails < threshold
    PROVE  Spares(m, 0, c, threshold, most)
BY DEF Spares

\* A call is admitted, or calls end without a word to the breaker.
LEMMA SparesAllow ==
    ASSUME NEW b, NEW m, NEW n \in Nat, NEW c \in Nat, NEW c2 \in Nat,
           NEW threshold \in Nat \ {0}, NEW most \in Nat,
           Spares(b, n, c, threshold, most),
           \/ m = b /\ (c2 <= c \/ b.state # "open")
           \/ b.state = "open" /\ b.cooled /\ m.state = "half_open"
    PROVE  Spares(m, n, c2, threshold, most)
BY DEF Spares

\* The bound that follows.
LEMMA SparesBounds ==
    ASSUME NEW b, NEW n \in Nat, NEW c \in Nat, NEW threshold \in Nat \ {0}, NEW most \in Nat,
           b.fails \in Nat, b.state \in {"closed", "open", "half_open"},
           Spares(b, n, c, threshold, most)
    PROVE  n <= threshold - 1 + most
BY DEF Spares

(***************************************************************************)
(* SelfHealer.                                                             *)
(***************************************************************************)
Calling(l) == {h \in Healers : heal[h].pc = "calling" /\ heal[h].level = l}

\* Heals that may still call level l.
Ahead(l) ==
    {h \in Healers : \/ heal[h].pc = "lookup"
                     \/ heal[h].pc \in {"level", "calling"} /\ heal[h].level <= l}

LevelsFit ==
    \A h \in Healers :
        /\ heal[h].pc = "calling" => heal[h].level \in H!Guarded
        /\ heal[h].pc = "healed" => heal[h].level \in H!Levels

\* A method as the Snapshot under way has or will have it at least.
Loaded(i) == IF read >= i + 3 THEN snap[H!Methods[i]] ELSE metrics[H!Methods[i]]

SnapshotKeepsUp ==
    read >= 2 =>
        snap["successful"] <= Loaded(1) + Loaded(2) + Loaded(3) + Loaded(4) + Loaded(5)

ModelsSpared ==
    \A l \in H!Guarded :
        /\ Spares(healBreaker[l], burst[l], Cardinality(Calling(l)),
                  HealThreshold, Cardinality(Healers))
        /\ burst[l] + Cardinality(Ahead(l)) <= metrics["total"]

HealInv == H!TypeOK /\ LevelsFit /\ H!MetricsAddUp /\ SnapshotKeepsUp /\ ModelsSpared

LEMMA HealConstants ==
    /\ Len(H!Methods) = 5 /\ H!Levels = 1..5 /\ H!Done = 6
    /\ H!Methods[1] = "fingerprint" /\ H!Methods[2] = "structural" /\ H!Methods[3] = "smart_llm"
    /\ H!Methods[4] = "vlm" /\ H!Methods[5] = "vlm_judge"
    /\ H!Guarded = {3, 4, 5}
    /\ IsFiniteSet(Healers) /\ MaxHeals \in Nat /\ HealThreshold \in Nat \ {0}
    /\ Cardinality(Healers) \in Nat
<1>1. /\ Len(H!Methods) = 5 /\ DOMAIN H!Methods = 1..5
      /\ H!Methods[1] = "fingerprint" /\ H!Methods[2] = "structural" /\ H!Methods[3] = "smart_llm"
      /\ H!Methods[4] = "vlm" /\ H!Methods[5] = "vlm_judge"
  BY DEF H!Methods
<1>2. IsFiniteSet(Healers) /\ MaxHeals \in Nat /\ HealThreshold \in Nat \ {0}
  BY AgentAssumption, Cardinalities DEF H!SelfHealerAssumption
<1> QED
  BY <1>1, <1>2, FS_CardinalityType DEF H!Levels, H!Done, H!Guarded

LEMMA HealFields ==
    /\ Len(H!FieldOrder) = 8
    /\ H!FieldOrder[1] = "total" /\ H!FieldOrder[2] = "successful" /\ H!FieldOrder[3] = "failed"
    /\ \A i \in 1..5 : H!FieldOrder[i + 3] = H!Methods[i]
    /\ H!Fields = {"total", "successful", "failed", "fingerprint", "structural",
                   "smart_llm", "vlm", "vlm_judge"}
<1>1. Len(H!FieldOrder) = 8 /\ DOMAIN H!FieldOrder = 1..8
  BY DEF H!FieldOrder, H!Methods
<1>2. /\ H!FieldOrder[1] = "total" /\ H!FieldOrder[2] = "successful" /\ H!FieldOrder[3] = "failed"
      /\ H!FieldOrder[4] = "fingerprint" /\ H!FieldOrder[5] = "structural"
      /\ H!FieldOrder[6] = "smart_llm" /\ H!FieldOrder[7] = "vlm" /\ H!FieldOrder[8] = "vlm_judge"
  BY DEF H!FieldOrder, H!Methods
<1>3. H!Fields = {H!FieldOrder[i] : i \in 1..8}
  BY <1>1 DEF H!Fields
<1> QED
  BY <1>1, <1>2, <1>3, HealConstants

\* The next level lies after l.
LEMMA LaterLevel ==
    ASSUME NEW l \in 0..5
    PROVE  H!NextLevel(l) \in 1..6 /\ H!NextLevel(l) > l
<1> DEFINE later == {k \in Enabled : k > l}
<1>1. later \subseteq 1..5 /\ H!Done = 6
  BY AgentAssumption, HealConstants DEF H!SelfHealerAssumption
<1>2. CASE later = {}
  BY <1>1, <1>2 DEF H!NextLevel
<1>3. CASE later # {}
  <2>1. \E k \in later : \A j \in later : k <= j
    BY <1>1, <1>3
  <2>2. H!NextLevel(l) = CHOOSE k \in later : \A j \in later : k <= j
    BY <1>3 DEF H!NextLevel
  <2> QED
    BY <1>1, <2>1, <2>2
<1> QED
  BY <1>2, <1>3

LEMMA HealBreakers ==
    ASSUME NEW b \in H!BreakerState
    PROVE  /\ b.fails \in Nat /\ b.state \in {"closed", "open", "half_open"}
           /\ H!AfterAllow(b) \in H!BreakerState
           /\ H!AfterSuccess(b) \in H!BreakerState /\ H!AfterSuccess(b).fails = 0
           /\ H!AfterFailure(b) \in H!BreakerState
           /\ ~H!AfterFailure(b).cooled /\ H!AfterFailure(b).state # "half_open"
           /\ H!AfterFailure(b).state = "closed" =>
                 /\ b.state = "closed"
                 /\ H!AfterFailure(b).fails = b.fails + 1 /\ b.fails + 1 < HealThreshold
           /\ H!AfterCooldown(b) \in H!BreakerState
           /\ H!AfterCooldown(b).state = b.state /\ H!AfterCooldown(b).fails = b.fails
<1>1. /\ WindowSize = 0 /\ CounterCap \in Nat /\ CounterCap > 0
      /\ HealThreshold \in Nat \ {0} /\ HealThreshold < CounterCap
  BY AgentAssumption DEF H!SelfHealerAssumption
<1>2. /\ \A ok : H!PushOutcome(b, ok) = b
      /\ H!EffectiveThreshold(b) = HealThreshold
  BY <1>1 DEF H!PushOutcome, H!EffectiveThreshold
<1>3. b.fails \in Nat /\ b.state \in {"closed", "open", "half_open"}
  BY <1>1 DEF H!BreakerState, H!CircuitState
<1>4. \A n \in 0..CounterCap : H!Bump(n) \in 0..CounterCap
                               /\ (H!Bump(n) < HealThreshold => H!Bump(n) = n + 1)
  BY <1>1 DEF H!Bump
<1>0. 0 \in 0..CounterCap
  BY <1>1
<1>5. /\ H!AfterAllow(b) \in H!BreakerState /\ H!AfterCooldown(b) \in H!BreakerState
      /\ H!AfterCooldown(b).state = b.state /\ H!AfterCooldown(b).fails = b.fails
  BY <1>0 DEF H!AfterAllow, H!AfterCooldown, H!BreakerState, H!CircuitState
<1>6. H!AfterSuccess(b) \in H!BreakerState /\ H!AfterSuccess(b).fails = 0
  <2> DEFINE p == [b EXCEPT !.fails = 0, !.succs = H!Bump(@)]
  <2>0. H!Bump(b.succs) \in 0..CounterCap
    BY <1>4 DEF H!BreakerState
  <2>1. p \in H!BreakerState /\ p.fails = 0
    BY <1>0, <2>0 DEF H!BreakerState
  <2>2. H!AfterSuccess(b) = p \/ H!AfterSuccess(b) = [p EXCEPT !.state = "closed"]
    <3>1. H!PushOutcome(p, TRUE) = p
      BY <1>1 DEF H!PushOutcome
    <3> QED
      BY <3>1 DEF H!AfterSuccess
  <2> HIDE DEF p
  <2> QED
    BY <2>1, <2>2 DEF H!BreakerState, H!CircuitState
<1>7. /\ H!AfterFailure(b) \in H!BreakerState
      /\ ~H!AfterFailure(b).cooled /\ H!AfterFailure(b).state # "half_open"
      /\ H!AfterFailure(b).state = "closed" =>
            /\ b.state = "closed"
            /\ H!AfterFailure(b).fails = b.fails + 1 /\ b.fails + 1 < HealThreshold
  <2> DEFINE p == [b EXCEPT !.fails = H!Bump(@), !.succs = 0, !.cooled = FALSE]
  <2>0. H!Bump(b.fails) \in 0..CounterCap
    BY <1>4 DEF H!BreakerState
  <2>1. p \in H!BreakerState /\ p.fails = H!Bump(b.fails) /\ p.state = b.state
    BY <1>0, <2>0 DEF H!BreakerState
  <2>2. ~p.cooled
    BY DEF H!BreakerState
  <2>3. H!AfterFailure(b) = IF \/ p.state = "closed" /\ p.fails >= HealThreshold
                               \/ p.state = "half_open"
                            THEN [p EXCEPT !.state = "open"] ELSE p
    <3>1. H!PushOutcome(p, FALSE) = p
      BY <1>1 DEF H!PushOutcome
    <3> QED
      BY <1>2, <3>1 DEF H!AfterFailure
  <2> HIDE DEF p
  <2>4. H!AfterFailure(b) \in H!BreakerState /\ H!AfterFailure(b).state # "half_open"
        /\ H!AfterFailure(b).fails = p.fails
        /\ (H!AfterFailure(b).state = "closed" => p.state = "closed" /\ ~(p.fails >= HealThreshold))
    BY <2>1, <2>3 DEF H!BreakerState, H!CircuitState
  <2>5. H!AfterFailure(b).cooled = p.cooled
    BY <2>1, <2>3 DEF H!BreakerState
  <2>6. b.fails \in 0..CounterCap /\ p.fails \in 0..CounterCap
    BY <2>1 DEF H!BreakerState
  <2> QED
    BY <1>1, <1>4, <2>1, <2>2, <2>4, <2>5, <2>6
<1> QED
  BY <1>3, <1>5, <1>6, <1>7

Running   == {h \in Healers : heal[h].pc # "idle"}
Finishing == {h \in Healers : heal[h].pc = "healed"}

HealPlaces == {"idle", "lookup", "level", "calling", "healed"}

\* One heal moves on: what the sets of heals count before and after.
LEMMA HealMoves ==
    ASSUME HealInv, NEW h \in Healers, NEW pc \in HealPlaces, NEW l \in 1..6, H!Goto(h, pc, l)
    PROVE  /\ heal' \in [Healers -> [pc : HealPlaces, level : 1..6]]
           /\ heal'[h].pc = pc /\ heal'[h].level = l
           /\ \A g \in Healers : g # h => heal'[g] = heal[g]
           /\ Cardinality(Running) \in Nat /\ Cardinality(Finishing) \in Nat
           /\ Cardinality(Running') = Cardinality(Running)
                 + (IF pc # "idle" THEN 1 ELSE 0) - (IF heal[h].pc # "idle" THEN 1 ELSE 0)
           /\ Cardinality(Finishing') = Cardinality(Finishing)
                 + (IF pc = "healed" THEN 1 ELSE 0) - (IF heal[h].pc = "healed" THEN 1 ELSE 0)
           /\ Cardinality(Running') \in Nat /\ Cardinality(Finishing') \in Nat
           /\ \A k \in H!Guarded :
                 /\ Cardinality(Calling(k)) \in Nat /\ Cardinality(Calling(k)') \in Nat
                 /\ Cardinality(Calling(k)) <= Cardinality(Healers)
                 /\ Cardinality(Calling(k)') <= Cardinality(Healers)
                 /\ Cardinality(Calling(k)') = Cardinality(Calling(k))
                       + (IF pc = "calling" /\ l = k THEN 1 ELSE 0)
                       - (IF heal[h].pc = "calling" /\ heal[h].level = k THEN 1 ELSE 0)
                 /\ Cardinality(Ahead(k)) \in Nat /\ Cardinality(Ahead(k)') \in Nat
                 /\ Cardinality(Ahead(k)') = Cardinality(Ahead(k))
                       + (IF pc = "lookup" \/ (pc \in {"level", "calling"} /\ l <= k) THEN 1 ELSE 0)
                       - (IF \/ heal[h].pc = "lookup"
                             \/ heal[h].pc \in {"level", "calling"} /\ heal[h].level <= k
                          THEN 1 ELSE 0)
<1>1. heal \in [Healers -> [pc : HealPlaces, level : 1..6]]
  BY HealConstants DEF HealInv, H!TypeOK, HealPlaces
<1>2. heal' = [heal EXCEPT ![h] = [pc |-> pc, level |-> l]]
  BY DEF H!Goto
<1>3. /\ heal' \in [Healers -> [pc : HealPlaces, level : 1..6]]
      /\ heal'[h].pc = pc /\ heal'[h].level = l
      /\ \A g \in Healers : g # h => heal'[g] = heal[g]
  BY <1>1, <1>2
<1>4. IsFiniteSet(Healers)
  BY HealConstants
<1>5. /\ Cardinality(Running) \in Nat /\ Cardinality(Running') \in Nat
      /\ Cardinality(Running') = Cardinality(Running)
            + (IF pc # "idle" THEN 1 ELSE 0) - (IF heal[h].pc # "idle" THEN 1 ELSE 0)
  <2>1. /\ Running \in SUBSET Healers /\ Running' \in SUBSET Healers
        /\ \A g \in Healers : g # h => (g \in Running <=> g \in Running')
        /\ (h \in Running <=> heal[h].pc # "idle") /\ (h \in Running' <=> pc # "idle")
    BY <1>3 DEF Running
  <2> QED
    BY <1>4, <2>1, OneMoves
<1>6. /\ Cardinality(Finishing) \in Nat /\ Cardinality(Finishing') \in Nat
      /\ Cardinality(Finishing') = Cardinality(Finishing)
            + (IF pc = "healed" THEN 1 ELSE 0) - (IF heal[h].pc = "healed" THEN 1 ELSE 0)
  <2>1. /\ Finishing \in SUBSET Healers /\ Finishing' \in SUBSET Healers
        /\ \A g \in Healers : g # h => (g \in Finishing <=> g \in Finishing')
        /\ (h \in Finishing <=> heal[h].pc = "healed") /\ (h \in Finishing' <=> pc = "healed")
    BY <1>3 DEF Finishing
  <2> QED
    BY <1>4, <2>1, OneMoves
<1>7. ASSUME NEW k \in H!Guarded
      PROVE  /\ Cardinality(Calling(k)) \in Nat /\ Cardinality(Calling(k)') \in Nat
             /\ Cardinality(Calling(k)) <= Cardinality(Healers)
             /\ Cardinality(Calling(k)') <= Cardinality(Healers)
             /\ Cardinality(Calling(k)') = Cardinality(Calling(k))
                   + (IF pc = "calling" /\ l = k THEN 1 ELSE 0)
                   - (IF heal[h].pc = "calling" /\ heal[h].level = k THEN 1 ELSE 0)
  <2>1. /\ Calling(k) \in SUBSET Healers /\ Calling(k)' \in SUBSET Healers
        /\ \A g \in Healers : g # h => (g \in Calling(k) <=> g \in Calling(k)')
        /\ h \in Calling(k) <=> heal[h].pc = "calling" /\ heal[h].level = k
        /\ h \in Calling(k)' <=> pc = "calling" /\ l = k
    BY <1>3 DEF Calling
  <2> QED
    BY <1>4, <2>1, OneMoves
<1>8. ASSUME NEW k \in H!Guarded
      PROVE  /\ Cardinality(Ahead(k)) \in Nat /\ Cardinality(Ahead(k)') \in Nat
             /\ Cardinality(Ahead(k)') = Cardinality(Ahead(k))
                   + (IF pc = "lookup" \/ (pc \in {"level", "calling"} /\ l <= k) THEN 1 ELSE 0)
                   - (IF \/ heal[h].pc = "lookup"
                         \/ heal[h].pc \in {"level", "calling"} /\ heal[h].level <= k
                      THEN 1 ELSE 0)
  <2>1. /\ Ahead(k) \in SUBSET Healers /\ Ahead(k)' \in SUBSET Healers
        /\ \A g \in Healers : g # h => (g \in Ahead(k) <=> g \in Ahead(k)')
        /\ h \in Ahead(k) <=> \/ heal[h].pc = "lookup"
                              \/ heal[h].pc \in {"level", "calling"} /\ heal[h].level <= k
        /\ h \in Ahead(k)' <=> pc = "lookup" \/ (pc \in {"level", "calling"} /\ l <= k)
    BY <1>3 DEF Ahead
  <2> QED
    BY <1>4, <2>1, OneMoves
<1> QED
  BY <1>3, <1>5, <1>6, <1>7, <1>8

\* Counters in Nat that add up stay within the bound on the calls.
LEMMA CountersBounded ==
    ASSUME NEW m \in [H!Fields -> Nat], NEW n \in Nat, NEW k \in Nat, m["total"] <= MaxHeals,
           m["total"] = m["successful"] + m["failed"] + n,
           H!AllMethods(m) = m["successful"] + k, k <= n
    PROVE  m \in [H!Fields -> 0..MaxHeals]
<1>1. H!AllMethods(m) <= MaxHeals /\ m["successful"] <= MaxHeals /\ m["failed"] <= MaxHeals
  BY HealFields, HealConstants DEF H!AllMethods
<1>2. \A f \in H!Fields : m[f] <= MaxHeals
  BY <1>1, HealFields, HealConstants DEF H!AllMethods
<1> QED
  BY <1>2, HealConstants

\* A counter rises by one.
LEMMA Counts ==
    ASSUME HealInv, NEW f \in H!Fields, H!Count(f)
    PROVE  /\ metrics' \in [H!Fields -> Nat] /\ metrics \in [H!Fields -> Nat]
           /\ metrics'[f] = metrics[f] + 1
           /\ \A g \in H!Fields : g # f => metrics'[g] = metrics[g]
<1>1. metrics \in [H!Fields -> Nat]
  BY HealConstants DEF HealInv, H!TypeOK
<1>2. metrics' = [metrics EXCEPT ![f] = @ + 1]
  BY DEF H!Count
<1> QED
  BY <1>1, <1>2

\* The snapshot keeps up with counters that only rise.
LEMMA SnapshotWaits ==
    ASSUME HealInv, UNCHANGED <<snap, read>>, metrics' \in [H!Fields -> Nat],
           \A f \in H!Fields : metrics'[f] >= metrics[f]
    PROVE  SnapshotKeepsUp'
<1>1. /\ metrics \in [H!Fields -> Nat] /\ snap \in [H!Fields -> Nat] /\ read \in 0..8
  BY HealConstants, HealFields DEF HealInv, H!TypeOK
<1>2. \A i \in 1..5 : Loaded(i) \in Nat /\ Loaded(i)' \in Nat /\ Loaded(i)' >= Loaded(i)
  <2>1. \A i \in 1..5 : H!Methods[i] \in H!Fields
    BY HealConstants, HealFields
  <2> QED
    BY <1>1, <2>1 DEF Loaded
<1>3. snap["successful"] \in Nat
  BY <1>1, HealFields
<1> QED
  BY <1>2, <1>3 DEF HealInv, SnapshotKeepsUp

LEMMA AddsUp ==
    H!MetricsAddUp <=> /\ metrics["total"] = metrics["successful"] + metrics["failed"]
                                                 + Cardinality(Running)
                       /\ H!AllMethods(metrics) = metrics["successful"] + Cardinality(Finishing)
BY Cardinalities DEF H!MetricsAddUp, Running, Finishing

LEMMA AddsUpNext ==
    H!MetricsAddUp' <=> /\ metrics'["total"] = metrics'["successful"] + metrics'["failed"]
                                                  + Cardinality(Running')
                        /\ H!AllMethods(metrics') = metrics'["successful"] + Cardinality(Finishing')
BY Cardinalities DEF H!MetricsAddUp, H!AllMethods, Running, Finishing

\* What is left to show of a step of one heal: where it goes, what it counts
\* and what the breakers hear.
LEMMA HealerStep ==
    ASSUME HealInv, NEW h \in Healers, NEW pc \in HealPlaces, NEW l \in 1..6, H!Goto(h, pc, l),
           pc = "calling" => l \in H!Guarded, pc = "healed" => l \in 1..5,
           UNCHANGED <<snap, read>>,
           metrics' \in [H!Fields -> Nat], metrics'["total"] <= MaxHeals,
           \A f \in H!Fields : metrics'[f] >= metrics[f],
           H!MetricsAddUp',
           healBreaker' \in [H!Guarded -> H!BreakerState],
           burst' \in [H!Guarded -> Nat],
           ModelsSpared'
    PROVE  HealInv'
<1>1. /\ heal' \in [Healers -> [pc : HealPlaces, level : 1..6]]
      /\ heal'[h].pc = pc /\ heal'[h].level = l
      /\ \A g \in Healers : g # h => heal'[g] = heal[g]
      /\ Cardinality(Running') \in Nat /\ Cardinality(Finishing') \in Nat
      /\ \A k \in H!Guarded : Cardinality(Ahead(k)') \in Nat
  BY HealMoves
<1>2. LevelsFit'
  BY <1>1, HealConstants DEF HealInv, LevelsFit
<1>3. SnapshotKeepsUp'
  BY SnapshotWaits
<1>4. metrics' \in [H!Fields -> 0..MaxHeals]
  <2>1. Cardinality(Finishing') <= Cardinality(Running')
    <3>1. Finishing' \subseteq Running' /\ Running' \subseteq Healers
      BY DEF Finishing, Running
    <3> QED
      BY <3>1, HealConstants, FS_Subset
  <2> QED
    BY <1>1, <2>1, AddsUpNext, CountersBounded
<1>5. burst' \in [H!Guarded -> 0..MaxHeals]
  <2>1. ASSUME NEW k \in H!Guarded PROVE burst'[k] <= MaxHeals
    <3>1. burst'[k] + Cardinality(Ahead(k)') <= metrics'["total"] /\ metrics'["total"] \in Nat
      BY HealFields DEF ModelsSpared
    <3> QED
      BY <1>1, <3>1, HealConstants
  <2> QED
    BY <2>1, HealConstants
<1>6. H!TypeOK'
  BY <1>1, <1>4, <1>5, HealConstants DEF HealInv, H!TypeOK, HealPlaces
<1> QED
  BY <1>2, <1>3, <1>6 DEF HealInv

\* A step the breakers do not hear of, by which no call of a model begins and
\* no level comes back.
LEMMA QuietStep ==
    ASSUME HealInv, NEW h \in Healers, NEW pc \in HealPlaces, NEW l \in 1..6, H!Goto(h, pc, l),
           pc = "calling" => l \in H!Guarded, pc = "healed" => l \in 1..5,
           UNCHANGED <<healBreaker, burst, snap, read>>,
           metrics' \in [H!Fields -> Nat], metrics'["total"] <= MaxHeals,
           \A f \in H!Fields : metrics'[f] >= metrics[f],
           H!MetricsAddUp',
           pc # "calling",
           \/ pc = "lookup" /\ metrics'["total"] = metrics["total"] + 1
           \/ pc = "level" /\ heal[h].pc = "lookup"
           \/ pc = "level" /\ heal[h].pc \in {"level", "calling"} /\ l > heal[h].level
           \/ pc \in {"idle", "healed"}
    PROVE  HealInv'
<1>1. /\ healBreaker \in [H!Guarded -> H!BreakerState] /\ burst \in [H!Guarded -> Nat]
      /\ metrics \in [H!Fields -> Nat] /\ heal[h].level \in 1..6
  BY SMTT(60), HealConstants DEF HealInv, H!TypeOK
<1>2. ASSUME NEW k \in H!Guarded
      PROVE  /\ Spares(healBreaker'[k], burst'[k], Cardinality(Calling(k)'),
                       HealThreshold, Cardinality(Healers))
             /\ burst'[k] + Cardinality(Ahead(k)') <= metrics'["total"]
  <2>1. /\ Cardinality(Calling(k)) \in Nat /\ Cardinality(Calling(k)') \in Nat
        /\ Cardinality(Calling(k)') <= Cardinality(Calling(k))
        /\ Cardinality(Ahead(k)) \in Nat /\ Cardinality(Ahead(k)') \in Nat
        /\ Cardinality(Ahead(k)') = Cardinality(Ahead(k))
              + (IF pc = "lookup" \/ (pc = "level" /\ l <= k) THEN 1 ELSE 0)
              - (IF \/ heal[h].pc = "lookup"
                    \/ heal[h].pc \in {"level", "calling"} /\ heal[h].level <= k
                 THEN 1 ELSE 0)
    BY HealMoves
  <2>2. /\ Spares(healBreaker[k], burst[k], Cardinality(Calling(k)),
                  HealThreshold, Cardinality(Healers))
        /\ burst[k] + Cardinality(Ahead(k)) <= metrics["total"]
    BY DEF HealInv, ModelsSpared
  <2>3. Spares(healBreaker'[k], burst'[k], Cardinality(Calling(k)'),
               HealThreshold, Cardinality(Healers))
    BY ZenonT(90), <1>1, <2>1, <2>2, SparesAllow, HealConstants
  <2>4. k \in 1..5 /\ metrics["total"] \in Nat /\ metrics'["total"] \in Nat
        /\ metrics'["total"] >= metrics["total"] /\ burst[k] \in Nat
    BY <1>1, HealConstants, HealFields
  <2>5. \/ Cardinality(Ahead(k)') <= Cardinality(Ahead(k))
        \/ pc = "lookup" /\ Cardinality(Ahead(k)') <= Cardinality(Ahead(k)) + 1
    BY <1>1, <2>1, <2>4
  <2> QED
    BY <2>1, <2>2, <2>3, <2>4, <2>5
<1> QED
  BY <1>1, <1>2, HealerStep DEF ModelsSpared

\* Heals that are neither counted nor heard of.
LEMMA SilentStep ==
    ASSUME HealInv, NEW h \in Healers, NEW l \in 1..6, H!Goto(h, "level", l),
           UNCHANGED <<healBreaker, burst, snap, read, metrics>>,
           \/ heal[h].pc = "lookup"
           \/ heal[h].pc \in {"level", "calling"} /\ l > heal[h].level
    PROVE  HealInv'
<1>1. metrics \in [H!Fields -> Nat] /\ metrics["total"] <= MaxHeals
  BY HealConstants, HealFields DEF HealInv, H!TypeOK
<1>2. "level" \in HealPlaces
  BY DEF HealPlaces
<1>3. /\ Cardinality(Running) \in Nat /\ Cardinality(Finishing) \in Nat
      /\ Cardinality(Running') = Cardinality(Running) + 1 - 1
      /\ Cardinality(Finishing') = Cardinality(Finishing) + 0 - 0
  BY <1>2, HealMoves
<1>4. H!MetricsAddUp'
  BY <1>3, AddsUp, AddsUpNext DEF HealInv
<1>5. \A f \in H!Fields : metrics'[f] >= metrics[f]
  BY <1>1
<1> QED
  BY <1>1, <1>2, <1>4, <1>5, QuietStep

LEMMA BeginHeal == ASSUME HealInv, NEW h \in Healers, H!Begin(h) PROVE HealInv'
<1>1. /\ heal[h].pc = "idle" /\ metrics["total"] < MaxHeals
      /\ H!Count("total") /\ H!Goto(h, "lookup", 1)
      /\ UNCHANGED <<healBreaker, snap, read, burst>>
  BY DEF H!Begin
<1>2. "lookup" \in HealPlaces /\ "total" \in H!Fields /\ 1 \in 1..6
  BY HealFields DEF HealPlaces
<1>3. /\ metrics' \in [H!Fields -> Nat] /\ metrics \in [H!Fields -> Nat]
      /\ metrics'["total"] = metrics["total"] + 1
      /\ \A g \in H!Fields : g # "total" => metrics'[g] = metrics[g]
  BY <1>1, <1>2, Counts
<1>4. /\ Cardinality(Running) \in Nat /\ Cardinality(Finishing) \in Nat
      /\ Cardinality(Running') = Cardinality(Running) + 1 - 0
      /\ Cardinality(Finishing') = Cardinality(Finishing) + 0 - 0
  BY <1>1, <1>2, HealMoves
<1>5. H!MetricsAddUp'
  BY <1>3, <1>4, AddsUp, AddsUpNext, HealFields DEF HealInv, H!AllMethods
<1>6. metrics'["total"] <= MaxHeals /\ \A f \in H!Fields : metrics'[f] >= metrics[f]
  BY <1>1, <1>2, <1>3, HealConstants
<1> QED
  BY <1>1, <1>2, <1>3, <1>5, <1>6, QuietStep

\* A method found a selector and is counted.
LEMMA MethodHeals ==
    ASSUME HealInv, NEW h \in Healers, NEW l \in 1..5, heal[h].pc \in {"level", "calling"},
           H!Count(H!Methods[l]), H!Goto(h, "healed", l),
           UNCHANGED <<healBreaker, snap, read, burst>>
    PROVE  HealInv'
<1>1. "healed" \in HealPlaces /\ H!Methods[l] \in H!Fields /\ l \in 1..6
      /\ H!Methods[l] \notin {"total", "successful", "failed"}
  BY HealFields, HealConstants DEF HealPlaces
<1>2. /\ metrics' \in [H!Fields -> Nat] /\ metrics \in [H!Fields -> Nat]
      /\ metrics'[H!Methods[l]] = metrics[H!Methods[l]] + 1
      /\ \A g \in H!Fields : g # H!Methods[l] => metrics'[g] = metrics[g]
  BY <1>1, Counts
<1>3. /\ Cardinality(Running) \in Nat /\ Cardinality(Finishing) \in Nat
      /\ Cardinality(Running') = Cardinality(Running) + 1 - 1
      /\ Cardinality(Finishing') = Cardinality(Finishing) + 1 - 0
  BY <1>1, HealMoves
<1>4. H!AllMethods(metrics') = H!AllMethods(metrics) + 1
  BY <1>2, HealFields, HealConstants DEF H!AllMethods
<1>5. /\ metrics'["total"] = metrics["total"] /\ metrics'["successful"] = metrics["successful"]
      /\ metrics'["failed"] = metrics["failed"]
  BY <1>1, <1>2, HealFields
<1>6. metrics["successful"] \in Nat
  BY <1>2, HealFields
<1>7. H!MetricsAddUp'
  BY <1>3, <1>4, <1>5, <1>6, AddsUp, AddsUpNext DEF HealInv
<1>8. metrics'["total"] <= MaxHeals /\ \A f \in H!Fields : metrics'[f] >= metrics[f]
  <2>1. metrics["total"] <= MaxHeals
    BY HealConstants, HealFields DEF HealInv, H!TypeOK
  <2> QED
    BY <1>1, <1>2, <1>5, <2>1
<1> QED
  BY <1>1, <1>2, <1>7, <1>8, QuietStep

LEMMA MatchStep == ASSUME HealInv, NEW h \in Healers, H!Match(h) PROVE HealInv'
<1> DEFINE l == heal[h].level
<1>1. /\ heal[h].pc = "level" /\ l \in 1..5
      /\ UNCHANGED <<healBreaker, snap, read, burst>>
  BY HealConstants DEF H!Match
<1>2. CASE H!Count(H!Methods[l]) /\ H!Goto(h, "healed", l)
  BY <1>1, <1>2, MethodHeals
<1>3. CASE H!Goto(h, "level", H!NextLevel(l)) /\ UNCHANGED metrics
  BY <1>1, <1>3, SilentStep, LaterLevel
<1> QED
  BY <1>2, <1>3 DEF H!Match

\* The answer of Allow: the level is skipped, or its model called.
LEMMA AskStep == ASSUME HealInv, NEW h \in Healers, H!Ask(h) PROVE HealInv'
<1> DEFINE l == heal[h].level
<1>1. /\ heal[h].pc = "level" /\ l \in H!Guarded /\ l \in 1..5
      /\ UNCHANGED <<metrics, snap, read, burst>>
  BY HealConstants DEF H!Ask
<1>2. CASE ~H!Admits(healBreaker[l])
  <2>1. H!Goto(h, "level", H!NextLevel(l)) /\ UNCHANGED healBreaker
    BY <1>2 DEF H!Ask
  <2> QED
    BY <1>1, <2>1, SilentStep, LaterLevel
<1>3. CASE H!Admits(healBreaker[l])
  <2>1. /\ healBreaker' = [healBreaker EXCEPT ![l] = H!AfterAllow(@)]
        /\ H!Goto(h, "calling", l)
    BY <1>3 DEF H!Ask
  <2>2. /\ healBreaker \in [H!Guarded -> H!BreakerState] /\ burst \in [H!Guarded -> Nat]
        /\ metrics \in [H!Fields -> Nat] /\ metrics["total"] <= MaxHeals
    BY HealConstants, HealFields DEF HealInv, H!TypeOK
  <2>3. "calling" \in HealPlaces /\ l \in 1..6
    BY <1>1 DEF HealPlaces
  <2>4. healBreaker' \in [H!Guarded -> H!BreakerState]
    BY <1>1, <2>1, <2>2, HealBreakers
  <2>5. ASSUME NEW k \in H!Guarded
        PROVE  /\ Spares(healBreaker'[k], burst'[k], Cardinality(Calling(k)'),
                         HealThreshold, Cardinality(Healers))
               /\ burst'[k] + Cardinality(Ahead(k)') <= metrics'["total"]
    <3>1. /\ Cardinality(Calling(k)) \in Nat /\ Cardinality(Calling(k)') \in Nat
          /\ Cardinality(Calling(k)') = Cardinality(Calling(k)) + (IF l = k THEN 1 ELSE 0) - 0
          /\ Cardinality(Ahead(k)) \in Nat /\ Cardinality(Ahead(k)') \in Nat
          /\ Cardinality(Ahead(k)') = Cardinality(Ahead(k)) + (IF l <= k THEN 1 ELSE 0)
                                                            - (IF l <= k THEN 1 ELSE 0)
      BY <1>1, <2>1, <2>3, HealMoves
    <3>2. /\ Spares(healBreaker[k], burst[k], Cardinality(Calling(k)),
                    HealThreshold, Cardinality(Healers))
          /\ burst[k] + Cardinality(Ahead(k)) <= metrics["total"]
      BY DEF HealInv, ModelsSpared
    <3>3. \/ healBreaker'[k] = healBreaker[k]
             /\ (Cardinality(Calling(k)') <= Cardinality(Calling(k)) \/ healBreaker[k].state # "open")
          \/ healBreaker[k].state = "open" /\ healBreaker[k].cooled
             /\ healBreaker'[k].state = "half_open"
      <4>1. CASE k # l
        BY <2>1, <2>2, <3>1, <4>1
      <4>2. CASE k = l
        <5>1. healBreaker'[k] = H!AfterAllow(healBreaker[k])
          BY <2>1, <2>2, <4>2
        <5>2. CASE healBreaker[k].state = "open" /\ healBreaker[k].cooled
          <6>1. healBreaker'[k] = [healBreaker[k] EXCEPT !.state = "half_open", !.succs = 0]
            BY <5>1, <5>2 DEF H!AfterAllow
          <6> QED
            BY <2>2, <5>2, <6>1 DEF H!BreakerState
        <5>3. CASE ~(healBreaker[k].state = "open" /\ healBreaker[k].cooled)
          BY <1>3, <4>2, <5>1, <5>3 DEF H!AfterAllow, H!Admits
        <5> QED
          BY <5>2, <5>3
      <4> QED
        BY <4>1, <4>2
    <3>4. Spares(healBreaker'[k], burst'[k], Cardinality(Calling(k)'),
                 HealThreshold, Cardinality(Healers))
      BY <1>1, <2>2, <3>1, <3>2, <3>3, SparesAllow, HealConstants
    <3> QED
      BY <1>1, <3>1, <3>2, <3>4
  <2>6. H!MetricsAddUp'
    <3>1. /\ Cardinality(Running) \in Nat /\ Cardinality(Finishing) \in Nat
          /\ Cardinality(Running') = Cardinality(Running) + 1 - 1
          /\ Cardinality(Finishing') = Cardinality(Finishing) + 0 - 0
      BY <1>1, <2>1, <2>3, HealMoves
    <3> QED
      BY <1>1, <3>1, AddsUp, AddsUpNext DEF HealInv
  <2>7. \A f \in H!Fields : metrics'[f] >= metrics[f]
    BY <1>1, <2>2
  <2> QED
    BY <1>1, <2>1, <2>2, <2>3, <2>4, <2>5, <2>6, <2>7, HealerStep DEF ModelsSpared
<1> QED
  BY <1>2, <1>3

\* A call of a model fails.
LEMMA CallErrsStep == ASSUME HealInv, NEW h \in Healers, H!CallErrs(h) PROVE HealInv'
<1> DEFINE l == heal[h].level
           next == H!NextLevel(l)
<1>1. /\ heal[h].pc = "calling"
      /\ healBreaker' = [healBreaker EXCEPT ![l] = H!AfterFailure(@)]
      /\ burst' = [burst EXCEPT ![l] = @ + 1]
      /\ H!Goto(h, "level", next)
      /\ UNCHANGED <<metrics, snap, read>>
  BY DEF H!CallErrs
<1>2. l \in H!Guarded /\ l \in 1..5 /\ next \in 1..6 /\ next > l
  <2>1. l \in H!Guarded
    BY <1>1 DEF HealInv, LevelsFit
  <2>2. l \in 0..5 /\ l \in 1..5
    BY <2>1, HealConstants
  <2> QED
    BY <2>1, <2>2, LaterLevel
<1>3. /\ healBreaker \in [H!Guarded -> H!BreakerState] /\ burst \in [H!Guarded -> Nat]
      /\ metrics \in [H!Fields -> Nat] /\ metrics["total"] <= MaxHeals
  BY HealConstants, HealFields DEF HealInv, H!TypeOK
<1>4. "level" \in HealPlaces
  BY DEF HealPlaces
<1>5. /\ healBreaker' \in [H!Guarded -> H!BreakerState] /\ burst' \in [H!Guarded -> Nat]
  BY <1>1, <1>2, <1>3, HealBreakers
<1> HIDE DEF l, next
<1>6. ASSUME NEW k \in H!Guarded
      PROVE  /\ Spares(healBreaker'[k], burst'[k], Cardinality(Calling(k)'),
                       HealThreshold, Cardinality(Healers))
             /\ burst'[k] + Cardinality(Ahead(k)') <= metrics'["total"]
  <2>1. /\ Cardinality(Calling(k)) \in Nat /\ Cardinality(Calling(k)') \in Nat
        /\ Cardinality(Calling(k)) <= Cardinality(Healers)
        /\ Cardinality(Calling(k)') = Cardinality(Calling(k)) + 0 - (IF l = k THEN 1 ELSE 0)
        /\ Cardinality(Ahead(k)) \in Nat /\ Cardinality(Ahead(k)') \in Nat
        /\ Cardinality(Ahead(k)') = Cardinality(Ahead(k)) + (IF next <= k THEN 1 ELSE 0)
                                                          - (IF l <= k THEN 1 ELSE 0)
    BY <1>1, <1>2, <1>4, HealMoves DEF l
  <2>2. /\ Spares(healBreaker[k], burst[k], Cardinality(Calling(k)),
                  HealThreshold, Cardinality(Healers))
        /\ burst[k] + Cardinality(Ahead(k)) <= metrics["total"]
    BY DEF HealInv, ModelsSpared
  <2>3. k \in 1..5 /\ burst[k] \in Nat /\ metrics["total"] \in Nat
    BY <1>3, HealConstants, HealFields
  <2>4. CASE k # l
    <3>1. healBreaker'[k] = healBreaker[k] /\ burst'[k] = burst[k]
      BY <1>1, <1>3, <2>4
    <3>2. Spares(healBreaker'[k], burst'[k], Cardinality(Calling(k)'),
                 HealThreshold, Cardinality(Healers))
      BY <2>1, <2>2, <2>3, <2>4, <3>1, SparesAllow, HealConstants
    <3> QED
      BY <1>1, <1>2, <2>1, <2>2, <2>3, <3>1, <3>2
  <2>5. CASE k = l
    <3>1. healBreaker'[k] = H!AfterFailure(healBreaker[k]) /\ burst'[k] = burst[k] + 1
      BY <1>1, <1>3, <2>5
    <3>2. /\ healBreaker[k].fails \in Nat /\ healBreaker[k].state \in {"closed", "open", "half_open"}
          /\ ~healBreaker'[k].cooled /\ healBreaker'[k].state # "half_open"
          /\ healBreaker'[k].state = "closed" =>
                /\ healBreaker[k].state = "closed"
                /\ healBreaker'[k].fails = healBreaker[k].fails + 1
                /\ healBreaker'[k].fails < HealThreshold
      BY <1>3, <3>1, HealBreakers
    <3>3. /\ burst'[k] \in Nat /\ burst'[k] <= burst[k] + 1
          /\ burst'[k] + Cardinality(Calling(k)') <= burst[k] + Cardinality(Calling(k))
      BY <2>1, <2>3, <2>5, <3>1
    <3>4. Spares(healBreaker'[k], burst'[k], Cardinality(Calling(k)'),
                 HealThreshold, Cardinality(Healers))
      BY <2>1, <2>2, <2>3, <3>2, <3>3, SparesFailure, HealConstants
    <3> QED
      BY <1>1, <1>2, <2>1, <2>2, <2>3, <2>5, <3>1, <3>4
  <2> QED
    BY <2>4, <2>5
<1>7. H!MetricsAddUp'
  <2>1. /\ Cardinality(Running) \in Nat /\ Cardinality(Finishing) \in Nat
        /\ Cardinality(Running') = Cardinality(Running) + 1 - 1
        /\ Cardinality(Finishing') = Cardinality(Finishing) + 0 - 0
    BY <1>1, <1>2, <1>4, HealMoves
  <2> QED
    BY <1>1, <2>1, AddsUp, AddsUpNext DEF HealInv
<1>8. \A f \in H!Fields : metrics'[f] >= metrics[f]
  BY <1>1, <1>3
<1> QED
  BY <1>1, <1>2, <1>3, <1>4, <1>5, <1>6, <1>7, <1>8, HealerStep DEF ModelsSpared

\* Heal returns with a selector.
LEMMA ReturnHealedStep == ASSUME HealInv, NEW h \in Healers, H!ReturnHealed(h) PROVE HealInv'
<1> DEFINE l == heal[h].level
<1>1. /\ heal[h].pc = "healed"
      /\ IF l \in H!Guarded
         THEN /\ healBreaker' = [healBreaker EXCEPT ![l] = H!AfterSuccess(@)]
              /\ burst' = [burst EXCEPT ![l] = 0]
         ELSE UNCHANGED <<healBreaker, burst>>
      /\ H!Count("successful") /\ H!Goto(h, "idle", 1)
      /\ UNCHANGED <<snap, read>>
  BY DEF H!ReturnHealed
<1>2. "idle" \in HealPlaces /\ 1 \in 1..6 /\ "successful" \in H!Fields
  BY HealFields DEF HealPlaces
<1>3. /\ healBreaker \in [H!Guarded -> H!BreakerState] /\ burst \in [H!Guarded -> Nat]
      /\ metrics["total"] <= MaxHeals
  BY HealConstants, HealFields DEF HealInv, H!TypeOK
<1>4. /\ metrics' \in [H!Fields -> Nat] /\ metrics \in [H!Fields -> Nat]
      /\ metrics'["successful"] = metrics["successful"] + 1
      /\ \A g \in H!Fields : g # "successful" => metrics'[g] = metrics[g]
  BY <1>1, <1>2, Counts
<1> HIDE DEF l
<1>5. /\ healBreaker' \in [H!Guarded -> H!BreakerState] /\ burst' \in [H!Guarded -> Nat]
      /\ \A k \in H!Guarded :
            \/ healBreaker'[k] = healBreaker[k] /\ burst'[k] = burst[k]
            \/ healBreaker'[k].fails = 0 /\ burst'[k] = 0
  BY <1>1, <1>3, HealBreakers
<1>6. ASSUME NEW k \in H!Guarded
      PROVE  /\ Spares(healBreaker'[k], burst'[k], Cardinality(Calling(k)'),
                       HealThreshold, Cardinality(Healers))
             /\ burst'[k] + Cardinality(Ahead(k)') <= metrics'["total"]
  <2>1. /\ Cardinality(Calling(k)) \in Nat /\ Cardinality(Calling(k)') \in Nat
        /\ Cardinality(Calling(k)') <= Cardinality(Healers)
        /\ Cardinality(Calling(k)') = Cardinality(Calling(k)) + 0 - 0
        /\ Cardinality(Ahead(k)) \in Nat
        /\ Cardinality(Ahead(k)') = Cardinality(Ahead(k)) + 0 - 0
    BY <1>1, <1>2, HealMoves
  <2>2. /\ Spares(healBreaker[k], burst[k], Cardinality(Calling(k)),
                  HealThreshold, Cardinality(Healers))
        /\ burst[k] + Cardinality(Ahead(k)) <= metrics["total"]
    BY DEF HealInv, ModelsSpared
  <2>3. burst[k] \in Nat /\ metrics["total"] \in Nat /\ metrics'["total"] = metrics["total"]
    BY <1>3, <1>4, HealFields
  <2>4. CASE healBreaker'[k] = healBreaker[k] /\ burst'[k] = burst[k]
    <3>1. Cardinality(Calling(k)') = Cardinality(Calling(k)) /\ Cardinality(Ahead(k)') = Cardinality(Ahead(k))
      BY ONLY <2>1
    <3> QED
      BY ONLY Zenon, <2>2, <2>3, <2>4, <3>1
  <2>5. CASE healBreaker'[k].fails = 0 /\ burst'[k] = 0
    BY SMTT(60), <2>1, <2>2, <2>3, <2>5, SparesReset, HealConstants
  <2> QED
    BY <1>5, <2>4, <2>5
<1>7. H!MetricsAddUp'
  <2>1. /\ Cardinality(Running) \in Nat /\ Cardinality(Finishing) \in Nat
        /\ Cardinality(Running') = Cardinality(Running) + 0 - 1
        /\ Cardinality(Finishing') = Cardinality(Finishing) + 0 - 1
    BY <1>1, <1>2, HealMoves
  <2>2. H!AllMethods(metrics') = H!AllMethods(metrics)
    BY <1>4, HealFields DEF H!AllMethods
  <2>3. /\ metrics["successful"] \in Nat /\ metrics["failed"] \in Nat
        /\ metrics'["total"] = metrics["total"] /\ metrics'["failed"] = metrics["failed"]
    BY <1>4, HealFields
  <2> QED
    BY <1>4, <2>1, <2>2, <2>3, AddsUp, AddsUpNext DEF HealInv
<1>8. metrics'["total"] <= MaxHeals /\ \A f \in H!Fields : metrics'[f] >= metrics[f]
  BY <1>2, <1>3, <1>4, HealFields
<1> QED
  BY <1>1, <1>2, <1>4, <1>5, <1>6, <1>7, <1>8, HealerStep DEF ModelsSpared

LEMMA ReturnExhaustedStep == ASSUME HealInv, NEW h \in Healers, H!ReturnExhausted(h) PROVE HealInv'
<1>1. /\ heal[h].pc = "level" /\ H!Count("failed") /\ H!Goto(h, "idle", 1)
      /\ UNCHANGED <<healBreaker, snap, read, burst>>
  BY DEF H!ReturnExhausted
<1>2. "idle" \in HealPlaces /\ 1 \in 1..6 /\ "failed" \in H!Fields
  BY HealFields DEF HealPlaces
<1>3. /\ metrics' \in [H!Fields -> Nat] /\ metrics \in [H!Fields -> Nat]
      /\ metrics'["failed"] = metrics["failed"] + 1
      /\ \A g \in H!Fields : g # "failed" => metrics'[g] = metrics[g]
  BY <1>1, <1>2, Counts
<1>4. H!MetricsAddUp'
  <2>1. /\ Cardinality(Running) \in Nat /\ Cardinality(Finishing) \in Nat
        /\ Cardinality(Running') = Cardinality(Running) + 0 - 1
        /\ Cardinality(Finishing') = Cardinality(Finishing) + 0 - 0
    BY <1>1, <1>2, HealMoves
  <2>2. H!AllMethods(metrics') = H!AllMethods(metrics)
    BY <1>3, HealFields DEF H!AllMethods
  <2>3. /\ metrics["successful"] \in Nat /\ metrics["failed"] \in Nat
        /\ metrics'["total"] = metrics["total"] /\ metrics'["successful"] = metrics["successful"]
    BY <1>3, HealFields
  <2> QED
    BY <1>3, <2>1, <2>2, <2>3, AddsUp, AddsUpNext DEF HealInv
<1>5. metrics'["total"] <= MaxHeals /\ \A f \in H!Fields : metrics'[f] >= metrics[f]
  <2>1. metrics["total"] <= MaxHeals
    BY HealConstants, HealFields DEF HealInv, H!TypeOK
  <2> QED
    BY <1>2, <1>3, <2>1, HealFields
<1> QED
  BY <1>1, <1>2, <1>3, <1>4, <1>5, QuietStep

LEMMA OnlySnapshotMoves ==
    ASSUME HealInv, UNCHANGED <<healBreaker, heal, metrics, burst>>,
           read' \in 0..8, snap' \in [H!Fields -> 0..MaxHeals], SnapshotKeepsUp'
    PROVE  HealInv'
<1>1. H!TypeOK'
  BY HealFields DEF HealInv, H!TypeOK
<1>2. LevelsFit' /\ H!MetricsAddUp'
  BY DEF HealInv, LevelsFit, H!MetricsAddUp
<1>3. ModelsSpared'
  BY DEF HealInv, ModelsSpared, Calling, Ahead
<1> QED
  BY <1>1, <1>2, <1>3 DEF HealInv

\* Snapshot loads one more counter.
LEMMA LoadStep == ASSUME HealInv, H!LoadNext PROVE HealInv'
<1> DEFINE f == H!FieldOrder[read + 1]
<1>1. /\ read \in 0..7 /\ read' = read + 1
      /\ snap' = [snap EXCEPT ![f] = metrics[f]]
      /\ UNCHANGED <<healBreaker, heal, metrics, burst>>
  BY HealFields DEF HealInv, H!TypeOK, H!LoadNext
<1>2. /\ metrics \in [H!Fields -> 0..MaxHeals] /\ snap \in [H!Fields -> 0..MaxHeals]
  BY DEF HealInv, H!TypeOK
<1>3. CASE read = 0
  <2>1. f = "total" /\ f \in H!Fields
    BY <1>3, HealFields
  <2>2. SnapshotKeepsUp' /\ read' \in 0..8
    BY <1>1, <1>3 DEF SnapshotKeepsUp
  <2> QED
    BY <1>1, <1>2, <2>1, <2>2, OnlySnapshotMoves
<1>4. CASE read = 1
  <2>1. f = "successful" /\ f \in H!Fields
    BY <1>4, HealFields
  <2>2. snap' \in [H!Fields -> 0..MaxHeals] /\ snap'["successful"] = metrics["successful"]
    BY <1>1, <1>2, <2>1
  <2>3. \A i \in 1..5 : Loaded(i)' = metrics[H!Methods[i]]
    BY <1>1, <1>4 DEF Loaded
  <2>4. metrics["successful"] <= H!AllMethods(metrics)
    <3>1. Finishing \subseteq Healers
      BY DEF Finishing
    <3>2. Cardinality(Finishing) \in Nat
      BY <3>1, HealConstants, FS_Subset, FS_CardinalityType
    <3>3. metrics["successful"] \in Nat
      BY <1>2, HealFields, HealConstants
    <3> QED
      BY <3>2, <3>3, AddsUp DEF HealInv
  <2>5. SnapshotKeepsUp'
    BY <2>2, <2>3, <2>4, HealConstants DEF SnapshotKeepsUp, H!AllMethods
  <2> QED
    BY <1>1, <2>2, <2>5, OnlySnapshotMoves
<1>5. CASE read >= 2
  <2>1. f \in H!Fields /\ f # "successful"
    <3>1. read \in {2, 3, 4, 5, 6, 7}
      BY <1>1, <1>5
    <3> QED
      BY <3>1, HealFields, HealConstants
  <2>2. snap' \in [H!Fields -> 0..MaxHeals] /\ snap'["successful"] = snap["successful"]
    BY <1>1, <1>2, <2>1, HealFields
  <2>3. ASSUME NEW i \in 1..5 PROVE Loaded(i)' = Loaded(i)
    <3>1. CASE read = i + 2
      <4>1. f = H!Methods[i]
        BY <3>1, HealFields
      <4> QED
        BY <1>1, <1>2, <2>1, <3>1, <4>1 DEF Loaded
    <3>2. CASE read # i + 2
      <4>1. H!Methods[i] # f
        <5>1. read \in {2, 3, 4, 5, 6, 7}
          BY <1>1, <1>5
        <5> QED
          BY <3>2, <5>1, HealFields, HealConstants
      <4>2. H!Methods[i] \in H!Fields
        BY HealFields, HealConstants
      <4>3. snap'[H!Methods[i]] = snap[H!Methods[i]]
        BY <1>1, <1>2, <4>1, <4>2
      <4> QED
        BY <1>1, <3>2, <4>3 DEF Loaded
    <3> QED
      BY <3>1, <3>2
  <2>4. SnapshotKeepsUp'
    BY <1>5, <2>2, <2>3 DEF HealInv, SnapshotKeepsUp
  <2> QED
    BY <1>1, <2>2, <2>4, OnlySnapshotMoves
<1> QED
  BY <1>1, <1>3, <1>4, <1>5

\* The open period of a breaker ends.
LEMMA HealCooldown == ASSUME HealInv, NEW l \in H!Guarded, H!Cooldown(l) PROVE HealInv'
<1>1. /\ healBreaker' = [healBreaker EXCEPT ![l] = H!AfterCooldown(@)]
      /\ burst' = [burst EXCEPT ![l] = 0]
      /\ UNCHANGED <<heal, metrics, snap, read>>
  BY DEF H!Cooldown
<1>2. /\ healBreaker \in [H!Guarded -> H!BreakerState] /\ burst \in [H!Guarded -> 0..MaxHeals]
      /\ metrics \in [H!Fields -> 0..MaxHeals]
  BY DEF HealInv, H!TypeOK
<1>3. /\ healBreaker' \in [H!Guarded -> H!BreakerState] /\ burst' \in [H!Guarded -> 0..MaxHeals]
  BY <1>1, <1>2, HealBreakers, HealConstants
<1>4. ASSUME NEW k \in H!Guarded
      PROVE  /\ Spares(healBreaker'[k], burst'[k], Cardinality(Calling(k)),
                       HealThreshold, Cardinality(Healers))
             /\ burst'[k] + Cardinality(Ahead(k)) <= metrics["total"]
  <2>1. Calling(k) \subseteq Healers /\ Ahead(k) \subseteq Healers
    BY DEF Calling, Ahead
  <2>2. /\ Cardinality(Calling(k)) \in Nat /\ Cardinality(Calling(k)) <= Cardinality(Healers)
        /\ Cardinality(Ahead(k)) \in Nat
    BY <2>1, HealConstants, FS_Subset, FS_CardinalityType
  <2>3. /\ Spares(healBreaker[k], burst[k], Cardinality(Calling(k)),
                  HealThreshold, Cardinality(Healers))
        /\ burst[k] + Cardinality(Ahead(k)) <= metrics["total"]
    BY DEF HealInv, ModelsSpared
  <2>4. burst[k] \in Nat /\ metrics["total"] \in Nat
    BY <1>2, HealConstants, HealFields
  <2>5. CASE k # l
    <3>1. healBreaker'[k] = healBreaker[k] /\ burst'[k] = burst[k]
      BY <1>1, <1>2, <2>5
    <3> QED
      BY <2>3, <3>1
  <2>6. CASE k = l
    <3>1. healBreaker'[k] = H!AfterCooldown(healBreaker[k]) /\ burst'[k] = 0
      BY <1>1, <1>2, <2>6
    <3>2. healBreaker'[k].state = "closed" =>
            healBreaker'[k].fails \in Nat /\ healBreaker'[k].fails < HealThreshold
      BY <1>2, <2>3, <3>1, HealBreakers DEF Spares
    <3> QED
      BY <2>2, <2>3, <2>4, <3>1, <3>2, SparesReset, HealConstants
  <2> QED
    BY <2>5, <2>6
<1>5. ModelsSpared'
  BY <1>1, <1>4 DEF ModelsSpared, Calling, Ahead
<1> QED
  BY <1>1, <1>3, <1>5 DEF HealInv, H!TypeOK, LevelsFit, H!MetricsAddUp, SnapshotKeepsUp, Loaded

LEMMA HealInit == H!Init => HealInv
<1> SUFFICES ASSUME H!Init PROVE HealInv
  OBVIOUS
<1>1. /\ Running = {} /\ Finishing = {}
      /\ \A l \in H!Guarded : Calling(l) = {} /\ Ahead(l) = {}
  BY DEF H!Init, Running, Finishing, Calling, Ahead
<1>2. Cardinality({}) = 0
  BY FS_EmptySet
<1>3. \A f \in H!Fields : metrics[f] = 0
  BY DEF H!Init
<1>4. H!NewBreaker \in H!BreakerState /\ H!NewBreaker.state = "closed" /\ H!NewBreaker.fails = 0
  <2>1. 0 \in 0..CounterCap /\ WindowSize = 0
    BY AgentAssumption DEF H!SelfHealerAssumption
  <2>2. 0 \in 0..WindowSize /\ 0 \in {0} \cup 0..(WindowSize - 1)
    BY <2>1
  <2>3. [i \in 0..(WindowSize - 1) |-> FALSE] \in [0..(WindowSize - 1) -> BOOLEAN]
    OBVIOUS
  <2> QED
    BY <2>1, <2>2, <2>3 DEF H!NewBreaker, H!BreakerState, H!CircuitState
<1>5. H!TypeOK
  BY <1>4, HealConstants, HealFields DEF H!Init, H!TypeOK
<1>6. H!MetricsAddUp
  BY <1>1, <1>2, <1>3, AddsUp, HealFields DEF H!AllMethods
<1>7. ModelsSpared
  <2>1. \A l \in H!Guarded : healBreaker[l] = H!NewBreaker /\ burst[l] = 0
    BY DEF H!Init
  <2>2. ASSUME NEW l \in H!Guarded
        PROVE  /\ Spares(healBreaker[l], burst[l], Cardinality(Calling(l)),
                         HealThreshold, Cardinality(Healers))
               /\ burst[l] + Cardinality(Ahead(l)) <= metrics["total"]
    <3>1. Cardinality(Calling(l)) = 0 /\ Cardinality(Ahead(l)) = 0 /\ metrics["total"] = 0
      BY <1>1, <1>2, <1>3, HealFields
    <3>2. healBreaker[l].state = "closed" => healBreaker[l].fails \in Nat
                                             /\ healBreaker[l].fails < HealThreshold
      BY <1>4, <2>1, HealConstants
    <3>3. Spares(healBreaker[l], 0, 0, HealThreshold, Cardinality(Healers))
      BY <3>2, SparesReset, HealConstants
    <3> QED
      BY <2>1, <3>1, <3>3
  <2> QED
    BY <2>2 DEF ModelsSpared
<1>8. LevelsFit /\ SnapshotKeepsUp
  BY DEF H!Init, LevelsFit, SnapshotKeepsUp
<1> QED
  BY <1>5, <1>6, <1>7, <1>8 DEF HealInv

LEMMA HealNext == ASSUME HealInv, H!Next PROVE HealInv'
<1>1. ASSUME NEW h \in Healers, H!Lookup(h) PROVE HealInv'
  BY <1>1, SilentStep, LaterLevel, HealConstants DEF H!Lookup
<1>2. ASSUME NEW h \in Healers, H!CallHeals(h) PROVE HealInv'
  <2>1. heal[h].level \in 1..5
    BY <1>2, HealConstants DEF HealInv, LevelsFit, H!CallHeals
  <2> QED
    BY <1>2, <2>1, MethodHeals DEF H!CallHeals
<1>3. ASSUME NEW h \in Healers, H!CallFindsNothing(h) PROVE HealInv'
  <2>1. 3 \in 0..5 /\ heal[h].pc = "calling" /\ heal[h].level = 3
    BY <1>3 DEF H!CallFindsNothing
  <2> QED
    BY <1>3, <2>1, SilentStep, LaterLevel DEF H!CallFindsNothing
<1> QED
  BY <1>1, <1>2, <1>3, BeginHeal, MatchStep, AskStep, CallErrsStep, ReturnHealedStep,
     ReturnExhaustedStep, LoadStep, HealCooldown DEF H!Next, H!HealStep

LEMMA HealRests == ASSUME HealInv, UNCHANGED healVars PROVE HealInv'
BY ZenonT(90) DEF HealInv, healVars, H!TypeOK, LevelsFit, H!MetricsAddUp, SnapshotKeepsUp, Loaded,
       ModelsSpared, Calling, Ahead

\* Once all counters are loaded, the snapshot itself covers its successes.
LEMMA HealsAddUp ==
    HealInv => H!MetricsAddUp /\ H!SnapshotCoversSuccesses /\ H!FailuresPerCooldown
<1> SUFFICES ASSUME HealInv PROVE H!SnapshotCoversSuccesses /\ H!FailuresPerCooldown
  BY DEF HealInv
<1>1. H!SnapshotCoversSuccesses
  BY HealFields, HealConstants
     DEF HealInv, SnapshotKeepsUp, Loaded, H!SnapshotCoversSuccesses, H!AllMethods
<1>2. H!FailuresPerCooldown
  <2> SUFFICES ASSUME NEW l \in H!Guarded
               PROVE  burst[l] <= HealThreshold - 1 + Cardinality(Healers)
    BY Cardinalities DEF H!FailuresPerCooldown
  <2>1. Calling(l) \subseteq Healers
    BY DEF Calling
  <2>2. Cardinality(Calling(l)) \in Nat
    BY <2>1, HealConstants, FS_Subset, FS_CardinalityType
  <2>3. healBreaker[l] \in H!BreakerState /\ burst[l] \in Nat
    BY HealConstants DEF HealInv, H!TypeOK
  <2> QED
    BY <2>2, <2>3, SparesBounds, HealBreakers, HealConstants DEF HealInv, ModelsSpared
<1> QED
  BY <1>1, <1>2

(***************************************************************************)
(* MemberAgent.                                                            *)
(***************************************************************************)
TaskPlaces  == {"ask", "execute", "heal", "retry"}
TaskRecords == [status : A!TaskStatus, step : Nat \ {0}, pc : TaskPlaces,
                results : Seq(A!ActionResult)]

\* A task, as st says, has passed the breaker of target t and may fail on it.
Tries(st, k, t) ==
    /\ st.status \in {"running", "healing"} /\ st.pc \in {"execute", "heal"}
    /\ st.step \in DOMAIN Plan[k] /\ Plan[k][st.step] = t

Trying(t) == {k \in Tasks : Tries(task[k], k, t)}

TargetsSpared ==
    \A t \in Targets : Spares(targetBreaker[t], exhausted[t], Cardinality(Trying(t)),
                              TaskThreshold, Cardinality(Tasks))

NoErrors(rs) == {i \in DOMAIN rs : rs[i] # "err"}
Retried(rs)  == {i \in DOMAIN rs : i + 1 \in DOMAIN rs /\ rs[i + 1] = "retry_ok"}

\* Every action so far has one result that is no error, and every error its
\* retry, but for the one that is being repaired.
Accounted(st, k) ==
    st.status \in {"running", "healing", "completed"} =>
        /\ Cardinality(NoErrors(st.results)) = st.step - 1
        /\ st.pc \in {"ask", "execute"} =>
              \A i \in DOMAIN st.results : st.results[i] # "err" \/ i \in Retried(st.results)
        /\ st.pc \in {"heal", "retry"} =>
              /\ Len(st.results) \in DOMAIN st.results
              /\ st.results[Len(st.results)] = "err"
              /\ \A i \in DOMAIN st.results :
                    i = Len(st.results) \/ st.results[i] # "err" \/ i \in Retried(st.results)
              /\ st.step \in DOMAIN Plan[k]
        /\ st.status = "completed" => /\ st.step = Len(Plan[k]) + 1
                                     /\ st.pc \in {"ask", "execute"}

ActionsAccounted == \A k \in Tasks : Accounted(task[k], k)

TaskInv == A!TypeOK /\ TargetsSpared /\ ActionsAccounted

LEMMA TaskBreakers ==
    ASSUME NEW b \in A!BreakerState
    PROVE  /\ b.fails \in Nat /\ b.state \in {"closed", "open", "half_open"}
           /\ A!AfterAllow(b) \in A!BreakerState
           /\ A!AfterSuccess(b) \in A!BreakerState /\ A!AfterSuccess(b).fails = 0
           /\ A!AfterFailure(b) \in A!BreakerState
           /\ ~A!AfterFailure(b).cooled /\ A!AfterFailure(b).state # "half_open"
           /\ A!AfterFailure(b).state = "closed" =>
                 /\ b.state = "closed"
                 /\ A!AfterFailure(b).fails = b.fails + 1 /\ b.fails + 1 < TaskThreshold
           /\ A!AfterCooldown(b) \in A!BreakerState
           /\ A!AfterCooldown(b).state = b.state /\ A!AfterCooldown(b).fails = b.fails
<1>1. /\ WindowSize = 0 /\ CounterCap \in Nat /\ CounterCap > 0
      /\ TaskThreshold \in Nat \ {0} /\ TaskThreshold < CounterCap
  BY AgentAssumption DEF A!MemberAgentAssumption
<1>2. /\ \A ok : A!PushOutcome(b, ok) = b
      /\ A!EffectiveThreshold(b) = TaskThreshold
  BY <1>1 DEF A!PushOutcome, A!EffectiveThreshold
<1>3. b.fails \in Nat /\ b.state \in {"closed", "open", "half_open"}
  BY <1>1 DEF A!BreakerState, A!CircuitState
<1>4. \A n \in 0..CounterCap : A!Bump(n) \in 0..CounterCap
                               /\ (A!Bump(n) < TaskThreshold => A!Bump(n) = n + 1)
  BY <1>1 DEF A!Bump
<1>0. 0 \in 0..CounterCap
  BY <1>1
<1>5. /\ A!AfterAllow(b) \in A!BreakerState /\ A!AfterCooldown(b) \in A!BreakerState
      /\ A!AfterCooldown(b).state = b.state /\ A!AfterCooldown(b).fails = b.fails
  BY <1>0 DEF A!AfterAllow, A!AfterCooldown, A!BreakerState, A!CircuitState
<1>6. A!AfterSuccess(b) \in A!BreakerState /\ A!AfterSuccess(b).fails = 0
  <2> DEFINE p == [b EXCEPT !.fails = 0, !.succs = A!Bump(@)]
  <2>0. A!Bump(b.succs) \in 0..CounterCap
    BY <1>4 DEF A!BreakerState
  <2>1. p \in A!BreakerState /\ p.fails = 0
    BY <1>0, <2>0 DEF A!BreakerState
  <2>2. A!AfterSuccess(b) = p \/ A!AfterSuccess(b) = [p EXCEPT !.state = "closed"]
    <3>1. A!PushOutcome(p, TRUE) = p
      BY <1>1 DEF A!PushOutcome
    <3> QED
      BY <3>1 DEF A!AfterSuccess
  <2> HIDE DEF p
  <2> QED
    BY <2>1, <2>2 DEF A!BreakerState, A!CircuitState
<1>7. /\ A!AfterFailure(b) \in A!BreakerState
      /\ ~A!AfterFailure(b).cooled /\ A!AfterFailure(b).state # "half_open"
      /\ A!AfterFailure(b).state = "closed" =>
            /\ b.state = "closed"
            /\ A!AfterFailure(b).fails = b.fails + 1 /\ b.fails + 1 < TaskThreshold
  <2> DEFINE p == [b EXCEPT !.fails = A!Bump(@), !.succs = 0, !.cooled = FALSE]
  <2>0. A!Bump(b.fails) \in 0..CounterCap
    BY <1>4 DEF A!BreakerState
  <2>1. p \in A!BreakerState /\ p.fails = A!Bump(b.fails) /\ p.state = b.state
    BY <1>0, <2>0 DEF A!BreakerState
  <2>2. ~p.cooled
    BY DEF A!BreakerState
  <2>3. A!AfterFailure(b) = IF \/ p.state = "closed" /\ p.fails >= TaskThreshold
                               \/ p.state = "half_open"
                            THEN [p EXCEPT !.state = "open"] ELSE p
    <3>1. A!PushOutcome(p, FALSE) = p
      BY <1>1 DEF A!PushOutcome
    <3> QED
      BY <1>2, <3>1 DEF A!AfterFailure
  <2> HIDE DEF p
  <2>4. A!AfterFailure(b) \in A!BreakerState /\ A!AfterFailure(b).state # "half_open"
        /\ A!AfterFailure(b).fails = p.fails
        /\ (A!AfterFailure(b).state = "closed" => p.state = "closed" /\ ~(p.fails >= TaskThreshold))
    BY <2>1, <2>3 DEF A!BreakerState, A!CircuitState
  <2>5. A!AfterFailure(b).cooled = p.cooled
    BY <2>1, <2>3 DEF A!BreakerState
  <2>6. b.fails \in 0..CounterCap /\ p.fails \in 0..CounterCap
    BY <2>1 DEF A!BreakerState
  <2> QED
    BY <1>1, <1>4, <2>1, <2>2, <2>4, <2>5, <2>6
<1> QED
  BY <1>3, <1>5, <1>6, <1>7

LEMMA TaskConstants ==
    /\ IsFiniteSet(Tasks) /\ Cardinality(Tasks) \in Nat
    /\ TaskThreshold \in Nat \ {0} /\ CounterCap \in Nat \ {0} /\ Rounds \in Nat
    /\ \A k \in Tasks : Plan[k] \in Seq(Targets) /\ Plan[k] # <<>>
<1>1. IsFiniteSet(Tasks)
  BY AgentAssumption, Cardinalities DEF A!MemberAgentAssumption
<1>2. TaskThreshold \in Nat \ {0} /\ CounterCap \in Nat \ {0} /\ Rounds \in Nat
  BY AgentAssumption DEF A!MemberAgentAssumption
<1>3. \A k \in Tasks : Plan[k] \in Seq(Targets) /\ Plan[k] # <<>>
  BY AgentAssumption DEF A!MemberAgentAssumption
<1> QED
  BY <1>1, <1>2, <1>3, FS_CardinalityType

\* What the operators on a task record leave.
LEMMA TaskRecordMoves ==
    ASSUME NEW st \in TaskRecords, NEW r \in A!ActionResult,
           NEW pc \in TaskPlaces, NEW status \in A!TaskStatus
    PROVE  /\ A!WithResult(st, r) \in TaskRecords
           /\ A!WithResult(st, r).results = Append(st.results, r)
           /\ A!WithResult(st, r).status = st.status /\ A!WithResult(st, r).pc = st.pc
           /\ A!WithResult(st, r).step = st.step
           /\ A!NextStep(st) \in TaskRecords
           /\ A!NextStep(st).results = st.results
           /\ A!NextStep(st).status = "running" /\ A!NextStep(st).pc = "ask"
           /\ A!NextStep(st).step = st.step + 1
           /\ A!Failed(st) \in TaskRecords /\ A!Failed(st).status = "failed"
           /\ A!Failed(st).step = st.step
<1>1. Append(st.results, r) \in Seq(A!ActionResult)
  BY DEF TaskRecords
<1>2. /\ A!WithResult(st, r) \in TaskRecords
      /\ A!WithResult(st, r).results = Append(st.results, r)
      /\ A!WithResult(st, r).status = st.status /\ A!WithResult(st, r).pc = st.pc
      /\ A!WithResult(st, r).step = st.step
  BY <1>1 DEF A!WithResult, TaskRecords
<1>3. st.step + 1 \in Nat \ {0} /\ "ask" \in TaskPlaces /\ {"running", "failed"} \subseteq A!TaskStatus
  BY DEF TaskRecords, TaskPlaces, A!TaskStatus
<1>4. /\ A!NextStep(st) \in TaskRecords
      /\ A!NextStep(st).results = st.results
      /\ A!NextStep(st).status = "running" /\ A!NextStep(st).pc = "ask"
      /\ A!NextStep(st).step = st.step + 1
  BY <1>3 DEF A!NextStep, TaskRecords
<1>5. /\ A!Failed(st) \in TaskRecords /\ A!Failed(st).status = "failed"
      /\ A!Failed(st).step = st.step
  BY <1>3 DEF A!Failed, TaskRecords
<1> QED
  BY <1>2, <1>4, <1>5

\* One task moves on.
LEMMA TaskMoves ==
    ASSUME TaskInv, NEW k \in Tasks, NEW st \in TaskRecords, task' = [task EXCEPT ![k] = st]
    PROVE  /\ task' \in [Tasks -> TaskRecords] /\ task'[k] = st
           /\ \A j \in Tasks : j # k => task'[j] = task[j]
           /\ \A t \in Targets :
                 /\ Cardinality(Trying(t)) \in Nat /\ Cardinality(Trying(t)') \in Nat
                 /\ Cardinality(Trying(t)) <= Cardinality(Tasks)
                 /\ Cardinality(Trying(t)') <= Cardinality(Tasks)
                 /\ Cardinality(Trying(t)') = Cardinality(Trying(t))
                       + (IF Tries(st, k, t) THEN 1 ELSE 0)
                       - (IF Tries(task[k], k, t) THEN 1 ELSE 0)
<1>1. task \in [Tasks -> TaskRecords]
  BY DEF TaskInv, A!TypeOK, TaskRecords, TaskPlaces
<1>2. /\ task' \in [Tasks -> TaskRecords] /\ task'[k] = st
      /\ \A j \in Tasks : j # k => task'[j] = task[j]
  BY <1>1
<1>3. ASSUME NEW t \in Targets
      PROVE  /\ Cardinality(Trying(t)) \in Nat /\ Cardinality(Trying(t)') \in Nat
             /\ Cardinality(Trying(t)) <= Cardinality(Tasks)
             /\ Cardinality(Trying(t)') <= Cardinality(Tasks)
             /\ Cardinality(Trying(t)') = Cardinality(Trying(t))
                   + (IF Tries(st, k, t) THEN 1 ELSE 0)
                   - (IF Tries(task[k], k, t) THEN 1 ELSE 0)
  <2>1. /\ Trying(t) \in SUBSET Tasks /\ Trying(t)' \in SUBSET Tasks
        /\ \A j \in Tasks : j # k => (j \in Trying(t) <=> j \in Trying(t)')
        /\ (k \in Trying(t) <=> Tries(task[k], k, t))
        /\ (k \in Trying(t)' <=> Tries(st, k, t))
    BY <1>2 DEF Trying, Tries
  <2> QED
    BY <2>1, TaskConstants, OneMoves
<1> QED
  BY <1>2, <1>3

\* What is left to show of a step of one task.
LEMMA TaskerStep ==
    ASSUME TaskInv, NEW k \in Tasks, NEW st \in TaskRecords, task' = [task EXCEPT ![k] = st],
           st.step <= Len(Plan[k]) + 1, Accounted(st, k),
           degraded' \in BOOLEAN, rounds' \in [Tasks -> 0..Rounds],
           failing' \in [Targets -> 0..CounterCap], exhausted' \in [Targets -> 0..CounterCap],
           targetBreaker' \in [Targets -> A!BreakerState],
           \A t \in Targets : Spares(targetBreaker'[t], exhausted'[t], Cardinality(Trying(t)'),
                                     TaskThreshold, Cardinality(Tasks))
    PROVE  TaskInv'
<1>1. /\ task' \in [Tasks -> TaskRecords] /\ task'[k] = st
      /\ \A j \in Tasks : j # k => task'[j] = task[j]
  BY TaskMoves
<1>2. A!TypeOK'
  BY <1>1 DEF TaskInv, A!TypeOK, TaskRecords, TaskPlaces
<1>3. ActionsAccounted'
  BY <1>1 DEF TaskInv, ActionsAccounted, Accounted
<1> QED
  BY <1>2, <1>3 DEF TaskInv, TargetsSpared

\* A step of a task of which its breaker hears nothing, and that does not
\* begin to try a target.
LEMMA UnheardStep ==
    ASSUME TaskInv, NEW k \in Tasks, NEW st \in TaskRecords, task' = [task EXCEPT ![k] = st],
           st.step <= Len(Plan[k]) + 1, Accounted(st, k),
           degraded' \in BOOLEAN, rounds' \in [Tasks -> 0..Rounds],
           failing' \in [Targets -> 0..CounterCap], UNCHANGED <<targetBreaker, exhausted>>,
           \A t \in Targets : Tries(st, k, t) => Tries(task[k], k, t)
    PROVE  TaskInv'
<1>1. /\ targetBreaker \in [Targets -> A!BreakerState] /\ exhausted \in [Targets -> 0..CounterCap]
  BY DEF TaskInv, A!TypeOK
<1>2. ASSUME NEW t \in Targets
      PROVE  Spares(targetBreaker'[t], exhausted'[t], Cardinality(Trying(t)'),
                    TaskThreshold, Cardinality(Tasks))
  <2>1. /\ Cardinality(Trying(t)) \in Nat /\ Cardinality(Trying(t)') \in Nat
        /\ Cardinality(Trying(t)') = Cardinality(Trying(t))
              + (IF Tries(st, k, t) THEN 1 ELSE 0) - (IF Tries(task[k], k, t) THEN 1 ELSE 0)
    BY TaskMoves
  <2>2. Cardinality(Trying(t)') <= Cardinality(Trying(t))
    BY <2>1
  <2>3. exhausted[t] \in Nat
    BY <1>1
  <2>4. Spares(targetBreaker[t], exhausted[t], Cardinality(Trying(t)),
               TaskThreshold, Cardinality(Tasks))
    BY DEF TaskInv, TargetsSpared
  <2> QED
    BY <2>1, <2>2, <2>3, <2>4, SparesAllow, TaskConstants
<1> QED
  BY <1>1, <1>2, TaskerStep

\* The breaker of target t hears of a success or a failure.
LEMMA HeardStep ==
    ASSUME TaskInv, NEW k \in Tasks, NEW st \in TaskRecords, task' = [task EXCEPT ![k] = st],
           st.step <= Len(Plan[k]) + 1, Accounted(st, k),
           degraded' \in BOOLEAN, rounds' \in [Tasks -> 0..Rounds],
           failing' \in [Targets -> 0..CounterCap],
           NEW t \in Targets,
           \A u \in Targets : ~Tries(st, k, u), \A u \in Targets : Tries(task[k], k, u) => u = t,
           \/ /\ targetBreaker' = [targetBreaker EXCEPT ![t] = A!AfterSuccess(@)]
              /\ exhausted' = [exhausted EXCEPT ![t] = 0]
           \/ /\ targetBreaker' = [targetBreaker EXCEPT ![t] = A!AfterFailure(@)]
              /\ \/ UNCHANGED exhausted
                 \/ exhausted' = [exhausted EXCEPT ![t] = A!Bump(@)] /\ Tries(task[k], k, t)
    PROVE  TaskInv'
<1>1. /\ targetBreaker \in [Targets -> A!BreakerState] /\ exhausted \in [Targets -> 0..CounterCap]
  BY DEF TaskInv, A!TypeOK
<1>2. A!Bump(exhausted[t]) \in 0..CounterCap /\ A!Bump(exhausted[t]) <= exhausted[t] + 1
  BY SMTT(60), <1>1, TaskConstants DEF A!Bump
<1>3. /\ targetBreaker' \in [Targets -> A!BreakerState]
      /\ exhausted' \in [Targets -> 0..CounterCap]
  <2>1. /\ A!AfterSuccess(targetBreaker[t]) \in A!BreakerState
        /\ A!AfterFailure(targetBreaker[t]) \in A!BreakerState /\ 0 \in 0..CounterCap
    BY <1>1, TaskBreakers, TaskConstants
  <2>2. targetBreaker' \in [Targets -> A!BreakerState]
    BY <1>1, <2>1
  <2>3. exhausted' \in [Targets -> 0..CounterCap]
    BY <1>1, <1>2, <2>1
  <2> QED
    BY <2>2, <2>3
<1>4. ASSUME NEW u \in Targets
      PROVE  Spares(targetBreaker'[u], exhausted'[u], Cardinality(Trying(u)'),
                    TaskThreshold, Cardinality(Tasks))
  <2>1. /\ Cardinality(Trying(u)) \in Nat /\ Cardinality(Trying(u)') \in Nat
        /\ Cardinality(Trying(u)) <= Cardinality(Tasks)
        /\ Cardinality(Trying(u)') <= Cardinality(Tasks)
        /\ Cardinality(Trying(u)') = Cardinality(Trying(u))
              + 0 - (IF Tries(task[k], k, u) THEN 1 ELSE 0)
        /\ Cardinality(Trying(u)') <= Cardinality(Trying(u))
    <3>1. /\ Cardinality(Trying(u)) \in Nat /\ Cardinality(Trying(u)') \in Nat
          /\ Cardinality(Trying(u)) <= Cardinality(Tasks)
          /\ Cardinality(Trying(u)') <= Cardinality(Tasks)
          /\ Cardinality(Trying(u)') = Cardinality(Trying(u))
                + 0 - (IF Tries(task[k], k, u) THEN 1 ELSE 0)
      BY TaskMoves
    <3> QED
      BY <3>1
  <2>2. Spares(targetBreaker[u], exhausted[u], Cardinality(Trying(u)),
               TaskThreshold, Cardinality(Tasks))
    BY DEF TaskInv, TargetsSpared
  <2>3. /\ exhausted[u] \in Nat /\ exhausted'[u] \in Nat
        /\ targetBreaker[u] \in A!BreakerState
    BY <1>1, <1>3
  <2>4. CASE u # t
    <3>1. targetBreaker'[u] = targetBreaker[u] /\ exhausted'[u] = exhausted[u]
      BY <1>1, <2>4
    <3> QED
      BY <2>1, <2>2, <2>3, <3>1, SparesAllow, TaskConstants
  <2>5. CASE u = t /\ targetBreaker' = [targetBreaker EXCEPT ![t] = A!AfterSuccess(@)]
                   /\ exhausted' = [exhausted EXCEPT ![t] = 0]
    <3>1. targetBreaker'[u].fails = 0 /\ exhausted'[u] = 0
      BY <1>1, <2>5, TaskBreakers
    <3>2. Spares(targetBreaker'[u], 0, Cardinality(Trying(u)'), TaskThreshold, Cardinality(Tasks))
      <4>1. 0 \in Nat /\ 0 < TaskThreshold
        BY TaskConstants
      <4> QED
        BY <2>1, <3>1, <4>1, SparesReset, TaskConstants
    <3> QED
      BY <3>1, <3>2
  <2>6. CASE u = t /\ targetBreaker' = [targetBreaker EXCEPT ![t] = A!AfterFailure(@)]
                   /\ \/ UNCHANGED exhausted
                      \/ exhausted' = [exhausted EXCEPT ![t] = A!Bump(@)] /\ Tries(task[k], k, t)
    <3>1. targetBreaker'[u] = A!AfterFailure(targetBreaker[u])
      BY <1>1, <2>6
    <3>2. /\ targetBreaker[u].fails \in Nat
          /\ targetBreaker[u].state \in {"closed", "open", "half_open"}
          /\ ~targetBreaker'[u].cooled /\ targetBreaker'[u].state # "half_open"
          /\ targetBreaker'[u].state = "closed" =>
                /\ targetBreaker[u].state = "closed"
                /\ targetBreaker'[u].fails = targetBreaker[u].fails + 1
                /\ targetBreaker'[u].fails < TaskThreshold
      BY <2>3, <3>1, TaskBreakers
    <3>3. /\ exhausted'[u] <= exhausted[u] + 1
          /\ exhausted'[u] + Cardinality(Trying(u)') <= exhausted[u] + Cardinality(Trying(u))
      <4>1. CASE UNCHANGED exhausted
        BY <2>1, <2>3, <4>1
      <4>2. CASE exhausted' = [exhausted EXCEPT ![t] = A!Bump(@)] /\ Tries(task[k], k, t)
        <5>1. exhausted'[u] <= exhausted[u] + 1
          BY <1>1, <1>2, <2>6, <4>2
        <5> QED
          BY <2>1, <2>3, <2>6, <4>2, <5>1
      <4> QED
        BY <2>6, <4>1, <4>2
    <3> QED
      BY <2>1, <2>2, <2>3, <3>2, <3>3, SparesFailure, TaskConstants
  <2> QED
    BY <2>4, <2>5, <2>6
<1> QED
  BY <1>3, <1>4, TaskerStep

\* A result enters the list of a task.
LEMMA ResultEnters ==
    ASSUME NEW rs \in Seq(A!ActionResult), NEW r \in A!ActionResult
    PROVE  LET as == Append(rs, r)
           IN  /\ DOMAIN as = DOMAIN rs \cup {Len(rs) + 1} /\ Len(as) = Len(rs) + 1
               /\ Len(rs) \in Nat /\ DOMAIN rs = 1..Len(rs)
               /\ \A i \in DOMAIN rs : as[i] = rs[i]
               /\ as[Len(rs) + 1] = r
               /\ Cardinality(NoErrors(rs)) \in Nat
               /\ Cardinality(NoErrors(as)) = Cardinality(NoErrors(rs))
                                                + (IF r = "err" THEN 0 ELSE 1)
               /\ Retried(rs) \subseteq Retried(as)
               /\ r = "retry_ok" /\ Len(rs) # 0 => Len(rs) \in Retried(as)
<1> DEFINE as == Append(rs, r)
<1>1. /\ DOMAIN as = DOMAIN rs \cup {Len(rs) + 1} /\ Len(as) = Len(rs) + 1
      /\ Len(rs) \in Nat /\ DOMAIN rs = 1..Len(rs)
      /\ \A i \in DOMAIN rs : as[i] = rs[i]
      /\ as[Len(rs) + 1] = r
  OBVIOUS
<1> HIDE DEF as
<1>2. IsFiniteSet(NoErrors(rs)) /\ Cardinality(NoErrors(rs)) \in Nat
  <2>1. 1 \in Int /\ Len(rs) \in Int
    BY <1>1
  <2>2. IsFiniteSet(1..Len(rs)) /\ NoErrors(rs) \subseteq 1..Len(rs)
    BY <1>1, <2>1, FS_Interval DEF NoErrors
  <2> QED
    BY <2>2, FS_Subset, FS_CardinalityType
<1>3. Cardinality(NoErrors(as)) = Cardinality(NoErrors(rs)) + (IF r = "err" THEN 0 ELSE 1)
  <2>1. CASE r = "err"
    <3>1. NoErrors(as) = NoErrors(rs)
      BY <1>1, <2>1 DEF NoErrors
    <3> QED
      BY <1>2, <2>1, <3>1
  <2>2. CASE r # "err"
    <3>1. NoErrors(as) = NoErrors(rs) \cup {Len(rs) + 1}
      BY <1>1, <2>2 DEF NoErrors
    <3>2. Len(rs) + 1 \notin NoErrors(rs)
      BY <1>1 DEF NoErrors
    <3> QED
      BY <1>2, <2>2, <3>1, <3>2, FS_AddElement
  <2> QED
    BY <2>1, <2>2
<1>4. Retried(rs) \subseteq Retried(as)
  BY <1>1 DEF Retried
<1>5. r = "retry_ok" /\ Len(rs) # 0 => Len(rs) \in Retried(as)
  <2>1. Len(rs) # 0 => Len(rs) \in DOMAIN rs
    BY <1>1
  <2> QED
    BY Zenon, <1>1, <2>1 DEF Retried
<1> QED
  BY <1>1, <1>2, <1>3, <1>4, <1>5 DEF as

\* What holds while a task is at place pc of a step.
LEMMA ActiveTask ==
    ASSUME TaskInv, NEW k \in Tasks, NEW pc \in TaskPlaces, A!Active(k, pc)
    PROVE  /\ task[k] \in TaskRecords /\ task[k].pc = pc
           /\ task[k].status \in {"running", "healing"}
           /\ task[k].step \in Nat \ {0} /\ task[k].step <= Len(Plan[k]) /\ Len(Plan[k]) \in Nat
           /\ A!Current(k) \in Targets
           /\ \A t \in Targets : Tries(task[k], k, t) <=> pc \in {"execute", "heal"} /\ t = A!Current(k)
           /\ degraded \in BOOLEAN /\ rounds \in [Tasks -> 0..Rounds]
           /\ failing \in [Targets -> 0..CounterCap]
           /\ A!Bump(failing[A!Current(k)]) \in 0..CounterCap
<1>1. /\ task[k] \in TaskRecords /\ task[k].pc = pc /\ task[k].step <= Len(Plan[k])
      /\ degraded \in BOOLEAN /\ rounds \in [Tasks -> 0..Rounds]
      /\ failing \in [Targets -> 0..CounterCap]
  BY DEF TaskInv, A!TypeOK, A!Active, TaskRecords, TaskPlaces
<1>2. task[k].status \in {"running", "healing"} /\ task[k].step \in Nat \ {0}
  BY <1>1 DEF A!Active, A!Over, TaskRecords, A!TaskStatus
<1>3. Plan[k] \in Seq(Targets) /\ Len(Plan[k]) \in Nat /\ task[k].step \in DOMAIN Plan[k]
  BY SMTT(60), <1>1, <1>2, TaskConstants
<1>4. A!Current(k) \in Targets /\ A!Current(k) = Plan[k][task[k].step]
  BY <1>3 DEF A!Current
<1>5. A!Bump(failing[A!Current(k)]) \in 0..CounterCap
  <2>1. failing[A!Current(k)] \in 0..CounterCap /\ CounterCap \in Nat
    BY <1>1, <1>4, TaskConstants
  <2> QED
    BY <2>1 DEF A!Bump
<1> QED
  BY <1>1, <1>2, <1>3, <1>4, <1>5 DEF Tries

\* The next step begins with the results of this one complete.
LEMMA StepDone ==
    ASSUME TaskInv, NEW k \in Tasks, NEW r \in A!ActionResult,
           \/ r # "err" /\ A!Active(k, "ask")
           \/ r # "err" /\ A!Active(k, "execute")
           \/ r = "retry_ok" /\ A!Active(k, "retry")
    PROVE  LET st == A!NextStep(A!WithResult(task[k], r))
           IN  /\ st \in TaskRecords /\ st.step <= Len(Plan[k]) + 1 /\ Accounted(st, k)
               /\ \A t \in Targets : ~Tries(st, k, t)
<1> DEFINE w == A!WithResult(task[k], r)
           st == A!NextStep(w)
           rs == task[k].results
<1>0. {"ask", "execute", "retry"} \subseteq TaskPlaces
  BY DEF TaskPlaces
<1>1. /\ task[k] \in TaskRecords /\ task[k].pc \in {"ask", "execute", "retry"}
      /\ task[k].pc = "retry" => r = "retry_ok"
      /\ task[k].status \in {"running", "healing"}
      /\ task[k].step \in Nat \ {0} /\ task[k].step <= Len(Plan[k]) /\ Len(Plan[k]) \in Nat
  BY <1>0, ActiveTask
<1>2. w \in TaskRecords /\ w.results = Append(rs, r) /\ w.step = task[k].step
  BY <1>1, TaskRecordMoves DEF TaskPlaces, A!TaskStatus
<1> HIDE DEF w
<1>3. /\ st \in TaskRecords /\ st.results = Append(rs, r) /\ st.step = task[k].step + 1
      /\ st.status = "running" /\ st.pc = "ask"
  BY <1>2, TaskRecordMoves DEF TaskPlaces, A!TaskStatus
<1> HIDE DEF st
<1>4. rs \in Seq(A!ActionResult) /\ r # "err"
  BY <1>1 DEF TaskRecords
<1>5. /\ DOMAIN st.results = DOMAIN rs \cup {Len(rs) + 1} /\ Len(rs) \in Nat
      /\ DOMAIN rs = 1..Len(rs)
      /\ \A i \in DOMAIN rs : st.results[i] = rs[i]
      /\ st.results[Len(rs) + 1] = r
      /\ Cardinality(NoErrors(rs)) \in Nat
      /\ Cardinality(NoErrors(st.results)) = Cardinality(NoErrors(rs)) + 1
      /\ Retried(rs) \subseteq Retried(st.results)
      /\ r = "retry_ok" /\ Len(rs) # 0 => Len(rs) \in Retried(st.results)
  BY <1>3, <1>4, ResultEnters
<1>6. Accounted(task[k], k)
  BY DEF TaskInv, ActionsAccounted
<1>7. Cardinality(NoErrors(st.results)) = st.step - 1
  BY <1>1, <1>3, <1>5, <1>6 DEF Accounted
<1>8. ASSUME NEW i \in DOMAIN st.results
      PROVE  st.results[i] # "err" \/ i \in Retried(st.results)
  <2>1. CASE i = Len(rs) + 1
    BY <1>4, <1>5, <2>1
  <2>2. CASE i \in DOMAIN rs
    BY SMTT(60), <1>1, <1>5, <1>6, <2>2 DEF Accounted
  <2> QED
    BY <1>5, <2>1, <2>2
<1>9. Accounted(st, k)
  BY <1>3, <1>7, <1>8 DEF Accounted
<1> QED
  BY <1>1, <1>3, <1>9 DEF Tries, st, w

LEMMA TaskBegins == ASSUME TaskInv, NEW k \in Tasks, A!RunTask(k) PROVE TaskInv'
<1> DEFINE st == A!Fresh("running")
<1>1. st \in TaskRecords /\ st.step = 1 /\ st.pc = "ask" /\ st.results = <<>> /\ st.status = "running"
  <2>1. <<>> \in Seq(A!ActionResult) /\ 1 \in Nat \ {0}
    OBVIOUS
  <2>2. "running" \in A!TaskStatus /\ "ask" \in TaskPlaces
    BY DEF A!TaskStatus, TaskPlaces
  <2> QED
    BY <2>1, <2>2 DEF A!Fresh, TaskRecords
<1>2. /\ task' = [task EXCEPT ![k] = st] /\ rounds' = [rounds EXCEPT ![k] = @ + 1]
      /\ rounds[k] < Rounds /\ UNCHANGED <<targetBreaker, degraded, failing, exhausted>>
  BY DEF A!RunTask
<1> HIDE DEF st
<1>3. Accounted(st, k)
  <2>1. NoErrors(st.results) = {} /\ DOMAIN st.results = {}
    BY <1>1 DEF NoErrors
  <2>2. Cardinality(NoErrors(st.results)) = 0
    BY <2>1, FS_EmptySet
  <2> QED
    BY <1>1, <2>1, <2>2 DEF Accounted
<1>4. rounds' \in [Tasks -> 0..Rounds] /\ degraded' \in BOOLEAN
      /\ failing' \in [Targets -> 0..CounterCap]
  BY <1>2, TaskConstants DEF TaskInv, A!TypeOK
<1>5. \A t \in Targets : ~Tries(st, k, t)
  BY <1>1 DEF Tries
<1>6. st.step <= Len(Plan[k]) + 1
  <2>1. Plan[k] \in Seq(Targets) /\ Len(Plan[k]) \in Nat
    BY TaskConstants
  <2> QED
    BY <1>1, <2>1
<1> QED
  BY <1>1, <1>2, <1>3, <1>4, <1>5, <1>6, UnheardStep

LEMMA SkipStep == ASSUME TaskInv, NEW k \in Tasks, A!Skip(k) PROVE TaskInv'
<1> DEFINE st == A!NextStep(A!WithResult(task[k], "skipped"))
<1>1. /\ A!Active(k, "ask") /\ degraded' \in BOOLEAN /\ task' = [task EXCEPT ![k] = st]
      /\ UNCHANGED <<targetBreaker, rounds, failing, exhausted>>
  BY DEF A!Skip
<1>2. "ask" \in TaskPlaces /\ "skipped" \in A!ActionResult
  BY DEF TaskPlaces, A!ActionResult
<1>3. /\ st \in TaskRecords /\ st.step <= Len(Plan[k]) + 1 /\ Accounted(st, k)
      /\ \A t \in Targets : ~Tries(st, k, t)
  BY <1>1, <1>2, StepDone
<1> HIDE DEF st
<1>4. rounds' \in [Tasks -> 0..Rounds] /\ failing' \in [Targets -> 0..CounterCap]
  BY <1>1, <1>2, ActiveTask
<1> QED
  BY <1>1, <1>3, <1>4, UnheardStep

\* The breaker of the target lets the action through.
LEMMA AdmitStep == ASSUME TaskInv, NEW k \in Tasks, A!Admit(k) PROVE TaskInv'
<1> DEFINE st == [task[k] EXCEPT !.pc = "execute"]
           t == A!Current(k)
<1>1. /\ A!Active(k, "ask") /\ A!Admits(targetBreaker[t])
      /\ targetBreaker' = [targetBreaker EXCEPT ![t] = A!AfterAllow(@)]
      /\ task' = [task EXCEPT ![k] = st]
      /\ UNCHANGED <<degraded, rounds, failing, exhausted>>
  BY DEF A!Admit
<1>2. {"ask", "execute"} \subseteq TaskPlaces
  BY DEF TaskPlaces
<1>3. /\ task[k] \in TaskRecords /\ task[k].pc = "ask"
      /\ task[k].status \in {"running", "healing"}
      /\ task[k].step \in Nat \ {0} /\ task[k].step <= Len(Plan[k]) /\ Len(Plan[k]) \in Nat
      /\ t \in Targets /\ \A u \in Targets : ~Tries(task[k], k, u)
      /\ degraded \in BOOLEAN /\ rounds \in [Tasks -> 0..Rounds]
      /\ failing \in [Targets -> 0..CounterCap]
  BY <1>1, <1>2, ActiveTask
<1>4. /\ st \in TaskRecords /\ st.pc = "execute" /\ st.step = task[k].step
      /\ st.status = task[k].status /\ st.results = task[k].results
  BY <1>2, <1>3 DEF TaskRecords
<1> HIDE DEF st
<1>5. Accounted(st, k)
  BY <1>3, <1>4 DEF TaskInv, ActionsAccounted, Accounted
<1>6. /\ targetBreaker \in [Targets -> A!BreakerState] /\ exhausted \in [Targets -> 0..CounterCap]
  BY DEF TaskInv, A!TypeOK
<1>7. \A u \in Targets : Tries(st, k, u) => u = t
  BY <1>4 DEF Tries, A!Current
<1> HIDE DEF t
<1>8. targetBreaker' \in [Targets -> A!BreakerState]
  BY <1>1, <1>3, <1>6, TaskBreakers
<1>9. ASSUME NEW u \in Targets
      PROVE  Spares(targetBreaker'[u], exhausted'[u], Cardinality(Trying(u)'),
                    TaskThreshold, Cardinality(Tasks))
  <2>1. /\ Cardinality(Trying(u)) \in Nat /\ Cardinality(Trying(u)') \in Nat
        /\ Cardinality(Trying(u)') = Cardinality(Trying(u)) + (IF Tries(st, k, u) THEN 1 ELSE 0) - 0
    BY <1>1, <1>3, <1>4, TaskMoves
  <2>2. Spares(targetBreaker[u], exhausted[u], Cardinality(Trying(u)),
               TaskThreshold, Cardinality(Tasks))
    BY DEF TaskInv, TargetsSpared
  <2>3. exhausted[u] \in Nat /\ exhausted'[u] = exhausted[u]
    BY <1>1, <1>6
  <2>4. \/ targetBreaker'[u] = targetBreaker[u]
           /\ (Cardinality(Trying(u)') <= Cardinality(Trying(u)) \/ targetBreaker[u].state # "open")
        \/ targetBreaker[u].state = "open" /\ targetBreaker[u].cooled
           /\ targetBreaker'[u].state = "half_open"
    <3>1. CASE u # t
      BY <1>1, <1>6, <1>7, <2>1, <3>1
    <3>2. CASE u = t
      <4>1. targetBreaker'[u] = A!AfterAllow(targetBreaker[u])
        BY <1>1, <1>6, <3>2
      <4>2. CASE targetBreaker[u].state = "open" /\ targetBreaker[u].cooled
        <5>1. targetBreaker'[u] = [targetBreaker[u] EXCEPT !.state = "half_open", !.succs = 0]
          BY <4>1, <4>2 DEF A!AfterAllow
        <5> QED
          BY <1>6, <4>2, <5>1 DEF A!BreakerState
      <4>3. CASE ~(targetBreaker[u].state = "open" /\ targetBreaker[u].cooled)
        BY <1>1, <3>2, <4>1, <4>3 DEF A!AfterAllow, A!Admits
      <4> QED
        BY <4>2, <4>3
    <3> QED
      BY <3>1, <3>2
  <2> QED
    BY <2>1, <2>2, <2>3, <2>4, SparesAllow, TaskConstants
<1>10. /\ st.step <= Len(Plan[k]) + 1 /\ degraded' \in BOOLEAN
       /\ rounds' \in [Tasks -> 0..Rounds] /\ failing' \in [Targets -> 0..CounterCap]
       /\ exhausted' \in [Targets -> 0..CounterCap]
  BY <1>1, <1>3, <1>4, <1>6
<1> QED
  BY <1>1, <1>4, <1>5, <1>8, <1>9, <1>10, TaskerStep

LEMMA ActionSucceedsStep == ASSUME TaskInv, NEW k \in Tasks, A!ActionSucceeds(k) PROVE TaskInv'
<1> DEFINE st == A!NextStep(A!WithResult(task[k], "ok"))
           t == A!Current(k)
<1>1. /\ A!Active(k, "execute") /\ task' = [task EXCEPT ![k] = st]
      /\ targetBreaker' = [targetBreaker EXCEPT ![t] = A!AfterSuccess(@)]
      /\ exhausted' = [exhausted EXCEPT ![t] = 0]
      /\ failing' = [failing EXCEPT ![t] = 0]
      /\ UNCHANGED <<degraded, rounds>>
  BY DEF A!ActionSucceeds
<1>2. "execute" \in TaskPlaces /\ "ok" \in A!ActionResult
  BY DEF TaskPlaces, A!ActionResult
<1>3. /\ st \in TaskRecords /\ st.step <= Len(Plan[k]) + 1 /\ Accounted(st, k)
      /\ \A u \in Targets : ~Tries(st, k, u)
  BY <1>1, <1>2, StepDone
<1>4. /\ t \in Targets /\ \A u \in Targets : Tries(task[k], k, u) => u = t
      /\ degraded' \in BOOLEAN /\ rounds' \in [Tasks -> 0..Rounds]
      /\ failing \in [Targets -> 0..CounterCap]
  BY <1>1, <1>2, ActiveTask
<1> HIDE DEF st, t
<1>5. failing' \in [Targets -> 0..CounterCap]
  BY <1>1, <1>4, TaskConstants
<1> QED
  BY <1>1, <1>3, <1>4, <1>5, HeardStep

LEMMA ActionFailsStep == ASSUME TaskInv, NEW k \in Tasks, A!ActionFails(k) PROVE TaskInv'
<1> DEFINE s == A!Stay(k, "heal", "healing")
           st == A!WithResult(s, "err")
           rs == task[k].results
<1>1. /\ A!Active(k, "execute") /\ task' = [task EXCEPT ![k] = st]
      /\ UNCHANGED <<targetBreaker, degraded, rounds, failing, exhausted>>
  BY DEF A!ActionFails
<1>2. /\ {"execute", "heal"} \subseteq TaskPlaces /\ "err" \in A!ActionResult
      /\ "healing" \in A!TaskStatus
  BY DEF TaskPlaces, A!ActionResult, A!TaskStatus
<1>3. /\ task[k] \in TaskRecords /\ task[k].pc = "execute"
      /\ task[k].status \in {"running", "healing"}
      /\ task[k].step \in Nat \ {0} /\ task[k].step <= Len(Plan[k]) /\ Len(Plan[k]) \in Nat
      /\ degraded \in BOOLEAN /\ rounds \in [Tasks -> 0..Rounds]
      /\ failing \in [Targets -> 0..CounterCap]
  BY <1>1, <1>2, ActiveTask
<1>4. /\ s \in TaskRecords /\ s.pc = "heal" /\ s.status = "healing"
      /\ s.step = task[k].step /\ s.results = rs
  BY <1>2, <1>3 DEF A!Stay, TaskRecords
<1> HIDE DEF s
<1>5. /\ st \in TaskRecords /\ st.pc = "heal" /\ st.status = "healing"
      /\ st.step = task[k].step /\ st.results = Append(rs, "err")
  BY <1>2, <1>4, TaskRecordMoves
<1> HIDE DEF st
<1>6. rs \in Seq(A!ActionResult)
  BY <1>3 DEF TaskRecords
<1>7. /\ DOMAIN st.results = DOMAIN rs \cup {Len(rs) + 1} /\ Len(st.results) = Len(rs) + 1
      /\ \A i \in DOMAIN rs : st.results[i] = rs[i]
      /\ st.results[Len(rs) + 1] = "err"
      /\ Cardinality(NoErrors(rs)) \in Nat
      /\ Cardinality(NoErrors(st.results)) = Cardinality(NoErrors(rs)) + 0
      /\ Retried(rs) \subseteq Retried(st.results)
  BY <1>2, <1>5, <1>6, ResultEnters
<1>8. Accounted(task[k], k)
  BY DEF TaskInv, ActionsAccounted
<1>9. Plan[k] \in Seq(Targets) /\ st.step \in DOMAIN Plan[k]
  BY <1>3, <1>5, TaskConstants
<1>10. Accounted(st, k)
  BY <1>3, <1>5, <1>7, <1>8, <1>9 DEF Accounted
<1>11. \A t \in Targets : Tries(st, k, t) => Tries(task[k], k, t)
  BY <1>3, <1>5 DEF Tries
<1>12. /\ st.step <= Len(Plan[k]) + 1 /\ degraded' \in BOOLEAN
       /\ rounds' \in [Tasks -> 0..Rounds] /\ failing' \in [Targets -> 0..CounterCap]
  BY <1>1, <1>3, <1>5
<1> QED
  BY <1>1, <1>5, <1>10, <1>11, <1>12, UnheardStep

LEMMA HealSucceedsStep == ASSUME TaskInv, NEW k \in Tasks, A!HealSucceeds(k) PROVE TaskInv'
<1> DEFINE st == [task[k] EXCEPT !.pc = "retry"]
           t == A!Current(k)
<1>1. /\ A!Active(k, "heal") /\ task' = [task EXCEPT ![k] = st]
      /\ targetBreaker' = [targetBreaker EXCEPT ![t] = A!AfterSuccess(@)]
      /\ exhausted' = [exhausted EXCEPT ![t] = 0]
      /\ UNCHANGED <<degraded, rounds, failing>>
  BY DEF A!HealSucceeds
<1>2. {"heal", "retry"} \subseteq TaskPlaces
  BY DEF TaskPlaces
<1>3. /\ task[k] \in TaskRecords /\ task[k].pc = "heal"
      /\ task[k].status \in {"running", "healing"}
      /\ task[k].step \in Nat \ {0} /\ task[k].step <= Len(Plan[k]) /\ Len(Plan[k]) \in Nat
      /\ t \in Targets /\ \A u \in Targets : Tries(task[k], k, u) => u = t
      /\ degraded' \in BOOLEAN /\ rounds' \in [Tasks -> 0..Rounds]
      /\ failing' \in [Targets -> 0..CounterCap]
  BY <1>1, <1>2, ActiveTask
<1>4. /\ st \in TaskRecords /\ st.pc = "retry" /\ st.step = task[k].step
      /\ st.status = task[k].status /\ st.results = task[k].results
  BY <1>2, <1>3 DEF TaskRecords
<1> HIDE DEF st, t
<1>5. Accounted(st, k)
  BY <1>3, <1>4 DEF TaskInv, ActionsAccounted, Accounted
<1>6. st.step <= Len(Plan[k]) + 1 /\ \A u \in Targets : ~Tries(st, k, u)
  BY <1>3, <1>4 DEF Tries
<1> QED
  BY <1>1, <1>3, <1>4, <1>5, <1>6, HeardStep

LEMMA HealFailsStep == ASSUME TaskInv, NEW k \in Tasks, A!HealFails(k) PROVE TaskInv'
<1> DEFINE st == A!Failed(task[k])
           t == A!Current(k)
<1>1. /\ A!Active(k, "heal") /\ task' = [task EXCEPT ![k] = st]
      /\ targetBreaker' = [targetBreaker EXCEPT ![t] = A!AfterFailure(@)]
      /\ exhausted' = [exhausted EXCEPT ![t] = A!Bump(@)]
      /\ failing' = [failing EXCEPT ![t] = A!Bump(@)]
      /\ UNCHANGED <<degraded, rounds>>
  BY DEF A!HealFails
<1>2. "heal" \in TaskPlaces
  BY DEF TaskPlaces
<1>3. /\ task[k] \in TaskRecords
      /\ task[k].step \in Nat \ {0} /\ task[k].step <= Len(Plan[k]) /\ Len(Plan[k]) \in Nat
      /\ t \in Targets /\ \A u \in Targets : Tries(task[k], k, u) <=> u = t
      /\ degraded' \in BOOLEAN /\ rounds' \in [Tasks -> 0..Rounds]
      /\ failing \in [Targets -> 0..CounterCap] /\ A!Bump(failing[t]) \in 0..CounterCap
  BY <1>1, <1>2, ActiveTask
<1>4. st \in TaskRecords /\ st.status = "failed" /\ st.step = task[k].step
  BY <1>3, TaskRecordMoves DEF A!ActionResult, TaskPlaces, A!TaskStatus
<1> HIDE DEF st, t
<1>5. failing' \in [Targets -> 0..CounterCap]
  BY <1>1, <1>3
<1>6. /\ Accounted(st, k) /\ st.step <= Len(Plan[k]) + 1
      /\ \A u \in Targets : ~Tries(st, k, u)
  BY <1>3, <1>4 DEF Accounted, Tries
<1> QED
  BY ZenonT(90), <1>1, <1>3, <1>4, <1>5, <1>6, HeardStep

LEMMA RetrySucceedsStep == ASSUME TaskInv, NEW k \in Tasks, A!RetrySucceeds(k) PROVE TaskInv'
<1> DEFINE st == A!NextStep(A!WithResult(task[k], "retry_ok"))
           t == A!Current(k)
<1>1. /\ A!Active(k, "retry") /\ task' = [task EXCEPT ![k] = st]
      /\ failing' = [failing EXCEPT ![t] = 0]
      /\ UNCHANGED <<targetBreaker, degraded, rounds, exhausted>>
  BY DEF A!RetrySucceeds
<1>2. "retry" \in TaskPlaces /\ "retry_ok" \in A!ActionResult
  BY DEF TaskPlaces, A!ActionResult
<1>3. /\ st \in TaskRecords /\ st.step <= Len(Plan[k]) + 1 /\ Accounted(st, k)
      /\ \A u \in Targets : ~Tries(st, k, u)
  BY <1>1, <1>2, StepDone
<1>4. /\ t \in Targets /\ degraded' \in BOOLEAN /\ rounds' \in [Tasks -> 0..Rounds]
      /\ failing \in [Targets -> 0..CounterCap]
  BY <1>1, <1>2, ActiveTask
<1> HIDE DEF st, t
<1>5. failing' \in [Targets -> 0..CounterCap]
  BY <1>1, <1>4, TaskConstants
<1> QED
  BY <1>1, <1>3, <1>4, <1>5, UnheardStep

LEMMA RetryFailsStep == ASSUME TaskInv, NEW k \in Tasks, A!RetryFails(k) PROVE TaskInv'
<1> DEFINE w == A!WithResult(task[k], "retry_err")
           st == A!Failed(w)
           t == A!Current(k)
<1>1. /\ A!Active(k, "retry") /\ task' = [task EXCEPT ![k] = st]
      /\ targetBreaker' = [targetBreaker EXCEPT ![t] = A!AfterFailure(@)]
      /\ failing' = [failing EXCEPT ![t] = A!Bump(@)]
      /\ UNCHANGED <<degraded, rounds, exhausted>>
  BY DEF A!RetryFails
<1>2. "retry" \in TaskPlaces /\ "retry_err" \in A!ActionResult /\ "failed" \in A!TaskStatus
  BY DEF TaskPlaces, A!ActionResult, A!TaskStatus
<1>3. /\ task[k] \in TaskRecords
      /\ task[k].step \in Nat \ {0} /\ task[k].step <= Len(Plan[k]) /\ Len(Plan[k]) \in Nat
      /\ t \in Targets /\ \A u \in Targets : ~Tries(task[k], k, u)
      /\ degraded' \in BOOLEAN /\ rounds' \in [Tasks -> 0..Rounds]
      /\ failing \in [Targets -> 0..CounterCap] /\ A!Bump(failing[t]) \in 0..CounterCap
  BY <1>1, <1>2, ActiveTask
<1>4. w \in TaskRecords /\ w.step = task[k].step
  BY <1>2, <1>3, TaskRecordMoves
<1> HIDE DEF w
<1>5. st \in TaskRecords /\ st.status = "failed" /\ st.step = task[k].step
  BY <1>2, <1>4, TaskRecordMoves
<1> HIDE DEF st, t
<1>6. failing' \in [Targets -> 0..CounterCap]
  BY <1>1, <1>3
<1>7. /\ Accounted(st, k) /\ st.step <= Len(Plan[k]) + 1
      /\ \A u \in Targets : ~Tries(st, k, u)
  BY <1>3, <1>5 DEF Accounted, Tries
<1> QED
  BY <1>1, <1>3, <1>5, <1>6, <1>7, HeardStep

\* All actions are done; none of them is being repaired.
LEMMA CompleteStep == ASSUME TaskInv, NEW k \in Tasks, A!Complete(k) PROVE TaskInv'
<1> DEFINE st == [task[k] EXCEPT !.status = "completed"]
<1>1. /\ ~A!Over(k) /\ task[k].step > Len(Plan[k]) /\ task' = [task EXCEPT ![k] = st]
      /\ UNCHANGED <<targetBreaker, degraded, rounds, failing, exhausted>>
  BY DEF A!Complete
<1>2. /\ task[k] \in TaskRecords /\ task[k].step <= Len(Plan[k]) + 1
      /\ degraded \in BOOLEAN /\ rounds \in [Tasks -> 0..Rounds]
      /\ failing \in [Targets -> 0..CounterCap]
  BY DEF TaskInv, A!TypeOK, TaskRecords, TaskPlaces
<1>3. "completed" \in A!TaskStatus
  BY DEF A!TaskStatus
<1>4. /\ st \in TaskRecords /\ st.status = "completed" /\ st.step = task[k].step
      /\ st.pc = task[k].pc /\ st.results = task[k].results
  BY <1>2, <1>3 DEF TaskRecords
<1> HIDE DEF st
<1>5. Plan[k] \in Seq(Targets) /\ Len(Plan[k]) \in Nat /\ DOMAIN Plan[k] = 1..Len(Plan[k])
      /\ task[k].step \in Nat /\ task[k].pc \in TaskPlaces
      /\ task[k].status \in {"running", "healing"}
  BY <1>1, <1>2, TaskConstants DEF A!Over, TaskRecords, A!TaskStatus
<1>6. task[k].step = Len(Plan[k]) + 1 /\ task[k].step \notin DOMAIN Plan[k]
  BY <1>1, <1>2, <1>5
<1>7. Accounted(st, k)
  BY <1>4, <1>5, <1>6 DEF TaskInv, ActionsAccounted, Accounted, TaskPlaces
<1>8. /\ \A t \in Targets : ~Tries(st, k, t)
      /\ st.step <= Len(Plan[k]) + 1 /\ degraded' \in BOOLEAN
      /\ rounds' \in [Tasks -> 0..Rounds] /\ failing' \in [Targets -> 0..CounterCap]
  BY <1>1, <1>2, <1>4, <1>6 DEF Tries
<1> QED
  BY <1>1, <1>4, <1>7, <1>8, UnheardStep

LEMMA TaskCooldown == ASSUME TaskInv, NEW t \in Targets, A!Cooldown(t) PROVE TaskInv'
<1>1. /\ targetBreaker' = [targetBreaker EXCEPT ![t] = A!AfterCooldown(@)]
      /\ failing' = [failing EXCEPT ![t] = 0]
      /\ exhausted' = [exhausted EXCEPT ![t] = 0]
      /\ UNCHANGED <<degraded, task, rounds>>
  BY DEF A!Cooldown
<1>2. /\ targetBreaker \in [Targets -> A!BreakerState]
      /\ exhausted \in [Targets -> 0..CounterCap] /\ failing \in [Targets -> 0..CounterCap]
  BY DEF TaskInv, A!TypeOK
<1>3. /\ targetBreaker' \in [Targets -> A!BreakerState]
      /\ exhausted' \in [Targets -> 0..CounterCap] /\ failing' \in [Targets -> 0..CounterCap]
  <2>1. 0 \in 0..CounterCap /\ A!AfterCooldown(targetBreaker[t]) \in A!BreakerState
    BY <1>2, TaskConstants, TaskBreakers
  <2> QED
    BY <1>1, <1>2, <2>1
<1>4. ASSUME NEW u \in Targets
      PROVE  Spares(targetBreaker'[u], exhausted'[u], Cardinality(Trying(u)),
                    TaskThreshold, Cardinality(Tasks))
  <2>1. Trying(u) \subseteq Tasks
    BY DEF Trying
  <2>2. Cardinality(Trying(u)) \in Nat /\ Cardinality(Trying(u)) <= Cardinality(Tasks)
    BY <2>1, TaskConstants, FS_Subset, FS_CardinalityType
  <2>3. Spares(targetBreaker[u], exhausted[u], Cardinality(Trying(u)),
               TaskThreshold, Cardinality(Tasks))
    BY DEF TaskInv, TargetsSpared
  <2>4. CASE u # t
    BY <1>1, <1>2, <2>3, <2>4
  <2>5. CASE u = t
    <3>1. targetBreaker'[u] = A!AfterCooldown(targetBreaker[u]) /\ exhausted'[u] = 0
      BY <1>1, <1>2, <2>5
    <3>2. targetBreaker'[u].state = "closed" =>
            targetBreaker'[u].fails \in Nat /\ targetBreaker'[u].fails < TaskThreshold
      BY <1>2, <2>3, <3>1, TaskBreakers DEF Spares
    <3>3. Spares(targetBreaker'[u], 0, Cardinality(Trying(u)), TaskThreshold, Cardinality(Tasks))
      BY <2>2, <3>2, SparesReset, TaskConstants
    <3> QED
      BY <3>1, <3>3
  <2> QED
    BY <2>4, <2>5
<1>5. TargetsSpared' /\ ActionsAccounted'
  BY <1>1, <1>4 DEF TaskInv, TargetsSpared, Trying, Tries, ActionsAccounted, Accounted
<1> QED
  BY <1>1, <1>3, <1>5 DEF TaskInv, A!TypeOK

LEMMA TaskInit == A!Init => TaskInv
<1> SUFFICES ASSUME A!Init PROVE TaskInv
  OBVIOUS
<1>1. A!NewBreaker \in A!BreakerState /\ A!NewBreaker.state = "closed" /\ A!NewBreaker.fails = 0
  <2>1. 0 \in 0..CounterCap /\ WindowSize = 0
    BY TaskConstants, AgentAssumption DEF A!MemberAgentAssumption
  <2>2. 0 \in 0..WindowSize /\ 0 \in {0} \cup 0..(WindowSize - 1)
    BY <2>1
  <2>3. [i \in 0..(WindowSize - 1) |-> FALSE] \in [0..(WindowSize - 1) -> BOOLEAN]
    OBVIOUS
  <2> QED
    BY <2>1, <2>2, <2>3 DEF A!NewBreaker, A!BreakerState, A!CircuitState
<1>2. A!Fresh("pending") \in TaskRecords /\ A!Fresh("pending").step = 1
      /\ A!Fresh("pending").status = "pending"
  <2>1. <<>> \in Seq(A!ActionResult) /\ 1 \in Nat \ {0}
    OBVIOUS
  <2>2. "pending" \in A!TaskStatus /\ "ask" \in TaskPlaces
    BY DEF A!TaskStatus, TaskPlaces
  <2> QED
    BY <2>1, <2>2 DEF A!Fresh, TaskRecords
<1>3. \A k \in Tasks : task[k] = A!Fresh("pending")
  BY DEF A!Init
<1>4. A!TypeOK
  <2>1. task \in [Tasks -> TaskRecords]
    BY <1>2 DEF A!Init
  <2>2. ASSUME NEW k \in Tasks PROVE task[k].step <= Len(Plan[k]) + 1
    <3>1. Plan[k] \in Seq(Targets) /\ Len(Plan[k]) \in Nat
      BY TaskConstants
    <3> QED
      BY <1>2, <1>3, <3>1
  <2>3. /\ rounds \in [Tasks -> 0..Rounds] /\ failing \in [Targets -> 0..CounterCap]
        /\ exhausted \in [Targets -> 0..CounterCap]
        /\ targetBreaker \in [Targets -> A!BreakerState] /\ degraded \in BOOLEAN
    <3>1. 0 \in 0..CounterCap /\ 0 \in 0..Rounds
      BY TaskConstants
    <3>2. rounds \in [Tasks -> 0..Rounds]
      BY <3>1 DEF A!Init
    <3>3. failing \in [Targets -> 0..CounterCap]
      BY <3>1 DEF A!Init
    <3>4. exhausted \in [Targets -> 0..CounterCap]
      BY <3>1 DEF A!Init
    <3>5. targetBreaker \in [Targets -> A!BreakerState]
      BY <1>1 DEF A!Init
    <3>6. degraded \in BOOLEAN
      BY DEF A!Init
    <3> QED
      BY <3>2, <3>3, <3>4, <3>5, <3>6
  <2> QED
    BY <2>1, <2>2, <2>3 DEF A!TypeOK, TaskRecords, TaskPlaces
<1>5. ASSUME NEW t \in Targets
      PROVE  Spares(targetBreaker[t], exhausted[t], Cardinality(Trying(t)),
                    TaskThreshold, Cardinality(Tasks))
  <2>1. Trying(t) = {} /\ Cardinality({}) = 0
    BY <1>2, <1>3, FS_EmptySet DEF Trying, Tries
  <2>2. targetBreaker[t] = A!NewBreaker /\ exhausted[t] = 0
    BY DEF A!Init
  <2>3. targetBreaker[t].state = "closed" =>
           targetBreaker[t].fails \in Nat /\ targetBreaker[t].fails < TaskThreshold
    BY <1>1, <2>2, TaskConstants
  <2>4. Spares(targetBreaker[t], 0, 0, TaskThreshold, Cardinality(Tasks))
    BY <2>3, SparesReset, TaskConstants
  <2> QED
    BY <2>1, <2>2, <2>4
<1>6. ActionsAccounted
  BY <1>2, <1>3 DEF ActionsAccounted, Accounted
<1> QED
  BY <1>4, <1>5, <1>6 DEF TaskInv, TargetsSpared

LEMMA TaskNext == ASSUME TaskInv, A!Next PROVE TaskInv'
BY TaskBegins, SkipStep, AdmitStep, ActionSucceedsStep, ActionFailsStep, HealSucceedsStep,
   HealFailsStep, RetrySucceedsStep, RetryFailsStep, CompleteStep, TaskCooldown
   DEF A!Next, A!TaskStep

LEMMA TaskRests == ASSUME TaskInv, UNCHANGED taskVars PROVE TaskInv'
BY DEF TaskInv, taskVars, A!TypeOK, TargetsSpared, Trying, Tries, ActionsAccounted, Accounted

\* A completed task repairs nothing any more.
LEMMA TasksAddUp == TaskInv => A!CompletedIsAccounted /\ A!ExhaustedPerCooldown
<1> SUFFICES ASSUME TaskInv PROVE A!CompletedIsAccounted /\ A!ExhaustedPerCooldown
  OBVIOUS
<1>1. A!CompletedIsAccounted
  <2> SUFFICES ASSUME NEW k \in Tasks, task[k].status = "completed"
               PROVE  LET rs == task[k].results
                      IN  /\ Cardinality({i \in DOMAIN rs : rs[i] # "err"}) = Len(Plan[k])
                          /\ \A i \in DOMAIN rs : rs[i] = "err"
                                => i + 1 \in DOMAIN rs /\ rs[i + 1] = "retry_ok"
    BY Cardinalities DEF A!CompletedIsAccounted
  <2>1. Accounted(task[k], k)
    BY DEF TaskInv, ActionsAccounted
  <2>2. Plan[k] \in Seq(Targets) /\ Len(Plan[k]) \in Nat
    BY TaskConstants
  <2>3. task[k].step = Len(Plan[k]) + 1 /\ task[k].pc \in {"ask", "execute"}
    BY <2>1 DEF Accounted
  <2>4. Cardinality(NoErrors(task[k].results)) = Len(Plan[k])
    BY <2>1, <2>2, <2>3 DEF Accounted
  <2> QED
    BY <2>1, <2>3, <2>4 DEF Accounted, NoErrors, Retried
<1>2. A!ExhaustedPerCooldown
  <2> SUFFICES ASSUME NEW t \in Targets
               PROVE  exhausted[t] <= TaskThreshold - 1 + Cardinality(Tasks)
    BY Cardinalities DEF A!ExhaustedPerCooldown
  <2>1. Trying(t) \subseteq Tasks
    BY DEF Trying
  <2>2. Cardinality(Trying(t)) \in Nat
    BY <2>1, TaskConstants, FS_Subset, FS_CardinalityType
  <2>3. targetBreaker[t] \in A!BreakerState /\ exhausted[t] \in Nat
    BY TaskConstants DEF TaskInv, A!TypeOK
  <2> QED
    BY <2>2, <2>3, SparesBounds, TaskBreakers, TaskConstants DEF TaskInv, TargetsSpared
<1> QED
  BY <1>1, <1>2

(***************************************************************************)
(* Explore.                                                                *)
(***************************************************************************)
Repairing == {"heal", "healing", "retry", "rediscover"}
Inside    == {"discover"} \cup Repairing

ExplorerRecords ==
    [pc   : {"waiting", "acquired", "element", "discover", "heal",
             "healing", "retry", "rediscover", "returned"},
     at   : Nat \ {0},
     html : E!Shown \cup {NoPage}]
ExploreResults == [discovered : Nat, failed : Nat, heals : Nat, error : BOOLEAN]

\* The elements a goroutine has dealt with when it is at n, and those of them
\* that have a stored selector, as reg says.
Seen(p, n) == {Elements[p][i] : i \in 1..(n - 1)}
Covered(p, n, reg) == {e \in Seen(p, n) : reg[e] # NoPage}

PlaceFits(st, p) ==
    /\ st.at <= Len(Elements[p]) + 1 /\ stray[p] <= st.at
    /\ st.pc \in Inside => st.at \in DOMAIN Elements[p]
    /\ st.pc \in {"waiting", "acquired"} => st.at = 1
    /\ st.pc \in {"element"} \cup Inside => page # NoPage
    /\ st.pc \in {"discover", "healing", "rediscover"} => st.html # NoPage

\* The counters of result r, whose goroutine is as st says.
Follows(r, st, p) ==
    /\ r.discovered + r.failed = st.at - 1 + (IF st.pc \in Repairing THEN 1 ELSE 0)
    /\ st.pc \in Repairing => r.failed > 0
    /\ r.failed <= r.heals + (IF st.pc \in {"heal", "healing"} THEN 1 ELSE 0)
    /\ st.pc = "returned" /\ ~r.error => st.at = Len(Elements[p]) + 1
    /\ r.discovered <= Cardinality(Covered(p, st.at, registered))

\* Who has the browser has it on its own page, until a heal has left it.
OnOwnPage(st, p) ==
    stray[p] = 0 => /\ st.pc \in {"element"} \cup Inside => page = p
                    /\ st.pc \in {"discover", "healing", "rediscover"} => st.html = p

\* One goroutine at a time has the browser.
Serialised ==
    limit = 1 =>
        /\ \A p, q \in E!Holders : p = q
        /\ \A p \in Pages : OnOwnPage(explorer[p], p)
        /\ E!SelectorsFromOwnPage

ExploreInv ==
    /\ E!TypeOK
    /\ \A p \in Pages : PlaceFits(explorer[p], p) /\ Follows(result[p], explorer[p], p)
    /\ Serialised

LEMMA ExploreConstants ==
    /\ IsFiniteSet(Pages) /\ NoPage \notin E!Shown /\ Pages \subseteq E!Shown
    /\ MostConcurrency \in Nat \ {0}
    /\ \A p \in Pages :
        /\ Len(Elements[p]) \in Nat /\ DOMAIN Elements[p] = 1..Len(Elements[p])
        /\ \A i \in DOMAIN Elements[p] : Elements[p][i] \in E!IDs(p)
        /\ \A i, j \in DOMAIN Elements[p] : Elements[p][i] = Elements[p][j] => i = j
        /\ E!IDs(p) \subseteq E!AllIDs
        /\ \A q \in Pages \ {p} : E!IDs(p) \cap E!IDs(q) = {}
<1>1. E!ExploreAssumption
  BY AgentAssumption
<1>2. /\ IsFiniteSet(Pages) /\ NoPage \notin E!Shown /\ Pages \subseteq E!Shown
      /\ MostConcurrency \in Nat \ {0}
  BY <1>1, Cardinalities DEF E!ExploreAssumption, E!Shown
<1>3. ASSUME NEW p \in Pages
      PROVE  /\ Len(Elements[p]) \in Nat /\ DOMAIN Elements[p] = 1..Len(Elements[p])
             /\ \A i \in DOMAIN Elements[p] : Elements[p][i] \in E!IDs(p)
             /\ \A i, j \in DOMAIN Elements[p] : Elements[p][i] = Elements[p][j] => i = j
             /\ E!IDs(p) \subseteq E!AllIDs
             /\ \A q \in Pages \ {p} : E!IDs(p) \cap E!IDs(q) = {}
  <2>1. Elements[p] \in Seq(E!AllIDs)
    BY <1>1 DEF E!ExploreAssumption
  <2>2. Len(Elements[p]) \in Nat /\ DOMAIN Elements[p] = 1..Len(Elements[p])
    BY <2>1
  <2>3. \A i, j \in DOMAIN Elements[p] : Elements[p][i] = Elements[p][j] => i = j
    BY <1>1 DEF E!ExploreAssumption
  <2>4. /\ \A i \in DOMAIN Elements[p] : Elements[p][i] \in E!IDs(p)
        /\ E!IDs(p) \subseteq E!AllIDs
    BY DEF E!IDs, E!AllIDs
  <2>5. \A q \in Pages \ {p} : E!IDs(p) \cap E!IDs(q) = {}
    BY <1>1 DEF E!ExploreAssumption
  <2> QED
    BY <2>2, <2>3, <2>4, <2>5
<1> QED
  BY <1>2, <1>3

\* What is covered stays so and grows by an element that has a selector now.
LEMMA CoverGrows ==
    ASSUME NEW p \in Pages, NEW n \in Nat \ {0}, NEW m \in {n, n + 1},
           n <= Len(Elements[p]) + 1, m <= Len(Elements[p]) + 1, NEW reg, NEW reg2,
           \A e \in E!AllIDs : reg[e] # NoPage => reg2[e] # NoPage
    PROVE  /\ Cardinality(Covered(p, n, reg)) \in Nat /\ Cardinality(Covered(p, m, reg2)) \in Nat
           /\ Cardinality(Covered(p, n, reg)) <= Cardinality(Covered(p, m, reg2))
           /\ m = n + 1 /\ reg2[Elements[p][n]] # NoPage =>
                 Cardinality(Covered(p, n, reg)) + 1 <= Cardinality(Covered(p, m, reg2))
<1>1. Len(Elements[p]) \in Nat /\ DOMAIN Elements[p] = 1..Len(Elements[p])
  BY ExploreConstants
<1>2. \A k \in {n, m} : \A i \in 1..(k - 1) : i \in DOMAIN Elements[p] /\ Elements[p][i] \in E!AllIDs
  BY <1>1, ExploreConstants
<1>3. ASSUME NEW k \in {n, m}, NEW f PROVE IsFiniteSet(Covered(p, k, f))
  <2>1. 1 \in Int /\ k - 1 \in Int
    OBVIOUS
  <2>2. IsFiniteSet(1..(k - 1))
    BY <2>1, FS_Interval
  <2>3. IsFiniteSet(Seen(p, k))
    <3> DEFINE f2 == [i \in 1..(k - 1) |-> Elements[p][i]]
    <3>1. f2 \in Surjection(1..(k - 1), Seen(p, k))
      BY DEF Seen, Surjection
    <3> QED
      BY <2>2, <3>1, FS_Surjection
  <2>4. Covered(p, k, f) \subseteq Seen(p, k)
    BY DEF Covered
  <2> QED
    BY <2>3, <2>4, FS_Subset
<1>4. Cardinality(Covered(p, n, reg)) \in Nat /\ Cardinality(Covered(p, m, reg2)) \in Nat
  BY <1>3, FS_CardinalityType
<1>5. Covered(p, n, reg) \subseteq Covered(p, m, reg2)
  <2>1. \A i \in 1..(n - 1) : i \in 1..(m - 1)
    OBVIOUS
  <2> QED
    BY <1>2, <2>1 DEF Covered, Seen
<1>6. Cardinality(Covered(p, n, reg)) <= Cardinality(Covered(p, m, reg2))
  BY <1>3, <1>5, FS_Subset
<1>7. ASSUME m = n + 1, reg2[Elements[p][n]] # NoPage
      PROVE  Cardinality(Covered(p, n, reg)) + 1 <= Cardinality(Covered(p, m, reg2))
  <2>1. n \in 1..(m - 1) /\ n \notin 1..(n - 1) /\ n \in DOMAIN Elements[p]
    BY <1>1, <1>2, <1>7
  <2>2. Elements[p][n] \in Covered(p, m, reg2)
    BY <1>7, <2>1 DEF Covered, Seen
  <2>3. Elements[p][n] \notin Covered(p, n, reg)
    BY SMTT(60), <1>2, <2>1, ExploreConstants DEF Covered, Seen
  <2>4. Covered(p, n, reg) \cup {Elements[p][n]} \subseteq Covered(p, m, reg2)
    BY <1>5, <2>2
  <2>5. /\ IsFiniteSet(Covered(p, n, reg) \cup {Elements[p][n]})
        /\ Cardinality(Covered(p, n, reg) \cup {Elements[p][n]})
              = Cardinality(Covered(p, n, reg)) + 1
    BY <1>3, <2>3, FS_AddElement
  <2>6. Cardinality(Covered(p, n, reg) \cup {Elements[p][n]}) <= Cardinality(Covered(p, m, reg2))
    BY <1>3, <2>4, FS_Subset
  <2> QED
    BY <2>5, <2>6
<1> QED
  BY <1>4, <1>6, <1>7

\* A step of p leaves the other goroutines as they are: what it must show is
\* about p, and about who has the browser when one at a time may have it.
LEMMA ExploreKeeps ==
    ASSUME ExploreInv, NEW p \in Pages,
           UNCHANGED <<limit, done>>, page' \in {page} \cup E!Shown, stray' \in [Pages -> Nat],
           explorer' \in [Pages -> ExplorerRecords], result' \in [Pages -> ExploreResults],
           registered' \in [E!AllIDs -> E!Shown \cup {NoPage}],
           \A q \in Pages \ {p} : /\ explorer'[q] = explorer[q] /\ result'[q] = result[q]
                                  /\ stray'[q] = stray[q],
           \A e \in E!AllIDs : registered[e] # NoPage => registered'[e] # NoPage,
           PlaceFits(explorer[p], p)', Follows(result[p], explorer[p], p)',
           limit = 1 => /\ \A q \in E!Holders : q = p
                        /\ OnOwnPage(explorer[p], p)'
                        /\ E!SelectorsFromOwnPage'
    PROVE  ExploreInv'
<1>1. E!TypeOK'
  BY DEF ExploreInv, E!TypeOK, ExplorerRecords, ExploreResults
<1>2. page # NoPage => page' # NoPage
  BY ExploreConstants
<1>3. ASSUME NEW q \in Pages, q # p
      PROVE  /\ explorer'[q] = explorer[q] /\ result'[q] = result[q]
             /\ PlaceFits(explorer[q], q)' /\ Follows(result[q], explorer[q], q)'
  <2>1. explorer'[q] = explorer[q] /\ result'[q] = result[q] /\ stray'[q] = stray[q]
    BY <1>3
  <2>2. PlaceFits(explorer[q], q) /\ Follows(result[q], explorer[q], q)
    BY DEF ExploreInv
  <2>3. PlaceFits(explorer[q], q)'
    BY <1>2, <2>1, <2>2 DEF PlaceFits
  <2>4. explorer[q].at \in Nat \ {0} /\ result[q] \in ExploreResults
    BY DEF ExploreInv, E!TypeOK, ExploreResults
  <2>5. explorer[q].at <= Len(Elements[q]) + 1
    BY <2>2 DEF PlaceFits
  <2>6. Cardinality(Covered(q, explorer[q].at, registered))
           <= Cardinality(Covered(q, explorer[q].at, registered'))
        /\ Cardinality(Covered(q, explorer[q].at, registered)) \in Nat
        /\ Cardinality(Covered(q, explorer[q].at, registered')) \in Nat
    BY <2>4, <2>5, CoverGrows
  <2>7. result[q].discovered <= Cardinality(Covered(q, explorer[q].at, registered'))
    <3>1. result[q].discovered \in Nat
      BY <2>4 DEF ExploreResults
    <3> QED
      BY <2>2, <2>6, <3>1 DEF Follows
  <2>8. Follows(result[q], explorer[q], q)'
    BY <2>1, <2>2, <2>7 DEF Follows
  <2> QED
    BY <2>1, <2>3, <2>8
<1>4. Serialised'
  <2> SUFFICES ASSUME limit' = 1
               PROVE  /\ \A q, q2 \in E!Holders' : q = q2
                      /\ \A q \in Pages : OnOwnPage(explorer[q], q)'
                      /\ E!SelectorsFromOwnPage'
    BY DEF Serialised
  <2>1. limit = 1
    OBVIOUS
  <2>2. ASSUME NEW q \in Pages, q # p PROVE explorer'[q].pc \in {"waiting", "returned"}
    BY <1>3, <2>1, <2>2 DEF E!Holders, E!At
  <2>3. ASSUME NEW q \in E!Holders' PROVE q = p
    BY <2>2, <2>3 DEF E!Holders, E!At
  <2>4. ASSUME NEW q \in Pages PROVE OnOwnPage(explorer[q], q)'
    BY <2>1, <2>2 DEF OnOwnPage, Inside, Repairing
  <2> QED
    BY <2>1, <2>3, <2>4
<1> QED
  BY <1>1, <1>3, <1>4 DEF ExploreInv

\* What a goroutine's step does to its record.
LEMMA ExplorerMoves ==
    ASSUME explorer \in [Pages -> ExplorerRecords], NEW p \in Pages
    PROVE  /\ \A pc \in {"acquired", "element", "discover", "heal", "healing", "retry",
                          "rediscover", "returned"} :
                 E!Goto(p, pc) => /\ explorer' \in [Pages -> ExplorerRecords]
                                  /\ explorer'[p].pc = pc /\ explorer'[p].at = explorer[p].at
                                  /\ \A q \in Pages \ {p} : explorer'[q] = explorer[q]
           /\ E!NextElement(p) => /\ explorer' \in [Pages -> ExplorerRecords]
                                  /\ explorer'[p].pc = "element"
                                  /\ explorer'[p].at = explorer[p].at + 1
                                  /\ \A q \in Pages \ {p} : explorer'[q] = explorer[q]
<1>1. ASSUME NEW pc \in {"acquired", "element", "discover", "heal", "healing", "retry",
                         "rediscover", "returned"},
             E!Goto(p, pc)
      PROVE  /\ explorer' \in [Pages -> ExplorerRecords]
             /\ explorer'[p].pc = pc /\ explorer'[p].at = explorer[p].at
             /\ \A q \in Pages \ {p} : explorer'[q] = explorer[q]
  BY <1>1 DEF E!Goto, ExplorerRecords
<1>2. ASSUME E!NextElement(p)
      PROVE  /\ explorer' \in [Pages -> ExplorerRecords]
             /\ explorer'[p].pc = "element"
             /\ explorer'[p].at = explorer[p].at + 1
             /\ \A q \in Pages \ {p} : explorer'[q] = explorer[q]
  BY <1>2 DEF E!NextElement, ExplorerRecords
<1> QED
  BY <1>1, <1>2

\* What is known of goroutine p in a state of the invariant.
LEMMA ExploreFacts ==
    ASSUME ExploreInv, NEW p \in Pages
    PROVE  /\ explorer \in [Pages -> ExplorerRecords] /\ result \in [Pages -> ExploreResults]
           /\ registered \in [E!AllIDs -> E!Shown \cup {NoPage}] /\ page \in E!Shown \cup {NoPage}
           /\ stray \in [Pages -> Nat]
           /\ explorer[p].at \in Nat \ {0} /\ explorer[p].html \in E!Shown \cup {NoPage}
           /\ result[p].discovered \in Nat /\ result[p].failed \in Nat /\ result[p].heals \in Nat
           /\ PlaceFits(explorer[p], p) /\ Follows(result[p], explorer[p], p)
           /\ Cardinality(Covered(p, explorer[p].at, registered)) \in Nat
           /\ ~E!At(p, "waiting") /\ ~E!At(p, "returned") /\ limit = 1 =>
                 \A q \in E!Holders : q = p
           /\ limit = 1 => OnOwnPage(explorer[p], p) /\ E!SelectorsFromOwnPage
<1>1. /\ explorer \in [Pages -> ExplorerRecords] /\ result \in [Pages -> ExploreResults]
      /\ registered \in [E!AllIDs -> E!Shown \cup {NoPage}] /\ page \in E!Shown \cup {NoPage}
      /\ stray \in [Pages -> Nat]
  BY DEF ExploreInv, E!TypeOK, ExplorerRecords, ExploreResults
<1>2. /\ explorer[p].at \in Nat \ {0} /\ explorer[p].html \in E!Shown \cup {NoPage}
      /\ result[p].discovered \in Nat /\ result[p].failed \in Nat /\ result[p].heals \in Nat
  BY <1>1 DEF ExplorerRecords, ExploreResults
<1>3. PlaceFits(explorer[p], p) /\ Follows(result[p], explorer[p], p)
  BY DEF ExploreInv
<1>4. Cardinality(Covered(p, explorer[p].at, registered)) \in Nat
  <2>1. explorer[p].at <= Len(Elements[p]) + 1
    BY <1>3 DEF PlaceFits
  <2> QED
    BY <1>2, <2>1, CoverGrows
<1>5. ASSUME ~E!At(p, "waiting"), ~E!At(p, "returned"), limit = 1, NEW q \in E!Holders
      PROVE  q = p
  BY <1>5 DEF ExploreInv, Serialised, E!Holders
<1>6. limit = 1 => OnOwnPage(explorer[p], p) /\ E!SelectorsFromOwnPage
  BY DEF ExploreInv, Serialised
<1> QED
  BY <1>1, <1>2, <1>3, <1>4, <1>5, <1>6

\* A selector of the DOM that p holds, or of the page on show, replaces the one
\* of its element.
LEMMA RegisterKeeps ==
    ASSUME ExploreInv, NEW p \in Pages,
           explorer[p].pc \in {"discover", "healing", "rediscover"}, UNCHANGED stray,
           E!Register(p) \/ E!Reregister(p) \/ UNCHANGED registered
    PROVE  /\ registered' \in [E!AllIDs -> E!Shown \cup {NoPage}]
           /\ \A e \in E!AllIDs : registered[e] # NoPage => registered'[e] # NoPage
           /\ E!Register(p) => registered'[Elements[p][explorer[p].at]] # NoPage
           /\ limit = 1 => E!SelectorsFromOwnPage'
<1>1. /\ explorer[p].at \in DOMAIN Elements[p] /\ explorer[p].html # NoPage /\ page # NoPage
      /\ explorer[p].html \in E!Shown \cup {NoPage} /\ page \in E!Shown \cup {NoPage}
  BY ExploreFacts DEF PlaceFits, Inside, Repairing
<1>2. registered \in [E!AllIDs -> E!Shown \cup {NoPage}]
  BY ExploreFacts
<1>3. E!Element(p) = Elements[p][explorer[p].at] /\ E!Element(p) \in E!IDs(p)
      /\ E!Element(p) \in E!AllIDs
  BY <1>1, ExploreConstants DEF E!Element
<1>4. E!Register(p) => registered'[Elements[p][explorer[p].at]] # NoPage
  BY <1>1, <1>2, <1>3 DEF E!Register
<1>5. CASE UNCHANGED registered
  <2>1. limit = 1 => E!SelectorsFromOwnPage'
    BY <1>5, ExploreFacts DEF E!SelectorsFromOwnPage
  <2>2. registered' \in [E!AllIDs -> E!Shown \cup {NoPage}]
    BY <1>2, <1>5
  <2> QED
    BY <1>4, <1>5, <2>1, <2>2
<1>6. ASSUME NEW from \in {explorer[p].html, page},
             registered' = [registered EXCEPT ![E!Element(p)] = from]
      PROVE  /\ registered' \in [E!AllIDs -> E!Shown \cup {NoPage}]
             /\ \A e \in E!AllIDs : registered[e] # NoPage => registered'[e] # NoPage
             /\ limit = 1 => E!SelectorsFromOwnPage'
  <2>1. /\ registered' \in [E!AllIDs -> E!Shown \cup {NoPage}]
        /\ registered'[E!Element(p)] = from /\ from # NoPage
        /\ \A e \in E!AllIDs : e # E!Element(p) => registered'[e] = registered[e]
    BY <1>1, <1>2, <1>3, <1>6
  <2>2. ASSUME limit = 1, NEW q \in Pages, NEW i \in DOMAIN Elements[q], stray[q] = 0 \/ i < stray[q]
        PROVE  registered'[Elements[q][i]] \in {q, NoPage}
    <3>1. /\ Elements[q][i] \in E!AllIDs /\ Elements[q][i] \in E!IDs(q)
          /\ registered[Elements[q][i]] \in {q, NoPage}
      BY <2>2, ExploreFacts, ExploreConstants DEF E!SelectorsFromOwnPage
    <3>2. CASE Elements[q][i] = E!Element(p)
      <4>1. q = p
        BY <1>3, <3>1, <3>2, ExploreConstants
      <4>2. i = explorer[p].at
        BY <1>1, <1>3, <3>2, <4>1, ExploreConstants
      <4>3. stray[p] <= explorer[p].at /\ stray[p] \in Nat /\ explorer[p].at \in Nat
        BY ExploreFacts DEF PlaceFits
      <4>4. stray[p] = 0
        BY <2>2, <4>1, <4>2, <4>3
      <4>5. from = p
        BY <1>6, <2>2, <4>4, ExploreFacts DEF OnOwnPage, Inside, Repairing
      <4> QED
        BY <2>1, <3>2, <4>1, <4>5
    <3> QED
      BY <2>1, <3>1, <3>2
  <2>3. limit = 1 => E!SelectorsFromOwnPage'
    BY <2>2 DEF E!SelectorsFromOwnPage
  <2> QED
    BY <1>3, <2>1, <2>3
<1>7. CASE E!Register(p)
  BY <1>4, <1>6, <1>7 DEF E!Register
<1>8. CASE E!Reregister(p)
  BY <1>4, <1>5, <1>6, <1>8 DEF E!Reregister
<1> QED
  BY <1>5, <1>7, <1>8

\* Steps before the first element and after the last one.
LEMMA AcquireStep == ASSUME ExploreInv, NEW p \in Pages, E!Acquire(p) PROVE ExploreInv'
<1>1. explorer[p].pc = "waiting"
  BY DEF E!Acquire, E!At
<1>2. /\ explorer' \in [Pages -> ExplorerRecords]
      /\ explorer'[p].pc = "acquired" /\ explorer'[p].at = explorer[p].at
      /\ \A q \in Pages \ {p} : explorer'[q] = explorer[q]
  BY ExploreFacts, ExplorerMoves DEF E!Acquire
<1>3. UNCHANGED <<limit, page, registered, done, result, stray>>
  BY DEF E!Acquire
<1>4. PlaceFits(explorer[p], p)'
  BY <1>1, <1>2, <1>3, ExploreFacts DEF PlaceFits, Inside, Repairing
<1>5. Follows(result[p], explorer[p], p)'
  BY <1>1, <1>2, <1>3, ExploreFacts DEF Follows, Repairing
<1>6. ASSUME limit = 1
      PROVE  (\A q \in E!Holders : q = p) /\ OnOwnPage(explorer[p], p)' /\ E!SelectorsFromOwnPage'
  <2>1. E!Holders \subseteq Pages
    BY DEF E!Holders
  <2>2. IsFiniteSet(E!Holders)
    BY <2>1, ExploreConstants, FS_Subset
  <2>3. Cardinality(E!Holders) < 1 /\ Cardinality(E!Holders) \in Nat
    BY <1>6, <2>2, Cardinalities, FS_CardinalityType DEF E!Acquire
  <2>4. Cardinality(E!Holders) = 0
    BY <2>3
  <2>5. E!Holders = {}
    BY <2>2, <2>4, FS_EmptySet
  <2>6. E!SelectorsFromOwnPage'
    BY <1>3, <1>6, ExploreFacts DEF E!SelectorsFromOwnPage
  <2> QED
    BY <1>2, <2>5, <2>6 DEF OnOwnPage, Inside, Repairing
<1> QED
  BY <1>2, <1>3, <1>4, <1>5, <1>6, ExploreFacts, ExploreKeeps

LEMMA NavigateStep == ASSUME ExploreInv, NEW p \in Pages, E!Navigate(p) PROVE ExploreInv'
<1>1. explorer[p].pc = "acquired"
  BY DEF E!Navigate, E!At
<1>2. /\ explorer' \in [Pages -> ExplorerRecords]
      /\ explorer'[p].pc = "element" /\ explorer'[p].at = explorer[p].at
      /\ \A q \in Pages \ {p} : explorer'[q] = explorer[q]
  BY ExploreFacts, ExplorerMoves DEF E!Navigate
<1>3. UNCHANGED <<limit, registered, done, result, stray>> /\ page' = p
  BY DEF E!Navigate
<1>4. PlaceFits(explorer[p], p)'
  BY <1>1, <1>2, <1>3, ExploreFacts, ExploreConstants DEF PlaceFits, Inside, Repairing
<1>5. Follows(result[p], explorer[p], p)'
  BY <1>1, <1>2, <1>3, ExploreFacts DEF Follows, Repairing
<1>6. ASSUME limit = 1
      PROVE  (\A q \in E!Holders : q = p) /\ OnOwnPage(explorer[p], p)' /\ E!SelectorsFromOwnPage'
  BY <1>1, <1>2, <1>3, <1>6, ExploreFacts DEF E!At, OnOwnPage, E!SelectorsFromOwnPage
<1>7. page' \in {page} \cup E!Shown /\ stray' \in [Pages -> Nat]
  BY <1>3, ExploreFacts, ExploreConstants
<1> QED
  BY <1>2, <1>3, <1>4, <1>5, <1>6, <1>7, ExploreFacts, ExploreKeeps

LEMMA ReturnErrorStep ==
    ASSUME ExploreInv, NEW p \in Pages, E!NavigateFails(p) \/ E!Break(p)
    PROVE  ExploreInv'
<1>1. explorer[p].pc \in {"acquired", "element"}
  BY DEF E!NavigateFails, E!Break, E!At
<1>2. /\ explorer' \in [Pages -> ExplorerRecords]
      /\ explorer'[p].pc = "returned" /\ explorer'[p].at = explorer[p].at
      /\ \A q \in Pages \ {p} : explorer'[q] = explorer[q]
  BY ExploreFacts, ExplorerMoves DEF E!NavigateFails, E!Break, E!ReturnError
<1>3. UNCHANGED <<limit, registered, done, stray>> /\ page' \in {page, p}
  BY DEF E!NavigateFails, E!Break
<1>4. /\ result' \in [Pages -> ExploreResults] /\ result'[p].error
      /\ result'[p].discovered = result[p].discovered /\ result'[p].failed = result[p].failed
      /\ result'[p].heals = result[p].heals
      /\ \A q \in Pages \ {p} : result'[q] = result[q]
  <2>1. result' = [result EXCEPT ![p].error = TRUE]
    BY DEF E!NavigateFails, E!Break, E!ReturnError
  <2>2. result \in [Pages -> ExploreResults]
    BY ExploreFacts
  <2> QED
    BY <2>1, <2>2 DEF ExploreResults
<1>5. PlaceFits(explorer[p], p)'
  BY <1>1, <1>2, <1>3, ExploreFacts DEF PlaceFits, Inside, Repairing
<1>6. Follows(result[p], explorer[p], p)'
  BY ZenonT(90), <1>1, <1>2, <1>3, <1>4, ExploreFacts DEF Follows, Repairing
<1>7. ASSUME limit = 1
      PROVE  (\A q \in E!Holders : q = p) /\ OnOwnPage(explorer[p], p)' /\ E!SelectorsFromOwnPage'
  BY <1>1, <1>2, <1>3, <1>7, ExploreFacts
     DEF E!At, OnOwnPage, Inside, Repairing, E!SelectorsFromOwnPage
<1>8. page' \in {page} \cup E!Shown /\ stray' \in [Pages -> Nat]
  BY <1>3, ExploreFacts, ExploreConstants
<1> QED
  BY <1>2, <1>3, <1>4, <1>5, <1>6, <1>7, <1>8, ExploreFacts, ExploreKeeps

LEMMA PageReturns == ASSUME ExploreInv, NEW p \in Pages, E!Return(p) PROVE ExploreInv'
<1>1. explorer[p].pc = "element" /\ explorer[p].at \notin DOMAIN Elements[p]
  BY DEF E!Return, E!At
<1>2. /\ explorer' \in [Pages -> ExplorerRecords]
      /\ explorer'[p].pc = "returned" /\ explorer'[p].at = explorer[p].at
      /\ \A q \in Pages \ {p} : explorer'[q] = explorer[q]
  BY ExploreFacts, ExplorerMoves DEF E!Return
<1>3. UNCHANGED <<limit, page, registered, done, result, stray>>
  BY DEF E!Return
<1>4. PlaceFits(explorer[p], p)'
  BY <1>1, <1>2, <1>3, ExploreFacts DEF PlaceFits, Inside, Repairing
<1>5. Follows(result[p], explorer[p], p)'
  <2>1. explorer[p].at = Len(Elements[p]) + 1
    BY <1>1, ExploreFacts, ExploreConstants DEF PlaceFits
  <2> QED
    BY <1>1, <1>2, <1>3, <2>1, ExploreFacts DEF Follows, Repairing
<1>6. ASSUME limit = 1
      PROVE  (\A q \in E!Holders : q = p) /\ OnOwnPage(explorer[p], p)' /\ E!SelectorsFromOwnPage'
  BY <1>1, <1>2, <1>3, <1>6, ExploreFacts
     DEF E!At, OnOwnPage, Inside, Repairing, E!SelectorsFromOwnPage
<1> QED
  BY <1>2, <1>3, <1>4, <1>5, <1>6, ExploreFacts, ExploreKeeps

\* The DOM captured is that of the page the browser is on: p's own, if one
\* goroutine at a time has it.
LEMMA CaptureStep ==
    ASSUME ExploreInv, NEW p \in Pages, NEW from, NEW to, E!Capture(p, from, to),
           <<from, to>> \in {<<"element", "discover">>, <<"heal", "healing">>,
                             <<"retry", "rediscover">>}
    PROVE  ExploreInv'
<1>1. /\ explorer[p].pc = from /\ from \in {"element", "heal", "retry"}
      /\ to \in {"discover", "healing", "rediscover"}
      /\ (from = "element" <=> to = "discover") /\ (from = "heal" <=> to = "healing")
      /\ explorer[p].at \in DOMAIN Elements[p]
  <2>1. explorer[p].pc = from /\ (from = "element" => explorer[p].at \in DOMAIN Elements[p])
    BY DEF E!Capture, E!At
  <2> QED
    BY <2>1, ExploreFacts DEF PlaceFits, Inside, Repairing
<1>2. page \in E!Shown
  BY <1>1, ExploreFacts DEF PlaceFits, Inside, Repairing
<1>3. /\ explorer' \in [Pages -> ExplorerRecords]
      /\ explorer'[p].pc = to /\ explorer'[p].at = explorer[p].at /\ explorer'[p].html = page
      /\ \A q \in Pages \ {p} : explorer'[q] = explorer[q]
  <2>1. explorer' = [explorer EXCEPT ![p].pc = to, ![p].html = page]
    BY DEF E!Capture
  <2>2. explorer \in [Pages -> ExplorerRecords]
    BY ExploreFacts
  <2> QED
    BY ZenonT(90), <1>1, <1>2, <2>1, <2>2 DEF ExplorerRecords
<1>4. UNCHANGED <<limit, page, registered, done, result, stray>>
  BY DEF E!Capture
<1>5. PlaceFits(explorer[p], p)'
  BY <1>1, <1>2, <1>3, <1>4, ExploreFacts, ExploreConstants DEF PlaceFits, Inside, Repairing
<1>6. Follows(result[p], explorer[p], p)'
  BY <1>1, <1>3, <1>4, ExploreFacts DEF Follows, Repairing
<1>7. ASSUME limit = 1
      PROVE  (\A q \in E!Holders : q = p) /\ OnOwnPage(explorer[p], p)' /\ E!SelectorsFromOwnPage'
  <2>1. stray[p] = 0 => page = p
    BY <1>1, <1>7, ExploreFacts DEF OnOwnPage, Inside, Repairing
  <2> QED
    BY <1>1, <1>3, <1>4, <1>7, <2>1, ExploreFacts DEF E!At, OnOwnPage, E!SelectorsFromOwnPage
<1> QED
  BY <1>3, <1>4, <1>5, <1>6, <1>7, ExploreFacts, ExploreKeeps

LEMMA Sums ==
    ASSUME NEW d \in Nat, NEW f \in Nat, NEW n \in Nat
    PROVE  /\ d + f = n - 1 => (d + 1) + f = n /\ d + (f + 1) = n
           /\ d + f = n => (d + 1) + (f - 1) = n
OBVIOUS

\* The element is done: discovered, or failed before.
LEMMA ElementDone ==
    ASSUME ExploreInv, NEW p \in Pages,
           E!Discovered(p) \/ E!NotHealed(p) \/ E!Rediscovered(p) \/ E!NotRediscovered(p)
    PROVE  ExploreInv'
<1>1. /\ explorer[p].pc \in {"discover", "healing", "rediscover"}
      /\ E!Discovered(p) => explorer[p].pc = "discover"
      /\ E!NotHealed(p) => explorer[p].pc = "healing"
      /\ E!Rediscovered(p) \/ E!NotRediscovered(p) => explorer[p].pc = "rediscover"
  BY DEF E!Discovered, E!NotHealed, E!Rediscovered, E!NotRediscovered, E!At
<1>2. /\ explorer' \in [Pages -> ExplorerRecords]
      /\ explorer'[p].pc = "element" /\ explorer'[p].at = explorer[p].at + 1
      /\ \A q \in Pages \ {p} : explorer'[q] = explorer[q]
  BY ExploreFacts, ExplorerMoves DEF E!Discovered, E!NotHealed, E!Rediscovered, E!NotRediscovered
<1>3. /\ UNCHANGED <<limit, page, done, stray>>
      /\ (E!Register(p) \/ E!Reregister(p) \/ UNCHANGED registered)
  BY DEF E!Discovered, E!NotHealed, E!Rediscovered, E!NotRediscovered
<1>4. /\ registered' \in [E!AllIDs -> E!Shown \cup {NoPage}]
      /\ \A e \in E!AllIDs : registered[e] # NoPage => registered'[e] # NoPage
      /\ E!Register(p) => registered'[Elements[p][explorer[p].at]] # NoPage
      /\ limit = 1 => E!SelectorsFromOwnPage'
  BY <1>1, <1>3, RegisterKeeps
<1>5. /\ explorer[p].at \in Nat \ {0} /\ explorer[p].at \in DOMAIN Elements[p]
      /\ explorer[p].at + 1 <= Len(Elements[p]) + 1 /\ page # NoPage
      /\ stray[p] <= explorer[p].at + 1
  BY <1>1, ExploreFacts, ExploreConstants DEF PlaceFits, Inside, Repairing
<1>6. PlaceFits(explorer[p], p)'
  BY <1>2, <1>3, <1>5 DEF PlaceFits, Inside, Repairing
<1> DEFINE before == Cardinality(Covered(p, explorer[p].at, registered))
           after  == Cardinality(Covered(p, explorer[p].at + 1, registered'))
<1>7. /\ before \in Nat /\ after \in Nat /\ before <= after
      /\ (E!Register(p) => before + 1 <= after)
  <2>1. explorer[p].at <= Len(Elements[p]) + 1 /\ explorer[p].at + 1 \in {explorer[p].at, explorer[p].at + 1}
    BY ExploreFacts DEF PlaceFits
  <2> QED
    BY <1>4, <1>5, <2>1, CoverGrows
<1> HIDE DEF before, after
<1>12. before \in Nat /\ after \in Nat /\ before <= after
  BY <1>7
<1>8. /\ explorer[p].pc = "discover" =>
            result[p].discovered + result[p].failed = explorer[p].at - 1
      /\ explorer[p].pc # "discover" =>
            result[p].discovered + result[p].failed = explorer[p].at
      /\ explorer[p].pc # "discover" => result[p].failed > 0
      /\ result[p].failed <= result[p].heals + (IF explorer[p].pc = "healing" THEN 1 ELSE 0)
      /\ result[p].discovered <= before
      /\ result[p].discovered \in Nat /\ result[p].failed \in Nat /\ result[p].heals \in Nat
  BY <1>1, ExploreFacts DEF before, Follows, Repairing
<1>9. /\ result' \in [Pages -> ExploreResults]
      /\ \A q \in Pages \ {p} : result'[q] = result[q]
      /\ result'[p].discovered + result'[p].failed = explorer[p].at
      /\ result'[p].failed <= result'[p].heals /\ result'[p].discovered <= after
      /\ result'[p].heals \in Nat
  <2>1. result \in [Pages -> ExploreResults]
    BY ExploreFacts
  <2>2. CASE E!Discovered(p)
    <3>1. result' = [result EXCEPT ![p].discovered = @ + 1] /\ E!Register(p)
      BY <2>2 DEF E!Discovered
    <3>2. /\ result' \in [Pages -> ExploreResults]
          /\ \A q \in Pages \ {p} : result'[q] = result[q]
          /\ result'[p].discovered = result[p].discovered + 1
          /\ result'[p].discovered \in Nat /\ result'[p].failed \in Nat
          /\ result'[p].heals \in Nat
          /\ result'[p].failed = result[p].failed /\ result'[p].heals = result[p].heals
      BY <2>1, <3>1 DEF ExploreResults
    <3> QED
      <4>1. explorer[p].pc = "discover" /\ before + 1 <= after
        BY <1>1, <1>7, <2>2, <3>1
      <4>2. (result[p].discovered + 1) + result[p].failed = explorer[p].at
        <5>1. result[p].discovered + result[p].failed = explorer[p].at - 1
          BY <1>8, <4>1
        <5>2. /\ explorer[p].at \in Nat /\ result[p].discovered \in Nat
              /\ result[p].failed \in Nat
          BY <1>5, <1>8
        <5> QED
          BY <5>1, <5>2, Sums
      <4>3. result'[p].discovered + result'[p].failed = explorer[p].at
        BY <3>2, <4>2
      <4> QED
        BY <1>8, <1>12, <3>2, <4>1, <4>3
  <2>3. CASE E!NotHealed(p)
    <3>1. result' = [result EXCEPT ![p].heals = @ + 1]
      BY <2>3 DEF E!NotHealed
    <3>2. /\ result' \in [Pages -> ExploreResults]
          /\ \A q \in Pages \ {p} : result'[q] = result[q]
          /\ result'[p].heals = result[p].heals + 1
          /\ result'[p].failed = result[p].failed
          /\ result'[p].discovered = result[p].discovered
      BY <2>1, <3>1 DEF ExploreResults
    <3> QED
      BY SMTT(60), <1>1, <1>5, <1>8, <1>12, <2>3, <3>2
  <2>4. CASE E!Rediscovered(p)
    <3>1. /\ result' = [result EXCEPT ![p].discovered = @ + 1, ![p].failed = @ - 1]
          /\ E!Register(p)
      BY <2>4 DEF E!Rediscovered
    <3>2. result[p].failed - 1 \in Nat
      BY <1>1, <1>8, <2>4
    <3>3. /\ result' \in [Pages -> ExploreResults]
          /\ \A q \in Pages \ {p} : result'[q] = result[q]
          /\ result'[p].discovered = result[p].discovered + 1
          /\ result'[p].discovered \in Nat /\ result'[p].failed \in Nat
          /\ result'[p].heals \in Nat
          /\ result'[p].failed = result[p].failed - 1 /\ result'[p].heals = result[p].heals
      BY <2>1, <3>1, <3>2 DEF ExploreResults
    <3> QED
      <4>1. explorer[p].pc = "rediscover" /\ before + 1 <= after
        BY <1>1, <1>7, <2>4, <3>1
      <4>2. (result[p].discovered + 1) + (result[p].failed - 1) = explorer[p].at
        BY <1>5, <1>8, <4>1, Sums
      <4>3. result'[p].discovered + result'[p].failed = explorer[p].at
        BY <3>3, <4>2
      <4> QED
        BY <1>8, <1>12, <3>3, <4>1, <4>3
  <2>5. CASE E!NotRediscovered(p)
    <3>1. result' = result
      BY <2>5 DEF E!NotRediscovered
    <3> QED
      BY <1>1, <1>5, <1>8, <1>12, <2>1, <2>5, <3>1
  <2> QED
    BY <2>2, <2>3, <2>4, <2>5
<1>10. Follows(result[p], explorer[p], p)'
  <2>1. Cardinality(Covered(p, explorer'[p].at, registered')) = after
    BY <1>2 DEF after
  <2> QED
    BY <1>2, <1>5, <1>9, <2>1 DEF Follows, Repairing
<1>11. ASSUME limit = 1
       PROVE  (\A q \in E!Holders : q = p) /\ OnOwnPage(explorer[p], p)' /\ E!SelectorsFromOwnPage'
  BY <1>1, <1>2, <1>3, <1>4, <1>11, ExploreFacts DEF E!At, OnOwnPage, Inside, Repairing
<1> QED
  BY <1>2, <1>3, <1>4, <1>6, <1>9, <1>10, <1>11, ExploreFacts, ExploreKeeps

LEMMA NotDiscoveredStep ==
    ASSUME ExploreInv, NEW p \in Pages, E!NotDiscovered(p) \/ E!Healed(p)
    PROVE  ExploreInv'
<1>1. /\ explorer[p].pc \in {"discover", "healing"}
      /\ E!NotDiscovered(p) => explorer[p].pc = "discover"
      /\ E!Healed(p) => explorer[p].pc = "healing"
  BY DEF E!NotDiscovered, E!Healed, E!At
<1>2. /\ explorer' \in [Pages -> ExplorerRecords]
      /\ explorer'[p].pc = (IF E!NotDiscovered(p) THEN "heal" ELSE "retry")
      /\ explorer'[p].at = explorer[p].at
      /\ \A q \in Pages \ {p} : explorer'[q] = explorer[q]
  <2>1. explorer \in [Pages -> ExplorerRecords]
    BY ExploreFacts
  <2>2. E!Goto(p, IF E!NotDiscovered(p) THEN "heal" ELSE "retry")
    BY DEF E!NotDiscovered, E!Healed
  <2> QED
    BY <2>1, <2>2, ExplorerMoves
<1>3. /\ UNCHANGED <<limit, page, done, stray>>
      /\ (E!Register(p) \/ E!Reregister(p) \/ UNCHANGED registered)
  BY DEF E!NotDiscovered, E!Healed
<1>4. /\ registered' \in [E!AllIDs -> E!Shown \cup {NoPage}]
      /\ \A e \in E!AllIDs : registered[e] # NoPage => registered'[e] # NoPage
      /\ limit = 1 => E!SelectorsFromOwnPage'
  BY <1>1, <1>3, RegisterKeeps
<1>5. PlaceFits(explorer[p], p)'
  BY <1>1, <1>2, <1>3, ExploreFacts DEF PlaceFits, Inside, Repairing
<1>6. /\ result' \in [Pages -> ExploreResults]
      /\ \A q \in Pages \ {p} : result'[q] = result[q]
      /\ result'[p].discovered = result[p].discovered
      /\ result'[p].failed = result[p].failed + (IF E!NotDiscovered(p) THEN 1 ELSE 0)
      /\ result'[p].heals = result[p].heals + (IF E!NotDiscovered(p) THEN 0 ELSE 1)
  <2>1. result \in [Pages -> ExploreResults]
    BY ExploreFacts
  <2>2. CASE E!NotDiscovered(p)
    <3>1. result' = [result EXCEPT ![p].failed = @ + 1]
      BY <2>2 DEF E!NotDiscovered
    <3> QED
      BY <2>1, <2>2, <3>1 DEF ExploreResults
  <2>3. CASE ~E!NotDiscovered(p)
    <3>1. result' = [result EXCEPT ![p].heals = @ + 1]
      BY <2>3 DEF E!Healed
    <3> QED
      BY <2>1, <2>3, <3>1 DEF ExploreResults
  <2> QED
    BY <2>2, <2>3
<1>7. Follows(result[p], explorer[p], p)'
  <2>1. /\ explorer[p].at \in Nat \ {0} /\ explorer[p].at <= Len(Elements[p]) + 1
        /\ result[p].discovered \in Nat /\ result[p].failed \in Nat /\ result[p].heals \in Nat
    BY ExploreFacts DEF PlaceFits
  <2>2. /\ Cardinality(Covered(p, explorer[p].at, registered))
              <= Cardinality(Covered(p, explorer[p].at, registered'))
        /\ Cardinality(Covered(p, explorer[p].at, registered)) \in Nat
        /\ Cardinality(Covered(p, explorer[p].at, registered')) \in Nat
    BY <1>4, <2>1, CoverGrows
  <2>3. Follows(result[p], explorer[p], p)
    BY ExploreFacts
  <2> QED
    <3>1. CASE E!NotDiscovered(p)
      <4>1. /\ explorer[p].pc = "discover" /\ explorer'[p].pc = "heal"
            /\ explorer'[p].at = explorer[p].at
            /\ result'[p].discovered = result[p].discovered
            /\ result'[p].failed = result[p].failed + 1 /\ result'[p].heals = result[p].heals
        BY <1>1, <1>2, <1>6, <2>1, <3>1
      <4>2. /\ result'[p].discovered \in Nat /\ result'[p].failed \in Nat
            /\ result'[p].heals \in Nat
        BY <2>1, <4>1
      <4>3. result[p].discovered + (result[p].failed + 1) = explorer[p].at
        <5>1. result[p].discovered + result[p].failed = explorer[p].at - 1
          BY <2>1, <2>3, <4>1 DEF Follows, Repairing
        <5>2. explorer[p].at \in Nat /\ result[p].discovered \in Nat /\ result[p].failed \in Nat
          BY <2>1
        <5> QED
          BY <5>1, <5>2
      <4>4. result'[p].discovered + result'[p].failed = explorer'[p].at - 1 + 1
        BY <2>1, <4>1, <4>3
      <4>5. result'[p].failed > 0 /\ result'[p].failed <= result'[p].heals + 1
        BY <2>1, <2>3, <4>1, <4>2 DEF Follows, Repairing
      <4>6. result'[p].discovered <= Cardinality(Covered(p, explorer'[p].at, registered'))
        BY <2>1, <2>2, <2>3, <4>1 DEF Follows
      <4> QED
        BY <4>1, <4>4, <4>5, <4>6 DEF Follows, Repairing
    <3>2. CASE ~E!NotDiscovered(p)
      <4>1. /\ explorer[p].pc = "healing" /\ explorer'[p].pc = "retry"
            /\ explorer'[p].at = explorer[p].at
            /\ result'[p].discovered = result[p].discovered
            /\ result'[p].failed = result[p].failed /\ result'[p].heals = result[p].heals + 1
        BY <1>1, <1>2, <1>6, <2>1, <3>2
      <4> QED
        BY <2>1, <2>2, <2>3, <4>1 DEF Follows, Repairing
    <3> QED
      BY <3>1, <3>2
<1>8. ASSUME limit = 1
      PROVE  (\A q \in E!Holders : q = p) /\ OnOwnPage(explorer[p], p)' /\ E!SelectorsFromOwnPage'
  BY <1>1, <1>2, <1>3, <1>4, <1>8, ExploreFacts DEF E!At, OnOwnPage, Inside, Repairing
<1> QED
  BY <1>2, <1>3, <1>4, <1>5, <1>6, <1>7, <1>8, ExploreFacts, ExploreKeeps

\* A click of a heal moves the page only, and is the first of its goroutine's heals
\* to do so, or not.
LEMMA ClicksStep == ASSUME ExploreInv, NEW p \in Pages, E!Clicks(p) PROVE ExploreInv'
<1>1. explorer[p].pc = "healing" /\ page' \in E!Shown
      /\ UNCHANGED <<limit, registered, done, explorer, result>>
  BY DEF E!Clicks, E!At
<1>2. /\ stray' \in [Pages -> Nat] /\ stray'[p] <= explorer[p].at
      /\ limit = 1 => stray'[p] # 0 /\ (stray[p] # 0 => stray'[p] = stray[p])
      /\ limit = 1 /\ stray[p] = 0 => stray'[p] = explorer[p].at
      /\ \A q \in Pages \ {p} : stray'[q] = stray[q]
  <2>1. stray' = [stray EXCEPT ![p] = IF limit = 1 /\ @ = 0 THEN explorer[p].at ELSE @]
    BY DEF E!Clicks
  <2>2. stray \in [Pages -> Nat] /\ explorer[p].at \in Nat \ {0} /\ stray[p] <= explorer[p].at
    BY ExploreFacts DEF PlaceFits
  <2> QED
    BY <2>1, <2>2
<1>3. PlaceFits(explorer[p], p)' /\ Follows(result[p], explorer[p], p)'
  BY <1>1, <1>2, ExploreFacts, ExploreConstants DEF PlaceFits, Follows
<1>4. ASSUME limit = 1
      PROVE  (\A q \in E!Holders : q = p) /\ OnOwnPage(explorer[p], p)' /\ E!SelectorsFromOwnPage'
  <2>1. ASSUME NEW q \in Pages, NEW i \in DOMAIN Elements[q], stray'[q] = 0 \/ i < stray'[q]
        PROVE  stray[q] = 0 \/ i < stray[q]
    BY <1>2, <1>4, <2>1
  <2>2. E!SelectorsFromOwnPage'
    BY <1>1, <1>4, <2>1, ExploreFacts DEF E!SelectorsFromOwnPage
  <2> QED
    BY <1>1, <1>2, <1>4, <2>2, ExploreFacts DEF E!At, OnOwnPage
<1>5. explorer' \in [Pages -> ExplorerRecords] /\ result' \in [Pages -> ExploreResults]
      /\ registered' \in [E!AllIDs -> E!Shown \cup {NoPage}]
  BY <1>1, ExploreFacts
<1> QED
  BY <1>1, <1>2, <1>3, <1>4, <1>5, ExploreKeeps

LEMMA ExploreInit == E!Init => ExploreInv
<1> SUFFICES ASSUME E!Init PROVE ExploreInv
  OBVIOUS
<1>1. E!TypeOK
  BY DEF E!Init, E!TypeOK, E!Shown
<1>2. ASSUME NEW p \in Pages
      PROVE  PlaceFits(explorer[p], p) /\ Follows(result[p], explorer[p], p)
  <2>1. /\ explorer[p].pc = "waiting" /\ explorer[p].at = 1
        /\ result[p].discovered = 0 /\ result[p].failed = 0 /\ result[p].heals = 0
    BY DEF E!Init
  <2>2. Len(Elements[p]) \in Nat
    BY ExploreConstants
  <2>3. Covered(p, 1, registered) = {}
    BY DEF Covered, Seen
  <2>4. Cardinality(Covered(p, 1, registered)) = 0
    BY <2>3, FS_EmptySet
  <2>5. stray[p] = 0
    BY DEF E!Init
  <2> QED
    BY <2>1, <2>2, <2>4, <2>5 DEF PlaceFits, Follows, Inside, Repairing
<1>3. Serialised
  <2>1. \A p \in Pages : explorer[p].pc = "waiting"
    BY DEF E!Init
  <2>2. E!SelectorsFromOwnPage
    BY DEF E!Init, E!SelectorsFromOwnPage, E!IDs
  <2> QED
    BY <2>1, <2>2 DEF Serialised, E!Holders, E!At, OnOwnPage, Inside, Repairing
<1> QED
  BY <1>1, <1>2, <1>3 DEF ExploreInv

LEMMA EndContextStep == ASSUME ExploreInv, NEW ps, E!EndContext(ps) PROVE ExploreInv'
<1>1. done' \in [Pages -> BOOLEAN] /\ UNCHANGED <<limit, page, registered, explorer, result, stray>>
  BY DEF E!EndContext
<1> QED
  BY <1>1 DEF ExploreInv, E!TypeOK, PlaceFits, Follows, Serialised, E!Holders, E!At, OnOwnPage,
     E!SelectorsFromOwnPage

LEMMA ExploreNext == ASSUME ExploreInv, E!Next PROVE ExploreInv'
<1>1. ASSUME NEW p \in Pages, E!Step(p) PROVE ExploreInv'
  <2>1. ASSUME E!Capture(p, "element", "discover") \/ E!Capture(p, "heal", "healing")
               \/ E!Capture(p, "retry", "rediscover")
        PROVE  ExploreInv'
    BY <2>1, CaptureStep
  <2> QED
    BY <1>1, <2>1, AcquireStep, NavigateStep, ReturnErrorStep, PageReturns, ElementDone,
       NotDiscoveredStep DEF E!Step
<1> QED
  BY <1>1, ClicksStep, EndContextStep DEF E!Next

LEMMA ExploreRests == ASSUME ExploreInv, UNCHANGED exploreVars PROVE ExploreInv'
BY DEF exploreVars, ExploreInv, E!TypeOK, PlaceFits, Follows, Serialised, E!Holders, E!At,
       OnOwnPage, E!SelectorsFromOwnPage

LEMMA ExplorationsAddUp == ExploreInv => E!ResultAddsUp /\ E!SerialKeepsPages
<1> SUFFICES ASSUME ExploreInv PROVE E!ResultAddsUp /\ E!SerialKeepsPages
  OBVIOUS
<1>1. ASSUME NEW p \in Pages
      PROVE  /\ E!At(p, "returned") /\ ~result[p].error
                   => /\ result[p].discovered + result[p].failed = Len(Elements[p])
                      /\ result[p].failed <= result[p].heals
             /\ result[p].discovered
                   <= E!Cardinality({e \in E!IDs(p) : registered[e] # NoPage})
  <2> DEFINE T == {e \in E!IDs(p) : registered[e] # NoPage}
             n == Len(Elements[p]) + 1
  <2>1. Len(Elements[p]) \in Nat /\ DOMAIN Elements[p] = 1..Len(Elements[p]) /\ n - 1 = Len(Elements[p])
    BY ExploreConstants
  <2>2. Covered(p, n, registered) = T
    BY <2>1 DEF Covered, Seen, E!IDs
  <2>3. explorer[p].at \in Nat \ {0} /\ explorer[p].at <= n
    BY ExploreFacts DEF PlaceFits
  <2>4. Covered(p, explorer[p].at, registered) \subseteq T
    <3>1. \A i \in 1..(explorer[p].at - 1) : i \in 1..(n - 1)
      BY <2>1, <2>3
    <3> QED
      BY <2>2, <3>1 DEF Covered, Seen
  <2>5. IsFiniteSet(T)
    <3>1. 1 \in Int /\ n - 1 \in Int
      BY <2>1
    <3>2. IsFiniteSet(1..(n - 1))
      BY <3>1, FS_Interval
    <3> DEFINE f2 == [i \in 1..(n - 1) |-> Elements[p][i]]
    <3>3. f2 \in Surjection(1..(n - 1), Seen(p, n))
      BY DEF Seen, Surjection
    <3>4. IsFiniteSet(Seen(p, n)) /\ T \subseteq Seen(p, n)
      BY <2>2, <3>2, <3>3, FS_Surjection DEF Covered
    <3> QED
      BY <3>4, FS_Subset
  <2>6. /\ Cardinality(Covered(p, explorer[p].at, registered)) <= Cardinality(T)
        /\ Cardinality(Covered(p, explorer[p].at, registered)) \in Nat /\ Cardinality(T) \in Nat
    BY <2>4, <2>5, FS_Subset, FS_CardinalityType
  <2>7. /\ Follows(result[p], explorer[p], p)
        /\ result[p].discovered \in Nat /\ result[p].failed \in Nat /\ result[p].heals \in Nat
    BY ExploreFacts
  <2>8. E!Cardinality(T) = Cardinality(T)
    BY Cardinalities
  <2>9. result[p].discovered <= E!Cardinality(T)
    <3> HIDE DEF T
    <3> QED
      BY <2>6, <2>7, <2>8 DEF Follows
  <2> QED
    BY <2>1, <2>7, <2>9 DEF Follows, Repairing, E!At
<1> QED
  BY <1>1 DEF E!ResultAddsUp, E!SerialKeepsPages, ExploreInv, Serialised

(***************************************************************************)
(* ModelRouter.                                                            *)
(***************************************************************************)
WorkerRecords ==
    [pc    : {"idle", "cascade", "light", "smart", "rerun", "vlm", "nil", "error"},
     arm   : R!ActionTiers,
     todo  : Seq(R!Reports),
     tried : BOOLEAN,
     seen  : 0..MaxActions]

Tells(r, op, ok)   == r.op = op /\ r.ok = ok
Owes(st, op, ok)   == \E i \in DOMAIN st.todo : Tells(st.todo[i], op, ok)
TellsOfSmart(r)    == Tells(r, "phase", TRUE) /\ r.tier = "smart"

\* What a call owes: one report of a kind, the breaker's before that of the
\* convergence, and the phase's last when light has failed.
InOrder(st) ==
    /\ \A i, j \in DOMAIN st.todo : st.todo[i].op = st.todo[j].op => i = j
    /\ \A i \in DOMAIN st.todo : st.todo[i].op = "breaker" =>
          \E j \in DOMAIN st.todo : /\ i < j
                                    /\ Tells(st.todo[j], "convergence", st.todo[i].ok)
    /\ st.pc \in {"idle", "cascade", "light", "rerun"} => st.todo = <<>>
    /\ st.pc = "smart" =>
          \A i \in DOMAIN st.todo : ~st.todo[i].ok /\ st.todo[Len(st.todo)].op = "phase"
    /\ st.pc \in {"idle", "cascade", "light"} => ~st.tried

\* Of a call, as st says: light is admitted and its success not yet counted;
\* it may report a failure of light to the breaker; its hit is still to be
\* counted though the breaker knows of it; it has reported a failure of light
\* and may report a success of smart.
Uncounted(st)   == st.pc = "light" \/ \E i \in DOMAIN st.todo : st.todo[i].op = "count"
MayFail(st)  == st.pc = "light" \/ Owes(st, "breaker", FALSE)
HitsLate(st) == Owes(st, "convergence", TRUE) /\ ~Owes(st, "breaker", TRUE)
Retries(st)  ==
    /\ st.tried
    /\ \/ st.pc = "smart" /\ st.todo = <<>>
       \/ st.pc = "rerun"
       \/ \E i \in DOMAIN st.todo : TellsOfSmart(st.todo[i])

Cascading == {w \in Workers : worker[w].pc = "cascade"}
Counting  == {w \in Workers : Uncounted(worker[w])}
Failing   == {w \in Workers : MayFail(worker[w])}
LateHits  == {w \in Workers : HitsLate(worker[w])}
Retrying  == {w \in Workers : Retries(worker[w])}

\* Light calls begun, succeeded and failed.
LightCounted ==
    /\ attempts + Cardinality(Cascading) <= begun
    /\ successes + Cardinality(Counting) <= attempts
    /\ wasted + Cardinality(Failing) <= attempts

LightSpared ==
    /\ wasted > 0 => ~breaker.cooled
    /\ breaker.state = "closed" => wasted <= breaker.failures /\ breaker.failures < BreakerThreshold
    /\ breaker.state # "closed" => breaker.failures >= BreakerThreshold
    /\ breaker.state = "half-open" => wasted = 0
    /\ breaker.state = "open" =>
          wasted + Cardinality(Failing) <= BreakerThreshold - 1 + Cardinality(Workers)

\* While light is refused, the miss of the failure that opened the breaker is
\* still to come, or it has come and the late hits cannot outweigh it.
MissOutweighs ==
    HitThreshold >= Cardinality(Workers) /\ ~R!DomAdmits(breaker) =>
        \/ \E w \in Workers : Owes(worker[w], "convergence", FALSE)
        \/ /\ ~convergence.converged
           /\ convergence.hits + Cardinality(LateHits) < HitThreshold

SmartRunsExplained ==
    ~bypass => phase.smart + Cardinality(Retrying) <= Cardinality(Workers)

RouterInv ==
    /\ R!TypeOK /\ \A w \in Workers : InOrder(worker[w])
    /\ LightCounted /\ LightSpared /\ MissOutweighs /\ SmartRunsExplained

LEMMA RouterConstants ==
    /\ IsFiniteSet(Workers) /\ Cardinality(Workers) \in Nat
    /\ MaxActions \in Nat /\ HitThreshold \in Nat \ {0}
    /\ DiscoveryThreshold \in Nat \ {0} /\ EscalationTrigger \in Nat \ {0}
    /\ PhaseCap \in Nat /\ PhaseCap >= DiscoveryThreshold
    /\ BreakerThreshold \in Nat \ {0} /\ FailureCap \in Nat /\ FailureCap >= BreakerThreshold
<1>1. R!ModelRouterAssumption
  BY AgentAssumption
<1>2. IsFiniteSet(Workers)
  BY <1>1, Cardinalities DEF R!ModelRouterAssumption
<1> QED
  BY <1>1, <1>2, FS_CardinalityType, DomBreakerAssumption DEF R!ModelRouterAssumption

LEMMA RouterBreakers ==
    ASSUME NEW b \in R!DomBreakerState
    PROVE  /\ b.failures \in Nat /\ b.state \in {"closed", "open", "half-open"}
           /\ b.cooled \in BOOLEAN
           /\ R!DomAllow(b) \in R!DomBreakerState
           /\ R!DomAllow(b).failures = b.failures /\ R!DomAllow(b).cooled = b.cooled
           /\ R!DomAllow(b).state
                 = IF b.state = "open" /\ b.cooled THEN "half-open" ELSE b.state
           /\ R!DomSuccess(b) \in R!DomBreakerState /\ R!DomSuccess(b).state = "closed"
           /\ R!DomSuccess(b).failures = 0 /\ R!DomSuccess(b).cooled = b.cooled
           /\ R!DomFailure(b) \in R!DomBreakerState /\ ~R!DomFailure(b).cooled
           /\ R!DomFailure(b).failures
                 = IF b.failures < FailureCap THEN b.failures + 1 ELSE FailureCap
           /\ R!DomFailure(b).state
                 = IF R!DomFailure(b).failures >= BreakerThreshold THEN "open" ELSE b.state
           /\ R!DomCooldown(b) \in R!DomBreakerState /\ R!DomCooldown(b).cooled
           /\ R!DomCooldown(b).state = b.state /\ R!DomCooldown(b).failures = b.failures
<1>1. FailureCap \in Nat /\ 0 \in 0..FailureCap
  BY RouterConstants
<1>2. b.failures \in 0..FailureCap /\ b.state \in {"closed", "open", "half-open"}
      /\ b.cooled \in BOOLEAN
  BY DEF R!DomBreakerState
<1>3. /\ R!DomAllow(b) \in R!DomBreakerState
      /\ R!DomAllow(b).failures = b.failures /\ R!DomAllow(b).cooled = b.cooled
      /\ R!DomAllow(b).state = IF b.state = "open" /\ b.cooled THEN "half-open" ELSE b.state
  BY DEF R!DomAllow, R!DomBreakerState
<1>4. /\ R!DomSuccess(b) \in R!DomBreakerState /\ R!DomSuccess(b).state = "closed"
      /\ R!DomSuccess(b).failures = 0 /\ R!DomSuccess(b).cooled = b.cooled
  BY <1>1 DEF R!DomSuccess, R!DomBreakerState
<1>5. /\ R!DomCooldown(b) \in R!DomBreakerState /\ R!DomCooldown(b).cooled
      /\ R!DomCooldown(b).state = b.state /\ R!DomCooldown(b).failures = b.failures
  BY DEF R!DomCooldown, R!DomBreakerState
<1>6. /\ R!DomFailure(b) \in R!DomBreakerState /\ ~R!DomFailure(b).cooled
      /\ R!DomFailure(b).failures
            = IF b.failures < FailureCap THEN b.failures + 1 ELSE FailureCap
      /\ R!DomFailure(b).state
            = IF R!DomFailure(b).failures >= BreakerThreshold THEN "open" ELSE b.state
  <2> DEFINE n == IF b.failures < FailureCap THEN b.failures + 1 ELSE FailureCap
             s == IF n >= BreakerThreshold THEN "open" ELSE b.state
  <2>1. n \in 0..FailureCap /\ s \in {"closed", "open", "half-open"}
    BY <1>1, <1>2
  <2>2. R!DomFailure(b) = [b EXCEPT !.failures = n, !.cooled = FALSE, !.state = s]
    BY DEF R!DomFailure
  <2> HIDE DEF n, s
  <2>3. R!DomFailure(b) \in R!DomBreakerState /\ ~R!DomFailure(b).cooled
        /\ R!DomFailure(b).failures = n /\ R!DomFailure(b).state = s
    BY <2>1, <2>2 DEF R!DomBreakerState
  <2> QED
    BY <2>3 DEF n, s
<1> QED
  BY <1>1, <1>2, <1>3, <1>4, <1>5, <1>6

\* The phase tracker counts a smart success, and forgets them on a failure.
LEMMA RouterPhases ==
    ASSUME NEW q \in R!PhaseState, NEW t \in R!ActionTiers
    PROVE  /\ q.smart \in Nat /\ R!PhaseSuccess(q, t) \in R!PhaseState
           /\ R!PhaseFailure(q, t) \in R!PhaseState
           /\ R!PhaseFailure(q, t).smart = 0
           /\ \/ R!PhaseSuccess(q, t).smart \in {0, q.smart}
              \/ t = "smart" /\ R!PhaseSuccess(q, t).smart = q.smart + 1
           /\ R!PhaseFailure(q, t).current = "cruise" => q.current = "cruise"
           /\ q.current = "discovery" /\ R!PhaseSuccess(q, t).current = "cruise" =>
                 R!PhaseSuccess(q, t).smart >= DiscoveryThreshold
<1>1. PhaseCap \in Nat /\ 0 \in 0..PhaseCap /\ DiscoveryThreshold \in Nat
  BY RouterConstants
<1>2. /\ q.smart \in 0..PhaseCap /\ q.lightFail \in 0..PhaseCap
      /\ q.current \in R!Phases /\ q.lastLightFailed \in BOOLEAN /\ q.smart \in Nat
  BY <1>1 DEF R!PhaseState
<1>3. \A n \in 0..PhaseCap : R!More(n) \in 0..PhaseCap /\ R!More(n) \in {n, n + 1}
  BY <1>1 DEF R!More
<1>4. /\ R!PhaseFailure(q, t) \in R!PhaseState /\ R!PhaseFailure(q, t).smart = 0
      /\ R!PhaseFailure(q, t).current = "cruise" => q.current = "cruise"
  <2> DEFINE p == [q EXCEPT !.smart = 0, !.lightFail = R!More(@), !.lastLightFailed = TRUE]
  <2>1. R!More(q.lightFail) \in 0..PhaseCap
    BY <1>2, <1>3
  <2>2. p \in R!PhaseState /\ p.smart = 0 /\ p.current = q.current
    BY <1>1, <2>1 DEF R!PhaseState
  <2>3. R!PhaseFailure(q, t) = p \/ R!PhaseFailure(q, t) = [p EXCEPT !.current = "escalation"]
    BY DEF R!PhaseFailure
  <2> HIDE DEF p
  <2> QED
    BY <2>2, <2>3 DEF R!PhaseState, R!Phases
<1>5. /\ R!PhaseSuccess(q, t) \in R!PhaseState
      /\ \/ R!PhaseSuccess(q, t).smart \in {0, q.smart}
         \/ t = "smart" /\ R!PhaseSuccess(q, t).smart = q.smart + 1
      /\ q.current = "discovery" /\ R!PhaseSuccess(q, t).current = "cruise" =>
            R!PhaseSuccess(q, t).smart >= DiscoveryThreshold
  <2> DEFINE p == [q EXCEPT !.lightFail = 0]
             n == R!More(p.smart)
             c == IF p.current = "discovery" /\ n >= DiscoveryThreshold THEN "cruise" ELSE p.current
             sx == [p EXCEPT !.smart = n, !.lastLightFailed = FALSE, !.current = c]
  <2>1. p \in R!PhaseState /\ p.smart = q.smart /\ p.current = q.current
    BY <1>1 DEF R!PhaseState
  <2>2. \/ R!PhaseSuccess(q, t) = p
        \/ R!PhaseSuccess(q, t) = [p EXCEPT !.lastLightFailed = FALSE]
        \/ R!PhaseSuccess(q, t) = [p EXCEPT !.current = "discovery", !.smart = 0]
        \/ t = "smart" /\ R!PhaseSuccess(q, t) = sx
    BY DEF R!PhaseSuccess
  <2> HIDE DEF p
  <2>3. n \in 0..PhaseCap /\ n \in {q.smart, q.smart + 1} /\ c \in R!Phases
    BY <1>2, <1>3, <2>1 DEF R!Phases
  <2>4. c = "cruise" /\ q.current = "discovery" => n >= DiscoveryThreshold
    BY <2>1
  <2> HIDE DEF n, c
  <2>5. sx \in R!PhaseState /\ sx.smart = n /\ sx.current = c
    BY <2>1, <2>3 DEF R!PhaseState
  <2> HIDE DEF sx
  <2>6. CASE R!PhaseSuccess(q, t) = p
    BY <2>1, <2>6
  <2>7. CASE R!PhaseSuccess(q, t) = [p EXCEPT !.lastLightFailed = FALSE]
    BY <2>1, <2>7 DEF R!PhaseState
  <2>8. CASE R!PhaseSuccess(q, t) = [p EXCEPT !.current = "discovery", !.smart = 0]
    BY <1>1, <2>1, <2>8 DEF R!PhaseState, R!Phases
  <2>9. CASE t = "smart" /\ R!PhaseSuccess(q, t) = sx
    BY <2>3, <2>4, <2>5, <2>9
  <2> QED
    BY <2>2, <2>6, <2>7, <2>8, <2>9
<1> QED
  BY <1>2, <1>4, <1>5

\* A call moves: the others stay as they are, and each set changes by it only.
LEMMA CallMoves ==
    ASSUME NEW w \in Workers, \A v \in Workers \ {w} : worker'[v] = worker[v]
    PROVE  /\ Cardinality(Cascading) \in Nat /\ Cardinality(Cascading') \in Nat
           /\ Cardinality(Cascading') = Cardinality(Cascading)
                 + (IF worker'[w].pc = "cascade" THEN 1 ELSE 0)
                 - (IF worker[w].pc = "cascade" THEN 1 ELSE 0)
           /\ Cardinality(Counting) \in Nat /\ Cardinality(Counting') \in Nat
           /\ Cardinality(Counting') = Cardinality(Counting)
                 + (IF Uncounted(worker[w])' THEN 1 ELSE 0) - (IF Uncounted(worker[w]) THEN 1 ELSE 0)
           /\ Cardinality(Failing) \in Nat /\ Cardinality(Failing') \in Nat
           /\ Cardinality(Failing) <= Cardinality(Workers)
           /\ Cardinality(Failing') = Cardinality(Failing)
                 + (IF MayFail(worker[w])' THEN 1 ELSE 0) - (IF MayFail(worker[w]) THEN 1 ELSE 0)
           /\ Cardinality(LateHits) \in Nat /\ Cardinality(LateHits') \in Nat
           /\ Cardinality(LateHits) <= Cardinality(Workers)
           /\ Cardinality(LateHits') <= Cardinality(Workers)
           /\ ~HitsLate(worker[w])' => Cardinality(LateHits') < Cardinality(Workers)
           /\ Cardinality(LateHits') = Cardinality(LateHits)
                 + (IF HitsLate(worker[w])' THEN 1 ELSE 0) - (IF HitsLate(worker[w]) THEN 1 ELSE 0)
           /\ Cardinality(Retrying) \in Nat /\ Cardinality(Retrying') \in Nat
           /\ Cardinality(Retrying') <= Cardinality(Workers)
           /\ Cardinality(Retrying') = Cardinality(Retrying)
                 + (IF Retries(worker[w])' THEN 1 ELSE 0) - (IF Retries(worker[w]) THEN 1 ELSE 0)
<1>1. IsFiniteSet(Workers) /\ Cardinality(Workers) \in Nat
  BY RouterConstants
<1>2. /\ Cardinality(Cascading) \in Nat /\ Cardinality(Cascading') \in Nat
      /\ Cardinality(Cascading') = Cardinality(Cascading)
            + (IF w \in Cascading' THEN 1 ELSE 0) - (IF w \in Cascading THEN 1 ELSE 0)
  <2>1. Cascading \in SUBSET Workers /\ Cascading' \in SUBSET Workers
        /\ \A v \in Workers : v # w => (v \in Cascading <=> v \in Cascading')
    BY DEF Cascading
  <2> QED
    BY <1>1, <2>1, OneMoves
<1>3. /\ Cardinality(Counting) \in Nat /\ Cardinality(Counting') \in Nat
      /\ Cardinality(Counting') = Cardinality(Counting)
            + (IF w \in Counting' THEN 1 ELSE 0) - (IF w \in Counting THEN 1 ELSE 0)
  <2>1. Counting \in SUBSET Workers /\ Counting' \in SUBSET Workers
        /\ \A v \in Workers : v # w => (v \in Counting <=> v \in Counting')
    BY DEF Counting, Uncounted
  <2> QED
    BY <1>1, <2>1, OneMoves
<1>4. /\ Cardinality(Failing) \in Nat /\ Cardinality(Failing') \in Nat
      /\ Cardinality(Failing) <= Cardinality(Workers)
      /\ Cardinality(Failing') = Cardinality(Failing)
            + (IF w \in Failing' THEN 1 ELSE 0) - (IF w \in Failing THEN 1 ELSE 0)
  <2>1. Failing \in SUBSET Workers /\ Failing' \in SUBSET Workers
        /\ \A v \in Workers : v # w => (v \in Failing <=> v \in Failing')
    BY DEF Failing, MayFail, Owes
  <2> QED
    BY <1>1, <2>1, OneMoves
<1>5. /\ Cardinality(LateHits) \in Nat /\ Cardinality(LateHits') \in Nat
      /\ Cardinality(LateHits) <= Cardinality(Workers)
      /\ Cardinality(LateHits') <= Cardinality(Workers)
      /\ Cardinality(LateHits') = Cardinality(LateHits)
            + (IF w \in LateHits' THEN 1 ELSE 0) - (IF w \in LateHits THEN 1 ELSE 0)
  <2>1. LateHits \in SUBSET Workers /\ LateHits' \in SUBSET Workers
        /\ \A v \in Workers : v # w => (v \in LateHits <=> v \in LateHits')
    BY DEF LateHits, HitsLate, Owes
  <2> QED
    BY <1>1, <2>1, OneMoves
<1>6. /\ Cardinality(Retrying) \in Nat /\ Cardinality(Retrying') \in Nat
      /\ Cardinality(Retrying') <= Cardinality(Workers)
      /\ Cardinality(Retrying') = Cardinality(Retrying)
            + (IF w \in Retrying' THEN 1 ELSE 0) - (IF w \in Retrying THEN 1 ELSE 0)
  <2>1. Retrying \in SUBSET Workers /\ Retrying' \in SUBSET Workers
        /\ \A v \in Workers : v # w => (v \in Retrying <=> v \in Retrying')
    BY DEF Retrying, Retries
  <2> QED
    BY <1>1, <2>1, OneMoves
<1>7. ASSUME ~HitsLate(worker[w])' PROVE Cardinality(LateHits') < Cardinality(Workers)
  <2>1. LateHits' \subseteq Workers \ {w}
    BY <1>7 DEF LateHits
  <2>2. IsFiniteSet(Workers \ {w}) /\ Cardinality(Workers \ {w}) = Cardinality(Workers) - 1
    BY <1>1, FS_RemoveElement
  <2>3. Cardinality(LateHits') <= Cardinality(Workers \ {w})
    BY <2>1, <2>2, FS_Subset
  <2> QED
    BY <1>1, <1>5, <2>2, <2>3
<1>8. /\ (w \in Cascading <=> worker[w].pc = "cascade")
      /\ (w \in Cascading' <=> worker'[w].pc = "cascade")
      /\ (w \in Counting <=> Uncounted(worker[w])) /\ (w \in Counting' <=> Uncounted(worker[w])')
      /\ (w \in Failing <=> MayFail(worker[w])) /\ (w \in Failing' <=> MayFail(worker[w])')
      /\ (w \in LateHits <=> HitsLate(worker[w])) /\ (w \in LateHits' <=> HitsLate(worker[w])')
      /\ (w \in Retrying <=> Retries(worker[w])) /\ (w \in Retrying' <=> Retries(worker[w])')
  BY DEF Cascading, Counting, Failing, LateHits, Retrying
<1> QED
  BY <1>2, <1>3, <1>4, <1>5, <1>6, <1>7, <1>8

\* A set does not grow unless w comes into it.
LEMMA CallLeaves ==
    ASSUME NEW w \in Workers, \A v \in Workers \ {w} : worker'[v] = worker[v]
    PROVE  /\ worker'[w].pc # "cascade" => Cardinality(Cascading') <= Cardinality(Cascading)
           /\ (Uncounted(worker[w])' => Uncounted(worker[w])) =>
                 Cardinality(Counting') <= Cardinality(Counting)
           /\ (MayFail(worker[w])' => MayFail(worker[w])) =>
                 Cardinality(Failing') <= Cardinality(Failing)
           /\ (HitsLate(worker[w])' => HitsLate(worker[w])) =>
                 Cardinality(LateHits') <= Cardinality(LateHits)
           /\ (Retries(worker[w])' => Retries(worker[w])) =>
                 Cardinality(Retrying') <= Cardinality(Retrying)
<1>1. /\ Cardinality(Cascading) \in Nat /\ Cardinality(Cascading') \in Nat
      /\ Cardinality(Counting) \in Nat /\ Cardinality(Counting') \in Nat
      /\ Cardinality(Failing) \in Nat /\ Cardinality(Failing') \in Nat
      /\ Cardinality(LateHits) \in Nat /\ Cardinality(LateHits') \in Nat
      /\ Cardinality(Retrying) \in Nat /\ Cardinality(Retrying') \in Nat
  BY CallMoves
<1>2. worker'[w].pc # "cascade" => Cardinality(Cascading') <= Cardinality(Cascading)
  BY <1>1, CallMoves
<1>3. (Uncounted(worker[w])' => Uncounted(worker[w])) =>
         Cardinality(Counting') <= Cardinality(Counting)
  BY <1>1, CallMoves
<1>4. (MayFail(worker[w])' => MayFail(worker[w])) =>
         Cardinality(Failing') <= Cardinality(Failing)
  BY <1>1, CallMoves
<1>5. (HitsLate(worker[w])' => HitsLate(worker[w])) =>
         Cardinality(LateHits') <= Cardinality(LateHits)
  BY <1>1, CallMoves
<1>6. (Retries(worker[w])' => Retries(worker[w])) =>
         Cardinality(Retrying') <= Cardinality(Retrying)
  BY <1>1, CallMoves
<1> QED
  BY <1>2, <1>3, <1>4, <1>5, <1>6

\* What the invariant says of call w.
LEMMA RouterFacts ==
    ASSUME RouterInv, NEW w \in Workers
    PROVE  /\ worker \in [Workers -> WorkerRecords] /\ worker[w] \in WorkerRecords
           /\ worker[w].todo \in Seq(R!Reports) /\ worker[w].arm \in R!ActionTiers
           /\ InOrder(worker[w])
           /\ breaker \in R!DomBreakerState /\ phase \in R!PhaseState
           /\ convergence.hits \in 0..HitThreshold /\ convergence.converged \in BOOLEAN
           /\ attempts \in 0..MaxActions /\ successes \in 0..MaxActions /\ wasted \in 0..MaxActions
           /\ begun \in 0..MaxActions /\ tier \in 0..2 /\ guided \in BOOLEAN /\ bypass \in BOOLEAN
<1>1. worker \in [Workers -> WorkerRecords]
  BY DEF RouterInv, R!TypeOK, WorkerRecords
<1>2. /\ worker[w] \in WorkerRecords
      /\ worker[w].todo \in Seq(R!Reports) /\ worker[w].arm \in R!ActionTiers
  BY <1>1 DEF WorkerRecords
<1> QED
  BY <1>1, <1>2 DEF RouterInv, R!TypeOK

LEMMA Reported ==
    ASSUME NEW s \in Seq(R!Reports), s # <<>>
    PROVE  /\ Head(s) = s[1] /\ 1 \in DOMAIN s /\ s[1] \in R!Reports
           /\ Tail(s) \in Seq(R!Reports) /\ Len(s) \in Nat \ {0} /\ Len(Tail(s)) = Len(s) - 1
           /\ DOMAIN s = 1..Len(s)
           /\ \A i \in DOMAIN Tail(s) : /\ Tail(s)[i] = s[i + 1] /\ i + 1 \in DOMAIN s
                                        /\ i + 1 # 1 /\ i \in Nat /\ i >= 1
           /\ \A i \in DOMAIN s : i # 1 => i - 1 \in DOMAIN Tail(s) /\ Tail(s)[i - 1] = s[i]
<1>1. /\ Head(s) = s[1] /\ Tail(s) \in Seq(R!Reports)
      /\ Len(s) \in Nat \ {0} /\ Len(Tail(s)) = Len(s) - 1 /\ DOMAIN s = 1..Len(s)
      /\ DOMAIN Tail(s) = 1..(Len(s) - 1)
  OBVIOUS
<1>2. \A i \in 1..(Len(s) - 1) : Tail(s)[i] = s[i + 1]
  OBVIOUS
<1>3. 1 \in DOMAIN s /\ s[1] \in R!Reports
  BY <1>1
<1>4. \A i \in DOMAIN Tail(s) : /\ Tail(s)[i] = s[i + 1] /\ i + 1 \in DOMAIN s
                                /\ i + 1 # 1 /\ i \in Nat /\ i >= 1
  BY <1>1, <1>2
<1>5. \A i \in DOMAIN s : i # 1 => i - 1 \in DOMAIN Tail(s) /\ Tail(s)[i - 1] = s[i]
  BY <1>1, <1>2
<1> QED
  BY <1>1, <1>3, <1>4, <1>5

\* A call has made its first report: what it still owes.
LEMMA ReportMade ==
    ASSUME RouterInv, NEW w \in Workers, worker[w].todo # <<>>,
           worker'[w].todo = Tail(worker[w].todo),
           worker'[w].pc = worker[w].pc, worker'[w].tried = worker[w].tried
    PROVE  LET first == Head(worker[w].todo) IN
           /\ first \in R!Reports /\ worker[w].pc \notin {"idle", "cascade", "light", "rerun"}
           /\ InOrder(worker[w])'
           /\ Uncounted(worker[w])' => Uncounted(worker[w])
           /\ MayFail(worker[w])' => MayFail(worker[w])
           /\ first.op = "count" => Uncounted(worker[w]) /\ ~Uncounted(worker[w])'
           /\ Tells(first, "breaker", FALSE) =>
                 MayFail(worker[w]) /\ ~MayFail(worker[w])' /\ Owes(worker[w], "convergence", FALSE)'
           /\ HitsLate(worker[w])' => HitsLate(worker[w]) \/ Tells(first, "breaker", TRUE)
           /\ Tells(first, "convergence", TRUE) => HitsLate(worker[w])
           /\ first.op = "convergence" => ~HitsLate(worker[w])'
           /\ Owes(worker[w], "convergence", FALSE) =>
                 Owes(worker[w], "convergence", FALSE)' \/ Tells(first, "convergence", FALSE)
           /\ Retries(worker[w])' => Retries(worker[w]) \/ Tells(first, "phase", FALSE)
           /\ TellsOfSmart(first) /\ worker[w].tried =>
                 Retries(worker[w]) /\ ~Retries(worker[w])'
<1> DEFINE s == worker[w].todo
           t == Tail(s)
<1>1. InOrder(worker[w]) /\ s \in Seq(R!Reports) /\ s # <<>>
  BY RouterFacts
<1>2. worker[w].todo = s /\ worker'[w].todo = t
  OBVIOUS
<1>3. /\ Head(s) = s[1] /\ 1 \in DOMAIN s /\ s[1] \in R!Reports
      /\ Len(s) \in Nat \ {0} /\ Len(t) = Len(s) - 1 /\ DOMAIN s = 1..Len(s)
      /\ \A i \in DOMAIN t : t[i] = s[i + 1] /\ i + 1 \in DOMAIN s /\ i + 1 # 1 /\ i \in Nat /\ i >= 1
      /\ \A i \in DOMAIN s : i # 1 => i - 1 \in DOMAIN t /\ t[i - 1] = s[i]
  BY <1>1, Reported
<1> HIDE DEF s, t
<1>4. /\ \A i, j \in DOMAIN s : s[i].op = s[j].op => i = j
      /\ \A i \in DOMAIN s : s[i].op = "breaker" =>
            \E j \in DOMAIN s : i < j /\ Tells(s[j], "convergence", s[i].ok)
      /\ worker[w].pc \notin {"idle", "cascade", "light", "rerun"}
      /\ worker[w].pc = "smart" => \A i \in DOMAIN s : ~s[i].ok /\ s[Len(s)].op = "phase"
  BY <1>1, <1>2 DEF InOrder
\* A report that is not the first is still owed.
<1>5. \A i \in DOMAIN t : t[i].op # s[1].op
  BY <1>3, <1>4
<1>6. InOrder(worker[w])'
  <2>1. \A i, j \in DOMAIN t : t[i].op = t[j].op => i = j
    BY <1>3, <1>4
  <2>2. ASSUME NEW i \in DOMAIN t, t[i].op = "breaker"
        PROVE  \E j \in DOMAIN t : i < j /\ Tells(t[j], "convergence", t[i].ok)
    <3>1. i + 1 \in DOMAIN s /\ s[i + 1] = t[i] /\ i \in Nat /\ i >= 1
      BY <1>3, <2>2
    <3>2. PICK j \in DOMAIN s : i + 1 < j /\ Tells(s[j], "convergence", s[i + 1].ok)
      BY <1>4, <2>2, <3>1
    <3>3. j \in Nat /\ j # 1 /\ i < j - 1
      BY <1>3, <3>1, <3>2
    <3>4. j - 1 \in DOMAIN t /\ t[j - 1] = s[j]
      BY <1>3, <3>2, <3>3
    <3> QED
      BY <3>1, <3>2, <3>3, <3>4
  <2>3. ASSUME worker[w].pc = "smart", NEW i \in DOMAIN t
        PROVE  ~t[i].ok /\ t[Len(t)].op = "phase"
    <3>1. ~t[i].ok
      BY <1>3, <1>4, <2>3
    <3>2. Len(s) \in DOMAIN s /\ Len(s) # 1
      BY <1>3, <2>3
    <3>3. t[Len(t)] = s[Len(s)]
      BY <1>3, <3>2
    <3> QED
      BY <1>4, <2>3, <3>1, <3>2, <3>3
  <2> QED
    BY <1>2, <1>4, <2>1, <2>2, <2>3 DEF InOrder
\* What is owed after is owed before, and but for the first the converse.
<1>7. \A op, ok : /\ Owes(worker[w], op, ok)' => Owes(worker[w], op, ok)
                  /\ Owes(worker[w], op, ok) => Owes(worker[w], op, ok)' \/ Tells(s[1], op, ok)
                  /\ Tells(s[1], op, ok) => Owes(worker[w], op, ok)
                  /\ s[1].op = op => ~Owes(worker[w], op, ok)'
  <2> TAKE op, ok
  <2>1. ASSUME Owes(worker[w], op, ok)' PROVE Owes(worker[w], op, ok) /\ s[1].op # op
    <3>1. PICK i \in DOMAIN t : Tells(t[i], op, ok)
      BY <1>2, <2>1 DEF Owes
    <3>2. i + 1 \in DOMAIN s /\ Tells(s[i + 1], op, ok) /\ t[i].op # s[1].op
      BY <1>3, <1>5, <3>1
    <3> QED
      BY <1>2, <3>1, <3>2 DEF Owes, Tells
  <2>2. ASSUME Owes(worker[w], op, ok), ~Tells(s[1], op, ok) PROVE Owes(worker[w], op, ok)'
    <3>1. PICK i \in DOMAIN s : Tells(s[i], op, ok)
      BY <1>2, <2>2 DEF Owes
    <3>2. i - 1 \in DOMAIN t /\ Tells(t[i - 1], op, ok)
      BY <1>3, <2>2, <3>1
    <3> QED
      BY <1>2, <3>2 DEF Owes
  <2>3. Tells(s[1], op, ok) => Owes(worker[w], op, ok)
    BY <1>2, <1>3 DEF Owes
  <2> QED
    BY <2>1, <2>2, <2>3
<1>8. /\ Uncounted(worker[w])' => Uncounted(worker[w])
      /\ s[1].op = "count" => Uncounted(worker[w]) /\ ~Uncounted(worker[w])'
  BY SMTT(60), <1>2, <1>3, <1>4, <1>5 DEF Uncounted
<1>9. /\ MayFail(worker[w])' => MayFail(worker[w])
      /\ Tells(s[1], "breaker", FALSE) => MayFail(worker[w]) /\ ~MayFail(worker[w])'
  BY <1>4, <1>7 DEF MayFail, Tells
<1>10. Tells(s[1], "breaker", FALSE) => Owes(worker[w], "convergence", FALSE)'
  <2> SUFFICES ASSUME Tells(s[1], "breaker", FALSE) PROVE Owes(worker[w], "convergence", FALSE)'
    OBVIOUS
  <2>1. PICK j \in DOMAIN s : 1 < j /\ Tells(s[j], "convergence", FALSE)
    BY <1>3, <1>4 DEF Tells
  <2>2. Owes(worker[w], "convergence", FALSE) /\ ~Tells(s[1], "convergence", FALSE)
    BY <1>2, <2>1 DEF Owes, Tells
  <2> QED
    BY <1>7, <2>2
<1>11. /\ HitsLate(worker[w])' => HitsLate(worker[w]) \/ Tells(s[1], "breaker", TRUE)
       /\ s[1].op = "convergence" => ~HitsLate(worker[w])'
  BY <1>7 DEF HitsLate
<1>12. Tells(s[1], "convergence", TRUE) => HitsLate(worker[w])
  <2> SUFFICES ASSUME Tells(s[1], "convergence", TRUE), Owes(worker[w], "breaker", TRUE)
               PROVE  FALSE
    BY <1>7 DEF HitsLate
  <2>1. PICK i \in DOMAIN s : Tells(s[i], "breaker", TRUE)
    BY <1>2 DEF Owes
  <2>2. PICK j \in DOMAIN s : i < j /\ Tells(s[j], "convergence", TRUE)
    BY <1>4, <2>1 DEF Tells
  <2>3. j = 1
    BY <1>3, <1>4, <2>2 DEF Tells
  <2> QED
    BY <1>3, <2>1, <2>2, <2>3
<1>13. Retries(worker[w])' => Retries(worker[w]) \/ Tells(s[1], "phase", FALSE)
  <2> SUFFICES ASSUME Retries(worker[w])', ~Retries(worker[w]) PROVE Tells(s[1], "phase", FALSE)
    OBVIOUS
  <2>1. \A i \in DOMAIN t : ~TellsOfSmart(t[i])
    BY <1>2, <1>3 DEF Retries
  <2>2. worker[w].pc = "smart" /\ t = <<>>
    BY <1>2, <1>4, <2>1 DEF Retries
  <2>3. Len(s) = 1
    BY <1>3, <2>2
  <2> QED
    BY <1>3, <1>4, <2>2, <2>3 DEF Tells, R!Reports
<1>14. TellsOfSmart(s[1]) /\ worker[w].tried => Retries(worker[w]) /\ ~Retries(worker[w])'
  <2> SUFFICES ASSUME TellsOfSmart(s[1]), worker[w].tried
               PROVE  Retries(worker[w]) /\ ~Retries(worker[w])'
    OBVIOUS
  <2>1. Retries(worker[w])
    BY <1>2, <1>3 DEF Retries
  <2>2. \A i \in DOMAIN t : ~TellsOfSmart(t[i])
    BY <1>5 DEF TellsOfSmart, Tells
  <2>3. worker[w].pc # "smart"
    BY <1>3, <1>4 DEF TellsOfSmart, Tells
  <2> QED
    BY <1>2, <1>4, <2>1, <2>2, <2>3 DEF Retries
<1>15. Head(worker[w].todo) = s[1] /\ s[1] \in R!Reports
  BY <1>2, <1>3
<1> QED
  BY ZenonT(90), <1>4, <1>6, <1>7, <1>8, <1>9, <1>10, <1>11, <1>12, <1>13, <1>14, <1>15

LEMMA LightKeeps ==
    ASSUME RouterInv, NEW w \in Workers, \A v \in Workers \ {w} : worker'[v] = worker[v],
           UNCHANGED <<breaker, convergence, attempts, successes, wasted, begun>>,
           worker'[w].pc = "cascade" => worker[w].pc = "cascade",
           Uncounted(worker[w])' => Uncounted(worker[w]),
           MayFail(worker[w])' => MayFail(worker[w]),
           HitsLate(worker[w])' => HitsLate(worker[w]),
           Owes(worker[w], "convergence", FALSE) => Owes(worker[w], "convergence", FALSE)'
    PROVE  LightCounted' /\ LightSpared' /\ MissOutweighs'
<1>1. /\ Cardinality(Cascading) \in Nat /\ Cardinality(Cascading') \in Nat
      /\ Cardinality(Cascading') <= Cardinality(Cascading)
      /\ Cardinality(Counting) \in Nat /\ Cardinality(Counting') \in Nat
      /\ Cardinality(Counting') <= Cardinality(Counting)
      /\ Cardinality(Failing) \in Nat /\ Cardinality(Failing') \in Nat
      /\ Cardinality(Failing') <= Cardinality(Failing)
      /\ Cardinality(LateHits) \in Nat /\ Cardinality(LateHits') \in Nat
      /\ Cardinality(LateHits') <= Cardinality(LateHits)
  BY CallMoves
<1>2. /\ attempts \in Nat /\ successes \in Nat /\ wasted \in Nat /\ begun \in Nat
      /\ convergence.hits \in Nat /\ HitThreshold \in Nat /\ BreakerThreshold \in Nat
      /\ Cardinality(Workers) \in Nat
  BY RouterFacts, RouterConstants
<1>3. LightCounted'
  BY <1>1, <1>2 DEF RouterInv, LightCounted
<1>4. LightSpared'
  BY <1>1, <1>2 DEF RouterInv, LightSpared
<1>5. MissOutweighs'
  <2> SUFFICES ASSUME HitThreshold >= Cardinality(Workers), ~R!DomAdmits(breaker)',
                      ~(\E v \in Workers : Owes(worker[v], "convergence", FALSE)')
               PROVE  ~convergence.converged'
                      /\ convergence.hits' + Cardinality(LateHits') < HitThreshold
    BY DEF MissOutweighs
  <2>1. ~R!DomAdmits(breaker)
    BY DEF R!DomAdmits
  <2>2. ~(\E v \in Workers : Owes(worker[v], "convergence", FALSE))
    BY DEF Owes
  <2>3. ~convergence.converged /\ convergence.hits + Cardinality(LateHits) < HitThreshold
    BY <2>1, <2>2 DEF RouterInv, MissOutweighs
  <2> QED
    BY <1>1, <1>2, <2>3
<1> QED
  BY <1>3, <1>4, <1>5

LEMMA RunsKeep ==
    ASSUME RouterInv, NEW w \in Workers, \A v \in Workers \ {w} : worker'[v] = worker[v],
           UNCHANGED <<phase, bypass>>, Retries(worker[w])' => Retries(worker[w])
    PROVE  SmartRunsExplained'
<1>1. /\ Cardinality(Retrying) \in Nat /\ Cardinality(Retrying') \in Nat
      /\ Cardinality(Retrying') <= Cardinality(Retrying)
  BY CallMoves
<1>2. phase.smart \in Nat /\ Cardinality(Workers) \in Nat
  BY RouterFacts, RouterConstants, RouterPhases DEF R!PhaseState
<1> QED
  BY <1>1, <1>2 DEF RouterInv, SmartRunsExplained

\* What a step of call w must show.
LEMMA RouterKeeps ==
    ASSUME RouterInv, NEW w \in Workers, \A v \in Workers \ {w} : worker'[v] = worker[v],
           worker' \in [Workers -> WorkerRecords], InOrder(worker[w])',
           breaker' \in R!DomBreakerState, phase' \in R!PhaseState,
           convergence' \in [hits : 0..HitThreshold, converged : BOOLEAN],
           begun' \in 0..MaxActions, tier' \in 0..2, bypass' \in BOOLEAN, guided' = guided,
           attempts' \in Nat, successes' \in Nat, wasted' \in Nat,
           LightCounted', LightSpared', MissOutweighs', SmartRunsExplained'
    PROVE  RouterInv'
<1>1. /\ Cardinality(Cascading') \in Nat /\ Cardinality(Counting') \in Nat
      /\ Cardinality(Failing') \in Nat
  BY CallMoves
<1>2. attempts' \in 0..MaxActions
  BY <1>1, RouterConstants DEF LightCounted
<1>3. successes' \in 0..MaxActions /\ wasted' \in 0..MaxActions
  BY <1>1, <1>2, RouterConstants DEF LightCounted
<1>4. R!TypeOK'
  BY <1>2, <1>3, RouterFacts DEF R!TypeOK, WorkerRecords
<1>5. \A v \in Workers : InOrder(worker[v])'
  <2> SUFFICES ASSUME NEW v \in Workers, v # w PROVE InOrder(worker[v])'
    OBVIOUS
  <2>1. worker'[v] = worker[v] /\ InOrder(worker[v])
    BY RouterFacts
  <2> QED
    BY <2>1 DEF InOrder, Tells
<1> QED
  BY <1>4, <1>5 DEF RouterInv

\* A step that changes nothing but w, and nothing of what w still promises.
LEMMA QuietCall ==
    ASSUME RouterInv, NEW w \in Workers, \A v \in Workers \ {w} : worker'[v] = worker[v],
           worker' \in [Workers -> WorkerRecords], InOrder(worker[w])',
           UNCHANGED <<R!shared, wasted, bypass>>,
           worker'[w].pc = "cascade" => worker[w].pc = "cascade",
           Uncounted(worker[w])' => Uncounted(worker[w]),
           MayFail(worker[w])' => MayFail(worker[w]),
           HitsLate(worker[w])' => HitsLate(worker[w]),
           Owes(worker[w], "convergence", FALSE) => Owes(worker[w], "convergence", FALSE)',
           Retries(worker[w])' => Retries(worker[w])
    PROVE  RouterInv'
<1>1. UNCHANGED <<breaker, convergence, phase, attempts, successes, tier, begun, guided,
                  wasted, bypass>>
  BY DEF R!shared
<1>2. LightCounted' /\ LightSpared' /\ MissOutweighs'
  BY <1>1, LightKeeps
<1>3. SmartRunsExplained'
  BY <1>1, RunsKeep
<1>4. /\ convergence \in [hits : 0..HitThreshold, converged : BOOLEAN]
      /\ attempts \in Nat /\ successes \in Nat /\ wasted \in Nat
  BY DEF RouterInv, R!TypeOK
<1>5. /\ breaker' \in R!DomBreakerState /\ phase' \in R!PhaseState
      /\ convergence' \in [hits : 0..HitThreshold, converged : BOOLEAN]
      /\ begun' \in 0..MaxActions /\ tier' \in 0..2 /\ bypass' \in BOOLEAN /\ guided' = guided
      /\ attempts' \in Nat /\ successes' \in Nat /\ wasted' \in Nat
  BY <1>1, <1>4, RouterFacts
<1> QED
  BY <1>2, <1>3, <1>5, RouterKeeps

\* Call w goes on at pc with the reports rs to make.
LEMMA CallGoes ==
    ASSUME RouterInv, NEW w \in Workers,
           NEW pc \in {"idle", "cascade", "light", "smart", "rerun", "vlm", "nil", "error"},
           NEW rs \in Seq(R!Reports), R!Goto(w, pc, rs)
    PROVE  /\ worker' \in [Workers -> WorkerRecords]
           /\ \A v \in Workers \ {w} : worker'[v] = worker[v]
           /\ worker'[w].pc = pc /\ worker'[w].todo = rs /\ worker'[w].tried = worker[w].tried
<1> DEFINE st == [worker[w] EXCEPT !.pc = pc, !.todo = rs]
<1>1. worker \in [Workers -> WorkerRecords] /\ worker[w] \in WorkerRecords
  BY RouterFacts
<1>2. st \in WorkerRecords /\ st.pc = pc /\ st.todo = rs /\ st.tried = worker[w].tried
  BY <1>1 DEF WorkerRecords
<1>3. worker' = [worker EXCEPT ![w] = st]
  BY DEF R!Goto, R!Then
<1> HIDE DEF st
<1> QED
  BY <1>1, <1>2, <1>3

LEMMA OneReport ==
    ASSUME NEW op \in {"count", "breaker", "convergence", "phase", "load", "tier"},
           NEW t \in R!ActionTiers, NEW ok \in BOOLEAN
    PROVE  LET s == <<R!Report(op, t, ok)>> IN
           /\ s \in Seq(R!Reports) /\ Len(s) = 1 /\ DOMAIN s = {1} /\ s # <<>>
           /\ s[1].op = op /\ s[1].tier = t /\ s[1].ok = ok
<1>1. /\ R!Report(op, t, ok) \in R!Reports /\ R!Report(op, t, ok).op = op
      /\ R!Report(op, t, ok).tier = t /\ R!Report(op, t, ok).ok = ok
  BY DEF R!Report, R!Reports
<1> QED
  BY <1>1

\* Light answers.
LEMMA LightSucceedsStep ==
    ASSUME RouterInv, NEW w \in Workers, R!LightSucceeds(w) PROVE RouterInv'
<1> DEFINE rs == <<R!Report("count", "light", TRUE), R!Report("breaker", "light", TRUE),
                   R!Report("convergence", "light", TRUE), R!Report("phase", "light", TRUE),
                   R!Report("load", "light", TRUE), R!Report("tier", "light", FALSE)>>
<1>1. /\ worker[w].pc = "light" /\ R!Goto(w, "nil", rs)
      /\ UNCHANGED <<R!shared, wasted, bypass>>
  BY DEF R!LightSucceeds, R!At
<1>2. /\ rs \in Seq(R!Reports) /\ Len(rs) = 6 /\ DOMAIN rs = 1..6
      /\ rs[1].op = "count" /\ rs[2].op = "breaker" /\ rs[3].op = "convergence"
      /\ rs[4].op = "phase" /\ rs[5].op = "load" /\ rs[6].op = "tier"
      /\ rs[2].ok = TRUE /\ rs[3].ok = TRUE /\ rs[4].tier = "light"
  BY DEF R!Report, R!Reports, R!ActionTiers
<1> HIDE DEF rs
<1>3. /\ worker' \in [Workers -> WorkerRecords]
      /\ \A v \in Workers \ {w} : worker'[v] = worker[v]
      /\ worker'[w].pc = "nil" /\ worker'[w].todo = rs
  BY <1>1, <1>2, CallGoes
<1>4. InOrder(worker[w])'
  <2>1. \A i, j \in DOMAIN rs : rs[i].op = rs[j].op => i = j
    BY <1>2
  <2>2. ASSUME NEW i \in DOMAIN rs, rs[i].op = "breaker"
        PROVE  \E j \in DOMAIN rs : i < j /\ Tells(rs[j], "convergence", rs[i].ok)
    <3>1. i = 2 /\ 3 \in DOMAIN rs
      BY <1>2, <2>1, <2>2
    <3>2. rs[3].op = "convergence" /\ rs[3].ok = rs[i].ok
      BY <1>2, <3>1, Zenon
    <3>3. i < 3 /\ 3 \in DOMAIN rs
      BY <3>1
    <3> QED
      BY <3>2, <3>3, Zenon DEF Tells
  <2> QED
    BY <1>3, <2>1, <2>2 DEF InOrder
<1>5. /\ Uncounted(worker[w]) /\ ~Owes(worker[w], "convergence", FALSE)
      /\ ~Owes(worker[w], "breaker", FALSE)' /\ Owes(worker[w], "breaker", TRUE)'
      /\ \A i \in DOMAIN rs : ~TellsOfSmart(rs[i])
  <2>1. Uncounted(worker[w]) /\ worker[w].todo = <<>>
    BY <1>1, RouterFacts DEF Uncounted, InOrder
  <2>2. ~Owes(worker[w], "convergence", FALSE)
    BY <2>1 DEF Owes
  <2>3. \A i \in DOMAIN rs : ~Tells(rs[i], "breaker", FALSE) /\ ~TellsOfSmart(rs[i])
    BY <1>2 DEF Tells, TellsOfSmart
  <2>4. 2 \in DOMAIN rs /\ Tells(rs[2], "breaker", TRUE)
    BY <1>2 DEF Tells
  <2> QED
    BY <1>3, <2>1, <2>2, <2>3, <2>4 DEF Owes
<1>6. ~HitsLate(worker[w])' /\ ~MayFail(worker[w])' /\ ~Retries(worker[w])'
  BY <1>3, <1>5 DEF HitsLate, MayFail, Retries
<1> QED
  BY <1>1, <1>3, <1>4, <1>5, <1>6, QuietCall

LEMMA LightFailsStep ==
    ASSUME RouterInv, NEW w \in Workers, R!LightFails(w) PROVE RouterInv'
<1> DEFINE rs == <<R!Report("breaker", "light", FALSE), R!Report("convergence", "light", FALSE),
                   R!Report("phase", "light", FALSE)>>
           st == [worker[w] EXCEPT !.pc = "smart", !.todo = rs]
           su == [st EXCEPT !.tried = TRUE]
<1>1. /\ worker[w].pc = "light" /\ worker[w].todo = <<>> /\ worker' = [worker EXCEPT ![w] = su]
      /\ UNCHANGED <<R!shared, wasted, bypass>>
  BY DEF R!LightFails, R!At, R!Then
<1>2. /\ rs \in Seq(R!Reports) /\ Len(rs) = 3 /\ DOMAIN rs = 1..3
      /\ rs[1].op = "breaker" /\ rs[2].op = "convergence" /\ rs[3].op = "phase"
      /\ rs[1].ok = FALSE /\ rs[2].ok = FALSE /\ rs[3].ok = FALSE
  BY DEF R!Report, R!Reports, R!ActionTiers
<1> HIDE DEF rs
<1>3. st \in WorkerRecords /\ st.pc = "smart" /\ st.todo = rs
  BY ZenonT(90), <1>2, RouterFacts DEF WorkerRecords
<1> HIDE DEF st
<1>4. su \in WorkerRecords /\ su.pc = "smart" /\ su.todo = rs
  BY <1>3 DEF WorkerRecords
<1> HIDE DEF su
<1>5. /\ worker' \in [Workers -> WorkerRecords]
      /\ \A v \in Workers \ {w} : worker'[v] = worker[v]
      /\ worker'[w].pc = "smart" /\ worker'[w].todo = rs
  BY <1>1, <1>4, RouterFacts
<1>6. InOrder(worker[w])'
  <2>1. \A i, j \in DOMAIN rs : rs[i].op = rs[j].op => i = j
    BY <1>2
  <2>2. ASSUME NEW i \in DOMAIN rs, rs[i].op = "breaker"
        PROVE  \E j \in DOMAIN rs : i < j /\ Tells(rs[j], "convergence", rs[i].ok)
    <3>1. i = 1 /\ 2 \in DOMAIN rs
      BY <1>2, <2>1, <2>2
    <3>2. rs[2].op = "convergence" /\ rs[2].ok = rs[i].ok
      BY <1>2, <3>1, Zenon
    <3>3. i < 2 /\ 2 \in DOMAIN rs
      BY <3>1
    <3> QED
      BY <3>2, <3>3, Zenon DEF Tells
  <2>3. \A i \in DOMAIN rs : ~rs[i].ok /\ rs[Len(rs)].op = "phase"
    BY <1>2
  <2> QED
    BY <1>5, <2>1, <2>2, <2>3 DEF InOrder
<1>7. /\ MayFail(worker[w]) /\ ~Owes(worker[w], "convergence", FALSE)
      /\ ~Uncounted(worker[w])' /\ ~HitsLate(worker[w])' /\ ~Retries(worker[w])'
  <2>1. MayFail(worker[w]) /\ ~Owes(worker[w], "convergence", FALSE)
    BY <1>1 DEF MayFail, Owes
  <2>2. \A i \in DOMAIN rs : rs[i].op # "count" /\ ~Tells(rs[i], "convergence", TRUE)
                             /\ ~TellsOfSmart(rs[i])
    BY <1>2 DEF Tells, TellsOfSmart
  <2>3. rs # <<>>
    BY <1>2
  <2> QED
    BY <1>5, <2>1, <2>2, <2>3 DEF Uncounted, HitsLate, Owes, Retries
<1> QED
  BY <1>1, <1>5, <1>6, <1>7, QuietCall

\* A call owes nothing, then at most one report that is neither of the
\* breaker nor of the convergence.
LEMMA LastReport ==
    ASSUME RouterInv, NEW w \in Workers, worker[w].todo = <<>>,
           NEW pc \in {"rerun", "vlm", "nil", "error"}, NEW rs \in Seq(R!Reports),
           rs = <<>> \/ (DOMAIN rs = {1} /\ rs[1].op = "phase" /\ pc # "rerun"),
           R!Goto(w, pc, rs), UNCHANGED <<R!shared, wasted, bypass>>,
           worker[w].tried /\ (pc = "rerun" \/ (rs # <<>> /\ TellsOfSmart(rs[1]))) =>
              Retries(worker[w])
    PROVE  RouterInv'
<1>1. /\ worker' \in [Workers -> WorkerRecords]
      /\ \A v \in Workers \ {w} : worker'[v] = worker[v]
      /\ worker'[w].pc = pc /\ worker'[w].todo = rs /\ worker'[w].tried = worker[w].tried
  BY CallGoes
<1>2. \A i \in DOMAIN rs : rs # <<>> /\ i = 1 /\ rs[i].op = "phase"
  OBVIOUS
<1>3. InOrder(worker[w])'
  BY <1>1, <1>2 DEF InOrder
<1>4. /\ ~Uncounted(worker[w])' /\ ~MayFail(worker[w])' /\ ~HitsLate(worker[w])'
      /\ ~Owes(worker[w], "convergence", FALSE)
  BY <1>1, <1>2 DEF Uncounted, MayFail, HitsLate, Owes, Tells
<1>5. Retries(worker[w])' => Retries(worker[w])
  BY <1>1, <1>2 DEF Retries
<1> QED
  BY <1>1, <1>3, <1>4, <1>5, QuietCall

LEMMA PathStep ==
    ASSUME RouterInv, NEW w \in Workers,
           R!Smart(w) \/ R!RerunSucceeds(w) \/ R!RerunFails(w) \/ R!VLM(w)
    PROVE  RouterInv'
<1>1. worker[w].todo = <<>> /\ UNCHANGED <<R!shared, wasted, bypass>>
  BY DEF R!Smart, R!RerunSucceeds, R!RerunFails, R!VLM, R!At
<1>2. <<>> \in Seq(R!Reports) /\ R!VLMOrError \in {"rerun", "vlm", "nil", "error"} \ {"rerun"}
  BY DEF R!VLMOrError
<1>3. {"light", "smart", "vlm"} \subseteq R!ActionTiers
  BY DEF R!ActionTiers
\* The reports with a phase only.
<1>4. ASSUME NEW t \in R!ActionTiers, NEW ok \in BOOLEAN, NEW pc \in {"vlm", "nil", "error"},
             R!Goto(w, pc, <<R!Report("phase", t, ok)>>), t # "smart" \/ ~ok
      PROVE  RouterInv'
  <2> DEFINE rs == <<R!Report("phase", t, ok)>>
  <2>1. /\ rs \in Seq(R!Reports) /\ DOMAIN rs = {1} /\ rs # <<>>
        /\ rs[1].op = "phase" /\ rs[1].tier = t /\ rs[1].ok = ok
    BY OneReport
  <2>2. ~TellsOfSmart(rs[1])
    BY <1>4, <2>1 DEF TellsOfSmart, Tells
  <2> HIDE DEF rs
  <2>3. R!Goto(w, pc, rs) /\ pc # "rerun" /\ pc \in {"rerun", "vlm", "nil", "error"}
    BY <1>4 DEF rs
  <2> QED
    BY <1>1, <2>1, <2>2, <2>3, LastReport
<1>5. CASE R!Smart(w)
  <2>1. worker[w].tried => Retries(worker[w])
    BY <1>1, <1>5 DEF Retries, R!Smart, R!At
  <2>2. CASE R!Goto(w, "rerun", <<>>)
    BY <1>1, <1>2, <2>1, <2>2, LastReport
  <2>3. CASE R!Goto(w, R!VLMOrError, <<R!Report("phase", "smart", FALSE)>>)
    BY <1>2, <1>3, <1>4, <2>3
  <2>4. CASE R!Goto(w, "error", <<>>)
    BY <1>1, <1>2, <2>1, <2>4, LastReport
  <2> QED
    BY <1>5, <2>2, <2>3, <2>4 DEF R!Smart
<1>6. CASE R!RerunFails(w)
  <2>1. R!Goto(w, R!VLMOrError, <<R!Report("phase", "light", FALSE)>>)
    BY <1>6 DEF R!RerunFails
  <2> QED
    BY <1>2, <1>3, <1>4, <2>1
<1>7. CASE R!VLM(w)
  <2>1. CASE R!Goto(w, "nil", <<R!Report("phase", "vlm", TRUE)>>)
    BY <1>3, <1>4, <2>1
  <2>2. CASE R!Goto(w, "error", <<R!Report("phase", "vlm", FALSE)>>)
    BY <1>3, <1>4, <2>2
  <2>3. CASE R!Goto(w, "error", <<>>)
    <3>1. "error" # "rerun" /\ "error" \in {"rerun", "vlm", "nil", "error"}
      OBVIOUS
    <3> QED
      BY <1>1, <1>2, <2>3, <3>1, LastReport
  <2> QED
    BY <1>7, <2>1, <2>2, <2>3 DEF R!VLM
<1>8. CASE R!RerunSucceeds(w)
  <2> DEFINE rs == <<R!Report("phase", "smart", TRUE), R!Report("load", "smart", TRUE),
                     R!Report("tier", "smart", TRUE)>>
  <2>1. worker[w].pc = "rerun" /\ R!Goto(w, "nil", rs)
    BY <1>8 DEF R!RerunSucceeds, R!At
  <2>2. /\ rs \in Seq(R!Reports) /\ Len(rs) = 3 /\ DOMAIN rs = 1..3
        /\ rs[1].op = "phase" /\ rs[2].op = "load" /\ rs[3].op = "tier"
    BY DEF R!Report, R!Reports, R!ActionTiers
  <2> HIDE DEF rs
  <2>3. /\ worker' \in [Workers -> WorkerRecords]
        /\ \A v \in Workers \ {w} : worker'[v] = worker[v]
        /\ worker'[w].pc = "nil" /\ worker'[w].todo = rs /\ worker'[w].tried = worker[w].tried
    BY <2>1, <2>2, CallGoes
  <2>4. \A i \in DOMAIN rs : rs[i].op \notin {"count", "breaker", "convergence"}
    BY <2>2
  <2>5. InOrder(worker[w])'
    <3>1. \A i, j \in DOMAIN rs : rs[i].op = rs[j].op => i = j
      BY <2>2
    <3> QED
      BY <2>3, <2>4, <3>1 DEF InOrder
  <2>6. /\ ~Uncounted(worker[w])' /\ ~MayFail(worker[w])' /\ ~HitsLate(worker[w])'
        /\ ~Owes(worker[w], "convergence", FALSE)
    BY <1>1, <2>3, <2>4 DEF Uncounted, MayFail, HitsLate, Owes, Tells
  <2>7. Retries(worker[w])' => Retries(worker[w])
    BY <2>1, <2>3 DEF Retries
  <2> QED
    BY <1>1, <2>3, <2>5, <2>6, <2>7, QuietCall
<1> QED
  BY <1>5, <1>6, <1>7, <1>8

\* A call begins; with a bandit it may find the breaker half-open.
LEMMA BeginStep ==
    ASSUME RouterInv, NEW w \in Workers, R!Begin(w) PROVE RouterInv'
<1>1. /\ worker[w].pc = "idle" /\ begun < MaxActions /\ begun' = begun + 1
      /\ UNCHANGED <<convergence, phase, attempts, successes, tier, wasted, bypass, guided>>
      /\ breaker' = (IF guided THEN R!DomAllow(breaker) ELSE breaker)
  BY DEF R!Begin
<1>2. PICK arm \in R!ActionTiers, pc \in {"cascade", "smart", "vlm"} :
         worker' = [worker EXCEPT ![w] = [R!Idle EXCEPT !.pc = pc, !.arm = arm]]
  <2>1. PICK arm \in R!ActionTiers :
           worker' = [worker EXCEPT ![w] =
                        [R!Idle EXCEPT !.pc = [light |-> "cascade", smart |-> "smart",
                                               vlm |-> IF HasVLM THEN "vlm" ELSE "smart"][arm],
                                       !.arm = arm]]
    BY DEF R!Begin, R!ActionTiers
  <2>2. [light |-> "cascade", smart |-> "smart",
         vlm |-> IF HasVLM THEN "vlm" ELSE "smart"][arm] \in {"cascade", "smart", "vlm"}
    BY DEF R!ActionTiers
  <2> QED
    BY Zenon, <2>1, <2>2
<1> DEFINE st == [R!Idle EXCEPT !.pc = pc, !.arm = arm]
<1>3. st \in WorkerRecords /\ st.pc = pc /\ st.todo = <<>> /\ st.tried = FALSE
  <2>1. <<>> \in Seq(R!Reports) /\ 0 \in 0..MaxActions
    BY RouterConstants
  <2> QED
    BY <1>2, <2>1 DEF R!Idle, WorkerRecords, R!ActionTiers
<1>4. worker' = [worker EXCEPT ![w] = st]
  BY <1>2
<1> HIDE DEF st
<1>5. /\ worker' \in [Workers -> WorkerRecords]
      /\ \A v \in Workers \ {w} : worker'[v] = worker[v]
      /\ worker'[w].pc = pc /\ worker'[w].todo = <<>> /\ ~worker'[w].tried
  BY <1>3, <1>4, RouterFacts
<1>6. InOrder(worker[w])' /\ worker[w].todo = <<>>
  BY <1>1, <1>2, <1>5, RouterFacts DEF InOrder
<1>7. /\ ~Uncounted(worker[w])' /\ ~MayFail(worker[w])' /\ ~HitsLate(worker[w])'
      /\ ~Retries(worker[w])' /\ ~Owes(worker[w], "convergence", FALSE)
  <2>1. worker'[w].pc # "light" /\ worker'[w].todo = <<>> /\ worker[w].todo = <<>>
        /\ ~worker'[w].tried
    BY <1>2, <1>5, <1>6
  <2> QED
    BY <2>1 DEF Uncounted, MayFail, HitsLate, Owes, Retries
<1>8. SmartRunsExplained'
  BY <1>1, <1>5, <1>7, RunsKeep
<1>9. /\ Cardinality(Cascading) \in Nat /\ Cardinality(Cascading') \in Nat
      /\ Cardinality(Cascading') <= Cardinality(Cascading) + 1
      /\ Cardinality(Counting) \in Nat /\ Cardinality(Counting') \in Nat
      /\ Cardinality(Counting') <= Cardinality(Counting)
      /\ Cardinality(Failing) \in Nat /\ Cardinality(Failing') \in Nat
      /\ Cardinality(Failing') <= Cardinality(Failing)
      /\ Cardinality(LateHits) \in Nat /\ Cardinality(LateHits') \in Nat
      /\ Cardinality(LateHits') <= Cardinality(LateHits)
  <2>1. \A v \in Workers \ {w} : worker'[v] = worker[v]
    BY <1>5
  <2>2. /\ Cardinality(Cascading) \in Nat /\ Cardinality(Cascading') \in Nat
        /\ Cardinality(Counting) \in Nat /\ Cardinality(Counting') \in Nat
        /\ Cardinality(Failing) \in Nat /\ Cardinality(Failing') \in Nat
        /\ Cardinality(LateHits) \in Nat /\ Cardinality(LateHits') \in Nat
    BY <2>1, CallMoves
  <2>3. Cardinality(Cascading') <= Cardinality(Cascading) + 1
    BY <2>1, <2>2, CallMoves
  <2>4. Cardinality(Counting') <= Cardinality(Counting)
    BY <1>7, <2>1, <2>2, CallMoves
  <2>5. Cardinality(Failing') <= Cardinality(Failing)
    BY <1>7, <2>1, <2>2, CallMoves
  <2>6. Cardinality(LateHits') <= Cardinality(LateHits)
    BY <1>7, <2>1, <2>2, CallMoves
  <2> QED
    BY <2>2, <2>3, <2>4, <2>5, <2>6
<1>10. /\ attempts \in Nat /\ successes \in Nat /\ wasted \in Nat /\ begun \in Nat
       /\ convergence.hits \in Nat /\ HitThreshold \in Nat /\ BreakerThreshold \in Nat
       /\ Cardinality(Workers) \in Nat /\ MaxActions \in Nat
  BY RouterFacts, RouterConstants
<1>11. LightCounted'
  BY <1>1, <1>9, <1>10 DEF RouterInv, LightCounted
<1>12. /\ breaker' \in R!DomBreakerState
       /\ breaker'.failures = breaker.failures /\ breaker'.cooled = breaker.cooled
       /\ breaker.failures \in Nat
       /\ \/ breaker'.state = breaker.state
          \/ breaker.state = "open" /\ breaker.cooled /\ breaker'.state = "half-open"
  BY <1>1, RouterFacts, RouterBreakers
<1>13. LightSpared'
  BY <1>1, <1>9, <1>10, <1>12 DEF RouterInv, LightSpared
<1>14. MissOutweighs'
  <2> SUFFICES ASSUME HitThreshold >= Cardinality(Workers), ~R!DomAdmits(breaker)',
                      ~(\E v \in Workers : Owes(worker[v], "convergence", FALSE)')
               PROVE  ~convergence.converged'
                      /\ convergence.hits' + Cardinality(LateHits') < HitThreshold
    BY DEF MissOutweighs
  <2>1. ~R!DomAdmits(breaker)
    BY <1>12 DEF R!DomAdmits
  <2>2. ~(\E v \in Workers : Owes(worker[v], "convergence", FALSE))
    BY <1>5, <1>7 DEF Owes
  <2>3. ~convergence.converged /\ convergence.hits + Cardinality(LateHits) < HitThreshold
    BY <2>1, <2>2 DEF RouterInv, MissOutweighs
  <2> QED
    BY <1>1, <1>9, <1>10, <2>3
<1>15. /\ phase' \in R!PhaseState /\ begun' \in 0..MaxActions /\ tier' \in 0..2
       /\ bypass' \in BOOLEAN /\ guided' = guided
       /\ convergence' \in [hits : 0..HitThreshold, converged : BOOLEAN]
       /\ attempts' \in Nat /\ successes' \in Nat /\ wasted' \in Nat
  BY <1>1, <1>10, RouterFacts DEF RouterInv, R!TypeOK
<1> QED
  BY <1>5, <1>6, <1>8, <1>11, <1>12, <1>13, <1>14, <1>15, RouterKeeps

\* The breaker admits light, which makes the call one that may fail: never
\* while the breaker is open.
LEMMA AllowStep ==
    ASSUME RouterInv, NEW w \in Workers, R!Allow(w) PROVE RouterInv'
<1>1. /\ worker[w].pc = "cascade" /\ worker[w].todo = <<>>
      /\ UNCHANGED <<convergence, phase, successes, tier, begun, wasted, bypass, guided>>
  BY DEF R!Allow, R!At
<1>2. PICK pc \in {"light", "smart"} :
         /\ R!Goto(w, pc, <<>>)
         /\ pc = "light" => /\ R!DomAdmits(breaker) /\ breaker' = R!DomAllow(breaker)
                            /\ attempts' = attempts + 1
         /\ pc = "smart" => breaker' = breaker /\ attempts' = attempts
  BY DEF R!Allow
<1>3. ~worker[w].tried
  BY <1>1, RouterFacts DEF InOrder
<1>4. /\ worker' \in [Workers -> WorkerRecords]
      /\ \A v \in Workers \ {w} : worker'[v] = worker[v]
      /\ worker'[w].pc = pc /\ worker'[w].todo = <<>> /\ ~worker'[w].tried
  <2>1. <<>> \in Seq(R!Reports)
    OBVIOUS
  <2> QED
    BY <1>2, <1>3, <2>1, CallGoes
<1>5. InOrder(worker[w])'
  BY <1>4 DEF InOrder
<1>6. /\ ~Uncounted(worker[w]) /\ ~MayFail(worker[w]) /\ ~Owes(worker[w], "convergence", FALSE)
      /\ (Uncounted(worker[w])' <=> pc = "light") /\ (MayFail(worker[w])' <=> pc = "light")
      /\ ~HitsLate(worker[w])' /\ ~Retries(worker[w])'
  BY <1>1, <1>4 DEF Uncounted, MayFail, HitsLate, Owes, Retries
<1>7. SmartRunsExplained'
  BY <1>1, <1>4, <1>6, RunsKeep
<1> DEFINE k == IF pc = "light" THEN 1 ELSE 0
<1>8. /\ Cardinality(Cascading) \in Nat /\ Cardinality(Cascading') \in Nat
      /\ Cardinality(Cascading') = Cardinality(Cascading) - 1
      /\ Cardinality(Counting) \in Nat /\ Cardinality(Counting') \in Nat
      /\ Cardinality(Counting') = Cardinality(Counting) + k
      /\ Cardinality(Failing) \in Nat /\ Cardinality(Failing') \in Nat
      /\ Cardinality(Failing') = Cardinality(Failing) + k
      /\ Cardinality(LateHits) \in Nat /\ Cardinality(LateHits') \in Nat
      /\ Cardinality(LateHits') <= Cardinality(LateHits)
  <2>1. \A v \in Workers \ {w} : worker'[v] = worker[v]
    BY <1>4
  <2>2. /\ Cardinality(Cascading) \in Nat /\ Cardinality(Cascading') \in Nat
        /\ Cardinality(Counting) \in Nat /\ Cardinality(Counting') \in Nat
        /\ Cardinality(Failing) \in Nat /\ Cardinality(Failing') \in Nat
        /\ Cardinality(LateHits) \in Nat /\ Cardinality(LateHits') \in Nat
    BY <2>1, CallMoves
  <2>3. Cardinality(Cascading') = Cardinality(Cascading) - 1
    <3>1. worker'[w].pc # "cascade" /\ worker[w].pc = "cascade"
      BY <1>1, <1>2, <1>4
    <3> QED
      BY <2>1, <2>2, <3>1, CallMoves
  <2>4. Cardinality(Counting') = Cardinality(Counting) + k
    BY <1>6, <2>1, <2>2, CallMoves
  <2>5. Cardinality(Failing') = Cardinality(Failing) + k
    BY <1>6, <2>1, <2>2, CallMoves
  <2>6. Cardinality(LateHits') <= Cardinality(LateHits)
    BY <1>6, <2>1, <2>2, CallMoves
  <2> QED
    BY <2>2, <2>3, <2>4, <2>5, <2>6
<1>9. k \in {0, 1} /\ attempts' = attempts + k /\ (pc = "light" <=> k = 1)
  BY <1>2, RouterFacts
<1> HIDE DEF k
<1>10. /\ attempts \in Nat /\ successes \in Nat /\ wasted \in Nat /\ begun \in Nat
       /\ convergence.hits \in Nat /\ HitThreshold \in Nat /\ BreakerThreshold \in Nat
       /\ Cardinality(Workers) \in Nat /\ MaxActions \in Nat
  BY RouterFacts, RouterConstants
<1>11. LightCounted'
  <2>1. /\ attempts + Cardinality(Cascading) <= begun
        /\ successes + Cardinality(Counting) <= attempts
        /\ wasted + Cardinality(Failing) <= attempts
    BY DEF RouterInv, LightCounted
  <2>2. /\ attempts' + Cardinality(Cascading') <= begun
        /\ successes + Cardinality(Counting') <= attempts'
        /\ wasted + Cardinality(Failing') <= attempts'
    BY <1>8, <1>9, <1>10, <2>1
  <2> QED
    BY <1>1, <2>2 DEF LightCounted
<1>12. /\ breaker' \in R!DomBreakerState
       /\ breaker'.failures = breaker.failures /\ breaker'.cooled = breaker.cooled
       /\ breaker.failures \in Nat
       /\ \/ breaker'.state = breaker.state /\ (breaker.state = "open" => k = 0)
          \/ breaker.state = "open" /\ breaker.cooled /\ breaker'.state = "half-open"
  BY <1>2, <1>9, RouterFacts, RouterBreakers DEF R!DomAdmits
<1>13. LightSpared'
  BY SMTT(60), <1>1, <1>8, <1>10, <1>12 DEF RouterInv, LightSpared
<1>14. MissOutweighs'
  <2> SUFFICES ASSUME HitThreshold >= Cardinality(Workers), ~R!DomAdmits(breaker)',
                      ~(\E v \in Workers : Owes(worker[v], "convergence", FALSE)')
               PROVE  ~convergence.converged'
                      /\ convergence.hits' + Cardinality(LateHits') < HitThreshold
    BY DEF MissOutweighs
  <2>1. ~R!DomAdmits(breaker)
    BY <1>12 DEF R!DomAdmits
  <2>2. ~(\E v \in Workers : Owes(worker[v], "convergence", FALSE))
    BY <1>4, <1>6 DEF Owes
  <2>3. ~convergence.converged /\ convergence.hits + Cardinality(LateHits) < HitThreshold
    BY <2>1, <2>2 DEF RouterInv, MissOutweighs
  <2> QED
    BY SMTT(60), <1>1, <1>8, <1>10, <2>3
<1>15. /\ phase' \in R!PhaseState /\ begun' \in 0..MaxActions /\ tier' \in 0..2
       /\ bypass' \in BOOLEAN /\ guided' = guided
       /\ convergence' \in [hits : 0..HitThreshold, converged : BOOLEAN]
       /\ attempts' \in Nat /\ successes' \in Nat /\ wasted' \in Nat
  BY <1>1, <1>9, <1>10, RouterFacts DEF RouterInv, R!TypeOK
<1> QED
  BY <1>4, <1>5, <1>7, <1>11, <1>12, <1>13, <1>14, <1>15, RouterKeeps

\* The first report of a call is made: what that says of its record.
LEMMA MadeFacts ==
    ASSUME RouterInv, NEW w \in Workers, NEW op, R!Due(w, op), R!Made(w)
    PROVE  /\ worker[w].todo # <<>> /\ R!DueNow(w) = Head(worker[w].todo) /\ R!DueNow(w).op = op
           /\ worker' \in [Workers -> WorkerRecords]
           /\ \A v \in Workers \ {w} : worker'[v] = worker[v]
           /\ worker'[w].todo = Tail(worker[w].todo)
           /\ worker'[w].pc = worker[w].pc /\ worker'[w].tried = worker[w].tried
<1>1. worker[w].todo # <<>> /\ R!DueNow(w) = Head(worker[w].todo) /\ R!DueNow(w).op = op
  BY DEF R!Due, R!DueNow
<1>2. worker \in [Workers -> WorkerRecords] /\ worker[w].todo \in Seq(R!Reports)
  BY RouterFacts
<1>3. Tail(worker[w].todo) \in Seq(R!Reports)
  BY <1>1, <1>2, Reported
<1>4. worker' = [worker EXCEPT ![w].todo = Tail(@)]
  BY DEF R!Made
<1> QED
  BY ZenonT(90), <1>1, <1>2, <1>3, <1>4 DEF WorkerRecords

LEMMA LoadAttemptsStep ==
    ASSUME RouterInv, NEW w \in Workers, R!LoadAttempts(w) PROVE RouterInv'
<1>1. /\ worker[w].todo # <<>> /\ Head(worker[w].todo).op = "load"
      /\ worker' = [worker EXCEPT ![w].todo = Tail(@), ![w].seen = attempts]
      /\ UNCHANGED <<R!shared, wasted, bypass>>
  BY DEF R!LoadAttempts, R!Due, R!DueNow
<1>2. worker \in [Workers -> WorkerRecords] /\ worker[w].todo \in Seq(R!Reports)
      /\ attempts \in 0..MaxActions
  BY RouterFacts
<1>3. Tail(worker[w].todo) \in Seq(R!Reports)
  BY <1>1, <1>2, Reported
<1>4. /\ worker' \in [Workers -> WorkerRecords]
      /\ \A v \in Workers \ {w} : worker'[v] = worker[v]
      /\ worker'[w].todo = Tail(worker[w].todo)
      /\ worker'[w].pc = worker[w].pc /\ worker'[w].tried = worker[w].tried
  BY ZenonT(90), <1>1, <1>2, <1>3 DEF WorkerRecords
<1>5. \A op2 \in {"breaker", "convergence", "phase"}, ok \in BOOLEAN :
         ~Tells(Head(worker[w].todo), op2, ok)
  BY <1>1 DEF Tells
<1>6. /\ InOrder(worker[w])' /\ worker[w].pc # "cascade"
      /\ Uncounted(worker[w])' => Uncounted(worker[w])
      /\ MayFail(worker[w])' => MayFail(worker[w])
      /\ HitsLate(worker[w])' => HitsLate(worker[w])
      /\ Owes(worker[w], "convergence", FALSE) => Owes(worker[w], "convergence", FALSE)'
      /\ Retries(worker[w])' => Retries(worker[w])
  BY <1>1, <1>4, <1>5, ReportMade
<1> QED
  BY <1>1, <1>4, <1>6, QuietCall

LEMMA CountStep ==
    ASSUME RouterInv, NEW w \in Workers, R!CountSuccess(w) PROVE RouterInv'
<1>1. /\ R!Due(w, "count") /\ R!Made(w) /\ successes' = successes + 1
      /\ UNCHANGED <<breaker, convergence, phase, attempts, tier, begun, wasted, bypass, guided>>
  BY DEF R!CountSuccess
<1>2. /\ worker[w].todo # <<>> /\ Head(worker[w].todo).op = "count"
      /\ worker' \in [Workers -> WorkerRecords]
      /\ \A v \in Workers \ {w} : worker'[v] = worker[v]
      /\ worker'[w].todo = Tail(worker[w].todo)
      /\ worker'[w].pc = worker[w].pc /\ worker'[w].tried = worker[w].tried
  BY <1>1, MadeFacts
<1>3. \A op2 \in {"breaker", "convergence", "phase"}, ok \in BOOLEAN :
         ~Tells(Head(worker[w].todo), op2, ok)
  BY <1>2 DEF Tells
<1>4. /\ InOrder(worker[w])' /\ worker[w].pc # "cascade"
      /\ Uncounted(worker[w]) /\ ~Uncounted(worker[w])'
      /\ MayFail(worker[w])' => MayFail(worker[w])
      /\ HitsLate(worker[w])' => HitsLate(worker[w])
      /\ Owes(worker[w], "convergence", FALSE) => Owes(worker[w], "convergence", FALSE)'
      /\ Retries(worker[w])' => Retries(worker[w])
  BY <1>2, <1>3, ReportMade
<1>5. SmartRunsExplained'
  BY <1>1, <1>2, <1>4, RunsKeep
<1>6. /\ Cardinality(Cascading) \in Nat /\ Cardinality(Cascading') \in Nat
      /\ Cardinality(Counting) \in Nat /\ Cardinality(Counting') \in Nat
      /\ Cardinality(Failing) \in Nat /\ Cardinality(Failing') \in Nat
      /\ Cardinality(LateHits) \in Nat /\ Cardinality(LateHits') \in Nat
  BY <1>2, CallMoves
<1>7. /\ Cardinality(Cascading') <= Cardinality(Cascading)
      /\ Cardinality(Failing') <= Cardinality(Failing)
      /\ Cardinality(LateHits') <= Cardinality(LateHits)
  <2>1. worker'[w].pc # "cascade"
    BY <1>2, <1>4
  <2> QED
    BY <1>2, <1>4, <2>1, CallLeaves
<1>8. Cardinality(Counting') = Cardinality(Counting) - 1
  BY SMTT(60), <1>2, <1>4, <1>6, CallMoves
<1>9. /\ attempts \in Nat /\ successes \in Nat /\ wasted \in Nat /\ begun \in Nat
      /\ convergence.hits \in Nat /\ HitThreshold \in Nat /\ BreakerThreshold \in Nat
      /\ Cardinality(Workers) \in Nat
  BY RouterFacts, RouterConstants
<1>10. LightCounted'
  BY <1>1, <1>6, <1>7, <1>8, <1>9 DEF RouterInv, LightCounted
<1>11. LightSpared'
  BY <1>1, <1>6, <1>7, <1>9 DEF RouterInv, LightSpared
<1>12. MissOutweighs'
  <2> SUFFICES ASSUME HitThreshold >= Cardinality(Workers), ~R!DomAdmits(breaker)',
                      ~(\E v \in Workers : Owes(worker[v], "convergence", FALSE)')
               PROVE  ~convergence.converged'
                      /\ convergence.hits' + Cardinality(LateHits') < HitThreshold
    BY DEF MissOutweighs
  <2>1. ~R!DomAdmits(breaker)
    BY <1>1 DEF R!DomAdmits
  <2>2. ~(\E v \in Workers : Owes(worker[v], "convergence", FALSE))
    BY <1>2, <1>4 DEF Owes
  <2>3. ~convergence.converged /\ convergence.hits + Cardinality(LateHits) < HitThreshold
    BY <2>1, <2>2 DEF RouterInv, MissOutweighs
  <2> QED
    BY <1>1, <1>6, <1>7, <1>9, <2>3
<1>13. /\ breaker' \in R!DomBreakerState /\ phase' \in R!PhaseState
       /\ begun' \in 0..MaxActions /\ tier' \in 0..2
       /\ bypass' \in BOOLEAN /\ guided' = guided
       /\ convergence' \in [hits : 0..HitThreshold, converged : BOOLEAN]
       /\ attempts' \in Nat /\ successes' \in Nat /\ wasted' \in Nat
  BY <1>1, <1>9, RouterFacts DEF RouterInv, R!TypeOK
<1> QED
  BY <1>2, <1>4, <1>5, <1>10, <1>11, <1>12, <1>13, RouterKeeps

LEMMA MoveTierStep ==
    ASSUME RouterInv, NEW w \in Workers, R!MoveTier(w) PROVE RouterInv'
<1>1. /\ R!Due(w, "tier") /\ R!Made(w) /\ tier' \in 0..2
      /\ UNCHANGED <<breaker, convergence, phase, attempts, successes, begun, wasted, bypass, guided>>
  <2>1. tier \in 0..2
    BY RouterFacts
  <2> QED
    BY <2>1 DEF R!MoveTier
<1>2. /\ worker[w].todo # <<>> /\ Head(worker[w].todo).op = "tier"
      /\ worker' \in [Workers -> WorkerRecords]
      /\ \A v \in Workers \ {w} : worker'[v] = worker[v]
      /\ worker'[w].todo = Tail(worker[w].todo)
      /\ worker'[w].pc = worker[w].pc /\ worker'[w].tried = worker[w].tried
  BY <1>1, MadeFacts
<1>3. \A op2 \in {"breaker", "convergence", "phase"}, ok \in BOOLEAN :
         ~Tells(Head(worker[w].todo), op2, ok)
  BY <1>2 DEF Tells
<1>4. /\ InOrder(worker[w])' /\ worker[w].pc # "cascade"
      /\ Uncounted(worker[w])' => Uncounted(worker[w])
      /\ MayFail(worker[w])' => MayFail(worker[w])
      /\ HitsLate(worker[w])' => HitsLate(worker[w])
      /\ Owes(worker[w], "convergence", FALSE) => Owes(worker[w], "convergence", FALSE)'
      /\ Retries(worker[w])' => Retries(worker[w])
  BY <1>2, <1>3, ReportMade
<1>5. LightCounted' /\ LightSpared' /\ MissOutweighs' /\ SmartRunsExplained'
  BY <1>1, <1>2, <1>4, LightKeeps, RunsKeep
<1>6. /\ breaker' \in R!DomBreakerState /\ phase' \in R!PhaseState
      /\ begun' \in 0..MaxActions /\ bypass' \in BOOLEAN /\ guided' = guided
      /\ convergence' \in [hits : 0..HitThreshold, converged : BOOLEAN]
      /\ attempts' \in Nat /\ successes' \in Nat /\ wasted' \in Nat
  BY <1>1, RouterFacts, RouterConstants DEF RouterInv, R!TypeOK
<1> QED
  BY <1>1, <1>2, <1>4, <1>5, <1>6, RouterKeeps

\* A failure of light opens the breaker, counts as one in vain, and its miss
\* is still to come; a success closes it.
LEMMA ReportBreakerStep ==
    ASSUME RouterInv, NEW w \in Workers, R!ReportBreaker(w) PROVE RouterInv'
<1> DEFINE ok == Head(worker[w].todo).ok
<1>1. /\ R!Due(w, "breaker") /\ R!Made(w)
      /\ breaker' = (IF ok THEN R!DomSuccess(breaker) ELSE R!DomFailure(breaker))
      /\ wasted' = (IF ok THEN 0 ELSE wasted + 1)
      /\ UNCHANGED <<convergence, phase, attempts, successes, tier, begun, bypass, guided>>
  BY DEF R!ReportBreaker, R!DueNow
<1>2. /\ worker[w].todo # <<>> /\ Head(worker[w].todo).op = "breaker"
      /\ worker' \in [Workers -> WorkerRecords]
      /\ \A v \in Workers \ {w} : worker'[v] = worker[v]
      /\ worker'[w].todo = Tail(worker[w].todo)
      /\ worker'[w].pc = worker[w].pc /\ worker'[w].tried = worker[w].tried
  BY <1>1, MadeFacts
<1>3. ok \in BOOLEAN
  BY <1>2, ReportMade DEF R!Reports
<1>4. /\ InOrder(worker[w])' /\ worker[w].pc # "cascade"
      /\ Uncounted(worker[w])' => Uncounted(worker[w])
      /\ MayFail(worker[w])' => MayFail(worker[w])
      /\ ~ok => /\ MayFail(worker[w]) /\ ~MayFail(worker[w])'
                /\ Owes(worker[w], "convergence", FALSE)'
      /\ Retries(worker[w])' => Retries(worker[w])
  <2>1. Tells(Head(worker[w].todo), "breaker", FALSE) <=> ~ok
    BY <1>2, <1>3 DEF Tells
  <2>2. ~Tells(Head(worker[w].todo), "phase", FALSE)
    BY <1>2 DEF Tells
  <2> HIDE DEF ok
  <2> QED
    BY <1>2, <2>1, <2>2, ReportMade
<1> HIDE DEF ok
<1>5. SmartRunsExplained'
  BY <1>1, <1>2, <1>4, RunsKeep
<1>6. /\ Cardinality(Cascading) \in Nat /\ Cardinality(Cascading') \in Nat
      /\ Cardinality(Counting) \in Nat /\ Cardinality(Counting') \in Nat
      /\ Cardinality(Failing) \in Nat /\ Cardinality(Failing') \in Nat
      /\ Cardinality(Failing) <= Cardinality(Workers)
  BY <1>2, CallMoves
<1>7. /\ Cardinality(Cascading') <= Cardinality(Cascading)
      /\ Cardinality(Counting') <= Cardinality(Counting)
      /\ Cardinality(Failing') <= Cardinality(Failing)
  <2>1. worker'[w].pc # "cascade"
    BY <1>2, <1>4
  <2> QED
    BY <1>2, <1>4, <2>1, CallLeaves
<1>8. ~ok => Cardinality(Failing') = Cardinality(Failing) - 1
  BY <1>2, <1>4, <1>6, CallMoves
<1>9. /\ attempts \in Nat /\ successes \in Nat /\ wasted \in Nat /\ begun \in Nat
      /\ BreakerThreshold \in Nat \ {0} /\ Cardinality(Workers) \in Nat
      /\ breaker \in R!DomBreakerState /\ FailureCap \in Nat /\ FailureCap >= BreakerThreshold
  BY RouterFacts, RouterConstants
<1>10. LightCounted'
  <2>1. /\ attempts + Cardinality(Cascading) <= begun
        /\ successes + Cardinality(Counting) <= attempts
        /\ wasted + Cardinality(Failing) <= attempts
    BY DEF RouterInv, LightCounted
  <2>2. /\ attempts + Cardinality(Cascading') <= begun
        /\ successes + Cardinality(Counting') <= attempts
    BY <1>6, <1>7, <1>9, <2>1
  <2>3. wasted' + Cardinality(Failing') <= attempts
    BY <1>1, <1>6, <1>7, <1>8, <1>9, <2>1
  <2> QED
    BY <1>1, <2>2, <2>3 DEF LightCounted
<1>11. CASE ok
  <2>1. /\ breaker' \in R!DomBreakerState /\ breaker'.state = "closed"
        /\ breaker'.failures = 0 /\ wasted' = 0
    BY <1>1, <1>9, <1>11, RouterBreakers
  <2>2. LightSpared'
    BY <1>9, <2>1 DEF LightSpared
  <2>3. MissOutweighs'
    BY <2>1 DEF MissOutweighs, R!DomAdmits
  <2>4. wasted' \in Nat
    BY <2>1
  <2> QED
    BY <2>1, <2>2, <2>3, <2>4, <1>1, <1>2, <1>4, <1>5, <1>9, <1>10, RouterFacts, RouterKeeps
       DEF RouterInv, R!TypeOK
<1>12. CASE ~ok
  <2>1. /\ breaker' \in R!DomBreakerState /\ ~breaker'.cooled /\ wasted' = wasted + 1
        /\ breaker'.failures = IF breaker.failures < FailureCap THEN breaker.failures + 1
                                                                ELSE FailureCap
        /\ breaker'.state = IF breaker'.failures >= BreakerThreshold THEN "open"
                                                                    ELSE breaker.state
    BY <1>1, <1>9, <1>12, RouterBreakers
  <2>2. breaker.failures \in Nat /\ breaker.state \in {"closed", "open", "half-open"}
    BY <1>9, RouterBreakers
  <2>3. LightSpared
    BY DEF RouterInv
  <2>4. Cardinality(Failing') = Cardinality(Failing) - 1
    BY <1>8, <1>12
  <2>5. ASSUME breaker'.failures >= BreakerThreshold PROVE LightSpared'
    <3>1. breaker'.state = "open"
      BY <2>1, <2>5
    <3>2. wasted <= BreakerThreshold - 1 \/ breaker.state = "open"
      BY <1>9, <2>2, <2>3 DEF LightSpared
    <3>3. wasted' + Cardinality(Failing') <= BreakerThreshold - 1 + Cardinality(Workers)
      <4>1. wasted + Cardinality(Failing) <= BreakerThreshold - 1 + Cardinality(Workers)
        BY <1>6, <1>9, <2>3, <3>2 DEF LightSpared
      <4> QED
        BY <1>6, <1>9, <2>1, <2>4, <4>1
    <3> QED
      BY <2>1, <2>5, <3>1, <3>3 DEF LightSpared
  <2>6. ASSUME ~(breaker'.failures >= BreakerThreshold) PROVE LightSpared'
    <3>1. breaker'.state = breaker.state
      BY <2>1, <2>6
    <3>2. breaker'.failures = breaker.failures + 1
      BY <1>9, <2>1, <2>2, <2>6
    <3>3. breaker.state = "closed"
      BY <1>9, <2>2, <2>3, <2>6, <3>2 DEF LightSpared
    <3>4. wasted' <= breaker'.failures /\ breaker'.failures < BreakerThreshold
      BY <1>9, <2>1, <2>2, <2>3, <2>6, <3>2, <3>3 DEF LightSpared
    <3> QED
      BY <2>1, <3>1, <3>3, <3>4 DEF LightSpared
  <2>7. LightSpared'
    BY <2>5, <2>6
  <2>8. MissOutweighs'
    BY <1>4, <1>12 DEF MissOutweighs
  <2>9. wasted' \in Nat
    BY <1>9, <2>1
  <2> QED
    BY <2>1, <2>7, <2>8, <2>9, <1>1, <1>2, <1>4, <1>5, <1>9, <1>10, RouterFacts, RouterKeeps
       DEF RouterInv, R!TypeOK
<1> QED
  BY <1>3, <1>11, <1>12

\* A miss leaves fewer late hits than the threshold; a late hit is one less.
LEMMA ReportConvergenceStep ==
    ASSUME RouterInv, NEW w \in Workers, R!ReportConvergence(w) PROVE RouterInv'
<1> DEFINE ok == Head(worker[w].todo).ok
           hits == IF convergence.hits < HitThreshold THEN convergence.hits + 1
                                                      ELSE convergence.hits
<1>1. /\ R!Due(w, "convergence") /\ R!Made(w)
      /\ convergence' = (IF ok THEN [hits |-> hits,
                                     converged |-> convergence.converged \/ hits >= HitThreshold]
                               ELSE [hits |-> 0, converged |-> FALSE])
      /\ UNCHANGED <<breaker, phase, attempts, successes, tier, begun, wasted, bypass, guided>>
  BY DEF R!ReportConvergence, R!DueNow
<1>2. /\ worker[w].todo # <<>> /\ Head(worker[w].todo).op = "convergence"
      /\ worker' \in [Workers -> WorkerRecords]
      /\ \A v \in Workers \ {w} : worker'[v] = worker[v]
      /\ worker'[w].todo = Tail(worker[w].todo)
      /\ worker'[w].pc = worker[w].pc /\ worker'[w].tried = worker[w].tried
  BY <1>1, MadeFacts
<1>3. ok \in BOOLEAN
  BY <1>2, ReportMade DEF R!Reports
<1>4. /\ InOrder(worker[w])' /\ worker[w].pc # "cascade"
      /\ Uncounted(worker[w])' => Uncounted(worker[w])
      /\ MayFail(worker[w])' => MayFail(worker[w])
      /\ ~HitsLate(worker[w])' /\ (ok => HitsLate(worker[w]))
      /\ ok /\ Owes(worker[w], "convergence", FALSE) => Owes(worker[w], "convergence", FALSE)'
      /\ Retries(worker[w])' => Retries(worker[w])
  <2>1. /\ Tells(Head(worker[w].todo), "convergence", FALSE) <=> ~ok
        /\ Tells(Head(worker[w].todo), "convergence", TRUE) <=> ok
    BY <1>2, <1>3 DEF Tells
  <2>2. ~Tells(Head(worker[w].todo), "phase", FALSE)
    BY <1>2 DEF Tells
  <2> HIDE DEF ok
  <2> QED
    BY <1>2, <2>1, <2>2, ReportMade
<1> HIDE DEF ok
<1>5. SmartRunsExplained'
  BY <1>1, <1>2, <1>4, RunsKeep
<1>6. /\ Cardinality(Cascading) \in Nat /\ Cardinality(Cascading') \in Nat
      /\ Cardinality(Counting) \in Nat /\ Cardinality(Counting') \in Nat
      /\ Cardinality(Failing) \in Nat /\ Cardinality(Failing') \in Nat
      /\ Cardinality(LateHits) \in Nat /\ Cardinality(LateHits') \in Nat
  BY <1>2, CallMoves
<1>7. /\ Cardinality(Cascading') <= Cardinality(Cascading)
      /\ Cardinality(Counting') <= Cardinality(Counting)
      /\ Cardinality(Failing') <= Cardinality(Failing)
  <2>1. worker'[w].pc # "cascade"
    BY <1>2, <1>4
  <2> QED
    BY <1>2, <1>4, <2>1, CallLeaves
<1>8. /\ Cardinality(LateHits') < Cardinality(Workers)
      /\ ok => Cardinality(LateHits') = Cardinality(LateHits) - 1
  BY SMTT(60), <1>2, <1>4, <1>6, CallMoves
<1>9. /\ attempts \in Nat /\ successes \in Nat /\ wasted \in Nat /\ begun \in Nat
      /\ BreakerThreshold \in Nat /\ HitThreshold \in Nat \ {0} /\ Cardinality(Workers) \in Nat
      /\ convergence.hits \in 0..HitThreshold /\ convergence.converged \in BOOLEAN
  BY RouterFacts, RouterConstants
<1>10. LightCounted'
  BY <1>1, <1>6, <1>7, <1>9 DEF RouterInv, LightCounted
<1>11. LightSpared'
  BY <1>1, <1>6, <1>7, <1>9 DEF RouterInv, LightSpared
<1>12. hits \in 0..HitThreshold /\ hits <= convergence.hits + 1
  BY <1>9
<1> HIDE DEF hits
<1>13. /\ convergence' \in [hits : 0..HitThreshold, converged : BOOLEAN]
       /\ ~ok => convergence'.hits = 0 /\ ~convergence'.converged
       /\ ok => /\ convergence'.hits = hits
                /\ (convergence'.converged <=> convergence.converged \/ hits >= HitThreshold)
  <2>1. 0 \in 0..HitThreshold /\ (convergence.converged \/ hits >= HitThreshold) \in BOOLEAN
    BY <1>9
  <2> QED
    BY <1>1, <1>12, <2>1
<1>14. MissOutweighs'
  <2> SUFFICES ASSUME HitThreshold >= Cardinality(Workers), ~R!DomAdmits(breaker)',
                      ~(\E v \in Workers : Owes(worker[v], "convergence", FALSE)')
               PROVE  ~convergence'.converged
                      /\ convergence'.hits + Cardinality(LateHits') < HitThreshold
    BY DEF MissOutweighs
  <2>1. CASE ~ok
    BY <1>6, <1>8, <1>9, <1>13, <2>1
  <2>2. CASE ok
    <3>1. ~R!DomAdmits(breaker)
      BY <1>1 DEF R!DomAdmits
    <3>2. ~(\E v \in Workers : Owes(worker[v], "convergence", FALSE))
      BY <1>2, <1>4, <2>2 DEF Owes
    <3>3. ~convergence.converged /\ convergence.hits + Cardinality(LateHits) < HitThreshold
      BY <3>1, <3>2 DEF RouterInv, MissOutweighs
    <3>4. hits + Cardinality(LateHits') < HitThreshold /\ hits < HitThreshold
      BY <1>6, <1>8, <1>9, <1>12, <2>2, <3>3
    <3> QED
      BY <1>9, <1>12, <1>13, <2>2, <3>3, <3>4
  <2> QED
    BY <1>3, <2>1, <2>2
<1>15. /\ breaker' \in R!DomBreakerState /\ phase' \in R!PhaseState
       /\ begun' \in 0..MaxActions /\ tier' \in 0..2
       /\ bypass' \in BOOLEAN /\ guided' = guided
       /\ attempts' \in Nat /\ successes' \in Nat /\ wasted' \in Nat
  BY <1>1, <1>9, RouterFacts
<1> QED
  BY <1>2, <1>4, <1>5, <1>10, <1>11, <1>13, <1>14, <1>15, RouterKeeps

\* A report to the phase tracker: a smart success of a call that has reported
\* its light failure before is one of the retries that were counted on.
LEMMA ReportPhaseStep ==
    ASSUME RouterInv, NEW w \in Workers, R!ReportPhase(w) PROVE RouterInv'
<1> DEFINE first == Head(worker[w].todo)
<1>1. /\ R!Due(w, "phase") /\ R!Made(w)
      /\ phase' = (IF first.ok THEN R!PhaseSuccess(phase, first.tier)
                               ELSE R!PhaseFailure(phase, first.tier))
      /\ bypass' = (/\ phase'.smart # 0
                    /\ bypass \/ (first.ok /\ first.tier = "smart" /\ ~worker[w].tried))
      /\ UNCHANGED <<breaker, convergence, attempts, successes, tier, begun, wasted, guided>>
  BY DEF R!ReportPhase, R!DueNow
<1>2. /\ worker[w].todo # <<>> /\ first.op = "phase"
      /\ worker' \in [Workers -> WorkerRecords]
      /\ \A v \in Workers \ {w} : worker'[v] = worker[v]
      /\ worker'[w].todo = Tail(worker[w].todo)
      /\ worker'[w].pc = worker[w].pc /\ worker'[w].tried = worker[w].tried
  BY <1>1, MadeFacts
<1>3. first.ok \in BOOLEAN /\ first.tier \in R!ActionTiers
  BY <1>2, ReportMade DEF R!Reports
<1>4. /\ InOrder(worker[w])' /\ worker[w].pc # "cascade"
      /\ Uncounted(worker[w])' => Uncounted(worker[w])
      /\ MayFail(worker[w])' => MayFail(worker[w])
      /\ HitsLate(worker[w])' => HitsLate(worker[w])
      /\ Owes(worker[w], "convergence", FALSE) => Owes(worker[w], "convergence", FALSE)'
      /\ first.ok => (Retries(worker[w])' => Retries(worker[w]))
      /\ first.ok /\ first.tier = "smart" /\ worker[w].tried =>
            Retries(worker[w]) /\ ~Retries(worker[w])'
  <2>1. /\ Tells(first, "phase", FALSE) <=> ~first.ok
        /\ TellsOfSmart(first) <=> first.ok /\ first.tier = "smart"
    BY <1>2, <1>3 DEF Tells, TellsOfSmart
  <2>2. ~Tells(first, "breaker", TRUE) /\ ~Tells(first, "convergence", FALSE)
    BY <1>2 DEF Tells
  <2> QED
    BY <1>2, <2>1, <2>2, ReportMade
<1>5. LightCounted' /\ LightSpared' /\ MissOutweighs'
  BY <1>1, <1>2, <1>4, LightKeeps
<1>6. /\ phase \in R!PhaseState /\ bypass \in BOOLEAN /\ Cardinality(Workers) \in Nat
      /\ phase.smart \in Nat /\ SmartRunsExplained
  BY RouterFacts, RouterConstants, RouterPhases DEF RouterInv, R!ActionTiers
<1>7. /\ Cardinality(Retrying) \in Nat /\ Cardinality(Retrying') \in Nat
      /\ Cardinality(Retrying') <= Cardinality(Workers)
  BY <1>2, CallMoves
<1> HIDE DEF first
<1>8. phase' \in R!PhaseState /\ (~first.ok => phase'.smart = 0)
      /\ (first.ok => \/ phase'.smart \in {0, phase.smart}
                      \/ first.tier = "smart" /\ phase'.smart = phase.smart + 1)
  BY <1>1, <1>3, <1>6, RouterPhases
<1>9. SmartRunsExplained'
  <2> SUFFICES ASSUME ~bypass'
               PROVE  phase'.smart + Cardinality(Retrying') <= Cardinality(Workers)
    BY DEF SmartRunsExplained
  <2>1. CASE phase'.smart = 0
    BY <1>6, <1>7, <2>1
  <2>2. CASE phase'.smart # 0
    <3>1. first.ok /\ ~bypass /\ (first.tier = "smart" => worker[w].tried)
      BY <1>1, <1>8, <2>2
    <3>2. phase.smart + Cardinality(Retrying) <= Cardinality(Workers)
      BY <1>6, <3>1 DEF SmartRunsExplained
    <3>3. CASE first.tier = "smart"
      <4>1. Cardinality(Retrying') = Cardinality(Retrying) - 1
        <5>1. Retries(worker[w]) /\ ~Retries(worker[w])'
          BY <1>2, <1>4, <3>1, <3>3
        <5>2. Cardinality(Retrying') = Cardinality(Retrying)
                 + (IF Retries(worker[w])' THEN 1 ELSE 0) - (IF Retries(worker[w]) THEN 1 ELSE 0)
          BY <1>2, CallMoves
        <5> QED
          BY <1>7, <5>1, <5>2
      <4> QED
        BY <1>6, <1>7, <1>8, <2>2, <3>1, <3>2, <4>1
    <3>4. CASE first.tier # "smart"
      <4>1. Cardinality(Retrying') <= Cardinality(Retrying)
        BY <1>2, <1>4, <3>1, CallLeaves
      <4> QED
        BY <1>6, <1>7, <1>8, <2>2, <3>1, <3>2, <3>4, <4>1
    <3> QED
      BY <3>3, <3>4
  <2> QED
    BY <2>1, <2>2
<1>10. /\ breaker' \in R!DomBreakerState /\ begun' \in 0..MaxActions /\ tier' \in 0..2
       /\ bypass' \in BOOLEAN /\ guided' = guided
       /\ convergence' \in [hits : 0..HitThreshold, converged : BOOLEAN]
       /\ attempts' \in Nat /\ successes' \in Nat /\ wasted' \in Nat
  <2>1. bypass' \in BOOLEAN
    BY <1>1
  <2> QED
    BY <1>1, <2>1, RouterFacts, RouterConstants DEF RouterInv, R!TypeOK
<1> QED
  BY <1>2, <1>4, <1>5, <1>8, <1>9, <1>10, RouterKeeps

\* With a bandit a call reports once more, under the tier of its arm.
LEMMA CallReturns ==
    ASSUME RouterInv, NEW w \in Workers, R!Return(w) PROVE RouterInv'
<1> DEFINE arm == worker[w].arm
<1>1. PICK pc \in {"nil", "error"} :
         /\ R!At(w, pc)
         /\ phase' = (IF ~guided THEN phase
                      ELSE IF pc = "nil" THEN R!PhaseSuccess(phase, arm)
                      ELSE R!PhaseFailure(phase, arm))
         /\ bypass' = (/\ phase'.smart # 0
                       /\ bypass \/ (guided /\ pc = "nil" /\ arm = "smart"))
  BY DEF R!Return
<1>2. /\ worker' = [worker EXCEPT ![w] = R!Idle]
      /\ UNCHANGED <<breaker, convergence, attempts, successes, tier, begun, wasted, guided>>
  BY DEF R!Return
<1>3. R!Idle \in WorkerRecords /\ R!Idle.pc = "idle" /\ R!Idle.todo = <<>> /\ R!Idle.tried = FALSE
  <2>1. <<>> \in Seq(R!Reports) /\ 0 \in 0..MaxActions
    BY RouterConstants
  <2> QED
    BY <2>1 DEF R!Idle, WorkerRecords, R!ActionTiers
<1>4. /\ worker' \in [Workers -> WorkerRecords]
      /\ \A v \in Workers \ {w} : worker'[v] = worker[v]
      /\ worker'[w].pc = "idle" /\ worker'[w].todo = <<>> /\ ~worker'[w].tried
      /\ worker[w].todo = <<>>
  BY <1>1, <1>2, <1>3, RouterFacts DEF R!At
<1>5. /\ InOrder(worker[w])' /\ ~Owes(worker[w], "convergence", FALSE)
      /\ ~Uncounted(worker[w])' /\ ~MayFail(worker[w])' /\ ~HitsLate(worker[w])'
      /\ ~Retries(worker[w])'
  BY <1>4 DEF InOrder, Owes, Uncounted, MayFail, HitsLate, Retries
<1>6. LightCounted' /\ LightSpared' /\ MissOutweighs'
  BY <1>2, <1>4, <1>5, LightKeeps
<1>7. /\ phase \in R!PhaseState /\ bypass \in BOOLEAN /\ Cardinality(Workers) \in Nat
      /\ phase.smart \in Nat /\ SmartRunsExplained /\ arm \in R!ActionTiers
  BY RouterFacts, RouterConstants, RouterPhases DEF RouterInv, R!ActionTiers
<1> HIDE DEF arm
<1>8. /\ Cardinality(Retrying) \in Nat /\ Cardinality(Retrying') \in Nat
      /\ Cardinality(Retrying') <= Cardinality(Workers)
      /\ Cardinality(Retrying') <= Cardinality(Retrying)
  BY <1>4, <1>5, CallMoves, CallLeaves
<1>9. /\ phase' \in R!PhaseState
      /\ \/ phase'.smart \in {0, phase.smart}
         \/ guided /\ pc = "nil" /\ arm = "smart" /\ phase'.smart = phase.smart + 1
  BY <1>1, <1>7, RouterPhases
<1>10. SmartRunsExplained'
  <2> SUFFICES ASSUME ~bypass'
               PROVE  phase'.smart + Cardinality(Retrying') <= Cardinality(Workers)
    BY DEF SmartRunsExplained
  <2>1. CASE phase'.smart = 0
    BY <1>7, <1>8, <2>1
  <2>2. CASE phase'.smart # 0
    <3>1. ~bypass /\ phase'.smart = phase.smart
      BY <1>1, <1>9, <2>2
    <3>2. phase.smart + Cardinality(Retrying) <= Cardinality(Workers)
      BY <1>7, <3>1 DEF SmartRunsExplained
    <3> QED
      BY <1>7, <1>8, <3>1, <3>2
  <2> QED
    BY <2>1, <2>2
<1>11. /\ breaker' \in R!DomBreakerState /\ begun' \in 0..MaxActions /\ tier' \in 0..2
       /\ bypass' \in BOOLEAN /\ guided' = guided
       /\ convergence' \in [hits : 0..HitThreshold, converged : BOOLEAN]
       /\ attempts' \in Nat /\ successes' \in Nat /\ wasted' \in Nat
  <2>1. bypass' \in BOOLEAN
    BY <1>1
  <2> QED
    BY <1>2, <2>1, RouterFacts, RouterConstants DEF RouterInv, R!TypeOK
<1> QED
  BY <1>4, <1>5, <1>6, <1>9, <1>10, <1>11, RouterKeeps

LEMMA RouterCooldown == ASSUME RouterInv, R!Cooldown PROVE RouterInv'
<1>1. /\ breaker' = R!DomCooldown(breaker) /\ wasted' = 0
      /\ UNCHANGED <<convergence, phase, attempts, successes, tier, begun, worker, bypass, guided>>
  BY DEF R!Cooldown
<1>2. breaker \in R!DomBreakerState /\ attempts \in Nat /\ wasted \in Nat
      /\ BreakerThreshold \in Nat \ {0} /\ MaxActions \in Nat
  BY RouterConstants DEF RouterInv, R!TypeOK
<1>3. /\ breaker' \in R!DomBreakerState /\ breaker'.cooled
      /\ breaker'.state = breaker.state /\ breaker'.failures = breaker.failures
      /\ breaker.failures \in Nat
  BY <1>1, <1>2, RouterBreakers
<1>4. /\ Cardinality(Failing) \in Nat /\ Failing' = Failing /\ Cascading' = Cascading
      /\ Counting' = Counting /\ Retrying' = Retrying
      /\ Cardinality(Failing) <= Cardinality(Workers) /\ Cardinality(Workers) \in Nat
  <2>1. Failing \subseteq Workers
    BY DEF Failing
  <2> QED
    BY <1>1, <2>1, RouterConstants, FS_Subset, FS_CardinalityType
       DEF Failing, Cascading, Counting, Retrying
<1>5. LightCounted'
  BY <1>1, <1>2, <1>4 DEF RouterInv, LightCounted
<1>6. LightSpared'
  <2>1. breaker.state = "closed" => breaker.failures < BreakerThreshold
    BY DEF RouterInv, LightSpared
  <2>2. breaker.state # "closed" => breaker.failures >= BreakerThreshold
    BY DEF RouterInv, LightSpared
  <2> QED
    BY <1>1, <1>2, <1>3, <1>4, <2>1, <2>2 DEF LightSpared
<1>7. MissOutweighs'
  BY <1>3 DEF MissOutweighs, R!DomAdmits
<1>8. SmartRunsExplained'
  BY <1>1, <1>4 DEF RouterInv, SmartRunsExplained
<1>9. R!TypeOK'
  BY <1>1, <1>2, <1>3 DEF RouterInv, R!TypeOK
<1>10. \A w \in Workers : InOrder(worker[w])'
  BY <1>1 DEF RouterInv, InOrder
<1> QED
  BY <1>5, <1>6, <1>7, <1>8, <1>9, <1>10 DEF RouterInv

LEMMA RouterInit == R!Init => RouterInv
<1> SUFFICES ASSUME R!Init PROVE RouterInv
  OBVIOUS
<1>1. /\ 0 \in 0..MaxActions /\ 0 \in 0..HitThreshold /\ 0 \in 0..PhaseCap /\ 0 \in 0..FailureCap
      /\ 0 \in 0..2 /\ <<>> \in Seq(R!Reports) /\ Cardinality(Workers) \in Nat
      /\ BreakerThreshold \in Nat \ {0}
  BY RouterConstants
<1>2. /\ breaker \in R!DomBreakerState /\ breaker.state = "closed" /\ breaker.failures = 0
      /\ phase \in R!PhaseState /\ phase.smart = 0
  BY <1>1 DEF R!Init, R!NewDomBreaker, R!DomBreakerState, R!NewPhase, R!PhaseState, R!Phases
<1>3. R!Idle \in WorkerRecords /\ R!Idle.pc = "idle" /\ R!Idle.todo = <<>> /\ R!Idle.tried = FALSE
  BY <1>1 DEF R!Idle, WorkerRecords, R!ActionTiers
<1>4. worker = [w \in Workers |-> R!Idle] /\ attempts = 0 /\ successes = 0 /\ wasted = 0 /\ begun = 0
  BY DEF R!Init
<1>5. R!TypeOK
  <2>1. worker \in [Workers -> WorkerRecords]
    BY <1>3, <1>4
  <2>2. convergence \in [hits : 0..HitThreshold, converged : BOOLEAN]
    BY <1>1 DEF R!Init
  <2> QED
    BY <1>1, <1>2, <1>4, <2>1, <2>2 DEF R!Init, R!TypeOK, WorkerRecords
<1>6. \A w \in Workers : InOrder(worker[w])
  BY <1>3, <1>4 DEF InOrder
<1>7. Cascading = {} /\ Counting = {} /\ Failing = {} /\ Retrying = {}
  <2>1. \A w \in Workers : worker[w].pc = "idle" /\ worker[w].todo = <<>> /\ ~worker[w].tried
    BY <1>3, <1>4
  <2>2. ASSUME NEW w \in Workers
        PROVE  ~Uncounted(worker[w]) /\ ~MayFail(worker[w]) /\ ~Retries(worker[w])
    <3>1. worker[w].pc = "idle" /\ worker[w].todo = <<>> /\ ~worker[w].tried
      BY <2>1, <2>2
    <3> QED
      BY <3>1 DEF Uncounted, MayFail, Owes, Retries
  <2> QED
    BY <2>1, <2>2 DEF Cascading, Counting, Failing, Retrying
<1>8. Cardinality({}) = 0
  BY FS_EmptySet
<1>9. LightCounted
  BY <1>4, <1>7, <1>8 DEF LightCounted
<1>10. LightSpared
  BY <1>1, <1>2, <1>4 DEF LightSpared
<1>11. MissOutweighs
  BY <1>2 DEF MissOutweighs, R!DomAdmits
<1>12. SmartRunsExplained
  BY <1>1, <1>2, <1>7, <1>8 DEF SmartRunsExplained
<1> QED
  BY <1>5, <1>6, <1>9, <1>10, <1>11, <1>12 DEF RouterInv

LEMMA RouterNext == ASSUME RouterInv, R!Next PROVE RouterInv'
BY BeginStep, AllowStep, LightSucceedsStep, LightFailsStep, PathStep, CallReturns, CountStep,
   ReportBreakerStep, ReportConvergenceStep, ReportPhaseStep, LoadAttemptsStep, MoveTierStep,
   RouterCooldown DEF R!Next, R!CallStep, R!ReportStep

LEMMA RouterRests == ASSUME RouterInv, UNCHANGED routerVars PROVE RouterInv'
<1>1. UNCHANGED <<breaker, convergence, phase, attempts, successes, tier, begun, guided,
                  worker, wasted, bypass>>
  BY DEF routerVars
<1>2. /\ Failing' = Failing /\ Cascading' = Cascading /\ Counting' = Counting
      /\ Retrying' = Retrying /\ LateHits' = LateHits
  BY <1>1 DEF Failing, Cascading, Counting, Retrying, LateHits
<1> QED
  BY ZenonT(90), <1>1, <1>2 DEF RouterInv, R!TypeOK, InOrder, LightCounted, LightSpared, MissOutweighs,
     R!DomAdmits, SmartRunsExplained, Owes

\* A failure of light is either counted by the closed breaker or one of those
\* under way when it opened; and nothing is owed at rest.
LEMMA RouterSpares == RouterInv => R!WastedPerCooldown /\ R!ConvergedIsAdmitted
<1> SUFFICES ASSUME RouterInv PROVE R!WastedPerCooldown /\ R!ConvergedIsAdmitted
  OBVIOUS
<1>1. R!WastedPerCooldown
  <2>1. Failing \subseteq Workers
    BY DEF Failing
  <2>2. Cardinality(Failing) \in Nat /\ Cardinality(Workers) \in Nat
    BY <2>1, RouterConstants, FS_Subset, FS_CardinalityType
  <2>3. /\ breaker \in R!DomBreakerState /\ wasted \in Nat /\ BreakerThreshold \in Nat \ {0}
    BY RouterConstants DEF RouterInv, R!TypeOK
  <2>4. breaker.failures \in Nat /\ breaker.state \in {"closed", "open", "half-open"}
    BY <2>3, RouterBreakers
  <2>5. wasted <= BreakerThreshold - 1 + Cardinality(Workers)
    BY <2>2, <2>3, <2>4 DEF RouterInv, LightSpared
  <2> QED
    BY <2>5, Cardinalities DEF R!WastedPerCooldown
<1>2. R!ConvergedIsAdmitted
  <2> SUFFICES ASSUME HitThreshold >= Cardinality(Workers),
                      \A w \in Workers : worker[w].pc = "idle", convergence.converged
               PROVE  R!DomAdmits(breaker)
    BY Cardinalities DEF R!ConvergedIsAdmitted
  <2>1. ASSUME NEW w \in Workers PROVE ~Owes(worker[w], "convergence", FALSE)
    <3>1. worker[w].todo = <<>>
      BY RouterFacts DEF InOrder
    <3> QED
      BY <3>1 DEF Owes
  <2> QED
    BY <2>1 DEF RouterInv, MissOutweighs
<1> QED
  BY <1>1, <1>2

\* Smart successes that calls have announced are no more than the calls.
LEMMA CruiseStep ==
    ASSUME RouterInv, RouterInv', R!Next, phase.current = "discovery", phase'.current = "cruise",
           DiscoveryThreshold > Cardinality(Workers)
    PROVE  bypass'
<1>1. phase' # phase /\ DiscoveryThreshold \in Nat /\ Cardinality(Workers) \in Nat
      /\ phase \in R!PhaseState /\ phase' \in R!PhaseState
  BY SMTT(60), RouterConstants DEF RouterInv, R!TypeOK
<1>2. PICK t \in R!ActionTiers :
         phase' = R!PhaseSuccess(phase, t) \/ phase' = R!PhaseFailure(phase, t)
  <2>1. PICK w \in Workers : R!ReportPhase(w) \/ R!Return(w)
    BY ZenonT(90), <1>1 DEF R!Next, R!Begin, R!CallStep, R!ReportStep, R!Allow, R!LightSucceeds, R!LightFails,
       R!Smart, R!RerunSucceeds, R!RerunFails, R!VLM, R!CountSuccess, R!ReportBreaker,
       R!ReportConvergence, R!LoadAttempts, R!MoveTier, R!Cooldown, R!shared
  <2>2. CASE R!Return(w)
    BY <1>1, <2>2, RouterFacts DEF R!Return
  <2>3. CASE R!ReportPhase(w)
    <3>1. worker[w].todo \in Seq(R!Reports) /\ worker[w].todo # <<>>
      BY <2>3, RouterFacts DEF R!ReportPhase, R!Due
    <3>2. Head(worker[w].todo) \in R!Reports
      BY <3>1, Reported
    <3> QED
      BY <2>3, <3>2 DEF R!ReportPhase, R!DueNow, R!Reports
  <2> QED
    BY <2>1, <2>2, <2>3
<1>3. phase'.smart >= DiscoveryThreshold /\ phase'.smart \in Nat
  <2>1. phase' = R!PhaseSuccess(phase, t)
    BY <1>1, <1>2, RouterPhases
  <2> QED
    BY <1>1, <1>2, <2>1, RouterPhases
<1>4. Cardinality(Retrying)' \in Nat
  <2>1. Retrying' \subseteq Workers
    BY DEF Retrying
  <2> QED
    BY <2>1, RouterConstants, FS_Subset, FS_CardinalityType
<1> QED
  BY <1>1, <1>3, <1>4 DEF RouterInv, SmartRunsExplained

(***************************************************************************)
(* The parts together: a step is one of the subject, and the others rest.  *)
(***************************************************************************)
Inv == HealInv /\ TaskInv /\ ExploreInv /\ RouterInv

LEMMA InvInit == Init => Inv
BY HealInit, TaskInit, ExploreInit, RouterInit DEF Init, Inv

LEMMA InvNext == Inv /\ [Next]_vars => Inv'
<1> SUFFICES ASSUME Inv, [Next]_vars PROVE Inv'
  OBVIOUS
<1>1. HealInv /\ TaskInv /\ ExploreInv /\ RouterInv
  BY DEF Inv
<1>2. /\ H!Next \/ UNCHANGED healVars
      /\ A!Next \/ UNCHANGED taskVars
      /\ E!Next \/ UNCHANGED exploreVars
      /\ R!Next \/ UNCHANGED routerVars
  BY DEF Next, vars, Heals, Runs, Explores, Routes
<1>3. HealInv'
  BY <1>1, <1>2, HealNext, HealRests
<1>4. TaskInv'
  BY <1>1, <1>2, TaskNext, TaskRests
<1>5. ExploreInv'
  BY <1>1, <1>2, ExploreNext, ExploreRests
<1>6. RouterInv'
  BY <1>1, <1>2, RouterNext, RouterRests
<1> QED
  BY <1>3, <1>4, <1>5, <1>6 DEF Inv

LEMMA Invariance == Spec => []Inv
BY InvInit, InvNext, PTL DEF Spec

\* Values of the variables of the self healer, the member agent, the
\* exploration and the model router, for any number of each and any thresholds.
THEOREM TypeCorrect == Spec => []TypeOK
<1>1. Inv => TypeOK
  BY DEF Inv, HealInv, TaskInv, ExploreInv, RouterInv, TypeOK
<1> QED
  BY <1>1, Invariance, PTL

\* SelfHealer.Heal counts each heal once and a Snapshot of its metrics never
\* shows a success without its method; RunTask leaves a completed task with a
\* result for each action; exploreSinglePage a page with an outcome for each
\* element.
THEOREM CountsAgree == Spec => []CountersAddUp
<1>1. Inv => CountersAddUp
  BY HealsAddUp, TasksAddUp, ExplorationsAddUp DEF Inv, CountersAddUp
<1> QED
  BY <1>1, Invariance, PTL

\* Between two cooldowns the breakers of Heal, RunTask and cascadeExecution
\* let at most the threshold, less one, and one failure per caller through.
THEOREM VainCallsBounded == Spec => []BoundedVainCalls
<1>1. Inv => BoundedVainCalls
  BY HealsAddUp, TasksAddUp, RouterSpares DEF Inv, BoundedVainCalls
<1> QED
  BY <1>1, Invariance, PTL

\* With a semaphore of one, ConcurrentExplore registers no selector that was
\* read from another page, up to the element at which a heal of the page itself
\* clicked the browser away.
THEOREM PagesKept == Spec => []SerialKeepsPages
<1>1. Inv => SerialKeepsPages
  BY ExplorationsAddUp DEF Inv, SerialKeepsPages
<1> QED
  BY <1>1, Invariance, PTL

\* A ModelRouter at rest that says it has converged has a breaker that admits
\* light: hits reported late do not outweigh the miss that opened it.
THEOREM ConvergedAdmits == Spec => []ConvergedIsAdmitted
<1>1. Inv => ConvergedIsAdmitted
  BY RouterSpares DEF Inv, ConvergedIsAdmitted
<1> QED
  BY <1>1, Invariance, PTL

\* The phase tracker of the ModelRouter leaves discovery only with the success
\* of a call that never tried light.
THEOREM BypassNeeded == Spec => CruiseNeedsBypass
<1>1. Inv /\ Inv' /\ [Next]_vars =>
         [phase.current = "discovery" /\ phase'.current = "cruise"
            /\ DiscoveryThreshold > R!Cardinality(Workers) => bypass']_(R!vars)
  <2> SUFFICES ASSUME Inv, Inv', [Next]_vars, phase.current = "discovery",
                      phase'.current = "cruise", DiscoveryThreshold > Cardinality(Workers)
               PROVE  bypass'
    BY Cardinalities
  <2>1. phase' # phase
    OBVIOUS
  <2>2. R!Next
    BY <2>1 DEF Next, vars, Heals, Runs, Explores, routerVars
  <2> QED
    BY <2>2, CruiseStep DEF Inv
<1> QED
  BY <1>1, Invariance, PTL DEF Spec, CruiseNeedsBypass, R!CruiseNeedsBypass

=============================================================================
