----------------------------- MODULE SelfHealer -----------------------------
(***************************************************************************)
(* uiauto.SelfHealer (pkg/uiauto/self_healer.go).  Heal tries its levels   *)
(* in order until one repairs the target; the three that call a model are  *)
(* guarded by a circuit breaker each.  Concurrent calls (the tasks and     *)
(* explorations of one MemberAgent) share the breakers and the metrics,    *)
(* whose fields are atomic one by one, while Snapshot and SuccessRate read *)
(* them one after the other.                                               *)
(*                                                                         *)
(* What the levels find on the page is outside: any outcome the code can   *)
(* take is possible.  The pattern a level registers and the boost of       *)
(* recordSuccess are operations of PatternStore.                           *)
(***************************************************************************)
EXTENDS Breaker, Sequences

CONSTANTS Healers,  \* goroutines that call Heal
          Enabled,  \* the levels of the strategy; 4 and 5 need a vlmBridge
          MaxHeals  \* bound: calls of Heal

Methods == <<"fingerprint", "structural", "smart_llm", "vlm", "vlm_judge">>
Levels  == DOMAIN Methods
Guarded == {3, 4, 5}
Done    == Len(Methods) + 1

\* HealerMetrics, in the order Snapshot loads them.
FieldOrder == <<"total", "successful", "failed">> \o Methods
Fields == {FieldOrder[i] : i \in DOMAIN FieldOrder}

\* The default configuration of a breaker has no window.
SelfHealerAssumption ==
    /\ IsFiniteSet(Healers)
    /\ Enabled \subseteq Levels
    /\ WindowSize = 0
    /\ MaxHeals \in Nat

VARIABLES breaker,  \* per guarded level: smartCB, vlmCB, vlmJudgeCB
          heal,     \* per healer: where its Heal is, and at which level
          metrics,  \* h.Metrics
          snap,     \* what a call of Snapshot has loaded so far
          read,     \* how many fields that is
          burst     \* history, per guarded level: failed calls since the last
                    \* success, Cooldown or start

vars == <<breaker, heal, metrics, snap, read, burst>>

TypeOK ==
    /\ breaker \in [Guarded -> BreakerState]
    /\ heal \in [Healers ->
                   [pc : {"idle", "lookup", "level", "calling", "healed"},
                    level : 1..Done]]
    /\ metrics \in [Fields -> 0..MaxHeals]
    /\ snap \in [Fields -> 0..MaxHeals]
    /\ read \in 0..Len(FieldOrder)
    /\ burst \in [Guarded -> 0..MaxHeals]

Init ==
    /\ breaker = [l \in Guarded |-> NewBreaker]
    /\ heal = [h \in Healers |-> [pc |-> "idle", level |-> 1]]
    /\ metrics = [f \in Fields |-> 0]
    /\ snap = [f \in Fields |-> 0]
    /\ read = 0
    /\ burst = [l \in Guarded |-> 0]

----------------------------------------------------------------------------
\* Heal.

Goto(h, pc, level) == heal' = [heal EXCEPT ![h] = [pc |-> pc, level |-> level]]

\* The first level of the strategy after l.
NextLevel(l) ==
    LET later == {k \in Enabled : k > l}
    IN  IF later = {} THEN Done ELSE CHOOSE k \in later : \A j \in later : k <= j

Count(f) == metrics' = [metrics EXCEPT ![f] = @ + 1]

Begin(h) ==
    /\ heal[h].pc = "idle"
    /\ metrics["total"] < MaxHeals
    /\ Count("total")
    /\ Goto(h, "lookup", 1)
    /\ UNCHANGED <<breaker, snap, read, burst>>

LookupFromZero(h) == \* mutant: the levels are counted from 0
    /\ heal[h].pc = "lookup"
    /\ \E l \in {Done, 0} : Goto(h, "level", l)
    /\ UNCHANGED <<breaker, metrics, snap, read, burst>>

\* The pattern is unknown or the DOM cannot be captured, or the levels start.
Lookup(h) ==
    /\ heal[h].pc = "lookup"
    /\ \E l \in {Done, NextLevel(0)} : Goto(h, "level", l)
    /\ UNCHANGED <<breaker, metrics, snap, read, burst>>

\* tryFingerprint and tryStructural: no breaker and no error.
Match(h) ==
    LET l == heal[h].level
    IN  /\ heal[h].pc = "level" /\ l \in Levels \ Guarded
        /\ \/ Count(Methods[l]) /\ Goto(h, "healed", l)
           \/ Goto(h, "level", NextLevel(l)) /\ UNCHANGED metrics
        /\ UNCHANGED <<breaker, snap, read, burst>>

AskForever(h) == \* mutant: a refused heal waits for the breaker
    LET l == heal[h].level
    IN  /\ heal[h].pc = "level" /\ l \in Guarded
        /\ IF Admits(breaker[l])
           THEN /\ breaker' = [breaker EXCEPT ![l] = AfterAllow(@)]
                /\ Goto(h, "calling", l)
           ELSE UNCHANGED <<breaker, heal>>
        /\ UNCHANGED <<metrics, snap, read, burst>>

AskAnyway(h) == \* mutant: the answer of Allow is ignored
    LET l == heal[h].level
    IN  /\ heal[h].pc = "level" /\ l \in Guarded
        /\ breaker' = [breaker EXCEPT ![l] = AfterAllow(@)]
        /\ Goto(h, "calling", l)
        /\ UNCHANGED <<metrics, snap, read, burst>>

\* Allow: the model is called, or the level skipped.
Ask(h) ==
    LET l == heal[h].level
    IN  /\ heal[h].pc = "level" /\ l \in Guarded
        /\ IF Admits(breaker[l])
           THEN /\ breaker' = [breaker EXCEPT ![l] = AfterAllow(@)]
                /\ Goto(h, "calling", l)
           ELSE Goto(h, "level", NextLevel(l)) /\ UNCHANGED breaker
        /\ UNCHANGED <<metrics, snap, read, burst>>

\* The call of a model ends: a selector; an error; or, in trySmartLLM only,
\* a selector that matches nothing, of which the breaker never hears.
CallHeals(h) ==
    LET l == heal[h].level
    IN  /\ heal[h].pc = "calling"
        /\ Count(Methods[l])
        /\ Goto(h, "healed", l)
        /\ UNCHANGED <<breaker, snap, read, burst>>

CallErrs(h) ==
    LET l == heal[h].level
    IN  /\ heal[h].pc = "calling"
        /\ breaker' = [breaker EXCEPT ![l] = AfterFailure(@)]
        /\ burst' = [burst EXCEPT ![l] = @ + 1]
        /\ Goto(h, "level", NextLevel(l))
        /\ UNCHANGED <<metrics, snap, read>>

CallFindsNothing(h) ==
    /\ heal[h] = [pc |-> "calling", level |-> 3]
    /\ Goto(h, "level", NextLevel(3))
    /\ UNCHANGED <<breaker, metrics, snap, read, burst>>

ReturnHealedTwice(h) == \* mutant: a level counts the success as well
    LET l == heal[h].level
    IN  /\ heal[h].pc = "healed"
        /\ IF l \in Guarded
           THEN /\ breaker' = [breaker EXCEPT ![l] = AfterSuccess(@)]
                /\ burst' = [burst EXCEPT ![l] = 0]
           ELSE UNCHANGED <<breaker, burst>>
        /\ metrics' = [metrics EXCEPT !["successful"] = @ + 1, !["failed"] = @ + 1]
        /\ Goto(h, "idle", 1)
        /\ UNCHANGED <<snap, read>>

\* RecordSuccess on the level's breaker, then recordSuccess.
ReturnHealed(h) ==
    LET l == heal[h].level
    IN  /\ heal[h].pc = "healed"
        /\ IF l \in Guarded
           THEN /\ breaker' = [breaker EXCEPT ![l] = AfterSuccess(@)]
                /\ burst' = [burst EXCEPT ![l] = 0]
           ELSE UNCHANGED <<breaker, burst>>
        /\ Count("successful")
        /\ Goto(h, "idle", 1)
        /\ UNCHANGED <<snap, read>>

ReturnExhausted(h) ==
    /\ heal[h] = [pc |-> "level", level |-> Done]
    /\ Count("failed")
    /\ Goto(h, "idle", 1)
    /\ UNCHANGED <<breaker, snap, read, burst>>

----------------------------------------------------------------------------

LoadNextBackwards == \* mutant: the fields are loaded in the reverse order
    LET f == FieldOrder[Len(FieldOrder) - read]
    IN  /\ read < Len(FieldOrder)
        /\ snap' = [snap EXCEPT ![f] = metrics[f]]
        /\ read' = read + 1
        /\ UNCHANGED <<breaker, heal, metrics, burst>>

\* Snapshot loads one field after the other.
LoadNext ==
    LET f == FieldOrder[read + 1]
    IN  /\ read < Len(FieldOrder)
        /\ snap' = [snap EXCEPT ![f] = metrics[f]]
        /\ read' = read + 1
        /\ UNCHANGED <<breaker, heal, metrics, burst>>

Cooldown(l) ==
    /\ ~breaker[l].cooled
    /\ breaker' = [breaker EXCEPT ![l] = AfterCooldown(@)]
    /\ burst' = [burst EXCEPT ![l] = 0]
    /\ UNCHANGED <<heal, metrics, snap, read>>

HealStep(h) ==
    \/ Lookup(h) \/ Match(h) \/ Ask(h)
    \/ CallHeals(h) \/ CallErrs(h) \/ CallFindsNothing(h)
    \/ ReturnHealed(h) \/ ReturnExhausted(h)

Next ==
    \/ \E h \in Healers : Begin(h) \/ HealStep(h)
    \/ LoadNext
    \/ \E l \in Guarded : Cooldown(l)

\* A heal goes on; calls of a model end, by the client's timeout at latest.
Progress == \E h \in Healers : HealStep(h)

----------------------------------------------------------------------------
\* Properties.

AllMethods(m) ==
    m["fingerprint"] + m["structural"] + m["smart_llm"] + m["vlm"] + m["vlm_judge"]

\* Every call is counted once: as a success, as a failure, or it still runs;
\* and every success under exactly one method.
MetricsAddUp ==
    /\ metrics["total"] = metrics["successful"] + metrics["failed"]
                            + Cardinality({h \in Healers : heal[h].pc # "idle"})
    /\ AllMethods(metrics) = metrics["successful"]
                            + Cardinality({h \in Healers : heal[h].pc = "healed"})

\* A Snapshot is not atomic, but it never shows a success without its
\* method: the method is counted first and loaded last.
SnapshotCoversSuccesses ==
    read = Len(FieldOrder) => snap["successful"] <= AllMethods(snap)

\* During an outage a model is called in vain at most this often before its
\* breaker has to cool down, however the calls of the healers overlap.
FailuresPerCooldown ==
    \A l \in Guarded : burst[l] <= FailureThreshold - 1 + Cardinality(Healers)

Returned == \A h \in Healers : heal[h].pc = "idle"

=============================================================================
