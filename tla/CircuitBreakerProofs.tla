------------------------ MODULE CircuitBreakerProofs ------------------------
(***************************************************************************)
(* For every threshold, window and set of callers: the type invariant, no  *)
(* missed transition, the two action properties that tie a transition to   *)
(* the run of verdicts before it, and what the ring buffer remembers.  The *)
(* inductive invariant adds to the type that the two counters count the    *)
(* newest run of equal verdicts, and that the ring is aligned with them.   *)
(***************************************************************************)
EXTENDS CircuitBreaker, SequenceTheorems, FiniteSetTheorems, TLAPS

\* consecutiveFailures counts failures at the head of the history, and
\* consecutiveSuccesses successes.
CountersCountRuns ==
    /\ \A i \in 1..cb.fails : i <= HistoryLen => i \in DOMAIN recent /\ ~recent[i]
    /\ \A i \in 1..cb.succs : i <= HistoryLen => i \in DOMAIN recent /\ recent[i]

Inv == TypeOK /\ NoMissedTransition /\ CountersCountRuns

----------------------------------------------------------------------------
\* The operators of Breaker.

\* The adaptive window moves the threshold by at most one and never to zero.
LEMMA ThresholdBounds ==
    ASSUME NEW b
    PROVE  /\ EffectiveThreshold(b) \in Nat
           /\ EffectiveThreshold(b) >= StrictestThreshold
           /\ EffectiveThreshold(b) >= 1
           /\ EffectiveThreshold(b) <= FailureThreshold + 1
BY ThresholdAssumption DEF EffectiveThreshold, StrictestThreshold

LEMMA BumpType ==
    ASSUME NEW n \in 0..CounterCap
    PROVE  Bump(n) \in 0..CounterCap
BY CounterCapAssumption DEF Bump

\* A verdict enters the window and touches nothing else.
LEMMA PushOutcomeType ==
    ASSUME NEW b \in BreakerState, NEW ok \in BOOLEAN
    PROVE  /\ PushOutcome(b, ok) \in BreakerState
           /\ PushOutcome(b, ok).state = b.state
           /\ PushOutcome(b, ok).fails = b.fails
           /\ PushOutcome(b, ok).succs = b.succs
           /\ PushOutcome(b, ok).cooled = b.cooled
<1>1. CASE WindowSize = 0
  BY <1>1 DEF PushOutcome
<1>2. CASE WindowSize # 0
  <2>1. b.idx \in 0..(WindowSize - 1)
    BY <1>2, ThresholdAssumption DEF BreakerState
  <2>2. (b.idx + 1) % WindowSize \in 0..(WindowSize - 1)
    BY <1>2, <2>1, ThresholdAssumption
  <2>3. [b.ring EXCEPT ![b.idx] = ok] \in [0..(WindowSize - 1) -> BOOLEAN]
    BY <2>1 DEF BreakerState
  <2>4. (IF b.pushed < WindowSize THEN b.pushed + 1 ELSE b.pushed) \in 0..WindowSize
    BY ThresholdAssumption DEF BreakerState
  <2> QED
    BY <1>2, <2>2, <2>3, <2>4 DEF PushOutcome, BreakerState
<1> QED
  BY <1>1, <1>2

\* What RecordSuccess leaves.
LEMMA AfterSuccessFields ==
    ASSUME NEW b \in BreakerState
    PROVE  /\ AfterSuccess(b) \in BreakerState
           /\ AfterSuccess(b).fails = 0
           /\ AfterSuccess(b).succs = Bump(b.succs)
           /\ AfterSuccess(b).state =
                IF b.state = "half_open" /\ Bump(b.succs) >= SuccessThreshold
                THEN "closed" ELSE b.state
<1> DEFINE a == [b EXCEPT !.fails = 0, !.succs = Bump(@)]
           p == PushOutcome(a, TRUE)
<1>0. 0 \in 0..CounterCap /\ Bump(b.succs) \in 0..CounterCap
  BY CounterCapAssumption, BumpType DEF BreakerState
<1>1. a \in BreakerState
  BY <1>0 DEF BreakerState
<1>2. /\ p \in BreakerState
      /\ p.state = b.state /\ p.fails = 0 /\ p.succs = Bump(b.succs)
  BY <1>1, PushOutcomeType DEF BreakerState
<1> HIDE DEF p
<1>3. AfterSuccess(b) = IF p.state = "half_open" /\ p.succs >= SuccessThreshold
                        THEN [p EXCEPT !.state = "closed"] ELSE p
  BY DEF AfterSuccess, p
<1> QED
  BY <1>2, <1>3 DEF BreakerState, CircuitState

\* What RecordFailure leaves.
LEMMA AfterFailureFields ==
    ASSUME NEW b \in BreakerState
    PROVE  /\ AfterFailure(b) \in BreakerState
           /\ AfterFailure(b).fails = Bump(b.fails)
           /\ AfterFailure(b).succs = 0
           /\ AfterFailure(b).state =
                IF \/ b.state = "closed" /\ Bump(b.fails) >= EffectiveThreshold(b)
                   \/ b.state = "half_open"
                THEN "open" ELSE b.state
<1> DEFINE a == [b EXCEPT !.fails = Bump(@), !.succs = 0, !.cooled = FALSE]
           p == PushOutcome(a, FALSE)
<1>0. 0 \in 0..CounterCap /\ Bump(b.fails) \in 0..CounterCap
  BY CounterCapAssumption, BumpType DEF BreakerState
<1>1. a \in BreakerState
  BY <1>0 DEF BreakerState
<1>2. /\ p \in BreakerState
      /\ p.state = b.state /\ p.fails = Bump(b.fails) /\ p.succs = 0
  BY <1>1, PushOutcomeType DEF BreakerState
<1> HIDE DEF p
<1>3. AfterFailure(b) =
        IF \/ p.state = "closed" /\ p.fails >= EffectiveThreshold(b)
           \/ p.state = "half_open"
        THEN [p EXCEPT !.state = "open"] ELSE p
  BY DEF AfterFailure, p
<1> QED
  BY <1>2, <1>3 DEF BreakerState, CircuitState

----------------------------------------------------------------------------
\* The history.

\* A new verdict goes to the head and the rest moves back by one; what falls
\* off the end is beyond HistoryLen.
LEMMA RememberShifts ==
    ASSUME TypeOK, NEW ok \in BOOLEAN, Remember(ok)
    PROVE  /\ recent' \in Seq(BOOLEAN)
           /\ Len(recent') <= HistoryLen
           /\ 1 \in DOMAIN recent' /\ recent'[1] = ok
           /\ \A i \in DOMAIN recent :
                i < HistoryLen => i + 1 \in DOMAIN recent' /\ recent'[i + 1] = recent[i]
<1> DEFINE kept == IF Len(recent) < HistoryLen THEN Len(recent) ELSE HistoryLen - 1
           tail == SubSeq(recent, 1, kept)
<1>1. recent \in Seq(BOOLEAN) /\ Len(recent) \in Nat /\ Len(recent) <= HistoryLen
      /\ HistoryLen \in Nat /\ HistoryLen > 0
  BY CallersAssumption, ThresholdAssumption, LenProperties DEF TypeOK
<1>2. kept \in 0..Len(recent) /\ kept < HistoryLen /\ kept \in Int
  BY <1>1
<1>3. /\ tail \in Seq(BOOLEAN) /\ Len(tail) = kept
      /\ \A i \in 1..kept : tail[i] = recent[i]
  BY <1>1, <1>2, SubSeqProperties
<1>4. recent' = <<ok>> \o tail
  BY DEF Remember
<1> HIDE DEF tail
<1>5. /\ recent' \in Seq(BOOLEAN) /\ Len(recent') = kept + 1
      /\ recent'[1] = ok
      /\ \A i \in 1..kept : recent'[i + 1] = tail[i]
  BY <1>2, <1>3, <1>4
<1>6. DOMAIN recent' = 1..(kept + 1) /\ DOMAIN recent = 1..Len(recent)
  BY <1>1, <1>5, LenProperties
<1> QED
  BY <1>1, <1>2, <1>3, <1>5, <1>6

----------------------------------------------------------------------------
\* The inductive invariant, one step per action.

LEMMA InitInv == Init => Inv
<1> SUFFICES ASSUME Init PROVE Inv
  OBVIOUS
<1>1. cb.state = "closed" /\ cb.fails = 0 /\ cb.succs = 0
  BY DEF Init, NewBreaker
<1>2. TypeOK
  <2>1. cb \in BreakerState
    BY ThresholdAssumption, CounterCapAssumption
    DEF Init, NewBreaker, BreakerState, CircuitState
  <2>2. caller \in [Callers -> {"idle", "closed", "half_open"}]
    BY DEF Init
  <2>3. recent \in Seq(BOOLEAN) /\ Len(recent) <= HistoryLen
    BY CallersAssumption DEF Init
  <2> QED
    BY <2>1, <2>2, <2>3 DEF TypeOK
<1>3. NoMissedTransition
  BY <1>1, ThresholdAssumption DEF NoMissedTransition
<1>4. CountersCountRuns
  BY <1>1 DEF CountersCountRuns
<1> QED
  BY <1>2, <1>3, <1>4 DEF Inv

LEMMA AllowInv ==
    ASSUME Inv, NEW c \in Callers, Allow(c)
    PROVE  Inv'
<1>1. cb \in BreakerState
  BY DEF Inv, TypeOK
<1>2. /\ cb' \in BreakerState /\ cb'.fails = cb.fails
      /\ \/ cb'.state = cb.state /\ cb'.succs = cb.succs
         \/ cb'.state = "half_open" /\ cb'.succs = 0
  <2>1. CASE cb.state = "open" /\ cb.cooled
    <3>1. cb' = [cb EXCEPT !.state = "half_open", !.succs = 0]
      BY <2>1 DEF Allow, AfterAllow
    <3>2. 0 \in 0..CounterCap
      BY CounterCapAssumption
    <3> QED
      BY <1>1, <3>1, <3>2 DEF BreakerState, CircuitState
  <2>2. CASE ~(cb.state = "open" /\ cb.cooled)
    BY <1>1, <2>2 DEF Allow, AfterAllow
  <2> QED
    BY <2>1, <2>2
<1>3. cb'.state \in {"closed", "half_open"}
  BY <1>1 DEF Allow, AfterAllow, Admits, BreakerState, CircuitState
<1>4. TypeOK'
  BY <1>2, <1>3 DEF Inv, TypeOK, Allow
<1>5. NoMissedTransition'
  BY <1>2, ThresholdAssumption DEF Inv, NoMissedTransition
<1>6. CountersCountRuns'
  BY <1>2 DEF Inv, CountersCountRuns, Allow
<1> QED
  BY <1>4, <1>5, <1>6 DEF Inv

LEMMA SucceedInv ==
    ASSUME Inv, NEW c \in Callers, Succeed(c)
    PROVE  Inv'
<1>1. /\ TypeOK /\ cb \in BreakerState /\ cb.succs \in 0..CounterCap
      /\ Remember(TRUE) /\ cb' = AfterSuccess(cb)
  BY DEF Inv, TypeOK, Succeed, BreakerState
<1>2. /\ cb' \in BreakerState /\ cb'.fails = 0 /\ cb'.succs = Bump(cb.succs)
      /\ cb'.state = IF cb.state = "half_open" /\ Bump(cb.succs) >= SuccessThreshold
                     THEN "closed" ELSE cb.state
  BY <1>1, AfterSuccessFields
<1>3. /\ recent' \in Seq(BOOLEAN) /\ Len(recent') <= HistoryLen
      /\ 1 \in DOMAIN recent' /\ recent'[1] = TRUE
      /\ \A i \in DOMAIN recent :
           i < HistoryLen => i + 1 \in DOMAIN recent' /\ recent'[i + 1] = recent[i]
  BY <1>1, RememberShifts
<1>4. TypeOK'
  BY <1>2, <1>3 DEF Inv, TypeOK, Succeed
<1>5. NoMissedTransition'
  BY <1>2, BumpType, <1>1, ThresholdAssumption, CounterCapAssumption
  DEF Inv, NoMissedTransition
<1>6. CountersCountRuns'
  <2>1. ASSUME NEW i \in 1..cb'.fails PROVE FALSE
    BY <1>2, <2>1
  <2>2. ASSUME NEW i \in 1..cb'.succs, i <= HistoryLen
        PROVE  i \in DOMAIN recent' /\ recent'[i]
    <3>1. CASE i = 1
      BY <1>3, <3>1
    <3>2. CASE i # 1
      <4>1. i - 1 \in 1..cb.succs /\ i - 1 < HistoryLen
        BY <1>1, <1>2, <2>2, <3>2, CallersAssumption, CounterCapAssumption DEF Bump
      <4>2. i - 1 \in DOMAIN recent /\ recent[i - 1]
        BY <4>1, CallersAssumption DEF Inv, CountersCountRuns
      <4>3. (i - 1) + 1 = i
        BY <1>1, <1>2, BumpType
      <4> QED
        BY <1>3, <4>1, <4>2, <4>3
    <3> QED
      BY <3>1, <3>2
  <2> QED
    BY <2>1, <2>2 DEF CountersCountRuns
<1> QED
  BY <1>4, <1>5, <1>6 DEF Inv

LEMMA FailInv ==
    ASSUME Inv, NEW c \in Callers, Fail(c)
    PROVE  Inv'
<1>1. /\ TypeOK /\ cb \in BreakerState /\ cb.fails \in 0..CounterCap
      /\ Remember(FALSE) /\ cb' = AfterFailure(cb)
  BY DEF Inv, TypeOK, Fail, BreakerState
<1>2. /\ cb' \in BreakerState /\ cb'.fails = Bump(cb.fails) /\ cb'.succs = 0
      /\ cb'.state = IF \/ cb.state = "closed" /\ Bump(cb.fails) >= EffectiveThreshold(cb)
                        \/ cb.state = "half_open"
                     THEN "open" ELSE cb.state
  BY <1>1, AfterFailureFields
<1>3. /\ recent' \in Seq(BOOLEAN) /\ Len(recent') <= HistoryLen
      /\ 1 \in DOMAIN recent' /\ recent'[1] = FALSE
      /\ \A i \in DOMAIN recent :
           i < HistoryLen => i + 1 \in DOMAIN recent' /\ recent'[i + 1] = recent[i]
  BY <1>1, RememberShifts
<1>4. TypeOK'
  BY <1>2, <1>3 DEF Inv, TypeOK, Fail
<1>5. NoMissedTransition'
  BY <1>1, <1>2, BumpType, ThresholdBounds, ThresholdAssumption, CounterCapAssumption
  DEF Inv, NoMissedTransition
<1>6. CountersCountRuns'
  <2>1. ASSUME NEW i \in 1..cb'.succs PROVE FALSE
    BY <1>2, <2>1
  <2>2. ASSUME NEW i \in 1..cb'.fails, i <= HistoryLen
        PROVE  i \in DOMAIN recent' /\ ~recent'[i]
    <3>1. CASE i = 1
      BY <1>3, <3>1
    <3>2. CASE i # 1
      <4>1. i - 1 \in 1..cb.fails /\ i - 1 < HistoryLen
        BY <1>1, <1>2, <2>2, <3>2, CallersAssumption, CounterCapAssumption DEF Bump
      <4>2. i - 1 \in DOMAIN recent /\ ~recent[i - 1]
        BY <4>1, CallersAssumption DEF Inv, CountersCountRuns
      <4>3. (i - 1) + 1 = i
        BY <1>1, <1>2, BumpType
      <4> QED
        BY <1>3, <4>1, <4>2, <4>3
    <3> QED
      BY <3>1, <3>2
  <2> QED
    BY <2>1, <2>2 DEF CountersCountRuns
<1> QED
  BY <1>4, <1>5, <1>6 DEF Inv

\* Abandon, Reset and Cooldown record no verdict.
LEMMA AbandonInv ==
    ASSUME Inv, NEW c \in Callers, Abandon(c)
    PROVE  Inv'
<1>1. TypeOK'
  BY DEF Inv, TypeOK, Abandon
<1> QED
  BY <1>1 DEF Inv, NoMissedTransition, CountersCountRuns, Abandon

LEMMA ResetInv ==
    ASSUME Inv, Reset
    PROVE  Inv'
<1>1. 0 \in 0..CounterCap
  BY CounterCapAssumption
<1>2. /\ cb' \in BreakerState
      /\ cb'.state = "closed" /\ cb'.fails = 0 /\ cb'.succs = 0
  BY <1>1 DEF Inv, TypeOK, Reset, AfterReset, BreakerState, CircuitState
<1>3. TypeOK'
  BY <1>2 DEF Inv, TypeOK, Reset
<1>4. NoMissedTransition'
  BY <1>2, ThresholdAssumption DEF NoMissedTransition
<1>5. CountersCountRuns'
  BY <1>2 DEF CountersCountRuns
<1> QED
  BY <1>3, <1>4, <1>5 DEF Inv

LEMMA CooldownInv ==
    ASSUME Inv, Cooldown
    PROVE  Inv'
<1>1. /\ cb' \in BreakerState
      /\ cb'.state = cb.state /\ cb'.fails = cb.fails /\ cb'.succs = cb.succs
  BY DEF Inv, TypeOK, Cooldown, AfterCooldown, BreakerState
<1> QED
  BY <1>1 DEF Inv, TypeOK, NoMissedTransition, CountersCountRuns, Cooldown

LEMMA StepInv == Inv /\ [Next]_vars => Inv'
<1> SUFFICES ASSUME Inv, [Next]_vars PROVE Inv'
  OBVIOUS
<1>1. ASSUME NEW c \in Callers, Allow(c) PROVE Inv'
  BY <1>1, AllowInv
<1>2. ASSUME NEW c \in Callers, Succeed(c) PROVE Inv'
  BY <1>2, SucceedInv
<1>3. ASSUME NEW c \in Callers, Fail(c) PROVE Inv'
  BY <1>3, FailInv
<1>4. ASSUME NEW c \in Callers, Abandon(c) PROVE Inv'
  BY <1>4, AbandonInv
<1>5. CASE Reset
  BY <1>5, ResetInv
<1>6. CASE Cooldown
  BY <1>6, CooldownInv
<1>7. CASE UNCHANGED vars
  BY <1>7 DEF Inv, TypeOK, NoMissedTransition, CountersCountRuns, vars
<1> QED
  BY <1>1, <1>2, <1>3, <1>4, <1>5, <1>6, <1>7 DEF Next

----------------------------------------------------------------------------
\* The theorems.

\* RecordSuccess, RecordFailure, Allow and Reset keep the strengthened
\* invariant in every interleaving of any number of callers.
THEOREM Invariance == Spec => []Inv
BY InitInv, StepInv, PTL DEF Spec

THEOREM TypeCorrect == Spec => []TypeOK
<1>1. Inv => TypeOK
  BY DEF Inv
<1> QED
  BY Invariance, <1>1, PTL

\* No transition of the breaker is missed, for every threshold and window.
THEOREM NoTransitionMissed == Spec => []NoMissedTransition
<1>1. Inv => NoMissedTransition
  BY DEF Inv
<1> QED
  BY Invariance, <1>1, PTL

\* Only a failure opens a closed breaker, and only a success closes a
\* half-open one with successes to its name.
LEMMA OpenedByFailure ==
    ASSUME Inv, [Next]_vars, cb.state = "closed", cb'.state = "open"
    PROVE  /\ cb'.fails \in Nat
           /\ cb'.fails >= StrictestThreshold
<1>1. cb \in BreakerState
  BY DEF Inv, TypeOK
<1>2. ASSUME NEW c \in Callers, Allow(c) PROVE FALSE
  BY <1>1, <1>2 DEF Allow, AfterAllow
<1>3. ASSUME NEW c \in Callers, Succeed(c) PROVE FALSE
  BY <1>1, <1>3, AfterSuccessFields DEF Succeed
<1>4. ASSUME NEW c \in Callers, Fail(c)
      PROVE  cb'.fails \in Nat /\ cb'.fails >= StrictestThreshold
  <2>1. /\ cb'.fails = Bump(cb.fails) /\ Bump(cb.fails) >= EffectiveThreshold(cb)
    BY <1>1, <1>4, AfterFailureFields DEF Fail
  <2>2. Bump(cb.fails) \in 0..CounterCap
    BY <1>1, BumpType DEF BreakerState
  <2>3. StrictestThreshold \in Nat
    BY ThresholdAssumption DEF StrictestThreshold
  <2> QED
    BY <2>1, <2>2, <2>3, ThresholdBounds, CounterCapAssumption
<1>5. ASSUME NEW c \in Callers, Abandon(c) PROVE FALSE
  BY <1>5 DEF Abandon
<1>6. CASE Reset
  BY <1>1, <1>6 DEF Reset, AfterReset, BreakerState
<1>7. CASE Cooldown
  BY <1>1, <1>7 DEF Cooldown, AfterCooldown, BreakerState
<1>8. CASE UNCHANGED vars
  BY <1>8 DEF vars
<1> QED
  BY <1>2, <1>3, <1>4, <1>5, <1>6, <1>7, <1>8 DEF Next

LEMMA ClosedBySuccess ==
    ASSUME Inv, [Next]_vars, cb.state = "half_open", cb'.state = "closed", cb'.succs > 0
    PROVE  /\ cb'.succs \in Nat
           /\ cb'.succs >= SuccessThreshold
<1>1. cb \in BreakerState
  BY DEF Inv, TypeOK
<1>2. ASSUME NEW c \in Callers, Allow(c) PROVE FALSE
  BY <1>1, <1>2 DEF Allow, AfterAllow
<1>3. ASSUME NEW c \in Callers, Succeed(c)
      PROVE  cb'.succs \in Nat /\ cb'.succs >= SuccessThreshold
  <2>1. cb'.succs = Bump(cb.succs) /\ Bump(cb.succs) >= SuccessThreshold
    BY <1>1, <1>3, AfterSuccessFields DEF Succeed
  <2>2. Bump(cb.succs) \in 0..CounterCap
    BY <1>1, BumpType DEF BreakerState
  <2> QED
    BY <2>1, <2>2, CounterCapAssumption
<1>4. ASSUME NEW c \in Callers, Fail(c) PROVE FALSE
  BY <1>1, <1>4, AfterFailureFields DEF Fail
<1>5. ASSUME NEW c \in Callers, Abandon(c) PROVE FALSE
  BY <1>5 DEF Abandon
<1>6. ASSUME Reset PROVE FALSE
  <2>1. cb'.succs = 0
    BY <1>1, <1>6 DEF Reset, AfterReset, BreakerState
  <2> QED
    BY <2>1
<1>7. CASE Cooldown
  BY <1>1, <1>7 DEF Cooldown, AfterCooldown, BreakerState
<1>8. CASE UNCHANGED vars
  BY <1>8 DEF vars
<1> QED
  BY <1>2, <1>3, <1>4, <1>5, <1>6, <1>7, <1>8 DEF Next

\* RecordFailure opens a closed breaker only on an unbroken run of failures.
THEOREM TripNeedsRun == Spec => TripsOnRunOfFailures
<1> DEFINE Trip == cb.state = "closed" /\ cb'.state = "open"
                   => \A i \in 1..StrictestThreshold : i \in DOMAIN recent' /\ ~recent'[i]
<1>1. Inv /\ Inv' /\ [Next]_vars => [Trip]_vars
  <2> SUFFICES ASSUME Inv, Inv', [Next]_vars, cb.state = "closed", cb'.state = "open",
                      NEW i \in 1..StrictestThreshold
               PROVE  i \in DOMAIN recent' /\ ~recent'[i]
    OBVIOUS
  <2>1. cb'.fails \in Nat /\ cb'.fails >= StrictestThreshold
    BY OpenedByFailure
  <2>2. StrictestThreshold \in Nat /\ StrictestThreshold <= HistoryLen
    BY ThresholdAssumption, CallersAssumption DEF StrictestThreshold
  <2>3. i \in 1..cb'.fails /\ i <= HistoryLen
    BY <2>1, <2>2, CallersAssumption
  <2> QED
    BY <2>3 DEF Inv, CountersCountRuns
<1>2. Spec => [][Trip]_vars
  BY Invariance, <1>1, PTL DEF Spec
<1> QED
  BY <1>2 DEF TripsOnRunOfFailures

\* RecordSuccess closes a half-open breaker only on an unbroken run of
\* SuccessThreshold successes.
THEOREM CloseNeedsRun == Spec => ClosesOnRunOfSuccesses
<1> DEFINE Close == cb.state = "half_open" /\ cb'.state = "closed" /\ cb'.succs > 0
                    => \A i \in 1..SuccessThreshold : i \in DOMAIN recent' /\ recent'[i]
<1>1. Inv /\ Inv' /\ [Next]_vars => [Close]_vars
  <2> SUFFICES ASSUME Inv, Inv', [Next]_vars, cb.state = "half_open",
                      cb'.state = "closed", cb'.succs > 0,
                      NEW i \in 1..SuccessThreshold
               PROVE  i \in DOMAIN recent' /\ recent'[i]
    OBVIOUS
  <2>1. cb'.succs \in Nat /\ cb'.succs >= SuccessThreshold
    BY ClosedBySuccess
  <2>2. i \in 1..cb'.succs /\ i <= HistoryLen
    BY <2>1, ThresholdAssumption, CallersAssumption
  <2> QED
    BY <2>2 DEF Inv, CountersCountRuns
<1>2. Spec => [][Close]_vars
  BY Invariance, <1>1, PTL DEF Spec
<1> QED
  BY <1>2 DEF ClosesOnRunOfSuccesses

----------------------------------------------------------------------------
(***************************************************************************)
(* The ring.  Going back from the write index, round the end of the ring,  *)
(* one meets the verdicts from the newest on.  A ring that is not yet full *)
(* was written from its start.                                             *)
(***************************************************************************)
Slot(i) == IF i <= cb.idx THEN cb.idx - i ELSE cb.idx - i + WindowSize

RingAligned ==
    /\ cb.pushed < WindowSize => cb.idx = cb.pushed
    /\ \A i \in 1..cb.pushed : i \in DOMAIN recent /\ cb.ring[Slot(i)] = recent[i]

\* The write index moves on by one and from the end to the start.
LEMMA Wraps ==
    ASSUME NEW k \in 0..(WindowSize - 1)
    PROVE  (k + 1) % WindowSize = IF k + 1 = WindowSize THEN 0 ELSE k + 1
<1>1. k \in Nat /\ WindowSize \in Nat \ {0} /\ k + 1 <= WindowSize
  BY ThresholdAssumption
<1>2. CASE k + 1 = WindowSize
  BY <1>1, <1>2
<1>3. CASE k + 1 < WindowSize
  BY <1>1, <1>3
<1> QED
  BY <1>1, <1>2, <1>3

\* What a verdict writes.
LEMMA PushOutcomeRing ==
    ASSUME NEW b \in BreakerState, NEW ok \in BOOLEAN, WindowSize # 0
    PROVE  /\ PushOutcome(b, ok).ring = [b.ring EXCEPT ![b.idx] = ok]
           /\ PushOutcome(b, ok).idx = (b.idx + 1) % WindowSize
           /\ PushOutcome(b, ok).pushed = IF b.pushed < WindowSize THEN b.pushed + 1 ELSE b.pushed
BY DEF PushOutcome, BreakerState

\* RecordSuccess and RecordFailure write their verdict into the ring.
LEMMA VerdictWritten ==
    ASSUME NEW b \in BreakerState, NEW ok \in BOOLEAN, WindowSize # 0, NEW n,
           \/ ok = TRUE  /\ n = AfterSuccess(b)
           \/ ok = FALSE /\ n = AfterFailure(b)
    PROVE  /\ n.ring = [b.ring EXCEPT ![b.idx] = ok]
           /\ n.idx = (b.idx + 1) % WindowSize
           /\ n.pushed = IF b.pushed < WindowSize THEN b.pushed + 1 ELSE b.pushed
<1>1. CASE ok = TRUE /\ n = AfterSuccess(b)
  <2> DEFINE a == [b EXCEPT !.fails = 0, !.succs = Bump(@)]
             p == PushOutcome(a, TRUE)
  <2>1. 0 \in 0..CounterCap /\ Bump(b.succs) \in 0..CounterCap
    BY CounterCapAssumption, BumpType DEF BreakerState
  <2>2. a \in BreakerState /\ a.ring = b.ring /\ a.idx = b.idx /\ a.pushed = b.pushed
    BY <2>1 DEF BreakerState
  <2> HIDE DEF a
  <2>3. /\ p \in BreakerState /\ p.ring = [b.ring EXCEPT ![b.idx] = ok]
        /\ p.idx = (b.idx + 1) % WindowSize
        /\ p.pushed = IF b.pushed < WindowSize THEN b.pushed + 1 ELSE b.pushed
    BY ZenonT(90), <1>1, <2>2, PushOutcomeType, PushOutcomeRing
  <2>4. n = IF p.state = "half_open" /\ p.succs >= SuccessThreshold
            THEN [p EXCEPT !.state = "closed"] ELSE p
    BY <1>1 DEF AfterSuccess, a
  <2> HIDE DEF p
  <2>5. n.ring = p.ring /\ n.idx = p.idx /\ n.pushed = p.pushed
    BY <2>3, <2>4 DEF BreakerState
  <2> QED
    BY <2>3, <2>5
<1>2. CASE ok = FALSE /\ n = AfterFailure(b)
  <2> DEFINE a == [b EXCEPT !.fails = Bump(@), !.succs = 0, !.cooled = FALSE]
             p == PushOutcome(a, FALSE)
  <2>1. 0 \in 0..CounterCap /\ Bump(b.fails) \in 0..CounterCap
    BY CounterCapAssumption, BumpType DEF BreakerState
  <2>2. a \in BreakerState /\ a.ring = b.ring /\ a.idx = b.idx /\ a.pushed = b.pushed
    BY <2>1 DEF BreakerState
  <2> HIDE DEF a
  <2>3. /\ p \in BreakerState /\ p.ring = [b.ring EXCEPT ![b.idx] = ok]
        /\ p.idx = (b.idx + 1) % WindowSize
        /\ p.pushed = IF b.pushed < WindowSize THEN b.pushed + 1 ELSE b.pushed
    BY ZenonT(90), <1>2, <2>2, PushOutcomeType, PushOutcomeRing
  <2>4. n = IF \/ p.state = "closed" /\ p.fails >= EffectiveThreshold(b)
               \/ p.state = "half_open"
            THEN [p EXCEPT !.state = "open"] ELSE p
    BY <1>2 DEF AfterFailure, a
  <2> HIDE DEF p
  <2>5. n.ring = p.ring /\ n.idx = p.idx /\ n.pushed = p.pushed
    BY <2>3, <2>4 DEF BreakerState
  <2> QED
    BY <2>3, <2>5
<1> QED
  BY <1>1, <1>2

\* A verdict takes the slot the write index stood at, and every older one is
\* one further back from the new index.
LEMMA RingMoves ==
    ASSUME Inv, RingAligned, NEW ok \in BOOLEAN, Remember(ok),
           \/ ok = TRUE  /\ cb' = AfterSuccess(cb)
           \/ ok = FALSE /\ cb' = AfterFailure(cb),
           Inv'
    PROVE  RingAligned'
<1>1. CASE WindowSize = 0
  <2>1. cb'.pushed = 0
    BY <1>1 DEF Inv, TypeOK, BreakerState
  <2> QED
    BY <1>1, <2>1 DEF RingAligned
<1>2. CASE WindowSize # 0
  <2>1. PICK W \in Nat \ {0} : W = WindowSize /\ W <= HistoryLen
    BY <1>2, ThresholdAssumption, CallersAssumption
  <2>2. cb \in BreakerState /\ cb.idx \in 0..W - 1 /\ cb.pushed \in 0..W
    BY <2>1 DEF Inv, TypeOK, BreakerState
  <2>3. cb.ring \in [0..W - 1 -> BOOLEAN]
    BY <2>1 DEF Inv, TypeOK, BreakerState
  <2>4. /\ cb'.ring = [cb.ring EXCEPT ![cb.idx] = ok]
        /\ cb'.idx = (cb.idx + 1) % WindowSize
        /\ cb'.pushed = IF cb.pushed < WindowSize THEN cb.pushed + 1 ELSE cb.pushed
    BY ZenonT(90), <1>2, <2>2, VerdictWritten
  <2>5. cb'.idx = IF cb.idx + 1 = W THEN 0 ELSE cb.idx + 1
    BY <2>1, <2>2, <2>4, Wraps
  <2>6. cb'.pushed = IF cb.pushed < W THEN cb.pushed + 1 ELSE cb.pushed
    BY <2>1, <2>4
  <2>7. /\ 1 \in DOMAIN recent' /\ recent'[1] = ok
        /\ \A i \in DOMAIN recent :
             i < HistoryLen => i + 1 \in DOMAIN recent' /\ recent'[i + 1] = recent[i]
    BY RememberShifts DEF Inv
  <2>8. cb'.pushed < W => cb'.idx = cb'.pushed
    BY <2>1, <2>2, <2>5, <2>6 DEF RingAligned
  <2>9. ASSUME NEW j \in 1..cb'.pushed
        PROVE  j \in DOMAIN recent' /\ cb'.ring[Slot(j)'] = recent'[j]
    <3>1. CASE j = 1
      <4>1. Slot(j)' = cb.idx
        BY <2>1, <2>2, <2>5, <3>1 DEF Slot
      <4> QED
        BY <2>2, <2>3, <2>4, <2>7, <3>1, <4>1
    <3>2. CASE j # 1
      <4>1. PICK i \in 1..cb.pushed : j = i + 1 /\ i < W
        <5>1. j - 1 \in 1..cb.pushed /\ j = (j - 1) + 1 /\ j - 1 < W
          BY <2>1, <2>2, <2>6, <2>9, <3>2
        <5> QED
          BY <5>1
      <4>2. i \in DOMAIN recent /\ cb.ring[Slot(i)] = recent[i]
        BY DEF RingAligned
      <4>3. j \in DOMAIN recent' /\ recent'[j] = recent[i]
        BY <2>1, <2>2, <2>7, <4>1, <4>2, CallersAssumption
      <4>4. Slot(j)' = Slot(i) /\ Slot(i) \in 0..W - 1 /\ Slot(i) # cb.idx
        BY <2>1, <2>2, <2>5, <4>1 DEF Slot
      <4> QED
        BY <2>2, <2>3, <2>4, <4>2, <4>3, <4>4
    <3> QED
      BY <3>1, <3>2
  <2> QED
    BY <2>1, <2>8, <2>9 DEF RingAligned
<1> QED
  BY <1>1, <1>2

LEMMA RingInit == Init => RingAligned
BY ThresholdAssumption DEF Init, NewBreaker, RingAligned

LEMMA RingStep == ASSUME Inv, RingAligned, [Next]_vars PROVE RingAligned'
<1>1. Inv'
  BY StepInv
<1>2. ASSUME NEW c \in Callers, Succeed(c) \/ Fail(c) PROVE RingAligned'
  BY <1>1, <1>2, RingMoves DEF Succeed, Fail
<1>3. ASSUME cb'.ring = cb.ring /\ cb'.idx = cb.idx /\ cb'.pushed = cb.pushed /\ recent' = recent
      PROVE  RingAligned'
  BY <1>3 DEF RingAligned, Slot
<1>4. cb \in BreakerState
  BY DEF Inv, TypeOK
<1>5. ASSUME NEW c \in Callers, Allow(c) PROVE RingAligned'
  BY <1>3, <1>4, <1>5 DEF Allow, AfterAllow, BreakerState
<1>6. ASSUME NEW c \in Callers, Abandon(c) PROVE RingAligned'
  BY <1>3, <1>6 DEF Abandon
<1>7. CASE Reset
  BY <1>3, <1>4, <1>7 DEF Reset, AfterReset, BreakerState
<1>8. CASE Cooldown
  BY <1>3, <1>4, <1>8 DEF Cooldown, AfterCooldown, BreakerState
<1>9. CASE UNCHANGED vars
  BY <1>3, <1>9 DEF vars
<1> QED
  BY <1>2, <1>5, <1>6, <1>7, <1>8, <1>9 DEF Next

\* The slots that are filled and the verdicts they hold are the same in number.
LEMMA RingCounts == ASSUME Inv, RingAligned PROVE RingIsRecent
<1>1. PICK W \in Nat : W = WindowSize
  BY ThresholdAssumption
<1>2. PICK p \in 0..W : p = cb.pushed
  BY <1>1 DEF Inv, TypeOK, BreakerState
<1>3. recent \in Seq(BOOLEAN) /\ \A i \in 1..p : i \in DOMAIN recent /\ cb.ring[Slot(i)] = recent[i]
  BY <1>2 DEF Inv, TypeOK, RingAligned
<1> DEFINE last == SubSeq(recent, 1, cb.pushed)
<1>4. DOMAIN last = 1..p /\ \A i \in 1..p : last[i] = recent[i]
  <2>1. \A i \in 1..p : recent[i] \in BOOLEAN
    BY <1>3
  <2>2. /\ SubSeq(recent, 1, p) \in Seq(BOOLEAN)
        /\ Len(SubSeq(recent, 1, p)) = IF 1 <= p THEN p - 1 + 1 ELSE 0
        /\ \A i \in 1..p - 1 + 1 : SubSeq(recent, 1, p)[i] = recent[1 + i - 1]
    BY <1>2, <2>1, SubSeqProperties
  <2>3. p - 1 + 1 = p /\ (IF 1 <= p THEN p - 1 + 1 ELSE 0) = p /\ \A i \in 1..p : 1 + i - 1 = i
    BY <1>2
  <2> QED
    BY <1>2, <2>2, <2>3
<1> HIDE DEF last
<1> DEFINE A == {i \in 1..p : ~recent[i]}
           B == {k \in 0..p - 1 : ~cb.ring[k]}
           f == [i \in A |-> Slot(i)]
<1>5. \A i \in 1..p : Slot(i) \in 0..p - 1
  BY <1>1, <1>2 DEF Inv, TypeOK, BreakerState, RingAligned, Slot
<1>6. \A i, j \in 1..p : Slot(i) = Slot(j) => i = j
  BY SMTT(60), <1>1, <1>2 DEF Inv, TypeOK, BreakerState, RingAligned, Slot
<1>7. \A k \in 0..p - 1 : \E i \in 1..p : Slot(i) = k
  <2> SUFFICES ASSUME NEW k \in 0..p - 1 PROVE \E i \in 1..p : Slot(i) = k
    OBVIOUS
  <2>1. cb.idx \in 0..W - 1 /\ (p < W => cb.idx = p)
    BY <1>1, <1>2 DEF Inv, TypeOK, BreakerState, RingAligned
  <2>2. CASE k < cb.idx
    <3>1. cb.idx - k \in 1..p /\ Slot(cb.idx - k) = k
      BY <1>1, <1>2, <2>1, <2>2 DEF Slot
    <3> QED
      BY <3>1
  <2>3. CASE ~(k < cb.idx)
    <3>1. cb.idx - k + W \in 1..p /\ Slot(cb.idx - k + W) = k
      BY <1>1, <1>2, <2>1, <2>3 DEF Slot
    <3> QED
      BY <3>1
  <2> QED
    BY <2>2, <2>3
<1>8. f \in Bijection(A, B)
  <2>1. f \in [A -> B]
    BY <1>3, <1>5
  <2>2. \A i, j \in A : f[i] = f[j] => i = j
    BY <1>6
  <2>3. \A k \in B : \E i \in A : f[i] = k
    BY <1>3, <1>7
  <2> QED
    BY <2>1, <2>2, <2>3 DEF Bijection, Injection, Surjection, IsInjective
<1>9. IsFiniteSet(A)
  <2>1. 1 \in Int /\ p \in Int
    BY <1>1, <1>2
  <2>2. IsFiniteSet(1..p) /\ A \subseteq 1..p
    BY <2>1, FS_Interval
  <2> QED
    BY <2>2, FS_Subset
<1>10. Cardinality(B) = Cardinality(A)
  BY <1>8, <1>9, FS_Bijection DEF ExistsBijection
<1>11. WindowFailures(cb) = Cardinality(B)
  BY <1>2 DEF WindowFailures
<1>12. {i \in DOMAIN last : ~last[i]} = A
  BY <1>4
<1> QED
  BY <1>10, <1>11, <1>12 DEF RingIsRecent, last

\* The ring buffer of pushOutcome counts the failures among the newest
\* verdicts, for every size of the window.
THEOREM RingRemembers == Spec => []RingIsRecent
<1>1. Init => RingAligned
  BY RingInit
<1>2. Inv /\ RingAligned /\ [Next]_vars => RingAligned'
  BY RingStep
<1>3. Inv /\ RingAligned => RingIsRecent
  BY RingCounts
<1> QED
  BY <1>1, <1>2, <1>3, Invariance, PTL DEF Spec
=============================================================================
