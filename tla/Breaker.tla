------------------------------ MODULE Breaker ------------------------------
(***************************************************************************)
(* The state of one uiauto.CircuitBreaker (pkg/uiauto/circuit_breaker.go)  *)
(* as a record, and each of its methods as an operator from the record     *)
(* before the call to the record after it.  Every method holds cb.mu for   *)
(* its whole body, so one call is one step of the modules that use this    *)
(* one.                                                                    *)
(*                                                                         *)
(* Time is one bit: cooled says whether OpenDuration has passed since      *)
(* lastFailure.  The two consecutive counters saturate at CounterCap,      *)
(* which no comparison of the code reaches (CounterCapAssumption).  The    *)
(* totals that only Stats reports are left out.                            *)
(***************************************************************************)
EXTENDS Integers, FiniteSets

CONSTANTS FailureThreshold,  \* consecutive failures that trip the breaker
          SuccessThreshold,  \* consecutive half-open successes that close it
          WindowSize,        \* outcomes in the adaptive window, 0 disables it
          CounterCap         \* bound: where the consecutive counters saturate

ASSUME ThresholdAssumption ==
    /\ FailureThreshold \in Nat \ {0}
    /\ SuccessThreshold \in Nat \ {0}
    /\ WindowSize \in Nat

ASSUME CounterCapAssumption ==
    /\ CounterCap \in Nat
    /\ CounterCap > FailureThreshold + 1
    /\ CounterCap > SuccessThreshold

CircuitState == {"closed", "open", "half_open"}

BreakerState ==
    [state  : CircuitState,
     fails  : 0..CounterCap,                   \* consecutiveFailures
     succs  : 0..CounterCap,                   \* consecutiveSuccesses
     cooled : BOOLEAN,                         \* Since(lastFailure) >= OpenDuration
     ring   : [0..(WindowSize - 1) -> BOOLEAN],\* recentOutcomes
     idx    : {0} \cup 0..(WindowSize - 1),     \* outcomeIdx
     pushed : 0..WindowSize]                   \* outcomesPushed

Bump(n) == IF n < CounterCap THEN n + 1 ELSE n

\* lastFailure starts as the zero time, so a fresh breaker counts as cooled.
NewBreaker ==
    [state  |-> "closed", fails |-> 0, succs |-> 0, cooled |-> TRUE,
     ring   |-> [i \in 0..(WindowSize - 1) |-> FALSE],
     idx    |-> 0, pushed |-> 0]

----------------------------------------------------------------------------
\* The adaptive threshold.

WindowFailures(b) == Cardinality({i \in 0..(b.pushed - 1) : ~b.ring[i]})

\* windowFailureRate > 0.5 and < 0.1, without the division; an empty window
\* has rate 0.
HighFailureRate(b) == 2 * WindowFailures(b) > b.pushed
LowFailureRate(b)  == b.pushed = 0 \/ 10 * WindowFailures(b) < b.pushed

EffectiveThresholdHalved(b) == \* mutant: a high rate takes off more than one
    IF WindowSize = 0 THEN FailureThreshold
    ELSE IF HighFailureRate(b) THEN FailureThreshold \div 2
         ELSE IF LowFailureRate(b) /\ FailureThreshold < 5
              THEN FailureThreshold + 1 ELSE FailureThreshold

EffectiveThreshold(b) ==
    IF WindowSize = 0 THEN FailureThreshold
    ELSE IF HighFailureRate(b)
         THEN IF FailureThreshold > 1 THEN FailureThreshold - 1 ELSE 1
         ELSE IF LowFailureRate(b) /\ FailureThreshold < 5
              THEN FailureThreshold + 1
              ELSE FailureThreshold

PushOutcomeStuck(b, ok) == \* mutant: the write index never moves
    IF WindowSize = 0 THEN b
    ELSE [b EXCEPT !.ring[b.idx] = ok,
                   !.pushed = IF @ < WindowSize THEN @ + 1 ELSE @]

PushOutcomeUnwrapped(b, ok) == \* mutant: the index runs off the ring
    IF WindowSize = 0 THEN b
    ELSE [b EXCEPT !.ring[b.idx] = ok, !.idx = @ + 1,
                   !.pushed = IF @ < WindowSize THEN @ + 1 ELSE @]

PushOutcome(b, ok) ==
    IF WindowSize = 0 THEN b
    ELSE [b EXCEPT !.ring[b.idx] = ok,
                   !.idx = (@ + 1) % WindowSize,
                   !.pushed = IF @ < WindowSize THEN @ + 1 ELSE @]

----------------------------------------------------------------------------
\* The methods.

AdmitsClosed(b) == b.state # "open" \* mutant: the open period has no end

\* What Allow answers.
Admits(b) == b.state # "open" \/ b.cooled

AfterAllow(b) ==
    IF b.state = "open" /\ b.cooled
    THEN [b EXCEPT !.state = "half_open", !.succs = 0]
    ELSE b

AfterSuccessEager(b) == \* mutant: closes one success early
    LET p == PushOutcome([b EXCEPT !.fails = 0, !.succs = Bump(@)], TRUE)
    IN  IF p.state = "half_open" /\ p.succs + 1 >= SuccessThreshold
        THEN [p EXCEPT !.state = "closed"]
        ELSE p

AfterSuccess(b) ==
    LET p == PushOutcome([b EXCEPT !.fails = 0, !.succs = Bump(@)], TRUE)
    IN  IF p.state = "half_open" /\ p.succs >= SuccessThreshold
        THEN [p EXCEPT !.state = "closed"]
        ELSE p

AfterFailureExact(b) == \* mutant: compared with = instead of >=
    LET p == PushOutcome([b EXCEPT !.fails = Bump(@), !.succs = 0,
                                   !.cooled = FALSE], FALSE)
    IN  IF \/ p.state = "closed" /\ p.fails = EffectiveThreshold(b)
           \/ p.state = "half_open"
        THEN [p EXCEPT !.state = "open"]
        ELSE p

\* The threshold is computed before this failure enters the window.
AfterFailure(b) ==
    LET p == PushOutcome([b EXCEPT !.fails = Bump(@), !.succs = 0,
                                   !.cooled = FALSE], FALSE)
    IN  IF \/ p.state = "closed" /\ p.fails >= EffectiveThreshold(b)
           \/ p.state = "half_open"
        THEN [p EXCEPT !.state = "open"]
        ELSE p

\* Reset keeps the window and lastFailure.
AfterReset(b) == [b EXCEPT !.state = "closed", !.fails = 0, !.succs = 0]

\* OpenDuration passes.
AfterCooldown(b) == [b EXCEPT !.cooled = TRUE]

=============================================================================
