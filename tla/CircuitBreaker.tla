--------------------------- MODULE CircuitBreaker ---------------------------
(***************************************************************************)
(* One uiauto.CircuitBreaker shared by concurrent callers.  A caller asks  *)
(* Allow, does its work, and reports RecordSuccess, RecordFailure or, as   *)
(* SelfHealer.Heal does when a candidate selector fails verification       *)
(* without an error, nothing at all.  Between the two calls the breaker    *)
(* may change under it: the verdict of a call admitted in one state can    *)
(* arrive in another.                                                      *)
(***************************************************************************)
EXTENDS Breaker, Sequences

CONSTANTS Callers,      \* goroutines that share the breaker
          HistoryLen    \* bound: verdicts the history variable remembers

ASSUME CallersAssumption ==
    /\ HistoryLen \in Nat
    /\ HistoryLen > FailureThreshold /\ HistoryLen >= SuccessThreshold
    /\ HistoryLen >= WindowSize

VARIABLES cb,      \* the breaker
          caller,  \* per caller: "idle", or the state that admitted it
          recent   \* history: the last HistoryLen verdicts, newest first

vars == <<cb, caller, recent>>

TypeOK ==
    /\ cb \in BreakerState
    /\ caller \in [Callers -> {"idle", "closed", "half_open"}]
    /\ recent \in Seq(BOOLEAN) /\ Len(recent) <= HistoryLen

Init ==
    /\ cb = NewBreaker
    /\ caller = [c \in Callers |-> "idle"]
    /\ recent = <<>>

Remember(ok) ==
    LET kept == IF Len(recent) < HistoryLen THEN Len(recent) ELSE HistoryLen - 1
    IN  recent' = <<ok>> \o SubSeq(recent, 1, kept)

\* Allow answers TRUE; a refused caller changes nothing and stays idle.
Allow(c) ==
    /\ caller[c] = "idle"
    /\ Admits(cb)
    /\ cb' = AfterAllow(cb)
    /\ caller' = [caller EXCEPT ![c] = cb'.state]
    /\ UNCHANGED recent

Succeed(c) ==
    /\ caller[c] # "idle"
    /\ cb' = AfterSuccess(cb)
    /\ caller' = [caller EXCEPT ![c] = "idle"]
    /\ Remember(TRUE)

Fail(c) ==
    /\ caller[c] # "idle"
    /\ cb' = AfterFailure(cb)
    /\ caller' = [caller EXCEPT ![c] = "idle"]
    /\ Remember(FALSE)

\* Heal returns without a verdict.
Abandon(c) ==
    /\ caller[c] # "idle"
    /\ caller' = [caller EXCEPT ![c] = "idle"]
    /\ UNCHANGED <<cb, recent>>

Reset ==
    /\ cb' = AfterReset(cb)
    /\ UNCHANGED <<caller, recent>>

Cooldown ==
    /\ ~cb.cooled
    /\ cb' = AfterCooldown(cb)
    /\ UNCHANGED <<caller, recent>>

Next ==
    \/ \E c \in Callers : Allow(c) \/ Succeed(c) \/ Fail(c) \/ Abandon(c)
    \/ Reset
    \/ Cooldown

Spec == Init /\ [][Next]_vars

\* Time passes, an idle caller that may go ahead asks again, and a call ends.
Fairness ==
    /\ WF_vars(Cooldown)
    /\ \A c \in Callers :
        /\ WF_vars(Allow(c))
        /\ WF_vars(Succeed(c) \/ Fail(c) \/ Abandon(c))

FairSpec == Spec /\ Fairness

----------------------------------------------------------------------------
\* Properties.

\* No transition is missed, whatever order late verdicts arrive in: a closed
\* breaker is below the most lenient threshold of the adaptive window, and a
\* half-open one has not yet collected the successes that close it.
NoMissedTransition ==
    /\ cb.state = "closed" => cb.fails <= FailureThreshold
    /\ cb.state = "half_open" => cb.succs < SuccessThreshold

\* The ring buffer computes the failure count of the last WindowSize
\* verdicts: index arithmetic and the pushed count agree with the history.
RingIsRecent ==
    LET last == SubSeq(recent, 1, cb.pushed)
    IN  WindowFailures(cb) = Cardinality({i \in DOMAIN last : ~last[i]})

\* The fewest failures the adaptive window can ask for.
StrictestThreshold ==
    IF WindowSize > 0 /\ FailureThreshold > 1
    THEN FailureThreshold - 1 ELSE FailureThreshold

\* A closed breaker opens only on an unbroken run of failures, never shorter
\* than the threshold minus the one the adaptive window may take off, also
\* when verdicts of calls admitted before a Reset or a trip come late.
TripsOnRunOfFailures ==
    [][cb.state = "closed" /\ cb'.state = "open"
       => \A i \in 1..StrictestThreshold :
             i \in DOMAIN recent' /\ ~recent'[i]]_vars

\* Traffic resumes only after SuccessThreshold successes in a row or a Reset
\* (which leaves succs at 0): successes counted before the trip do not help.
ClosesOnRunOfSuccesses ==
    [][cb.state = "half_open" /\ cb'.state = "closed" /\ cb'.succs > 0
       => \A i \in 1..SuccessThreshold :
             i \in DOMAIN recent' /\ recent'[i]]_vars

\* An open breaker is probed again: late failures push the cooldown out, but
\* there are only as many as calls admitted before the trip.
OpenIsProbed == cb.state = "open" ~> cb.state # "open"

=============================================================================
