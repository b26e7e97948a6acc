---------------------------- MODULE ModelRouter -----------------------------
(***************************************************************************)
(* uiauto.ModelRouter (pkg/uiauto/model_router.go), shared by concurrent   *)
(* calls of ExecuteAction: the light executor guarded by a circuit         *)
(* breaker, then smart discovery, then the VLM; with a bandit, any of the  *)
(* three first.  What a call has to report goes to the metrics, the        *)
(* breaker, the convergence counter and the phase tracker one after the    *)
(* other, each under a lock of its own, so the reports of two calls mix.   *)
(*                                                                         *)
(* Whether the browser and the models succeed is outside.  The phase       *)
(* tracker is configured (WithPhaseThresholds).                            *)
(***************************************************************************)
EXTENDS DomBreaker, Sequences, FiniteSets

CONSTANTS Workers,        \* goroutines that call ExecuteAction
          HasVLM,         \* WithVLMBridge
          HitThreshold,   \* WithConvergenceThreshold, 5 by default
          WarmUp,         \* checkDemotion: attempts before it acts, 5 in the code
          DiscoveryThreshold,  \* smart successes in a row that end discovery
          EscalationTrigger,   \* light failures in a row that escalate
          PhaseCap,       \* bound: where the counters of the phases saturate
          MaxActions      \* bound: calls of ExecuteAction

ModelRouterAssumption ==
    /\ IsFiniteSet(Workers)
    /\ HasVLM \in BOOLEAN
    /\ HitThreshold \in Nat \ {0}
    /\ WarmUp \in Nat /\ MaxActions \in Nat
    /\ DiscoveryThreshold \in Nat \ {0} /\ EscalationTrigger \in Nat \ {0}
    /\ PhaseCap \in Nat
    /\ PhaseCap >= DiscoveryThreshold /\ PhaseCap >= EscalationTrigger

----------------------------------------------------------------------------
\* PhaseTracker as a record, with RecordSuccess and RecordFailure as operators;
\* both hold pt.mu throughout.  cruiseThreshold and consecutiveLightOk decide
\* nothing and are left out, as are the history and the counters of Stats.

Phases == {"discovery", "cruise", "escalation"}
ActionTiers == {"light", "smart", "vlm"}

PhaseState ==
    [current         : Phases,
     smart           : 0..PhaseCap,  \* consecutiveSmart
     lightFail       : 0..PhaseCap,  \* consecutiveLightFail, of any tier
     lastLightFailed : BOOLEAN]

NewPhase ==
    [current |-> "discovery", smart |-> 0, lightFail |-> 0,
     lastLightFailed |-> FALSE]

More(n) == IF n < PhaseCap THEN n + 1 ELSE n

PhaseSuccess(p, tier) ==
    LET q == [p EXCEPT !.lightFail = 0]
        relearns == \/ q.current = "escalation"
                    \/ q.current = "cruise" /\ q.lastLightFailed
        n == More(q.smart)
    IN  IF tier = "light" THEN [q EXCEPT !.lastLightFailed = FALSE]
        ELSE IF relearns THEN [q EXCEPT !.current = "discovery", !.smart = 0]
        ELSE IF tier = "smart"
             THEN [q EXCEPT
                     !.smart = n, !.lastLightFailed = FALSE,
                     !.current = IF @ = "discovery" /\ n >= DiscoveryThreshold
                                 THEN "cruise" ELSE @]
             ELSE q

PhaseFailureForgetful(p, tier) == \* mutant: consecutiveSmart is not reset
    LET q == [p EXCEPT !.lightFail = More(@), !.lastLightFailed = TRUE]
    IN  IF tier = "light" /\ q.current = "cruise" /\ q.lightFail >= EscalationTrigger
        THEN [q EXCEPT !.current = "escalation"]
        ELSE q

\* Only a light failure escalates, but failures of every tier are counted.
PhaseFailure(p, tier) ==
    LET q == [p EXCEPT !.smart = 0, !.lightFail = More(@), !.lastLightFailed = TRUE]
    IN  IF tier = "light" /\ q.current = "cruise" /\ q.lightFail >= EscalationTrigger
        THEN [q EXCEPT !.current = "escalation"]
        ELSE q

----------------------------------------------------------------------------

VARIABLES breaker,      \* r.breaker
          convergence,  \* consecutiveHits and converged
          phase,        \* r.phaseTracker
          attempts,     \* Metrics.LightAttempts
          successes,    \* Metrics.LightSuccesses
          tier,         \* currentTier, 0 light .. 2 VLM
          begun,        \* calls of ExecuteAction so far
          guided,       \* WithBandit was given; SelectArm may answer any arm
          worker,       \* per worker: its ExecuteAction
          wasted,       \* history: light failures reported to the breaker since
                        \* its last success or cooldown
          bypass        \* history: in the current run of smart successes, one
                        \* came from a call that never tried light

shared == <<breaker, convergence, phase, attempts, successes, tier, begun, guided>>
vars == <<shared, worker, wasted, bypass>>

Report(op, t, ok) == [op |-> op, tier |-> t, ok |-> ok]
Reports == [op : {"count", "breaker", "convergence", "phase", "load", "tier"},
            tier : ActionTiers, ok : BOOLEAN]

TypeOK ==
    /\ breaker \in DomBreakerState
    /\ convergence \in [hits : 0..HitThreshold, converged : BOOLEAN]
    /\ phase \in PhaseState
    /\ attempts \in 0..MaxActions /\ successes \in 0..MaxActions
    /\ tier \in 0..2
    /\ begun \in 0..MaxActions
    /\ guided \in BOOLEAN
    /\ worker \in [Workers ->
          [pc    : {"idle", "cascade", "light", "smart", "rerun", "vlm", "nil", "error"},
           arm   : ActionTiers,
           todo  : Seq(Reports),      \* reports to make before it goes on
           tried : BOOLEAN,           \* light was tried and failed
             seen  : 0..MaxActions]]    \* LightAttempts as LightSuccessRate read it
    /\ wasted \in 0..MaxActions
    /\ bypass \in BOOLEAN

Idle == [pc |-> "idle", arm |-> "light", todo |-> <<>>, tried |-> FALSE,
         seen |-> 0]

Init ==
    /\ breaker = NewDomBreaker
    /\ convergence = [hits |-> 0, converged |-> FALSE]
    /\ phase = NewPhase
    /\ attempts = 0 /\ successes = 0
    /\ tier = 0
    /\ begun = 0
    /\ guided \in BOOLEAN
    /\ worker = [w \in Workers |-> Idle]
    /\ wasted = 0
    /\ bypass = FALSE

----------------------------------------------------------------------------
\* The path of a call.

At(w, pc) == worker[w].pc = pc /\ worker[w].todo = <<>>

\* Worker w goes on at pc once it has made the reports rs.
Then(w, pc, rs) == [worker[w] EXCEPT !.pc = pc, !.todo = rs]
Goto(w, pc, rs) == worker' = [worker EXCEPT ![w] = Then(w, pc, rs)]

VLMOrError == IF HasVLM THEN "vlm" ELSE "error"

\* banditGuidedExecution: actionFeatures asks the breaker, which may make it
\* half-open whatever arm is drawn then.
Begin(w) ==
    /\ worker[w].pc = "idle"
    /\ begun < MaxActions
    /\ begun' = begun + 1
    /\ \E arm \in IF guided THEN ActionTiers ELSE {"light"} :
        LET first == [light |-> "cascade", smart |-> "smart",
                      vlm   |-> IF HasVLM THEN "vlm" ELSE "smart"]
        IN  worker' = [worker EXCEPT ![w] = [Idle EXCEPT !.pc = first[arm], !.arm = arm]]
    /\ breaker' = IF guided THEN DomAllow(breaker) ELSE breaker
    /\ UNCHANGED <<convergence, phase, attempts, successes, tier, wasted, bypass, guided>>

Allow(w) ==
    /\ At(w, "cascade")
    /\ IF DomAdmits(breaker)
       THEN /\ breaker' = DomAllow(breaker)
            /\ attempts' = attempts + 1
            /\ Goto(w, "light", <<>>)
       ELSE /\ Goto(w, "smart", <<>>)
            /\ UNCHANGED <<breaker, attempts>>
    /\ UNCHANGED <<convergence, phase, successes, tier, begun, wasted, bypass, guided>>

LightSucceeds(w) ==
    /\ At(w, "light")
    /\ Goto(w, "nil", <<Report("count", "light", TRUE),
                        Report("breaker", "light", TRUE),
                        Report("convergence", "light", TRUE),
                        Report("phase", "light", TRUE),
                        Report("load", "light", TRUE),
                        Report("tier", "light", FALSE)>>)
    /\ UNCHANGED <<shared, wasted, bypass>>

LightFails(w) ==
    /\ At(w, "light")
    /\ worker' = [worker EXCEPT ![w] =
          [Then(w, "smart", <<Report("breaker", "light", FALSE),
                              Report("convergence", "light", FALSE),
                              Report("phase", "light", FALSE)>>)
           EXCEPT !.tried = TRUE]]
    /\ UNCHANGED <<shared, wasted, bypass>>

\* smartPath: a selector is registered and light tried again; the model
\* fails; or the DOM capture or the registration does, which ends the call
\* with nothing reported.
Smart(w) ==
    /\ At(w, "smart")
    /\ \/ Goto(w, "rerun", <<>>)
       \/ Goto(w, VLMOrError, <<Report("phase", "smart", FALSE)>>)
       \/ Goto(w, "error", <<>>)
    /\ UNCHANGED <<shared, wasted, bypass>>

RerunSucceeds(w) ==
    /\ At(w, "rerun")
    /\ Goto(w, "nil", <<Report("phase", "smart", TRUE),
                        Report("load", "smart", TRUE),
                        Report("tier", "smart", TRUE)>>)
    /\ UNCHANGED <<shared, wasted, bypass>>

RerunFails(w) ==
    /\ At(w, "rerun")
    /\ Goto(w, VLMOrError, <<Report("phase", "light", FALSE)>>)
    /\ UNCHANGED <<shared, wasted, bypass>>

\* vlmPath: guidance is logged; the analysis fails; or the screenshot does.
VLM(w) ==
    /\ At(w, "vlm")
    /\ \/ Goto(w, "nil", <<Report("phase", "vlm", TRUE)>>)
       \/ Goto(w, "error", <<Report("phase", "vlm", FALSE)>>)
       \/ Goto(w, "error", <<>>)
    /\ UNCHANGED <<shared, wasted, bypass>>

\* ExecuteAction returns; the bandit first reports the call once more, under
\* the tier of the arm it drew.
Return(w) ==
    /\ \E pc \in {"nil", "error"} :
        /\ At(w, pc)
        /\ phase' = IF ~guided THEN phase
                    ELSE IF pc = "nil" THEN PhaseSuccess(phase, worker[w].arm)
                    ELSE PhaseFailure(phase, worker[w].arm)
        /\ bypass' = (phase'.smart # 0
                       /\ (bypass \/ (guided /\ pc = "nil" /\ worker[w].arm = "smart")))
    /\ worker' = [worker EXCEPT ![w] = Idle]
    /\ UNCHANGED <<breaker, convergence, attempts, successes, tier, begun, wasted, guided>>

----------------------------------------------------------------------------
\* The reports of a call, one at a time.

DueNow(w) == Head(worker[w].todo)
Due(w, op) == worker[w].todo # <<>> /\ DueNow(w).op = op
Made(w)    == worker' = [worker EXCEPT ![w].todo = Tail(@)]

CountSuccess(w) ==
    /\ Due(w, "count")
    /\ successes' = successes + 1
    /\ Made(w)
    /\ UNCHANGED <<breaker, convergence, phase, attempts, tier, begun, wasted, bypass, guided>>

ReportBreaker(w) ==
    /\ Due(w, "breaker")
    /\ breaker' = IF DueNow(w).ok THEN DomSuccess(breaker) ELSE DomFailure(breaker)
    /\ wasted' = IF DueNow(w).ok THEN 0 ELSE wasted + 1
    /\ Made(w)
    /\ UNCHANGED <<convergence, phase, attempts, successes, tier, begun, bypass, guided>>

ReportHitSticky(w) == \* mutant: a miss leaves the hits counted
    /\ Due(w, "convergence")
    /\ LET hits == IF convergence.hits < HitThreshold
                   THEN convergence.hits + 1 ELSE convergence.hits
       IN  convergence' =
              IF DueNow(w).ok
              THEN [hits |-> hits, converged |-> convergence.converged \/ hits >= HitThreshold]
              ELSE [convergence EXCEPT !.converged = FALSE]
    /\ Made(w)
    /\ UNCHANGED <<breaker, phase, attempts, successes, tier, begun, wasted, bypass, guided>>

\* RecordHit and RecordMiss; hits saturate at the threshold.
ReportConvergence(w) ==
    /\ Due(w, "convergence")
    /\ LET hits == IF convergence.hits < HitThreshold
                   THEN convergence.hits + 1 ELSE convergence.hits
       IN  convergence' =
              IF DueNow(w).ok
              THEN [hits |-> hits, converged |-> convergence.converged \/ hits >= HitThreshold]
              ELSE [hits |-> 0, converged |-> FALSE]
    /\ Made(w)
    /\ UNCHANGED <<breaker, phase, attempts, successes, tier, begun, wasted, bypass, guided>>

ReportPhase(w) ==
    LET r == DueNow(w)
    IN  /\ Due(w, "phase")
        /\ phase' = IF r.ok THEN PhaseSuccess(phase, r.tier) ELSE PhaseFailure(phase, r.tier)
        /\ bypass' = (phase'.smart # 0
                       /\ (bypass \/ (r.ok /\ r.tier = "smart" /\ ~worker[w].tried)))
        /\ Made(w)
        /\ UNCHANGED <<breaker, convergence, attempts, successes, tier, begun, wasted, guided>>

\* LightSuccessRate loads the attempts first and the successes later.
LoadAttempts(w) ==
    /\ Due(w, "load")
    /\ worker' = [worker EXCEPT ![w].todo = Tail(@), ![w].seen = attempts]
    /\ UNCHANGED <<shared, wasted, bypass>>

\* checkPromotion (rate at least 0.9) and checkDemotion (below 0.5 after the
\* warm-up); without attempts the rate is 0.
MoveTier(w) ==
    LET seen == worker[w].seen
        high == seen > 0 /\ 10 * successes >= 9 * seen
        low  == seen = 0 \/ 2 * successes < seen
    IN  /\ Due(w, "tier")
        /\ tier' = IF DueNow(w).ok
                   THEN IF high /\ tier > 0 THEN tier - 1 ELSE tier
                   ELSE IF low /\ attempts > WarmUp /\ tier < 2 THEN tier + 1 ELSE tier
        /\ Made(w)
        /\ UNCHANGED <<breaker, convergence, phase, attempts, successes, begun, wasted, bypass, guided>>

Cooldown ==
    /\ ~breaker.cooled
    /\ breaker' = DomCooldown(breaker)
    /\ wasted' = 0
    /\ UNCHANGED <<convergence, phase, attempts, successes, tier, begun, worker, bypass, guided>>

ReportStep(w) ==
    \/ CountSuccess(w) \/ ReportBreaker(w) \/ ReportConvergence(w)
    \/ ReportPhase(w) \/ LoadAttempts(w) \/ MoveTier(w)

CallStep(w) ==
    \/ Allow(w) \/ LightSucceeds(w) \/ LightFails(w)
    \/ Smart(w) \/ RerunSucceeds(w) \/ RerunFails(w)
    \/ VLM(w) \/ Return(w)

Next ==
    \/ \E w \in Workers : Begin(w) \/ CallStep(w) \/ ReportStep(w)
    \/ Cooldown

Progress == \E w \in Workers : CallStep(w) \/ ReportStep(w)

----------------------------------------------------------------------------
\* Properties.

\* Between two cooldowns the light executor fails in vain at most this often
\* without a success, also when several calls are under way as it opens and
\* late reports arrive in any state.
WastedPerCooldown == wasted <= BreakerThreshold - 1 + Cardinality(Workers)

\* Once no call is under way, a converged router still lets the light path
\* through: hits reported late cannot outweigh the miss that opened the
\* breaker unless there are HitThreshold of them in flight.
ConvergedIsAdmitted ==
    /\ HitThreshold >= Cardinality(Workers)
    /\ \A w \in Workers : worker[w].pc = "idle"
    /\ convergence.converged
    => DomAdmits(breaker)

\* A call that falls back to smart discovery has reported a light failure
\* first, which restarts the count of smart successes.  So with more of them
\* asked for than there are concurrent calls, discovery ends only if some
\* call skipped light: the breaker was open or the bandit chose so.
CruiseNeedsBypass ==
    [][phase.current = "discovery" /\ phase'.current = "cruise"
       /\ DiscoveryThreshold > Cardinality(Workers)
       => bypass']_vars

Returned == \A w \in Workers : worker[w].pc = "idle"

=============================================================================
