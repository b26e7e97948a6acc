------------------------------ MODULE MCAgent -------------------------------
(***************************************************************************)
(* The parts of a MemberAgent side by side: Heal, RunTask, the concurrent  *)
(* exploration and the model router.  What one of them leaves open about   *)
(* another is any outcome, so a behaviour follows one part, the subject,   *)
(* while the others rest in their initial states.                          *)
(***************************************************************************)
EXTENDS DomBreaker, Sequences, FiniteSets, TLC

CONSTANTS Healers, Enabled, MaxHeals, HealThreshold,
          Tasks, Targets, Plan, Rounds, TaskThreshold,
          Pages, Elements, MostConcurrency, NoPage, Elsewhere,
          Workers, HasVLM, HitThreshold, WarmUp, MaxActions,
          DiscoveryThreshold, EscalationTrigger, PhaseCap,
          SuccessThreshold, WindowSize, CounterCap,
          k1, k2, t1, t2, p1, p2, e1, e2, e3

\* One task works on both targets, the other on the second.
Plans == (k1 :> <<t1, t2>>) @@ (k2 :> <<t2>>)

\* Two elements on one page and one on the other.
Lists == (p1 :> <<e1, e2>>) @@ (p2 :> <<e3>>)

VARIABLES healBreaker, heal, metrics, snap, read, burst,
          targetBreaker, degraded, task, rounds, failing, exhausted,
          limit, page, registered, done, explorer, result, stray,
          breaker, convergence, phase, attempts, successes, tier, begun, guided,
          worker, wasted, bypass,
          subject

H == INSTANCE SelfHealer
         WITH breaker <- healBreaker, FailureThreshold <- HealThreshold
A == INSTANCE MemberAgent
         WITH breaker <- targetBreaker, FailureThreshold <- TaskThreshold
E == INSTANCE Explore
R == INSTANCE ModelRouter

ASSUME AgentAssumption ==
    /\ H!SelfHealerAssumption /\ A!MemberAgentAssumption
    /\ E!ExploreAssumption /\ R!ModelRouterAssumption
    /\ {HealThreshold, TaskThreshold, SuccessThreshold} \subseteq Nat \ {0}
    /\ CounterCap \in Nat
    /\ \A n \in {HealThreshold + 1, TaskThreshold + 1, SuccessThreshold} : n < CounterCap

healVars    == <<healBreaker, heal, metrics, snap, read, burst>>
taskVars    == <<targetBreaker, degraded, task, rounds, failing, exhausted>>
exploreVars == <<limit, page, registered, done, explorer, result, stray>>
routerVars  == <<breaker, convergence, phase, attempts, successes, tier, begun,
                 guided, worker, wasted, bypass>>
vars == <<healVars, taskVars, exploreVars, routerVars, subject>>

Init ==
    /\ subject \in {"heal", "task", "explore", "router"}
    /\ H!Init /\ A!Init
    /\ E!Init /\ (subject # "explore" =>
                     limit = 1 /\ registered = [e \in E!AllIDs |-> NoPage])
    /\ R!Init /\ (subject # "router" => guided = FALSE)

Heals    == subject = "heal" /\ UNCHANGED <<taskVars, exploreVars, routerVars, subject>>
Runs     == subject = "task" /\ UNCHANGED <<healVars, exploreVars, routerVars, subject>>
Explores == subject = "explore" /\ UNCHANGED <<healVars, taskVars, routerVars, subject>>
Routes   == subject = "router" /\ UNCHANGED <<healVars, taskVars, exploreVars, subject>>

Next ==
    \/ Heals /\ H!Next
    \/ Runs /\ A!Next
    \/ Explores /\ E!Next
    \/ Routes /\ R!Next

\* A heal, a task and an exploration go on: calls of the browser and of the
\* models end, by a timeout at the latest.
Spec ==
    /\ Init
    /\ [][Next]_vars
    /\ WF_vars(\/ Heals /\ H!Progress
               \/ Runs /\ A!Progress
               \/ Explores /\ E!Progress
               \/ Routes /\ R!Progress)

TypeOK == H!TypeOK /\ A!TypeOK /\ E!TypeOK /\ R!TypeOK

\* Counters agree with what happened, whoever updates and reads them: every
\* heal is counted once and seen with its method, a completed task accounts
\* for each of its actions, and an exploration for each of its elements.
CountersAddUp ==
    /\ H!MetricsAddUp /\ H!SnapshotCoversSuccesses
    /\ A!CompletedIsAccounted
    /\ E!ResultAddsUp

\* What keeps failing is called in vain a bounded number of times before its
\* breaker must cool down: a model by the healers, a target by the tasks and
\* the light executor by the router.
BoundedVainCalls ==
    H!FailuresPerCooldown /\ A!ExhaustedPerCooldown /\ R!WastedPerCooldown

\* An exploration one page at a time reads every selector from its own page,
\* up to the element whose heal left that page by a click.
SerialKeepsPages == E!SerialKeepsPages

\* A router that rests and says it has converged lets the light path through.
ConvergedIsAdmitted == R!ConvergedIsAdmitted

\* Discovery ends only by a call that skipped the light path.
CruiseNeedsBypass == R!CruiseNeedsBypass

\* A target that repeatedly fails is skipped, as the comment of RunTask says.
RepeatedlyFailingIsSkipped == A!RepeatedlyFailingIsSkipped

\* Every Heal, RunTask, ConcurrentExplore and ExecuteAction returns, also
\* when breakers refuse it.
CallsReturn ==
    <>[](/\ H!Returned /\ A!Returned /\ R!Returned
         /\ subject = "explore" => E!Returned)

=============================================================================
