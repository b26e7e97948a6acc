---------------------------- MODULE MCProviders -----------------------------
(***************************************************************************)
(* The wrappers of pkg/llm side by side.  They share no state, so a        *)
(* behaviour follows one of them, the subject, while the others rest in    *)
(* their initial states.                                                   *)
(***************************************************************************)
EXTENDS Integers, Sequences, FiniteSets, TLC

CONSTANTS Callers, Requests, Workers, MaxPending, MaxMemory, MaxRetries,
          MaxAllowed, Window, MaxTime, MaxGrants, Threshold,
          NodeCount, NoTier, Clients, UnhealthyThreshold, HealthChecks,
          Size, Providers, ModelTier, Capabilities, Rank, Tiers, Tier,
          c1, c2, c3, p1, p2, p3

\* The third request is larger than half the budget.
Sizes == (c1 :> 1) @@ (c2 :> 1) @@ (c3 :> 2)

\* Two providers of preferred tiers, one of them for one task only, and a
\* third that only the fallback reaches for most tasks.
Three     == <<p1, p2, p3>>
Models    == (p1 :> "balanced") @@ (p2 :> "fast") @@ (p3 :> "vlm")
Abilities == (p1 :> {}) @@ (p2 :> {"pattern_replay"}) @@ (p3 :> {})
Ranks     == (p1 :> 4) @@ (p2 :> 1) @@ (p3 :> 1)

\* Node 1 serves the fast tier, node 2 the heavy one; a request may also
\* name a tier that nobody serves.
ServedTiers == <<"fast", "heavy">>

\* What the proofs need: the limits are numbers, the limiter lets somebody
\* through, a provider rests after three failures or more.
ASSUME ProvidersAssumption ==
    /\ {MaxPending, MaxRetries, MaxTime, NodeCount} \subseteq Nat
    /\ {MaxAllowed, Window, UnhealthyThreshold} \subseteq Nat \ {0}
    /\ Threshold \in Nat /\ Threshold >= 3
    /\ IsFiniteSet(Requests)
    /\ Providers \in Seq({Providers[i] : i \in DOMAIN Providers})
    /\ HealthChecks \in BOOLEAN /\ NoTier \notin Tiers
    /\ Callers \cap {"free", "gone"} = {}

VARIABLES pending, done, serving, reply, call, given, shutdown,
          kind, attempt, replies, outcome,
          now, tokens, sleeping, grants,
          health, route, counted, blamed,
          open, node, backend, probing, client,
          subject

Q == INSTANCE QueuedProvider
C == INSTANCE LLMClient
R == INSTANCE ProviderRouting
P == INSTANCE UpstreamPool

queueVars   == <<pending, done, serving, reply, call, given, shutdown>>
clientVars  == <<kind, attempt, replies, outcome>>
limiterVars == <<now, tokens, sleeping, grants>>
routingVars == <<health, route, counted, blamed>>
poolVars    == <<open, node, backend, probing, client>>
vars == <<queueVars, clientVars, limiterVars, routingVars, poolVars, subject>>

Init ==
    /\ subject \in {"queue", "client", "limiter", "routing", "pool"}
    /\ Q!Init /\ C!LimiterInit /\ R!Init /\ P!PoolInit
    /\ C!Init /\ (subject # "client" => kind = "openai")

Queue   == /\ subject = "queue"
           /\ UNCHANGED <<clientVars, limiterVars, routingVars, poolVars, subject>>
Client  == /\ subject = "client"
           /\ UNCHANGED <<queueVars, limiterVars, routingVars, poolVars, subject>>
Limiter == /\ subject = "limiter"
           /\ UNCHANGED <<queueVars, clientVars, routingVars, poolVars, subject>>
Routing == /\ subject = "routing"
           /\ UNCHANGED <<queueVars, clientVars, limiterVars, poolVars, subject>>
Pool    == /\ subject = "pool"
           /\ UNCHANGED <<queueVars, clientVars, limiterVars, routingVars, subject>>

Next ==
    \/ Queue /\ Q!Next
    \/ Client /\ C!Next
    \/ Limiter /\ C!LimiterNext
    \/ Routing /\ R!Next
    \/ Pool /\ P!PoolNext

\* A goroutine that can go on does, and so do the backoff of a client, the
\* ticker of the pool and its probes, which time out.
Fairness ==
    /\ WF_vars(\/ Queue /\ Q!Progress
               \/ Client /\ C!Progress
               \/ Routing /\ R!Progress)
    /\ WF_vars(Pool /\ P!Tick)
    /\ WF_vars(Pool /\ P!CheckAll)

Spec == Init /\ [][Next]_vars /\ Fairness

TypeOK == Q!TypeOK /\ C!TypeOK /\ C!LimiterTypeOK /\ R!TypeOK /\ P!PoolTypeOK

\* Providers are spared: a client repeats only what was refused and gives up
\* in the end, no window of the limiter sees too many requests, and calls
\* that were under way when a provider went to rest are all that reach it.
ProvidersSpared == C!RepeatedOnlyIfRefused /\ C!RateKept /\ R!RestingIsSpared

\* Health is what the calls reported, whoever wrote last: a node of the pool
\* is out exactly after its threshold of failures, one request alone never
\* puts a routed provider to rest, every routed request is counted once, and
\* an answer of a client is the provider's last word.
ReportsAddUp ==
    /\ P!HealthMatchesCount
    /\ R!OneRequestIsNoVerdict /\ R!RoutesAddUp
    /\ C!ResponseIsLast

\* Shutdown of the queue: nothing is served after it returned, and nobody
\* waits for an answer that cannot come.
ShutdownIsOrderly == Q!QuietAfterShutdown /\ Q!NobodyForgotten

\* The queue asks the wrapped provider at most once per request and hands
\* over its answer, or turns the caller away: it implements CompletionService.
QueueImplementsService == Q!ImplementsService

\* Every Complete of the queue, of a client and of the routers returns, and
\* so does Shutdown; and a server that stays up is taken back into the pool.
CallsReturn ==
    /\ <>[](Q!CallReturns /\ Q!ShutdownEnded /\ C!Returned /\ R!Returned)
    /\ P!Recovers

=============================================================================
