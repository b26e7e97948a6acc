# uiauto-framework in TLA+

This directory holds a formal model of the Go repository beside it: TLA+
modules translated from `src/pkg`, TLC configurations that check them on small
instances, and TLAPS proofs of the properties that matter most.

The program drives a browser through UI tasks. Selectors that stop working are
healed, first by cheap DOM matching and then by calls of language models, and
what is learnt is kept in a pattern store. Around that core lie the access to the
models (`pkg/llm`), DOM matching and repair (`pkg/domheal`), a subsystem that
changes the agent's own configuration (`pkg/evolver`) and evaluation programs.

`PROJECT.json` lists components, runs, mutants, hazards, findings and theorems,
and says for each definition which lines of source it models.

## 1. Inventory

| Component (source) | State | Operations | What is hard | What makes it correct |
|---|---|---|---|---|
| uiauto circuit breaker (`uiauto/circuit_breaker.go`) | state, runs of failures and successes, ring of outcomes, time of the last failure | Allow, RecordSuccess, RecordFailure, Reset | verdicts arrive in a later state than the one that admitted the call; the threshold adapts to the ring | no transition is missed, none happens without its run of verdicts, an open breaker is probed again |
| domheal circuit breaker (`domheal/circuit_breaker.go`) | state, failure count, time of the last failure | the same without Reset | a late success closes it from any state | a bounded number of vain calls per cooldown |
| pattern store and tracker (`uiauto/pattern_tracker.go`, `light_executor.go`) | map, RWMutex, JSON file | Get, Set, Load, Save, Boost, Decay, Register, Penalize | Set is two critical sections, saves overlap, read-modify-write across a browser action, crash while writing | memory and file agree when quiet, an acknowledged Set is durable |
| upstream pool (`llm/upstream_pool.go`) | per node: health flag, failure count | selection, marks, probe loop, Close | selection, marks and probes use a lock per node and interleave | flag and count agree, a live server comes back |
| fair-share scheduler (`llm/fairshare.go`) | per-user queues, channel, semaphore, request goroutines | Submit, schedulerLoop, processRequest, Close | selects with several ready cases, cancellation, shutdown | bounded upstream load, no lost slot, every Submit returns |
| self healer (`uiauto/self_healer.go`) | three breakers, metrics | Heal (five levels), Snapshot | concurrent heals, counters read one by one | every call counted once, a dead model left alone |
| member agent (`uiauto/member_agent.go`) | a breaker per target, degraded flag, results | RunTask, ConcurrentExplore | heal and retry give one breaker two verdicts; one browser, many goroutines | a completed task accounts for each action; selectors come from their own page |
| model router (`uiauto/model_router.go`) | breaker, convergence, phase, tier, metrics | ExecuteAction (cascade or bandit) | each report has its own lock; the reports of two calls mix | breaker, convergence and phase stay consistent |
| LLM clients, rate limiter (`llm/client.go`, `bedrock_client.go`, `claude_cli.go`, `rate_limited.go`) | attempts, a window of tokens | Complete, waitForSlot | repeating a request that may have been carried out; many sleepers wake at once | only refused requests are repeated; no window sees more requests than allowed |
| queued provider (`llm/queue.go`) | channel of requests, memory in use, workers | Complete, Shutdown | a context that ends while the answer is under way, a drain at shutdown | the wrapped provider is asked at most once per request; nobody waits for ever |
| tiered and semantic routers (`llm/router.go`, `semantic_router.go`) | health and cooldown per provider, metrics | Complete | health is read, the provider is asked, and only then health is written | one request is no verdict; a resting provider is spared |
| evolver cycle, traces, fleet, workflows, adoption, capsule store (`evolver/`) | mutations and records, trace buffer and file, nodes and shares, graphs, snapshots, capsules | RunCycle, Flush, Mine, Propagate, TopologicalSort, Optimize, CompareGraphs, RunEvolution, Apply, Rollback, Sync | overlapping cycles, failing and torn writes, names made of the time, restarts, listings that age | decisions follow the rules, reports are what happened, what was acknowledged can be had again |
| fallback store (`uiauto/store/fallback.go`) | a breaker, a primary store, a JSON file | Get, Set, Load, Decay, Boost | failover while another operation reports; the file is truncated, then written | an acknowledged write is in a store; the circuit matches the failures |
| drift alerts (`uiauto/postgres_store.go`) | hashes, alerts, a confidence table | check, alert, hand off, update | statements of others between detection and alert | one alert per change, confidences keep their floor |
| budget router, bandit, maturity, learning loop (`uiauto/budget`, `bandits`, `pattern_maturity_tracker.go`, `learning_loop.go`, `self_evaluator.go`) | spending, posteriors, levels, histories | SelectTier and RecordCall, SelectArm and Update, RecordSuccess and RecordFailure, Tick, ImportPatterns | selecting and reporting are two calls; Tick holds no lock | spending stays near its caps, trust is earned, histories hold the latest |
| page waiter (`uiauto/page_waiter.go`) | a listener, a context, results per strategy | NavigateAndWaitV2, WaitForPageReadyV2, WaitForSPARouteChange | events before the listener is there, the timeout racing the page | a page called stable was quiet, every wait returns |
| worker pool, procedures (`uiauto/parallel/pool.go`, `action/sequence.go`, `endurance/harness.go`, `latency_budget.go`, `discovery_mode.go`) | channels, a list and a place in it | Run, Execute, Scan | cancellation between hand-over and result, rollback of a part | every task has one result, rollback is complete |
| frame healer (`uiauto/frame`) | the tree of frames, where the browser is | AddFrame, Heal | leaving a frame after an error | healing stays in its frame |
| DOM change detection, files, selector repair (`domheal/`) | three baselines, JSON files, attempts | Check, Save, Load, Append, Repair | one baseline has no lock, files are read, changed and written back | no change is missed, no entry is lost where a lock is held |
| fusion executor, signal emitter (`uiauto/fusion`, `uiauto/signal`) | a browser shared by runs; handlers | Run, Ground, On, Emit | a capture that outlives its context; handlers added while a signal goes round | a screenshot is of its page, handlers hear once |
| bridges, metrics, configuration, evaluation, commands | little or none | I/O, parsing, formatting | - | not state machines of interest |

How they interact: `RunTask` calls `ModelRouter.ExecuteAction` and, on failure,
`SelfHealer.Heal`; both read and write the pattern store and share one browser.
Smart discovery and the VLM reach models through a chain of providers, of which
the fair-share scheduler over the upstream pool is the concurrent part. Everything
shared is shared memory under mutexes, atomics or channels; the pattern store and
the evolver's stores also meet the file system and so crashes. The evolver feeds
on traces of the agent and promotes changed configurations.

## 2. Plan

Written in the order of importance to the program's own promise, which is to keep
tasks going:

1. `Breaker`, `CircuitBreaker` with proofs - used by healer and agent. Done.
2. `PatternStore` with proofs - the only durable state of the agent. Done.
3. `UpstreamPool`, and `FairShare` over it, with proofs. Done.
4. `SelfHealer`, `MemberAgent`, `Explore`, `ModelRouter` over `DomBreaker`, with proofs. Done.
5. `Promotion`, and `AutoPromoter` over it, with proofs: the evolver's approval
   pipeline with its automatic caller. Done.
6. The rest of the provider chain: `QueuedProvider` and the abstract
   `CompletionService` it implements, `LLMClient`, `ProviderRouting`, with proofs. Done.
7. The rest of the evolver: `IronEvolver`, `TracePipeline`, `Fleet`,
   `WorkflowGraph`, `WorkflowSearch`, `Adoption`, `KnowledgeBase`, with proofs. Done.
8. What lies around the agent: stores, budget, bandit, learning, waits, pool,
   procedures, frames, change and drift detection, repair, fusion, signals. Modelled.
9. Proofs about the parts of `MCToolkit`, all sixteen of them. Done.

Further abstract specifications worth stating: a durable map that `PatternStore`
implements while nothing crashes, and a counter of attempts split into outcomes for
`SelfHealer`.

## 3. Modules

| Module | Models | Correspondence |
|---|---|---|
| `Breaker` | the methods of `uiauto.CircuitBreaker` | a record of its fields; each method holds the mutex throughout and is an operator on the record. Time is the flag `cooled`: OpenDuration has passed since lastFailure. Counters saturate at `CounterCap` |
| `CircuitBreaker` | one breaker and its concurrent callers | `caller` remembers the state that admitted the call; `recent` is a history of verdicts |
| `PatternStore` | `JSONPatternStore` and its read-then-write callers | each critical section is one action; a save truncates, then writes; a crash may come anywhere |
| `UpstreamPool` | `UpstreamPool` and its users | selection reads one node per step; a probe ends, without a lock, and its result is written in a later step |
| `FairShare` | `FairShareScheduler` over the pool (EXTENDS `UpstreamPool`) | one action per select branch of Submit, the scheduler loop and the request goroutine |
| `SelfHealer` | `Heal`, `Snapshot` | a program counter per call; each level is left by any outcome the code can take |
| `MemberAgent` | `RunTask` | a program counter per task; heal and retry report to the target's breaker |
| `Explore` | `ConcurrentExplore`, `exploreSinglePage` | `page` is what the shared browser shows; a selector is known by the page it was read from; `limit` is the size of the semaphore. A heal tries selectors by clicking on them (`Clicks`), which may take the browser to any page, a target or `Elsewhere` |
| `DomBreaker` | `domheal.CircuitBreaker` | a record and its methods as operators, used by `ModelRouter` and `ChangeDetector` |
| `ModelRouter` | `ExecuteAction` with `PhaseTracker` and `ConvergenceState` | a call is a program counter and the reports it still owes; `guided` says whether a bandit was given |
| `Promotion` | `PromotionPipeline` | every record ever submitted, and per mutation the current one; Submit and Promote are split where they let go of the mutex |
| `AutoPromoter` | `AutoPromoter.Process`, `RecordRollback` (EXTENDS `Promotion`) | a program counter per call, automatic or manual; one action per gate; `at` is the one reading of the clock |
| `CompletionService` | what a caller of a wrapped provider is promised | abstract: the wrapped provider is asked at most once per request, and a caller gets its answer or is turned away |
| `QueuedProvider` | `QueuedProvider` of `queue.go` | one action per select branch of Complete and of a worker; INSTANCEs `CompletionService` with a refinement mapping |
| `LLMClient` | one Complete of each client; `RateLimitedProvider` | the class of each answer is a choice, and a pause passes or the context ends in it; the time of the limiter is in ticks |
| `ProviderRouting` | the tiered and the semantic router | selection, call and report are steps; a cooldown may have passed at any time |
| `IronEvolver` | `RunCycle` with engine and pipeline | a record of place and findings per runner; signals are severities |
| `TracePipeline` | collector, bridge, miner and loop | buffer, file with cut lines, faults of writes; recording and counting, flushing and loading are separate steps; `Start` may be called twice |
| `Fleet` | the persistent coordinator and `Propagate` | memory changes first, then the file, which is truncated and written: a write that fails or is cut off by a restart leaves it as it was, torn or written. Two shares of one millisecond have one name; a restart loads the nodes |
| `WorkflowGraph` | graphs, pruning; the rubric evaluator | the queue of the sort is a step at a time, as Go's map order is any; means and rates are kept as sums, and scores compared without dividing |
| `WorkflowSearch` | `WorkflowOptimizer.Optimize`, `TextGradOptimizer.OptimizePrompt` | graphs and prompts are versions; an evaluation gives any score or fails |
| `Adoption` | sandbox with gate, review, applicators | `way` chooses which of the three a behaviour follows; a rollback may fail and leave the file as it was, cut or written |
| `KnowledgeBase` | `CapsuleStore`, `GitKBSync.SyncAll` | a save may break off; a capsule is the number of its last save |
| `FallbackStore` | `FallbackStore` over a primary and the JSON file | each operation asks the breaker, then one store or the other, then reports. The fallback changes its map and truncates the file (`torn`), then writes it; a write that fails or is cut off leaves a torn file, which the next process refuses (`opened`) |
| `TierChoice` | the contextual bandit, the budget router | a section each with its own variables; selecting and reporting are separate calls of concurrent users |
| `Learning` | the learning loop, the import of patterns, pattern maturity | three sections with their own variables |
| `PageWaiter` | every wait | the page acts on its own; `mode` says which wait is called |
| `Procedures` | sequence, harness, latency chain, discovery scan; `Run` of the worker pool | `way` chooses one of the first four; a place in the list and its outcome. The pool is a section of its own: both channels, the workers and the cancelled context |
| `FrameHealer` | tree of frames and healer | the tree as a parent function; `place` is where the browser is |
| `ChangeDetector` | `Check` of the DOM over three baselines | locked baselines in one step; the structural one is read and written without a lock, and a race on its map may stop the process |
| `DriftAlerts` | `PatternPipeline` with its in-memory stores, the pattern table | statements of other goroutines come between detection, read and alert |
| `DomRepair` | the chain of strategies and the vision fallback; DOM pattern store, repair log | which candidates match is a choice; the files are a section of their own: read, change and write back as steps |
| `Fusion` | `Run`, the capture goroutine, `Ground` | the context may end between any two steps; an attach, a navigation or a screenshot may hang for ever |
| `SignalEmitter` | `On`, `Emit`, hooks | `Emit` decides, copies the handlers and calls them one by one, each step by itself |
| `CircuitBreakerProofs`, `PatternStoreProofs`, `AutoPromoterProofs`, `FairShareProofs` | - | theorems about the module of the name |
| `ProvidersProofs` | - | theorems about the group `MCProviders`: the queue, the clients, the limiter, the routers and the pool |
| `AgentProofs` | - | theorems about the group `MCAgent`: healer, tasks, exploration and model router |
| `EvolutionProofs` | - | theorems about the group `MCEvolution`: cycle, traces, fleet, graphs, searches, rubric, adoption and capsule store |
| `ToolkitProofs` | - | theorems about the group `MCToolkit`, whose module states the inductive invariant of each part |
| `MC...` | - | constants for TLC, and the groups below |

`MCProviders`, `MCAgent`, `MCEvolution` and `MCToolkit` put several modules side by
side. The modules of a group share no state in the program, or leave what the
others do to them entirely open, so exploring their product would only multiply
states: the variable `subject` picks one module whose actions are taken while the
others stay in an initial state. Every behaviour of every module is explored, none is
mixed with another's, and a property of the group is the conjunction of properties
stated in the modules.

A definition marked `\* mutant: ...` is not part of the model. It is a plausible
bug in the definition that follows it, kept to show that a property can fail.

Scoring, prompts, HTML and timing are data: a step that depends on them may have
any outcome the code can produce, so a property proved or checked here holds
whatever the models and pages do. Where the code leaves a counter unbounded, a
constant bounds it, by a name in `Max...`, `...Cap`, `Rounds` or `HistoryLen`, marked as a
bound where it is declared.

## 4. Runs

Passing runs:

| Run | Instance | What it shows |
|---|---|---|
| `breaker` | 3 callers, thresholds 3 and 2, window 3 | callers overlap in trips, half-open phases and resets; the window wraps. Transitions happen exactly on runs of verdicts, the ring agrees with the history, an open breaker is probed |
| `pattern_store` | 2 goroutines, 2 targets, 2 selectors, crashes and failing saves | overlapping saves agree, a quiet store agrees with its file, an acknowledged Set is in the file |
| `fair_share` | 3 requests of 2 users, one of which may be cancelled, depth 1, concurrency 1 | the upstream load is bounded; a slot is lost only to a cancellation or shutdown; Submit, Close and slots return |
| `providers` | queue: 3 callers, 2 workers, one place, a memory budget one request fills; clients: 3 retries; limiter: 2 in a window of 3; routing: 3 providers with threshold 3; pool: 2 nodes, 2 clients, probes, a tier nobody serves | providers are asked no more often than promised; health and metrics are what calls reported; the queue implements `CompletionService` and shuts down cleanly; calls return and a live server is taken back |
| `agent` | heals: 2 healers, 3 calls, a matching level and two model levels; tasks: 2 over a shared target, 3 runs each, threshold 2; exploration: 2 pages and a third that is no target, 3 elements, limit 1 or 2, cancellation; router: 2 workers, 3 actions, with and without bandit | calls, actions and elements are counted once and seen in snapshots; what keeps failing is called a bounded number of times per cooldown; a limit of one keeps selectors on their page, up to the element whose heal left it by a click; mixed reports keep breaker, convergence and phases consistent; calls return |
| `auto_promoter` | 2 callers, a low-risk mutation and one that needs review, 2 records, a budget of 1, failing builds and saves | a saved capsule passed an evaluation; after the budget is exhausted each caller saves at most one more; no approval is left behind |
| `evolution` | 2 overlapping cycles with 4 setups; 3 traces, two of them failures, with a failing write; 3 nodes, 3 capsules, a restart; graphs of 3 nodes and 3 edges; searches of 4 iterations; 2 runs per compared graph; a batch of 3 in each way of adoption; 2 capsules saved, broken and exported | decisions follow the rules, reports are what was done, nothing acknowledged is lost but what the properties name, and calls and loops end |
| `toolkit` | 2 goroutines per part; see `Toolkit.cfg` | decisions are right, records true, and calls return, part by part |

Two concurrent actors are enough for every pairwise interleaving of critical
sections; three are used where a third changes the outcome (a full queue of one
user while another waits; a request larger than what is left of a budget; a verdict from before a trip during a half-open phase).
Thresholds are the smallest at which a run of outcomes differs from one outcome.
Histories and queues have a bound that the run exceeds, so that trimming and refusal
happen; every action of every module is taken in some passing run. The stores of
`toolkit` have one key: the file is torn and written as a whole, so what befalls another
key in it befalls this one, and the theorem is for every set of keys.

The longest runs are `agent` (about 200 s), `evolution` (717,464 states, 180 s),
`toolkit` (337,493 states, 150 s) and `providers` (302,908 states, 80 s).

What a torn file costs is excepted by name, as the code has no second copy and no
rename. `AckedIsStored` (`FallbackStore`) says what is left: while the process lives, the
map has every acknowledged write that the primary lacks; and the file has it unless
the last write of the file failed half way or was cut off, in which case all its
patterns are gone until a write succeeds. `SharesSurvive` (`Fleet`) lets go of a share
only if the last write under its own file name tore that file; `QuiescentAgreement`
(`PatternStore`) of a store whose last save failed or whose file was torn by a crash.
`ImportMerges` lets an import that failed have replaced, uncounted, the one pattern at
which its save failed.

Violated claims, each a sentence of the repository:

| Run | Claim | What happens |
|---|---|---|
| `pattern_store_selector` | "RegisterPattern learns a new pattern or updates an existing one" | `executeWithMetrics` writes back a pattern it read before the browser action and reverts a selector healed meanwhile |
| `fair_share_depth` | "QueueDepth returns the total number of pending requests across all users" | a cancelled request keeps its slot for ever, and after MaxQueueDepth of them the user is locked out |
| `member_agent_skip` | "if a target repeatedly fails, it is skipped" | a heal is a success of the target before the retry fails, so its breaker never opens |
| `fusion_late` | "a late attach must never Navigate the shared CDP browser after Run returned" | the context may end between the check at `fusion.go:220` and the navigation at `:224`; Run returns and the goroutine navigates afterwards |

Other sentences of the repository that the code does not keep, seen while
modelling: half-open admits every caller though `HalfOpenMax` is documented
(`uiauto/circuit_breaker.go:58`, `:79`) and though a "single probe" is
(`domheal/circuit_breaker.go:9`); growth raises confidence above 1.0
(`uiauto/pattern_tracker.go:25`); `Set` may save an older entry that a Load put
back (`:109`); `MarkUnhealthy` does not force a node out (`llm/upstream_pool.go:166`);
dequeuing is one FIFO and not round-robin (`llm/fairshare.go:49`); `Snapshot` is not
atomic (`uiauto/self_healer.go:54`); up to 4 goroutines drive the one browser though
"callers serialise via the semaphore" (`uiauto/member_agent.go:569`), so a selector
may be read from another page; degraded mode never ends
(`uiauto/member_agent.go:425`); after its context was cancelled the worker pool still
takes every pending task from the channel and calls its function, so that each has its
result, though "Cancelling ctx cancels all pending tasks" (`uiauto/parallel/pool.go:64`):
`EveryTaskHasResult` holds against that sentence; even with a semaphore of one a heal may
click the shared browser away from the page whose elements follow
(`uiauto/self_healer.go:298`, `:336`, `:411`); the light success rate can exceed 1
(`uiauto/model_router.go:98`); the VLM tier returns nil without acting (`:477`);
two calls of Process on one mutation may both promote it, where one should get an
"expected approved" error (`evolver/auto_promoter.go:103`); the cooldown is keyed on
`sig.ID` and not on `mut.SignalID` (`:50`).

## 5. Fairness

Weak fairness is asked of a goroutine that can take a step, and of the end of a
call: model calls end by their own timeout or their context's. In the
groups it is one weak fairness of the subject's `Progress`, which leaves out what
callers, pages, servers, reviewers and crashes do. For browser calls it is an assumption
and not what the code enforces: `Navigate` and `CaptureDOM` run on the browser's own
context, without a deadline (`uiauto/browser.go:169`, `:188`), so that the liveness of
`agent` holds as long as the browser answers. The clicks of a heal are not asked for. In
`Fusion`, where the code does provide for a browser that hangs, nothing is asked of the
capture goroutine: an attach may hang for ever (`fusion.go:217`), and Run returns
by the end of its context. Asked for separately:

- time passes in `CircuitBreaker` (`Cooldown`), `UpstreamPool` (`Tick`, `CheckAll`) and in the
  pauses of `LLMClient`; `PageWaiter` has the timeout of its context (`Timeouts`), since
  a page may stay busy for ever;
- the context of a run of `Fusion` ends (`CtxEnds`), by the timeout its caller sets, and the
  next scenario follows (`NextScenario`), a plain loop;
- a loop of `TracePipeline` that was told to stop ends (`LoopEnds`), unless a second
  `Stop` panicked, after which nothing is promised.

The limiter, `AutoPromoter` and the rubric are checked for safety only. Nothing is asked of
servers, of callers to cancel or of the outcome of a call. A select with two ready
cases may always take the same. `CHECK_DEADLOCK FALSE` is used where the system may stop:
all bounded calls have returned, or `NewPatternStore` refuses a torn file for good.

## 6. Proofs

`CircuitBreakerProofs` proves `TypeOK`, `NoMissedTransition`, `TripsOnRunOfFailures`,
`ClosesOnRunOfSuccesses` and `RingIsRecent` for any callers, thresholds and windows, from the assumptions
that thresholds are positive naturals and that the caps lie above them. The inductive
invariant adds to these that the counters count runs: the last `fails` verdicts
remembered were failures and the last `succs` successes. Without it nothing ties the
counters, on which the breaker acts, to the history, about which the properties speak.
For the ring it adds `RingAligned`: going back from the write index, round the end of
the ring, one meets the verdicts from the newest on, and a ring not yet full was written
from its start. The place in the history then determines the slot and the other way
round, so as many slots as verdicts hold a failure.

`PatternStoreProofs` proves `TypeOK`, `SavesAgree`, `QuiescentAgreement` and
`AckedIsDurable` for any workers, targets and selectors. The inductive invariant adds
who holds the lock where (`LockDiscipline`), that an entry still held is in the map as
it was set (`HoldIsCurrent`), what a reader has in hand (`ReadsKnown`), and that a
stopped process has no worker under way (`Stopped`). Overlapping saves agree because a
change of the map needs a lock no save holds; that is the argument for all four.

`AutoPromoterProofs` proves `TypeOK`, `SavedHasPassed`, `LateOncePerCaller` and
`NoPhantomApproval` for any callers, mutations, signals, budget, day and cooldown. The
inductive invariant says what each place of a call knows while others change the
records: a record that can still be promoted has passed and belongs to its mutation
(`RecordsSound`), a call holds a record of its own mutation (`CallSound`), an approved
low-risk record has a call that will promote or reject it (`Vouched`), and a caller that
was late is back before the gate (`GateHolds`). The budget argument rests on trimming
with an older clock reading keeping every rollback of the present day.

`FairShareProofs` proves `TypeOK`, `UpstreamLoadBounded`,
`SlotsTracked` and `HealthMatchesCount` for any nodes, tiers, clients, users and limits.
The pool's invariant says that a selection or call under way has its place in the list
of nodes; the marks keep flag and count together because they change both under one
lock. The scheduler's adds that a request is with the pool only while its goroutine runs
(`CallsAreHeld`), that the goroutines hold the places of the semaphore
(`SemaphoreHolds`), hence the load is bounded, and that the scheduler loop has at most
one request in hand, and none unless it waits for the semaphore (`OneInHand`), so that
none is forgotten when it is dispatched or dropped. Assumed are positive limits and
thresholds, and that each request names a known tier or none.

`ProvidersProofs` proves `TypeOK`, `ProvidersSpared`, `ReportsAddUp` and
`ShutdownIsOrderly` of the group `MCProviders`, and that `QueuedProvider` implements
`CompletionService`, for any callers, workers, requests, providers and limits. Since the
wrappers share no state, the invariant is the conjunction of five, one per wrapper, and
a step of one leaves the others alone:

- queue: a request is in the channel or with a worker at most once (`HandledOnce`);
  while it is, it has no answer yet, and who waits without an answer is in one of the
  two (`AnswersOpen`); a Shutdown that returned nil has no worker
  left (`GoneForGood`). Under the mapping that shows the three places inside Complete as
  "in", every step of the queue is a step of the service or a stutter; the service has
  no fairness, so this is the whole refinement.
- clients: while a client goes on, everything so far was a 429 and an attempt is left.
- limiter: the tokens are the newest of all grants and the dropped ones have left the
  window (`TokensAreNewest`), and a grant and the `MaxAllowed`-th after it are a window
  apart (`GrantsApart`). The bound on every window follows: its grants start at a least
  one, which exists by well-founded induction on the naturals as the library states it,
  and span fewer than `MaxAllowed` + 1 places.
- routers: a request's list names nobody twice, so what a provider is blamed for is new
  to it or asked for the last time (`BlameFits`), and a count of failures is at most the
  number of requests blamed plus those that tried twice (`FailuresAccounted`). So three
  failures take two requests. Failures and calls under way together stay below the
  threshold and the number of requests (`CallsLetThrough`), as a call starts only while
  its provider is fit.
- pool: the invariant above.

TLC has checked each of these invariants on the instance of the run before it was
proved. `ProvidersAssumption` holds what the proofs use of the constants: the limits are
numbers, at least one request is let through in a window, the requests are finitely
many, and a provider rests after three failures or more. The limit of three is where the
router's own constant stands: with a threshold of two, a single request could put a
provider to rest, since the fallback asks it again.

`AgentProofs` proves `TypeOK`, `CountersAddUp`, `BoundedVainCalls`, `SerialKeepsPages`,
`ConvergedIsAdmitted` and `CruiseNeedsBypass` of the group `MCAgent`, for any healers,
tasks, plans, pages, lists of elements, workers and thresholds. Its invariant is again a
conjunction of one per part:

- breakers: `Spares` ties a breaker to the calls it guards. While it is closed, the
  failures since the last success or cooldown are at most its own count, which is below
  the threshold; while it is open, these failures and the calls still under way together
  are at most the threshold, less one, and one per caller. Opening turns the first into
  the second, as each caller has one call under way at most. The healer has it per
  level, the member agent per target, the router for light.
- healer: `Snapshot` reads successes before methods, and a method counter never falls;
  so what it has read of the successes stays below the methods, each as read or, if not
  yet read, as it now is (`SnapshotKeepsUp`).
- tasks: each action so far has one result that is no error, and each error but the one
  under repair has its retry behind it (`ActionsAccounted`).
- exploration: the results follow the place in the list (`Follows`), and the elements
  discovered are among those gone through that have a stored selector (`Covered`); since
  a list names no element twice, the stored ones are at least as many. With a limit of
  one only one goroutine holds the browser, and from its navigation on the browser
  and the HTML it has read are on its own page, until one of its heals clicks the browser
  away (`stray` says at which element); the next page begins with a navigation of its own
  (`Serialised`).
- router: what a call still owes comes in a fixed order (`InOrder`). The breaker hears
  of a miss before the convergence does. While light is refused, either that miss is
  still to come, or it has set the hits to zero and those still to come are too few to
  converge again (`MissOutweighs`). For the phases, the smart successes in a row and the
  calls that may still add one after trying light are at most the workers, as long as no
  call went past light (`SmartRunsExplained`); so a run longer than that needs such a
  call.

`AgentAssumption` asks for finite sets, positive thresholds below the cap of the counters,
breakers without a window (which is what `NewSelfHealer` and `NewMemberAgent` make) and
lists that name no element twice. That a router at rest
which has converged admits light is stated, and proved, for as many hits as there
are workers or more: with fewer, late hits alone could reach the threshold after the miss.

`EvolutionProofs` proves `TypeOK`, `DecisionsAreRight`, `ReportsAreTrue` and
`NothingIsLost` of the group `MCEvolution`, for any runners, setups, traces, nodes,
capsules, scores, batches and limits. Each of the eight parts has its invariant, and a
step of one leaves the others alone:

- cycle: the mutations still to do belong to one runner each and name none twice, and
  the cycle has not approved one of them yet (`Owned`), so an approval is counted once
  however a reviewer comes between. `Sound` adds up what the runners have in hand: the
  mutations applied so far, summed over the runners, and those in the statistics are the
  ones approved by the cycle, and each runner under way may add at most its limit. Sums
  over a set are functions on its subsets that grow by one member at a time; that they
  exist, and that a change of one weight changes the sum by as much, is proved from the
  library's well-founded induction on the naturals.
- traces: a trace is in the buffer once, or on the file, or was cut off with a line by
  one of the writes that failed; it is on the file no oftener than once and once for every
  failed flush (`FileInv`). So the lines that a signal counts stem from at least as many
  different traces as it asks for, divided by the copies a trace may have. Loops are counted by whether `stopCh` is open:
  while it is, at most one runs (`LoopInv`).
- fleet: a call knows its place in targets and capsules, sent and refused add up to the
  places before it, a share is in memory before it is saved (`SendInv`), and an
  acknowledged one has its file unless the last write under its name tore it: a write
  touches no other name, and a whole one under the same name is of the same capsule and
  millisecond.
- graph: while a sort runs, the degree of a node counts its edges from nodes not yet
  listed, parallel edges each for itself, and the nodes of degree zero are listed or in the
  queue, once (`Queued`). If the queue runs out early, each node left has a predecessor
  among those left; a set of such nodes that is smallest is a cycle in both directions
  (`CycleBack`). Conversely what can be listed has no cycle. `Reachable` widens a set as
  often as there are nodes, and each time it gains a node or is done (`Widens`), so it
  is what every closed set with the entry holds. A node without successors is on no way
  to another, so pruning the leaves keeps what was valid (`Pruned`).
- rubric: each partial score falls with its measure, so a graph that is no worse in any
  is scored no lower where the model says that scores fall (`ScoredNoLower`).
- searches: the history never falls, its last `quiet` + 1 entries are the best score and
  the one before is below (`HistoryInv`), the trials are within those the iterations
  allow (`TrialsInv`), and the prompt in the graph is the best one whenever none is being
  evaluated (`TuningInv`).
- adoption: what was approved is within the reviewer's risk, each decision has its
  events, and the lowest entry of the stack goes back to the original (`Undone`), as do the
  mutations that wait while nothing is applied.
- capsule store: while nothing was saved since the listing, each stored capsule is on
  the list of the export or exported, and the summary's number is what was written and what
  is still listed (`CalmSync`).

`EvolutionAssumption` asks for finite sets, numbers for limits, costs and thresholds, a
positive limit of a cycle and positive bounds of the searches, targets and tasks among the
nodes, and marks (`NoNode`, "garbage") that are no node and no trace.

`ToolkitProofs` proves both invariants of the group `MCToolkit`, `DecisionsAreRight`
(`DecisionsRight`) and `RecordsAreTrue`, which includes every type invariant
(`RecordsTrue`), for any goroutines, keys, tiers, contexts, arms, tasks, steps, frames,
pages, scenarios and limits. A step of one part leaves the variables of the others alone,
so each part has an inductive invariant of its own, stated at the end of `MCToolkit`, and
`PartsInv` is their conjunction:

- stores: on a key that no two writes overlapped on, versions only rise from the file to
  the map of the fallback, none is above the write under way, and that write is the only
  one (`Versions`); this is why a late write-through undoes nothing. While the file is torn
  only the map and the primary are promised anything; once it is written as a whole it is
  the map (`Kept_`), and one caller at a time is in it (`FileLock`). On a key that only
  the primary served, a write past the primary is there as it was written, and the two stores are
  alike whenever none is (`Through`).
- budget: the month's spend is what the calls counted per tier cost, and the day's and the
  month's each stay, with all that users have selected and not yet recorded, within the
  cap and one call of each of the other users. A tier that costs is only selected while its
  cost fits what is recorded, so the calls under way are all that can go past it. Where a tier is local
  nobody is refused.
- bandit: the pulls are the sum of all trials, and with the selections in hand at most the
  selections made (`BanditCounts`). Until a context is sampled, the trials of an arm and
  the users that hold it stay below the limit of the warm-up (`BanditWarms`): an arm is
  only drawn while it lacks trials. For the snapshot, what it has read and, where it has not
  yet read, what is there now is at most what is there and at least the total it began
  with, as long as nothing is reset (`SnapshotKeeps`), since trials then only grow.
- signals: emissions are suppressed or passed, and those that passed of a category are at
  most its intervals, one more while it rests (`SignalCounts`). An emission at work has a
  number of its own; a handler it has still to call has not heard that number, and each it
  owes is on its list or has (`SignalPaths`).
- maturity: what each level has behind it. A pattern that was degraded counts from there,
  so a testing pattern has regained the successes of the threshold, and a stable or
  trusted one has regained more and was seen often enough (`MaturityInv`).
- learning: the ticks that filed a score are counted by those that ended and those past
  that place, so the score a tick carries has a number of its own among the latest; what a
  tick knows of failed actions is never more than there were (`LearnInv`).
- import: before the place the merge has reached, an imported pattern is there if it was
  surer, behind it nothing has changed but the pattern whose save failed, and the count is
  the number of patterns before it that differ, as long as nobody learns meanwhile
  (`Taken`, `ImportInv`).
- waits: the results are of the strategies cheaper than the one under way, in order
  (`WaitTells`); a page is quiet for at least as long as polls counted it stable
  (`WaitQuiet`); after the load, a navigation that listens has heard of the idle network
  if there is one (`WaitHears`).
- pool: tasks ran or are queued in the order they were given, and each that ran is with a
  worker, in the channel of the results, or collected (`PoolInv`). Workers leave only after
  the queue was closed and emptied, so when it is over all results are collected.
- procedures: for each way, how its log stands to its counts. A sequence that failed has
  one failure, and above the place of the rollback exactly the steps that can be undone
  were undone, last first (`SequenceInv`); cycles, tries and scanned types are counted by
  their entries (`HarnessInv`, `ChainInv`, `ScanInv`).
- frames: each frame is one deeper than its parent and less deep than there are frames
  (`Rooted`), so every path upward ends at the top, within the height.
- changes: on a page that no two checks overlapped on, a check knows at each of its places
  which of the three baselines it has replaced, and what they were (`Knows`); without a
  check the three agree (`Even`). This is why a change is met by all three comparisons.
- files: the store on disk is as the calls that returned left it, or broken; the lock
  keeps one turn at a time (`StoreSide`). The log is in order and holds every logged
  entry, and so does the copy a job has read, as long as no two jobs overlap (`LogSide`).
- drift: the changes of a page are its alerts and the callers that met one and have not
  yet filed it (`DriftCounts`); alerts are numbered one after the other, and hand-offs
  follow these numbers (`DriftLists`).
- repair: the best candidate is the first of the surest so far (`BestUpTo`), and only the
  last strategy reached can have found one that is good enough (`ChainSoFar`).
- fusion: what is known of the capture of a run at each place of the run at work: before
  it begins there is no worker, after it the worker is gone or its context is cancelled,
  so only a worker that slipped past the check of its context can move the browser later
  (`Captures`); without one, the page in the browser is that of the run (`lateRuns`).

Sums over sets, which no recursive definition can give here, are the value at the set of
the function on its subsets that adds members one by one (`Sums`, `Summed`), proved to
exist by induction over cardinalities (`Induction`, over a set of numbers in place of a
formula) and to be what `Sum` of `TierChoice` computes (`FoldIs`). Modules of this group
define `Range`, `IsInjective` and `Sum` themselves: an instance copies every definition of
the modules it extends, and the prover carries them all into each obligation.

`ToolkitAssumption` asks for finitely many goroutines and frames, natural numbers as
limits and scores, a list of tiers that is not empty and in which a local tier costs
nothing, as the configurations have it, at least one context, arm, key, scenario and
candidate, tasks and imported patterns each named once, and marks (`Null`, `Top`) that are
no task, no score and no frame.

Only model-checked: all liveness (`CallsReturn`, `SlotsReturned`, `OpenIsProbed`,
`WorkEnds`), which is out of the prover's reach, as are ENABLED and what a recursive
definition computes.

## 7. Not modelled

- Browser I/O (`browser.go`, the action builder), bridges to other programs, SQL and HTTP:
  calls whose outcome is a choice of the environment in the modules that make them.
- Prompts, smart discovery and visual checks: one model call between encoding and parsing.
- Matching scores, clustering, KPIs, the evaluation, doctor and statistics of the
  evolver: arithmetic over data other parts keep; where a decision hangs on it, the
  decision is modelled and the score is any.
- Metrics, debugging, configuration, commands, evaluation programs and the carousel:
  formatting, parsing and suites over the packages above.
- In modelled parts: reports and read-only queries, latency counters that decide
  nothing, constructors that only wire components, `HealBatch` and `DetectAndHeal`,
  which call `Heal` in turn. PROJECT.json says so component by component.
