----------------------------- MODULE MCToolkit ------------------------------
(***************************************************************************)
(* The parts around the agent side by side: its stores and their imports,  *)
(* the budget and the bandit that choose a tier, the maturity of patterns  *)
(* and what is learned from ticks, the waits for a page, the worker pool,  *)
(* the step by step procedures, the healing of frames, the detection of    *)
(* changes and drift with their files, the repair of selectors, fusion and *)
(* signals.  None of them calls another, so a behaviour follows one part,  *)
(* the subject, while the others rest in their initial states.             *)
(***************************************************************************)
EXTENDS Integers, Sequences, FiniteSets, TLC

CONSTANTS Goroutines, Items, Null,
          StoreKeys, FailureThreshold, MaxWrites, MaxCalls, MaxRestarts,
          TierLists, DailyCap, MonthlyCap, MaxSelects,
          Patterns, TestingSuccesses, StableSuccesses, TrustedSuccesses, DegradedFailures,
          Contexts, NumArms, WarmupRounds, MaxPulls, MaxResets, MaxSnapshots,
          RepeatThreshold, MaxHist, MaxActions, MaxTicks, MaxLoads,
          Imported, MaxConf, MaxLearned,
          StableFor, MaxMutations,
          Length, Undoable, MaxRuns, MaxScanned, Tasks,
          Frames, Top, MaxHeals, Scores,
          BreakerThreshold, FailureCap, Contents, FingerprintSim, StructuralSim,
          MaxDetections, MaxSaves,
          PageIDs, Broken, MaxPatterns, MaxEntries, MaxCrashes,
          Htmls, Boost, MaxChecks, MaxUpdates, MaxHandoffs,
          Counts, MaxPerStrategy,
          Scenarios, Confidences, Threshold, MaxCandidates, MaxElements,
          Handlers, Hooked, MaxEmits, MaxIntervals,
          h1, h2, h3

\* Two priced tiers, and a local one between two that are priced.
TwoTierLists ==
    {<<[cost |-> 2, isLocal |-> FALSE], [cost |-> 3, isLocal |-> FALSE]>>,
     <<[cost |-> 2, isLocal |-> FALSE], [cost |-> 0, isLocal |-> TRUE],
       [cost |-> 3, isLocal |-> FALSE]>>}

TwoContexts == <<"form", "list">>
ThreeTasks  == <<"t1", "t2", "t3">>
TwoHtmls    == {h1, h2}

\* The same pattern as one that is learnt meanwhile, and two more.
ThreePatterns == <<[id |-> "p", conf |-> 2], [id |-> "q", conf |-> 1], [id |-> "r", conf |-> 3]>>

\* Nearly alike, far apart, and alike in structure more than in fingerprint.
FingerprintSims == ({h1, h2} :> 95) @@ ({h1, h3} :> 40) @@ ({h2, h3} :> 85)
StructuralSims  == ({h1, h2} :> 95) @@ ({h1, h3} :> 50) @@ ({h2, h3} :> 96)

VARIABLES circuit, failures, cooled, prim, fall, disk, torn, opened, call, writes, others,
          restarts, acked, solo, clean,
          tiers, prefer, daily, monthly, elapsed, counts, chosen, refused, selects,
          known, level, total, wins, losses, picture, gaps, regained,
          trials, pulls, holding, draws, snapshot, written, selected, resets, snapshots,
          calm,
          acts, filed, scores, tick, ended, loop, file, loads, fed,
          confs, import, learned, start, alone,
          mode, at, page, mutations, listening, heard, expired, stable, last, results,
          outcome, quietFor,
          started, sent, queue, shut, doing, gone, resultCh, collected, cancelled, ran,
          over,
          way, index, status, log, result, handoffs, late, runs,
          parent, depth, place, heal, heals, stuck,
          breaker, hashes, fingerprints, structures, check, events, saving, hashFile,
          eventFile, checks, saves, restarted, base, overlapped, missed,
          store, turn, repairs, job, patterns, entries, crashes, wanted, logged, apart,
          hash, table, step, alerts, ids, nextID, told, passedOn, checked, updates,
          changes, resolved, lowest,
          wired, phase, tried, candidates, best, attempts, repaired, suggested, history,
          now, lane, ctx, worker, done, browser, reason, elements, ok, lateRuns, slipped,
          debounced, handlers, resting, emit, received, suppressed, emits, intervals,
          passed, unheard,
          subject

FS == INSTANCE FallbackStore WITH Callers <- Goroutines, Keys <- StoreKeys
BA == INSTANCE TierChoice WITH Users <- Goroutines
LE == INSTANCE Learning WITH Tickers <- Goroutines, patterns <- confs
PW == INSTANCE PageWaiter
PR == INSTANCE Procedures WITH MaxElements <- MaxScanned,
          Workers <- Goroutines, Idle <- Null, i <- index
FH == INSTANCE FrameHealer
CD == INSTANCE ChangeDetector WITH Checkers <- Goroutines, Pages <- PageIDs,
          Unknown <- Null, MaxChecks <- MaxDetections, restarts <- restarted
DA == INSTANCE DriftAlerts WITH Callers <- Goroutines, Sites <- Items,
          Unseen <- Null, NoRow <- Null, handoffs <- passedOn
SR == INSTANCE DomRepair WITH wins <- repaired, Writers <- Goroutines, log <- repairs
FU == INSTANCE Fusion WITH at <- lane, late <- lateRuns
SE == INSTANCE SignalEmitter WITH Emitters <- Goroutines,
          heard <- received, missed <- unheard

ASSUME ToolkitAssumption ==
    /\ FS!FallbackAssumption /\ BA!BanditAssumption /\ BA!BudgetAssumption
    /\ LE!MaturityAssumption /\ LE!LearningAssumption /\ LE!ImportAssumption
    /\ PW!WaiterAssumption /\ PR!WorkersAssumption /\ PR!ProceduresAssumption
    /\ FH!FrameAssumption /\ CD!DomBreakerAssumption /\ CD!ChangesAssumption
    /\ DA!DriftAssumption /\ SR!RepairAssumption /\ SR!FilesAssumption
    /\ FU!FusionAssumption /\ SE!EmitterAssumption

storeVars    == <<circuit, failures, cooled, prim, fall, disk, torn, opened, call,
                  writes, others, restarts, acked, solo, clean>>
budgetVars   == <<tiers, prefer, daily, monthly, elapsed, counts, chosen, refused,
                  selects>>
maturityVars == <<known, level, total, wins, losses, picture, gaps, regained>>
banditVars   == <<trials, pulls, holding, draws, snapshot, written, selected, resets,
                  snapshots, calm>>
learningVars == <<acts, filed, scores, tick, ended, loop, file, loads, fed>>
importVars   == <<confs, import, learned, start, alone>>
waiterVars   == <<mode, at, page, mutations, listening, heard, expired, stable, last,
                  results, outcome, quietFor>>
poolVars     == <<started, sent, queue, shut, doing, gone, resultCh, collected,
                  cancelled, ran, over>>
stepVars     == <<way, index, status, log, result, handoffs, late, runs>>
frameVars    == <<parent, depth, place, heal, heals, stuck>>
changeVars   == <<breaker, hashes, fingerprints, structures, check, events, saving,
                  hashFile, eventFile, checks, saves, restarted, base, overlapped,
                  missed>>
fileVars     == <<store, turn, repairs, job, patterns, entries, crashes, wanted,
                  logged, apart>>
driftVars    == <<hash, table, step, alerts, ids, nextID, told, passedOn, checked,
                  updates, changes, resolved, lowest>>
repairVars   == <<wired, phase, tried, candidates, best, attempts, repaired,
                  suggested, history>>
fusionVars   == <<now, lane, ctx, worker, done, browser, reason, elements, ok,
                  lateRuns, slipped>>
signalVars   == <<debounced, handlers, resting, emit, received, suppressed, emits,
                  intervals, passed, unheard>>
vars == <<storeVars, budgetVars, maturityVars, banditVars, learningVars, importVars, waiterVars,
         poolVars, stepVars, frameVars, changeVars, fileVars, driftVars, repairVars, fusionVars,
         signalVars, subject>>

Subjects == {"stores", "budget", "maturity", "bandit", "learning", "import", "waits", "pool",
             "steps", "frames", "changes", "files", "drift", "repair", "fusion",
             "signals"}

\* What rests is in one of the initial states it may have.
Init ==
    /\ subject \in Subjects
    /\ FS!Init
    /\ BA!BudgetInit /\ (subject # "budget" => prefer /\ tiers[2].isLocal)
    /\ LE!MaturityInit /\ BA!Init /\ LE!Init
    /\ LE!ImportInit /\ (subject # "import" => \A p \in DOMAIN confs : confs[p] = 0)
    /\ PW!Init /\ (subject # "waits" => mode.call = "route" /\ ~page.complete)
    /\ PR!PoolInit
    /\ PR!Init /\ (subject # "steps" => way = "sequence")
    /\ FH!Init /\ CD!Init /\ SR!FilesInit /\ DA!Init
    /\ SR!Init /\ (subject # "repair" => ~wired)
    /\ FU!Init
    /\ SE!Init /\ (subject # "signals" => ~debounced)

\* Only the subject moves.
Only(s) ==
    /\ subject = s /\ UNCHANGED subject
    /\ IF s = "stores" THEN TRUE ELSE UNCHANGED storeVars
    /\ IF s = "budget" THEN TRUE ELSE UNCHANGED budgetVars
    /\ IF s = "maturity" THEN TRUE ELSE UNCHANGED maturityVars
    /\ IF s = "bandit" THEN TRUE ELSE UNCHANGED banditVars
    /\ IF s = "learning" THEN TRUE ELSE UNCHANGED learningVars
    /\ IF s = "import" THEN TRUE ELSE UNCHANGED importVars
    /\ IF s = "waits" THEN TRUE ELSE UNCHANGED waiterVars
    /\ IF s = "pool" THEN TRUE ELSE UNCHANGED poolVars
    /\ IF s = "steps" THEN TRUE ELSE UNCHANGED stepVars
    /\ IF s = "frames" THEN TRUE ELSE UNCHANGED frameVars
    /\ IF s = "changes" THEN TRUE ELSE UNCHANGED changeVars
    /\ IF s = "files" THEN TRUE ELSE UNCHANGED fileVars
    /\ IF s = "drift" THEN TRUE ELSE UNCHANGED driftVars
    /\ IF s = "repair" THEN TRUE ELSE UNCHANGED repairVars
    /\ IF s = "fusion" THEN TRUE ELSE UNCHANGED fusionVars
    /\ IF s = "signals" THEN TRUE ELSE UNCHANGED signalVars

Next ==
    \/ Only("stores") /\ FS!Next
    \/ Only("budget") /\ BA!BudgetNext
    \/ Only("maturity") /\ LE!MaturityNext
    \/ Only("bandit") /\ BA!Next
    \/ Only("learning") /\ LE!Next
    \/ Only("import") /\ LE!ImportNext
    \/ Only("waits") /\ PW!Next
    \/ Only("pool") /\ PR!PoolNext
    \/ Only("steps") /\ PR!Next
    \/ Only("frames") /\ FH!Next
    \/ Only("changes") /\ CD!Next
    \/ Only("files") /\ SR!FilesNext
    \/ Only("drift") /\ DA!Next
    \/ Only("repair") /\ SR!Next
    \/ Only("fusion") /\ FU!Next
    \/ Only("signals") /\ SE!Next

\* What was begun goes on; waits end by their timeout and runs of fusion by their
\* context, and scenarios follow one another.
GoOn ==
    \/ Only("stores") /\ FS!Progress
    \/ Only("budget") /\ BA!BudgetProgress
    \/ Only("bandit") /\ BA!Progress
    \/ Only("learning") /\ LE!Progress
    \/ Only("import") /\ LE!ImportProgress
    \/ Only("waits") /\ PW!Progress
    \/ Only("pool") /\ PR!PoolProgress
    \/ Only("steps") /\ PR!Progress
    \/ Only("frames") /\ FH!Progress
    \/ Only("changes") /\ CD!Progress
    \/ Only("files") /\ SR!FilesProgress
    \/ Only("drift") /\ DA!Progress
    \/ Only("repair") /\ SR!Progress
    \/ Only("fusion") /\ FU!Progress
    \/ Only("signals") /\ SE!Progress
TimeOut ==
    \/ Only("waits") /\ PW!Timeouts
    \/ Only("fusion") /\ FU!CtxEnds
TakeNextScenario == Only("fusion") /\ FU!NextScenario

Spec ==
    /\ Init
    /\ [][Next]_vars
    /\ WF_vars(GoOn) /\ WF_vars(TimeOut) /\ WF_vars(TakeNextScenario)

TypeOK ==
    /\ FS!TypeOK /\ BA!BudgetTypeOK /\ LE!MaturityTypeOK /\ BA!TypeOK /\ LE!TypeOK /\ LE!ImportTypeOK /\ PW!TypeOK /\ PR!PoolTypeOK
    /\ PR!TypeOK /\ FH!TypeOK /\ CD!TypeOK /\ SR!FilesTypeOK /\ DA!TypeOK /\ SR!TypeOK /\ FU!TypeOK /\ SE!TypeOK

\* What the parts decide is right: the breaker of the stores opens on failures
\* alone, spending stays near its caps and local tiers are never refused, light
\* patterns have earned it, the warm-up of the bandit is bounded, a page called
\* stable was quiet, healing stays in its frame, no change is missed and each
\* drift raises one alert, the first of the best candidates repairs a selector,
\* and a screenshot is of the page it was taken for.
DecisionsAreRight ==
    /\ FS!CircuitMatchesFailures
    /\ BA!SpendIsBounded /\ BA!LocalNeverRefuses
    /\ LE!LightIsEarned
    /\ BA!WarmupIsBounded
    /\ LE!FeedbackIsCurrent /\ LE!SignalsFollowScore
    /\ PW!StableIsQuiet /\ PW!NavigationHearsIdle
    /\ PR!ChainIsOrdered
    /\ FH!HealsInItsFrame /\ FH!HealIsJustified
    /\ CD!NoChangeMissed
    /\ DA!OneAlertPerChange /\ DA!DecayHasFloor
    /\ SR!BestIsFirstOfBest /\ SR!ChainStopsInTime
    /\ FU!GroundingIsExplained /\ FU!ScreenIsOfItsPage
    /\ SE!DebounceHolds

\* What the parts keep and report is true, and every variable keeps its type:
\* writes that were acknowledged, patterns and log entries on disk, snapshots
\* and imports, the results of waits, tasks, steps and scans, the tree of
\* frames, the baselines of the two matchers, and what listeners and handlers
\* were told.
RecordsAreTrue ==
    /\ TypeOK
    /\ FS!AckedIsStored /\ FS!ThroughKeepsAlike
    /\ LE!ListenersKnow
    /\ BA!SnapshotCovers
    /\ LE!ImportMerges
    /\ PW!ResultsTellTheCall
    /\ PR!EveryTaskHasResult
    /\ PR!RollbackIsComplete /\ PR!HarnessCounts /\ PR!ScanAccounts
    /\ FH!TreeIsSound
    /\ CD!BaselinesAgree
    /\ SR!StoreKeepsPatterns /\ SR!LogKeepsEntries
    /\ SE!HandlersHearOnce

\* Calls return, waits by their timeout and runs of fusion by their context if
\* nothing else, and procedures, the pool and a repair come to their ends.
CallsReturn ==
    []<>(/\ FS!Returned /\ LE!Returned /\ LE!ImportReturned /\ FH!Returned /\ CD!Returned
         /\ SR!FilesReturned /\ DA!Returned /\ SE!Returned
         /\ \A g \in Goroutines : chosen[g] = 0
         /\ subject = "waits" => PW!Returned
         /\ subject = "pool" => PR!PoolReturned
         /\ subject = "steps" => PR!Returned
         /\ subject = "repair" => SR!Returned
         /\ subject = "fusion" => FU!Returned)

(***************************************************************************)
(* The inductive invariants of the parts.  Each strengthens the conjuncts  *)
(* of its part in DecisionsAreRight and RecordsAreTrue by what they rest   *)
(* on: the numbers of what is under way, and what is known at each place   *)
(* of a call.  The module ToolkitProofs shows that every step keeps them.  *)
(***************************************************************************)
First(s) == CHOOSE x \in s : TRUE

\* The sums of w over the subsets of U, their members taken one by one.
Sums(U, w, it) ==
    it = [s \in SUBSET U |-> IF s = {} THEN 0 ELSE it[s \ {First(s)}] + w[First(s)]]

Summed(U, w) == (CHOOSE it : Sums(U, w, it))[U]

Has(s, x) == \E j \in DOMAIN s : s[j] = x
Once(s)   == \A j, k \in DOMAIN s : s[j] = s[k] => j = k

\* The stores: on a key that no two writes ever overlapped on, versions only
\* rise, and a write under way has the latest; one call at a time writes the file.
Calls      == [op : FS!Ops \cup {"none"}, key : StoreKeys, ver : 0..MaxWrites, at : FS!Places]
Sets(c, k) == call[c].op = "set" /\ call[c].key = k
Kept_(k)   == /\ opened => prim[k].ver >= acked[k] \/ fall[k].ver >= acked[k]
              /\ ~torn => prim[k].ver >= acked[k] \/ disk[k].ver >= acked[k]

Versions(k) ==
    /\ prim[k].ver <= writes /\ fall[k].ver <= writes /\ disk[k].ver <= writes /\ acked[k] <= writes
    /\ Kept_(k)
    /\ \A c \in Goroutines : Sets(c, k) =>
          /\ prim[k].ver <= call[c].ver /\ fall[k].ver <= call[c].ver
          /\ acked[k] <= call[c].ver /\ call[c].ver <= writes
          /\ call[c].at \in {"done", "through", "writeThrough"} => prim[k].ver = call[c].ver
          /\ call[c].at \in {"write", "writeThrough"} => fall[k].ver = call[c].ver
          /\ \A d \in Goroutines : Sets(d, k) => d = c

Through(k) ==
    /\ \A c \in Goroutines : call[c].key = k => call[c].op # "adjust"
    /\ \A c \in Goroutines : Sets(c, k) =>
          /\ call[c].at \in {"primary", "done", "through", "writeThrough"}
          /\ call[c].at # "primary" => prim[k] = [ver |-> call[c].ver, changed |-> FALSE]
          /\ call[c].at = "writeThrough" => prim[k] = fall[k]
    /\ (\A c \in Goroutines : Sets(c, k) => call[c].at = "primary") => prim[k] = fall[k]

FileLock ==
    /\ \A c \in Goroutines : FS!Saving(c) =>
          /\ torn /\ call[c].op \in {"set", "adjust"}
          /\ \A d \in Goroutines : FS!Saving(d) => d = c
    /\ ~opened => torn /\ \A c \in Goroutines : call[c].at = "idle" /\ call[c].op = "none"

StoreInv ==
    /\ FS!TypeOK /\ FS!CircuitMatchesFailures /\ FileLock
    /\ \A k \in solo : Versions(k)
    /\ \A k \in clean \cap solo : Through(k)

\* The budget: what was spent and what is owed for the calls under way together
\* stay within the caps and one call of each other user.
Owed  == [u \in Goroutines |-> IF chosen[u] = 0 THEN 0 ELSE tiers[chosen[u]].cost]
Spent == [t \in DOMAIN tiers |-> counts[t] * tiers[t].cost]
Slack == (Cardinality(Goroutines) - 1) * BA!MaxCost

BudgetInv ==
    /\ BA!BudgetTypeOK
    /\ daily + Summed(Goroutines, Owed) <= DailyCap + Slack
    /\ monthly + Summed(Goroutines, Owed) <= MonthlyCap + Slack
    /\ monthly = Summed(DOMAIN tiers, Spent)
    /\ BA!LocalNeverRefuses

\* The bandit: each selection is reported once, a context samples only when it
\* is warm, and a snapshot loses no trial that it counted.
Trials      == [BA!Keys -> [BA!Arms -> Nat]]
Tried(t)    == [c \in BA!Keys |-> Summed(BA!Arms, t[c])]
AllTried(t) == Summed(BA!Keys, Tried(t))

Holders(c, a) == {u \in Goroutines : holding[u].key = c /\ holding[u].arm = a}
InHand        == {u \in Goroutines : holding[u].arm # 0}
WarmLimit     == WarmupRounds + Cardinality(Goroutines) * (1 + resets)

\* What the snapshot will hold if it is finished now.
Looked(c) == \E j \in 1..(snapshot.next - 1) : Contexts[j] = c
Merged    == [c \in BA!Keys |-> IF Looked(c) THEN snapshot.seen[c] ELSE trials[c]]

Below(s, t) == \A c \in BA!Keys, a \in BA!Arms : s[c][a] <= t[c][a]

BanditTypes ==
    /\ trials \in Trials /\ pulls \in Nat
    /\ holding \in [Goroutines -> [key : BA!Keys, arm : 0..NumArms]]
    /\ draws \in [BA!Keys -> {"none", "warmup", "sampled"}]
    /\ snapshot \in [total : 0..MaxPulls, next : 0..(Len(Contexts) + 1), seen : Trials]
    /\ written \in [total : 0..MaxPulls, next : {0}, seen : Trials]
    /\ selected \in 0..MaxPulls /\ resets \in 0..MaxResets /\ snapshots \in 0..MaxSnapshots
    /\ calm \in BOOLEAN

BanditCounts ==
    /\ pulls = AllTried(trials)
    /\ pulls + Cardinality(InHand) <= selected

BanditWarms == \A c \in BA!Keys :
    /\ draws[c] = "sampled" => \A a \in BA!Arms : trials[c][a] >= WarmupRounds
    /\ draws[c] # "sampled" => \A a \in BA!Arms :
          trials[c][a] + Cardinality(Holders(c, a)) < WarmLimit

SnapshotKeeps == snapshot.next > 0 /\ calm =>
    Below(Merged, trials) /\ snapshot.total <= AllTried(Merged)

BanditInv == BanditTypes /\ BanditCounts /\ BanditWarms /\ SnapshotKeeps

\* The signals: what passed is counted, an interval lets one pass, and the
\* signals of emitters at work have numbers of their own.
Numbered(c) == {p \in passed : p.signal.category = c}
Emissions   == [at : {"idle", "copy", "call"}, n : Nat, left : Seq(Handlers), owed : SUBSET Handlers]

SignalTypes ==
    /\ debounced \in BOOLEAN /\ unheard = FALSE
    /\ handlers \in Seq(Handlers) /\ Once(handlers) /\ resting \subseteq SE!Category
    /\ emit \in [Goroutines -> Emissions]
    /\ received \in [Handlers -> Seq(1..MaxEmits)]
    /\ suppressed \in 0..MaxEmits /\ emits \in 0..MaxEmits
    /\ intervals \in [SE!Category -> 0..MaxIntervals]
    /\ IsFiniteSet(passed) /\ passed \subseteq [n : 1..emits, signal : SE!Signals]

SignalCounts ==
    /\ emits = suppressed + Cardinality(passed)
    /\ debounced => \A c \in SE!Category :
          Cardinality(Numbered(c)) <= intervals[c] + (IF c \in resting THEN 1 ELSE 0)

SignalPaths ==
    /\ \A h \in Handlers : Once(received[h]) /\ \A n : Has(received[h], n) => n \in 1..emits
    /\ \A e \in Goroutines : emit[e].at # "idle" =>
          /\ emit[e].n \in 1..emits
          /\ \A f \in Goroutines : emit[f].at # "idle" /\ emit[f].n = emit[e].n => f = e
          /\ Once(emit[e].left)
          /\ \A h \in emit[e].owed : Has(handlers, h)
    /\ \A e \in Goroutines : emit[e].at = "copy" =>
          \A h \in Handlers : ~Has(received[h], emit[e].n)
    /\ \A e \in Goroutines : emit[e].at = "call" =>
          /\ \A h \in Handlers : Has(emit[e].left, h) => ~Has(received[h], emit[e].n)
          /\ \A h \in emit[e].owed : Has(emit[e].left, h) \/ Has(received[h], emit[e].n)

SignalInv == SignalTypes /\ SignalCounts /\ SignalPaths

\* The maturity of patterns: what each level has behind it.
MaturityInv ==
    /\ LE!MaturityTypeOK /\ LE!ListenersKnow
    /\ \A p \in Patterns :
          /\ level[p] # "new" => p \in known
          /\ level[p] # "degraded" => losses[p] < DegradedFailures
          /\ level[p] = "degraded" => wins[p] <= regained[p]
          /\ level[p] = "testing" => regained[p] >= TestingSuccesses
          /\ level[p] \in {"new", "stable", "trusted"} => regained[p] > TestingSuccesses
          /\ level[p] \in {"stable", "trusted"} => total[p] >= StableSuccesses

\* The learning loop: histories are the latest entries in order, and the calls
\* of the tickers are counted by what they filed.
Past     == {u \in Goroutines : tick[u].at \in {"filed", "mined", "fed"}}
Running  == {u \in Goroutines : tick[u].at # "idle"}
LoopItem == [n : 1..MaxTicks, failed : 0..MaxActions, signals : BOOLEAN]

\* What a ticker carries, and what its place tells of it.
Ticks == [at : {"idle", "measured", "filed", "mined", "fed"},
          score : LE!Score, mined : 0..MaxActions]

Tells(t) ==
    /\ tick[t].at \in {"filed", "mined", "fed"} => tick[t].score.n \in 1..filed
    /\ tick[t].at # "idle" => tick[t].score.failed <= acts.failed
    /\ tick[t].at \in {"mined", "fed"} => tick[t].score.failed <= tick[t].mined

LearnInv ==
    /\ LE!TypeOK /\ LE!FeedbackIsCurrent /\ LE!SignalsFollowScore
    /\ scores \in Seq(LE!Score) /\ file \in Seq(LE!Score) /\ loop \in Seq(LoopItem)
    /\ Len(file) <= MaxHist
    /\ acts.failed <= acts.all
    /\ filed = ended + Cardinality(Past)
    /\ ended + Cardinality(Running) <= MaxTicks
    /\ \A t \in Goroutines : Tells(t)

\* The import: what an import nobody disturbs has merged so far.
Differ == {j \in DOMAIN Imported :
              j < import.i /\ confs[Imported[j].id] # start[Imported[j].id]}
Better(j) == Imported[j].conf > start[Imported[j].id]

Taken(j) ==
    \/ confs[Imported[j].id] =
          IF j < import.i /\ Better(j) THEN Imported[j].conf ELSE start[Imported[j].id]
    \/ /\ import.at = "failed" /\ j = import.i /\ Better(j)
       /\ confs[Imported[j].id] = Imported[j].conf

\* An import under way.
Imports == [at : {"idle", "merging", "done", "failed"}, i : 1..(Len(Imported) + 1),
            seen : [LE!Ids -> 0..MaxConf], merged : Nat]

ImportInv ==
    /\ confs \in [LE!Ids -> 0..MaxConf] /\ start \in [LE!Ids -> 0..MaxConf]
    /\ import \in Imports
    /\ learned \in 0..MaxLearned /\ alone \in BOOLEAN
    /\ import.at = "idle" => import.i = 1 /\ import.merged = 0
    /\ import.at = "merging" => import.seen = start
    /\ alone => /\ \A j \in DOMAIN Imported : Taken(j)
                /\ import.merged = Cardinality(Differ)

\* The waits: which strategy a call is at, and what its results tell.
\* The strategy that is under way at a place of the call.
Underway(a) ==
    IF a \in {"enable", "check", "subscribe", "idle"} THEN "network"
    ELSE IF a \in {"inject", "poll"} THEN "dom"
    ELSE IF a = "visible" THEN "visible"
    ELSE IF a \in {"appear", "enabled"} THEN "enabled" ELSE "none"

TriedTo(n) == {results[j].strategy : j \in 1..n}
Cheaper(s) == {r \in mode.strategies : PW!Place[r] < PW!Place[s]}
Refused    == {j \in DOMAIN results : ~results[j].ok}

WaitTyped == PW!TypeOK /\ results \in Seq(PW!Result)

WaitQuiet ==
    /\ at \in {"inject", "poll"} => \A j \in DOMAIN results : results[j].strategy # "dom"
    /\ at = "poll" => last <= mutations /\ stable < StableFor
    /\ at = "poll" /\ mutations = last => quietFor >= stable
    /\ (\E j \in DOMAIN results : results[j].strategy = "dom" /\ results[j].ok)
          => stable >= StableFor /\ quietFor >= StableFor

WaitHears ==
    /\ page.idle => page.complete
    /\ mode.call = "navigate" =>
          /\ at \in {"begin", "navigate"} => ~page.complete
          /\ "network" \in mode.strategies /\ at \notin {"begin", "returned"} =>
                listening /\ (page.idle => heard)

WaitTells ==
    /\ mode.call = "route" =>
          results = <<>> /\ at \in {"begin", "url", "inject", "poll", "returned"}
    /\ mode.call # "navigate" => at # "navigate"
    /\ at \in {"begin", "navigate"} => results = <<>>
    /\ at = "returned" <=> outcome # "none"
    /\ mode.call # "route" =>
          /\ at # "url"
          /\ \A n \in DOMAIN results : /\ results[n].strategy \in mode.strategies
                                       /\ TriedTo(n - 1) = Cheaper(results[n].strategy)
          /\ Underway(at) # "none" =>
                /\ Underway(at) \in mode.strategies
                /\ TriedTo(Len(results)) = Cheaper(Underway(at))
          /\ ~mode.continueOnErr => Refused \subseteq {Len(results)}
          /\ ~mode.continueOnErr /\ at # "returned" => Refused = {}
          /\ outcome = "ok" => PW!Todo = {} /\ (mode.continueOnErr \/ Refused = {})
          /\ outcome = "error" => results = <<>> \/ (~mode.continueOnErr /\ Refused # {})

WaitInv == WaitTyped /\ WaitQuiet /\ WaitHears /\ WaitTells

\* The pool: the tasks that ran are with a worker, in the channel of the
\* results, or collected.
Outcome == [task : PR!Numbers, success : BOOLEAN]
Busy    == {w \in Goroutines : doing[w] # Null}

PoolInv ==
    /\ started \subseteq Goroutines /\ gone \subseteq started /\ sent \in 0..Len(Tasks)
    /\ shut \in BOOLEAN /\ cancelled \in BOOLEAN /\ over \in BOOLEAN
    /\ doing \in [Goroutines -> PR!Numbers \cup {Null}]
    /\ queue \in Seq(PR!Numbers) /\ ran \in Seq(PR!Numbers)
    /\ resultCh \in Seq(Outcome) /\ collected \in Seq(Outcome)
    /\ Len(ran) + Len(queue) = sent
    /\ \A k \in 1..Len(ran) : ran[k] = Tasks[k]
    /\ \A k \in 1..Len(queue) : queue[k] = Tasks[Len(ran) + k]
    /\ \A w \in Busy : w \in started \ gone
    /\ Len(ran) = Cardinality(Busy) + Len(resultCh) + Len(collected)
    /\ \A k \in 1..Len(ran) :
          \/ \E w \in Busy : doing[w] = ran[k]
          \/ \E j \in 1..Len(resultCh) : resultCh[j].task = ran[k]
          \/ \E j \in 1..Len(collected) : collected[j].task = ran[k]
    /\ sent > 0 => Cardinality(started) = PR!Wanted
    /\ shut => sent = Len(Tasks)
    /\ gone # {} => shut /\ queue = <<>>
    /\ over => shut /\ gone = started /\ resultCh = <<>>

\* The procedures step by step: what the log of each tells of its counts.
Entry ==
    [did : {"step", "undo", "cycle", "try", "type"}, item : 1..Length,
     how : {"ok", "error", "candidate", "unregistered", "registered"}]
Tally == [total : Nat, passed : Nat, failed : Nat, violations : Nat]
Hand  == [from : 1..Length, to : 1..Length, success : BOOLEAN]

\* Where the entries of a set are in the log, and how many there are.
Where(s, S)    == {n \in DOMAIN s : s[n] \in S}
Kind(did, how) == {e \in Entry : e.did = did /\ e.how \in how}
HandsOver      == {e \in Entry : \/ e.how = "error" /\ e.item < Length
                                 \/ e.how = "ok" /\ e.item > 1}
Count(S)       == Cardinality(Where(log, S))

StepTyped ==
    /\ way \in PR!Ways /\ index \in 0..(Length + 1)
    /\ status \in {"pending", "running", "failed", "completed", "rolled_back"}
    /\ log \in Seq(Entry) /\ result \in Tally /\ handoffs \in Seq(Hand)
    /\ late \in BOOLEAN /\ runs \in 0..MaxRuns
    /\ status = "pending" => runs < MaxRuns
    /\ status = "running" => index >= 1 /\ runs >= 1

\* A sequence went through its steps, and back from the one that failed.
SequenceInv ==
    /\ result = PR!Nothing /\ handoffs = <<>>
    /\ status = "pending" => log = <<>>
    /\ status \in {"pending", "running", "completed"} =>
          \A n \in DOMAIN log : log[n].did = "step" /\ log[n].how = "ok"
    /\ status = "running" => Len(log) = index - 1
    /\ status \in {"failed", "rolled_back"} =>
          \E f \in 1..Length :
             /\ f \in DOMAIN log /\ index <= f /\ log[f].item = f
             /\ \A n \in DOMAIN log :
                   /\ n < f => log[n].did # "undo" /\ log[n].how # "error"
                   /\ n = f => log[n].did # "undo" /\ log[n].how = "error"
                   /\ n > f => log[n].did = "undo" /\ log[n].item \in Undoable
                               /\ log[n].item \in (index + 1)..f
             /\ \A s \in Undoable : s \in (index + 1)..f =>
                   \E n \in DOMAIN log : n > f /\ log[n].item = s
             /\ \A m, n \in DOMAIN log : f < m /\ m < n => log[m].item > log[n].item
    /\ status = "rolled_back" => index = 0

HarnessInv ==
    /\ result.violations = 0 /\ handoffs = <<>>
    /\ result.total = result.passed + result.failed
    /\ result.total = Len(log) /\ result.failed = Count(Kind("cycle", {"error"}))
    /\ status = "running" => result.total <= (runs - 1) * Length + (index - 1)
    /\ status # "running" => result.total <= runs * Length

ChainInv ==
    /\ result.total = 0 /\ result.passed = 0 /\ result.failed = 0
    /\ status = "pending" => log = <<>>
    /\ status = "running" => Len(log) <= index - 1
    /\ Len(log) <= Length
    /\ \A n \in DOMAIN log : /\ log[n].how \in {"ok", "error"}
                             /\ log[n].how = "ok" <=> status = "completed" /\ n = Len(log)
    /\ \A n \in DOMAIN handoffs : handoffs[n].to = handoffs[n].from + 1
    /\ Len(handoffs) = Count(HandsOver)
    /\ result.violations <= Len(log)

ScanInv ==
    /\ result.violations = 0 /\ handoffs = <<>> /\ status # "rolled_back"
    /\ result.passed <= MaxScanned
    /\ result.passed = Count(Kind("type", {"registered"}))
    /\ result.total = Count(Kind("type", {"candidate", "unregistered", "registered"}))
    /\ status \in {"pending", "failed"} => result.total = 0 /\ result.passed = 0 /\ result.failed = 0
    /\ status = "pending" => log = <<>>
    /\ status \in {"running", "completed"} =>
          /\ result.total <= index - 1 /\ result.passed <= index - 1 /\ result.failed <= index - 1
          /\ \/ /\ Len(log) = index - 1
                /\ result.failed = Count(Kind("type", {"error", "unregistered"}))
             \/ /\ late /\ index = Length + 1
                /\ result.failed > Count(Kind("type", {"error", "unregistered"}))
    /\ status = "completed" => index = Length + 1

StepInv ==
    /\ StepTyped
    /\ way = "sequence" => SequenceInv
    /\ way = "endurance" => HarnessInv
    /\ way = "chain" => ChainInv
    /\ way = "scan" => ScanInv

\* The frames: the tree, and where the browser is.
Height == Cardinality(Frames)
Call   == [at : {"idle", "enter", "capture", "resolve", "exit"}, frame : FH!Tree,
           found : Seq(Scores), success : BOOLEAN]

FrameTyped ==
    /\ FH!Tree \subseteq Frames \cup {Top} /\ Top \in FH!Tree
    /\ depth \in [FH!Tree -> Nat] /\ parent \in [FH!Tree \ {Top} -> FH!Tree]
    /\ heal \in Call /\ heals \in 0..MaxHeals /\ stuck \in BOOLEAN

\* A frame is one below its parent, and no deeper than the others are many.
Rooted ==
    /\ depth[Top] = 0
    /\ \A f \in FH!Tree \ {Top} : depth[f] = depth[parent[f]] + 1
    /\ \A f \in FH!Tree : depth[f] < Cardinality(FH!Tree)

FrameInv == FrameTyped /\ Rooted /\ FH!HealsInItsFrame /\ FH!HealIsJustified

\* The detection of changes: what a check knows of the baselines of its page as
\* long as no other check has met it.
Pictures == [PageIDs -> Contents \cup {Null}]
Likes    == {CD!Alike(sim, a, b) : sim \in {FingerprintSim, StructuralSim},
                                   a \in Contents \cup {Null}, b \in Contents \cup {Null}} \cup {100}
Check    == [at : {"idle", "hash", "fingerprint", "structure", "store", "decide", "repair"},
             page : PageIDs \cup {CD!NoCheck.page}, html : Contents \cup {Null},
             drifted : BOOLEAN, new : BOOLEAN, fp : Likes, st : Likes]
ChangeEvent == [page : PageIDs, severity : CD!Severity]

ChangeTyped ==
    /\ breaker \in CD!DomBreakerState
    /\ hashes \in Pictures /\ fingerprints \in Pictures /\ structures \in Pictures
    /\ hashFile \in Pictures /\ base \in Pictures
    /\ check \in [Goroutines -> Check]
    /\ \A c \in Goroutines : check[c].at # "idle" => check[c].page \in PageIDs
    /\ events \in Seq(ChangeEvent) /\ eventFile \in Seq(ChangeEvent) /\ saving \in BOOLEAN
    /\ checks \in 0..MaxDetections /\ saves \in 0..MaxSaves /\ restarted \in 0..MaxRestarts
    /\ overlapped \subseteq PageIDs /\ missed = FALSE

Even(p) == /\ fingerprints[p] = base[p] /\ structures[p] = base[p]
           /\ base[p] # Null => hashes[p] = base[p]

\* What a check d knows of its page, step by step.
Knows(d) ==
    /\ d.at \in {"idle", "hash", "repair"} => Even(d.page)
    /\ d.at \in {"fingerprint", "structure", "store", "decide"} =>
          /\ hashes[d.page] = d.html
          /\ base[d.page] # Null => (d.drifted <=> base[d.page] # d.html)
    /\ d.at = "fingerprint" => fingerprints[d.page] = base[d.page]
    /\ d.at \in {"fingerprint", "structure", "store"} => structures[d.page] = base[d.page]
    /\ d.at \in {"structure", "store", "decide"} =>
          /\ fingerprints[d.page] = d.html
          /\ base[d.page] # Null => ~d.new /\ d.fp = CD!Alike(FingerprintSim, base[d.page], d.html)
    /\ d.at \in {"store", "decide"} /\ base[d.page] # Null =>
          d.st = CD!Alike(StructuralSim, base[d.page], d.html)
    /\ d.at = "decide" => structures[d.page] = d.html

Alone ==
    \A p \in PageIDs \ overlapped :
        /\ \A c, d \in CD!Checking(p) : c = d
        /\ \A c \in CD!Checking(p) : Knows(check[c])
        /\ CD!Checking(p) = {} => Even(p)

ChangeInv == ChangeTyped /\ Alone

\* The files: the store is as the calls that returned left it, or broken; the
\* log is in order and has all that was logged, as long as no two write it.
Maps  == [PageIDs -> 0..MaxPatterns]
Turns == [at : {"free", "load", "save", "write"}, page : PageIDs \cup {SR!NoTurn.page},
          new : 0..MaxPatterns, map : Maps \cup {Broken}]
Logs  == Seq(1..MaxEntries)
Jobs  == [at : {"idle", "write", "fill"}, entry : 0..MaxEntries, read : Logs]

StoreSide ==
    /\ turn \in Turns /\ wanted \in Maps /\ patterns \in 0..MaxPatterns
    /\ store \in {Broken, wanted}
    /\ turn.at \in {"save", "write"} => turn.map = wanted

AtLog(w)   == job[w].at # "idle"
Ordered(s) == \A m, n \in DOMAIN s : m < n => s[m] < s[n]
Kept(s)    == Ordered(s) /\ \A e \in logged : Has(s, e)

LogTyped ==
    /\ job \in [Goroutines -> Jobs] /\ entries \in 0..MaxEntries /\ crashes \in 0..MaxCrashes
    /\ logged \subseteq 1..MaxEntries /\ apart \in BOOLEAN
    /\ repairs # Broken => repairs \in Logs /\ \A n \in DOMAIN repairs : repairs[n] <= entries

LogSide ==
    /\ LogTyped
    /\ \A w \in Goroutines : AtLog(w) => /\ job[w].entry \in 1..entries
                                        /\ \A n \in DOMAIN job[w].read : job[w].read[n] < job[w].entry
    /\ apart => /\ \A v, w \in Goroutines : AtLog(v) /\ AtLog(w) => v = w
                /\ repairs # Broken => Kept(repairs)
                /\ \A w \in Goroutines : AtLog(w) => Kept(job[w].read)

FileInv == StoreSide /\ LogSide

\* The drift alerts: a number per alert, an alert per change.
DriftStep  == [at : {"idle", "get", "insert"}, site : Items \cup {DA!Calm.site}, conf : 0..100]
DriftAlert == [site : Items, severity : DA!DriftSeverity, resolved : BOOLEAN]

\* The alerts of a page, the callers that met a change of it, and all of these.
AlertsOf(s)  == {n \in DOMAIN alerts : alerts[n].site = s}
MeetersOf(s) == {c \in Goroutines : step[c].at # "idle" /\ step[c].site = s}
Meeters      == {c \in Goroutines : step[c].at # "idle"}

DriftTyped ==
    /\ hash \in [Items -> Htmls \cup {Null}] /\ table \in [Items -> 0..100 \cup {Null}]
    /\ step \in [Goroutines -> DriftStep] /\ \A c \in Meeters : step[c].site \in Items
    /\ alerts \in Seq(DriftAlert) /\ ids \in Seq(Nat) /\ told = ids
    /\ nextID = Len(ids) /\ Len(alerts) = Len(ids)
    /\ checked \in 0..MaxChecks /\ updates \in 0..MaxUpdates
    /\ changes \in [Items -> Nat] /\ lowest = FALSE

DriftCounts ==
    /\ \A s \in Items : /\ changes[s] = Cardinality(AlertsOf(s)) + Cardinality(MeetersOf(s))
                        /\ changes[s] <= checked
    /\ nextID + Cardinality(Meeters) <= checked

DriftLists ==
    /\ \A n \in DOMAIN ids : ids[n] = n
    /\ resolved \subseteq DOMAIN ids
    /\ \A n \in DOMAIN alerts : alerts[n].resolved <=> n \in resolved
    /\ passedOn \in Seq(Nat) /\ Len(passedOn) <= MaxHandoffs
    /\ \A n \in DOMAIN passedOn : passedOn[n] = n

DriftInv == DriftTyped /\ DriftCounts /\ DriftLists

\* The repair of selectors: the best of the first n of a list, the
\* first of equal ones, or none.
BestUpTo(list, n, b) ==
    IF n = 0 THEN b = 0
    ELSE /\ b \in 1..n
         /\ \A k \in 1..n : /\ list[k].conf <= list[b].conf
                            /\ k < b => list[k].conf < list[b].conf

Reached == tried - attempts["vlm"]

RepairTyped ==
    /\ wired \in BOOLEAN /\ phase \in {"chain", "vlm", "report", "over"}
    /\ candidates \in Seq(SR!Candidate) /\ best \in Nat
    /\ BestUpTo(candidates, Len(candidates), best)
    /\ attempts \in [SR!Strategies -> 0..1] /\ tried \in 0..5 /\ Reached \in 0..4

\* Of the strategies that were tried only the last may have found a good one.
ChainSoFar ==
    /\ \A i \in 1..4 : attempts[SR!Chain[i]] = IF i <= Reached THEN 1 ELSE 0
    /\ \A n \in DOMAIN candidates :
          \/ candidates[n].strategy = "vlm" /\ attempts["vlm"] = 1
          \/ \E i \in 1..4 : /\ i <= Reached /\ candidates[n].strategy = SR!Chain[i]
                             /\ candidates[n].conf >= 8000 => i = Reached

Low(list) == \A n \in DOMAIN list : list[n].conf < 8000
LowBefore ==
    \A n \in DOMAIN candidates : candidates[n].strategy = "vlm" \/ candidates[n].conf < 8000

PhaseSoFar ==
    /\ phase = "chain" => attempts["vlm"] = 0 /\ tried < 4 /\ Low(candidates)
    /\ phase = "vlm" => attempts["vlm"] = 0
    /\ phase \in {"report", "over"} => (attempts["vlm"] = 1 <=> (wired /\ LowBefore))

RepairTold ==
    /\ phase # "over" => suggested = 0 /\ repaired = [s \in SR!Strategies |-> 0]
    /\ phase = "over" => /\ suggested = best /\ history.best = best
                         /\ repaired = [s \in SR!Strategies |->
                               IF best # 0 /\ candidates[best].strategy = s THEN 1 ELSE 0]

RepairInv == RepairTyped /\ ChainSoFar /\ PhaseSoFar /\ RepairTold

\* Fusion: what the hints explain, and whose screenshot a run is grounded on.
WorkerPlaces == {"none", "attach", "attached", "navigate", "loaded", "shoot", "gone"}

FusionTyped ==
    /\ now \in FU!Runs /\ lane \in {"begin", "wait", "ground", "lane", "over"}
    /\ ctx \in [FU!Runs -> BOOLEAN] /\ worker \in [FU!Runs -> WorkerPlaces]
    /\ done \in [FU!Runs -> FU!Runs \cup {FU!Pending, FU!Failed}]
    /\ browser \in 0..Scenarios /\ ok \in [FU!Runs -> BOOLEAN]
    /\ lateRuns \subseteq FU!Runs /\ slipped \subseteq FU!Runs

Explained ==
    /\ elements \in Seq(FU!Element) /\ reason \in FU!Reasons
    /\ lane \in {"begin", "wait", "ground"} => elements = <<>>
    /\ lane \in {"lane", "over"} => reason # "none"
    /\ reason = "grounded" <=> FU!Usable(elements) # {}
    /\ reason = "grounding_low_confidence" => \E n \in DOMAIN elements : elements[n].interactable

\* What is known of the capture of a run, by where the run at work is.
Captures ==
    /\ \A r \in FU!Runs : r > now \/ (r = now /\ lane = "begin") =>
          worker[r] = "none" /\ done[r] = FU!Pending
    /\ \A r \in FU!Runs : done[r] # FU!Pending => worker[r] = "gone"
    /\ lane = "ground" => done[now] \in FU!Runs
    /\ \A r \in FU!Runs : r < now \/ (r = now /\ lane \in {"ground", "lane", "over"}) =>
          worker[r] = "gone" \/ ctx[r]
    /\ \A r \in FU!Runs : worker[r] = "navigate" /\ ctx[r] => r \in slipped
    /\ lateRuns \subseteq slipped
    /\ lateRuns = {} => /\ worker[now] \in {"loaded", "shoot"} => browser = now
                        /\ done[now] \in FU!Runs => done[now] = now

FusionInv == FusionTyped /\ Explained /\ Captures

=============================================================================
