---------------------------- MODULE MCEvolution -----------------------------
(***************************************************************************)
(* The parts of the evolver side by side: the evolution cycle, the trace   *)
(* pipeline, the fleet, workflow graphs with their searches and their      *)
(* rubric, the ways by which a change is adopted, and the capsule store    *)
(* with its export.  What one of them leaves open about another is any     *)
(* outcome, so a behaviour follows one part, the subject, while the others *)
(* rest in their initial states.                                           *)
(***************************************************************************)
EXTENDS Integers, Sequences, FiniteSets, TLC

CONSTANTS Runners, Limit, MaxMutationsPerRun, MaxSignals, MaxCycles,
          Setups,
          Traces, Failures, Slow, Cost, RepeatThreshold, SpikeFactor, MaxFaults, MaxStarts,
          Nodes, Source, Targets, Capsules, Active, Tasks, MaxCapsules, MaxTime, MaxCalls, MaxRestarts,
          NodeIDs, NoNode, MaxEdges,
          Scores, Threshold, MaxIterations, MutationsPerIteration, Quiet,
          Sizes, Latencies, Costs, MaxRuns,
          Batch, MaxRisk, Mutations, Absent,
          Stored, MaxSaves, MaxBroken, MaxSyncs,
          c1, c2, c3, n1, n2, n3, x1, x2, x3

\* The configurations, the capsules and the rest of the instance checked.
SomeSetups ==
    {[mode |-> "balanced", dryRun |-> FALSE, safety |-> TRUE, hitl |-> TRUE, autoLow |-> FALSE],
     [mode |-> "balanced", dryRun |-> FALSE, safety |-> FALSE, hitl |-> FALSE, autoLow |-> TRUE],
     [mode |-> "harden", dryRun |-> TRUE, safety |-> TRUE, hitl |-> TRUE, autoLow |-> FALSE],
     [mode |-> "repair-only", dryRun |-> TRUE, safety |-> TRUE, hitl |-> TRUE, autoLow |-> FALSE]}

\* One dear trace among cheap ones.
OneDear == (x1 :> 1) @@ (x2 :> 1) @@ (x3 :> 20)

TwoTargets    == <<n2, n3>>
ThreeCapsules == <<c1, c2, c3>>
OneTask       == {[source |-> n1, target |-> n2]}
ThreeRisks    == <<"low", "critical", "medium">>

VARIABLES setup, stats, muts, run,
          buffer, file, cut, counting, counts, mark, signals, faults, torn, recorded, running,
          closed, loops, starts, stop,
          ms, nodes, shares, delegated, nodeFile, shareFile, taskFile, send, calls,
          restarts, acked, cutOff,
          graph, sort, prune,
          pc, best, history, quiet, left, trial, held, scored, weak, iter,
          metrics, compare,
          way, gate, live, runs, granted, batch, review, events, target, before,
          stack, sound,
          saves, disk, kb, sync, summary, broken, syncs, calm,
          subject

I == INSTANCE IronEvolver
T == INSTANCE TracePipeline
F == INSTANCE Fleet
G == INSTANCE WorkflowGraph
S == INSTANCE WorkflowSearch
A == INSTANCE Adoption
B == INSTANCE KnowledgeBase

ASSUME EvolutionAssumption ==
    /\ I!IronAssumption /\ T!TraceAssumption /\ F!FleetAssumption /\ G!GraphAssumption
    /\ S!SearchAssumption /\ G!RubricAssumption /\ A!AdoptionAssumption
    /\ B!KnowledgeAssumption

ironVars   == <<setup, stats, muts, run>>
traceVars  == <<buffer, file, cut, counting, counts, mark, signals, faults, torn, recorded,
                running, closed, loops, starts, stop>>
fleetVars  == <<ms, nodes, shares, delegated, nodeFile, shareFile, taskFile, send,
                calls, restarts, acked, cutOff>>
graphVars  == <<graph, sort, prune>>
searchVars == <<pc, best, history, quiet, left, trial, held, scored, weak, iter>>
rubricVars == <<metrics, compare>>
adoptVars  == <<way, gate, live, runs, granted, batch, review, events, target, before,
                stack, sound>>
baseVars   == <<saves, disk, kb, sync, summary, broken, syncs, calm>>
vars == <<ironVars, traceVars, fleetVars, graphVars, searchVars, rubricVars,
          adoptVars, baseVars, subject>>

\* The initial state of what rests: one of those it may have.
AtRest ==
    /\ subject # "iron" => setup = CHOOSE s \in Setups : TRUE
    /\ subject # "search" => pc = "optimize" /\ best.score = CHOOSE s \in Scores : TRUE
    /\ subject # "rubric" =>
          metrics = [g \in G!Graphs |-> G!NoRuns(CHOOSE s \in Sizes : TRUE)]
    /\ subject # "adopt" => way = "sandbox" /\ gate /\ target = Absent

Init ==
    /\ subject \in {"iron", "traces", "fleet", "graph", "search", "rubric", "adopt", "base"}
    /\ I!Init /\ T!Init /\ F!Init /\ G!Init /\ S!Init /\ G!RubricInit /\ A!Init /\ B!Init
    /\ AtRest

Iron    == /\ subject = "iron"
           /\ UNCHANGED <<traceVars, fleetVars, graphVars, searchVars, rubricVars,
                          adoptVars, baseVars, subject>>
Tracing == /\ subject = "traces"
           /\ UNCHANGED <<ironVars, fleetVars, graphVars, searchVars, rubricVars,
                          adoptVars, baseVars, subject>>
Fleets  == /\ subject = "fleet"
           /\ UNCHANGED <<ironVars, traceVars, graphVars, searchVars, rubricVars,
                          adoptVars, baseVars, subject>>
Graph   == /\ subject = "graph"
           /\ UNCHANGED <<ironVars, traceVars, fleetVars, searchVars, rubricVars,
                          adoptVars, baseVars, subject>>
Search  == /\ subject = "search"
           /\ UNCHANGED <<ironVars, traceVars, fleetVars, graphVars, rubricVars,
                          adoptVars, baseVars, subject>>
Rubrics == /\ subject = "rubric"
           /\ UNCHANGED <<ironVars, traceVars, fleetVars, graphVars, searchVars,
                          adoptVars, baseVars, subject>>
Adopt   == /\ subject = "adopt"
           /\ UNCHANGED <<ironVars, traceVars, fleetVars, graphVars, searchVars,
                          rubricVars, baseVars, subject>>
Base    == /\ subject = "base"
           /\ UNCHANGED <<ironVars, traceVars, fleetVars, graphVars, searchVars,
                          rubricVars, adoptVars, subject>>

Next ==
    \/ Iron /\ I!Next
    \/ Tracing /\ T!Next
    \/ Fleets /\ F!Next
    \/ Graph /\ G!Next
    \/ Search /\ S!Next
    \/ Rubrics /\ G!RubricNext
    \/ Adopt /\ A!Next
    \/ Base /\ B!Next

\* A call that was begun goes on, and a loop that was told to stop ends.
Spec ==
    /\ Init
    /\ [][Next]_vars
    /\ WF_vars(\/ Iron /\ I!Progress
               \/ Fleets /\ F!Progress
               \/ Graph /\ G!Progress
               \/ Search /\ S!Progress
               \/ Adopt /\ A!Progress
               \/ Base /\ B!Progress)
    /\ WF_vars(Tracing /\ stop # "panic" /\ T!LoopEnds)

TypeOK ==
    /\ I!TypeOK /\ T!TypeOK /\ F!TypeOK /\ G!TypeOK /\ S!TypeOK /\ G!RubricTypeOK /\ A!TypeOK
    /\ B!TypeOK

\* What the evolver decides is right: what safety blocks stays blocked, a
\* success in the sandbox passed the gate, a sort orders the graph and fails
\* only on a cycle, pruning keeps a graph valid, the better graph wins where
\* the rubric falls, and a signal is earned by what was recorded.
DecisionsAreRight ==
    /\ I!HighRiskIsBlocked
    /\ A!SuccessWasApproved
    /\ G!SortIsRight /\ G!PruningKeepsValid
    /\ G!BetterWinsBelow
    /\ T!SignalsAreEarned /\ T!OneLoop

\* What the evolver reports is what it did: the statistics of overlapping
\* cycles, the result of a propagation, the history and the best score of a
\* search, and the events of a review.
ReportsAreTrue ==
    /\ I!StatsAgree
    /\ F!PropagationAddsUp
    /\ S!SearchIsHonest
    /\ A!ReviewIsRecorded

\* What was recorded, stored or replaced can be had again: traces but for
\* those a cut line cost, shares but for those of one millisecond, a prompt
\* on trial, what a mutation replaced, and the files of an undisturbed export.
NothingIsLost ==
    /\ T!TracesSurvive
    /\ F!SharesSurvive
    /\ S!PromptRestored
    /\ A!RollbackRestores
    /\ B!SyncExports

\* Cycles, propagations, sorts, searches and batches return, and loops that
\* were stopped end, unless Stop panicked.
WorkEnds ==
    /\ []<>(/\ I!Returned /\ F!Sent /\ G!SortReturned /\ B!Synced
            /\ subject = "search" => S!Returned
            /\ subject = "adopt" => A!Returned)
    /\ <>[](closed /\ stop # "panic" => loops = 0)

=============================================================================
