--------------------------- MODULE WorkflowGraph ----------------------------
(***************************************************************************)
(* evolver.WorkflowGraph (pkg/evolver/workflow_graph.go) and the topology  *)
(* pruning of AFlowOptimizer (textgrad.go).  A graph is edited node by     *)
(* node and edge by edge; the same edge may be added twice.                *)
(*                                                                         *)
(* TopologicalSort holds the read lock, so the graph does not change while *)
(* it runs; it is taken step by step, since the order in which Go visits   *)
(* the map, and so the initial queue, is any.                              *)
(***************************************************************************)
EXTENDS Integers, Sequences, FiniteSets, SequencesExt

CONSTANTS NodeIDs,
          NoNode,    \* the empty EntryNodeID
          MaxEdges   \* bound: edges of the graph

GraphAssumption == IsFiniteSet(NodeIDs) /\ NoNode \notin NodeIDs /\ MaxEdges \in Nat

VARIABLES graph,  \* nodes, edges and entry
          sort,   \* a call of topologicalSortUnlocked
          prune   \* a call of pruneLeafNodes

vars == <<graph, sort, prune>>

Edge  == [from : NodeIDs, to : NodeIDs]
Graph == [nodes : SUBSET NodeIDs, edges : Seq(Edge), entry : NodeIDs \cup {NoNode}]

TypeOK ==
    /\ graph \in Graph
    /\ \A i \in DOMAIN graph.edges :
          {graph.edges[i].from, graph.edges[i].to} \subseteq graph.nodes
    /\ graph.entry \in graph.nodes \cup {NoNode}
    /\ sort.pc \in {"none", "queue", "sorted", "cycle"}
    /\ sort.order \in Seq(graph.nodes)
    /\ sort.queue \in Seq(graph.nodes)
    /\ prune \in [leaves : SUBSET NodeIDs, valid : BOOLEAN, on : BOOLEAN]

NoSort  == [pc |-> "none", degree |-> <<>>, queue |-> <<>>, order |-> <<>>]
NoPrune == [leaves |-> {}, valid |-> FALSE, on |-> FALSE]

Init ==
    /\ graph = [nodes |-> {}, edges |-> <<>>, entry |-> NoNode]
    /\ sort = NoSort
    /\ prune = NoPrune

----------------------------------------------------------------------------
\* Editing.  A sort before the edit says nothing of the graph after it.

Edit(g) == graph' = g /\ sort' = NoSort
Editable == sort.pc # "queue" /\ ~prune.on

AddNode(n) ==
    /\ Editable /\ n \notin graph.nodes
    /\ Edit([graph EXCEPT !.nodes = @ \cup {n}])
    /\ UNCHANGED prune

AddEdge(a, b) ==
    /\ Editable /\ Len(graph.edges) < MaxEdges
    /\ {a, b} \subseteq graph.nodes /\ a # b
    /\ Edit([graph EXCEPT !.edges = Append(@, [from |-> a, to |-> b])])
    /\ UNCHANGED prune

\* EntryNodeID is a field that callers set.
SetEntry(n) ==
    /\ Editable /\ n \in graph.nodes /\ n # graph.entry
    /\ Edit([graph EXCEPT !.entry = n])
    /\ UNCHANGED prune

\* The entries of s at the places ps, in their order.
At(s, ps) ==
    LET rank(i) == Cardinality({j \in ps : j <= i})
    IN  [k \in 1..Cardinality(ps) |-> s[CHOOSE i \in ps : rank(i) = k]]

\* RemoveNode.
Without(g, n) ==
    [nodes |-> g.nodes \ {n},
     edges |-> At(g.edges, {i \in DOMAIN g.edges : n \notin {g.edges[i].from, g.edges[i].to}}),
     entry |-> IF g.entry = n THEN NoNode ELSE g.entry]

RemoveNode(n) ==
    /\ Editable /\ n \in graph.nodes
    /\ Edit(Without(graph, n))
    /\ UNCHANGED prune

----------------------------------------------------------------------------
\* TopologicalSort.

InDegree(g, n) == Cardinality({i \in DOMAIN g.edges : g.edges[i].to = n})

\* adj[u], an edge that was added twice included twice.
Adjacent(g, u) ==
    LET es == At(g.edges, {i \in DOMAIN g.edges : g.edges[i].from = u})
    IN  [i \in DOMAIN es |-> es[i].to]

\* The nodes without predecessors, in any order.
SortBegins ==
    /\ Editable /\ sort.pc = "none" /\ graph.nodes # {}
    /\ \E queue \in SetToSeqs({n \in graph.nodes : InDegree(graph, n) = 0}) :
         sort' = [pc |-> "queue", degree |-> [n \in graph.nodes |-> InDegree(graph, n)],
                  queue |-> queue, order |-> <<>>]
    /\ UNCHANGED <<graph, prune>>

VisitOnce == \* mutant: an edge added twice is taken off once
    LET u == Head(sort.queue)
        vs == Adjacent(graph, u)
        less(v) == sort.degree[v] - (IF v \in ToSet(vs) THEN 1 ELSE 0)
        freed == At(vs, {i \in DOMAIN vs : less(vs[i]) = 0})
    IN  /\ sort.pc = "queue" /\ sort.queue # <<>>
        /\ sort' = [pc |-> "queue", degree |-> [n \in graph.nodes |-> less(n)],
                    queue |-> Tail(sort.queue) \o freed, order |-> Append(sort.order, u)]
        /\ UNCHANGED <<graph, prune>>

\* One turn of the loop.  A node enters the queue at the last of its edges.
Visit ==
    LET u == Head(sort.queue)
        vs == Adjacent(graph, u)
        times(v) == Cardinality({i \in DOMAIN vs : vs[i] = v})
        freed == At(vs, {i \in DOMAIN vs : /\ sort.degree[vs[i]] = times(vs[i])
                                           /\ \A j \in DOMAIN vs : j > i => vs[j] # vs[i]})
    IN  /\ sort.pc = "queue" /\ sort.queue # <<>>
        /\ sort' = [pc |-> "queue",
                    degree |-> [n \in graph.nodes |-> sort.degree[n] - times(n)],
                    queue |-> Tail(sort.queue) \o freed, order |-> Append(sort.order, u)]
        /\ UNCHANGED <<graph, prune>>

SortEnds ==
    /\ sort.pc = "queue" /\ sort.queue = <<>>
    /\ sort' = [sort EXCEPT !.pc =
          IF Len(sort.order) = Cardinality(graph.nodes) THEN "sorted" ELSE "cycle"]
    /\ UNCHANGED <<graph, prune>>

----------------------------------------------------------------------------
\* Validate, after a sort that found no cycle.

\* dfsReachable: what n steps reach.
Reachable(g) ==
    LET within[n \in 0..Cardinality(g.nodes)] ==
            IF n = 0 THEN {g.entry}
            ELSE within[n - 1]
                   \cup {g.edges[i].to : i \in {j \in DOMAIN g.edges :
                                                  g.edges[j].from \in within[n - 1]}}
    IN  within[Cardinality(g.nodes)]

Valid(g, acyclic) ==
    g.entry \in g.nodes /\ acyclic /\ g.nodes \subseteq Reachable(g)

----------------------------------------------------------------------------
\* AFlowOptimizer.pruneLeafNodes: the nodes without successors, but the
\* entry, are removed one after the other if that costs no score.

Leaves(g) == {n \in g.nodes \ {g.entry} : Adjacent(g, n) = <<>>}

PruneBegins ==
    /\ sort.pc = "sorted" /\ ~prune.on
    /\ prune' = [leaves |-> Leaves(graph), valid |-> Valid(graph, TRUE), on |-> TRUE]
    /\ UNCHANGED <<graph, sort>>

PruneLeaf(n) ==
    /\ prune.on /\ n \in prune.leaves
    /\ prune' = [prune EXCEPT !.leaves = @ \ {n}]
    /\ \/ Edit(Without(graph, n))
       \/ UNCHANGED <<graph, sort>>

PruneEnds ==
    /\ prune.on /\ prune.leaves = {} /\ sort.pc # "queue"
    /\ prune' = NoPrune
    /\ UNCHANGED <<graph, sort>>

Progress ==
    \/ Visit \/ SortEnds
    \/ \E n \in NodeIDs : PruneLeaf(n)
    \/ PruneEnds

Next ==
    \/ \E n \in NodeIDs : AddNode(n) \/ SetEntry(n) \/ RemoveNode(n)
    \/ \E a, b \in NodeIDs : AddEdge(a, b)
    \/ SortBegins \/ PruneBegins
    \/ Progress

Spec == Init /\ [][Next]_vars

----------------------------------------------------------------------------
\* Properties.

Precedes(g) == {<<g.edges[i].from, g.edges[i].to>> : i \in DOMAIN g.edges}

\* A cycle: a set of nodes each of which has a successor among them.
Cyclic(g) ==
    \E ns \in (SUBSET g.nodes) \ {{}} : \A a \in ns : \E b \in ns : <<a, b>> \in Precedes(g)

Position(n) == CHOOSE i \in DOMAIN sort.order : sort.order[i] = n

\* The sort fails exactly on graphs with a cycle, also with edges added
\* twice, and otherwise lists every node once, after all that precede it; the
\* entry of a valid graph comes first.
SortIsRight ==
    /\ sort.pc = "cycle" => Cyclic(graph)
    /\ sort.pc = "sorted" =>
         /\ ToSet(sort.order) = graph.nodes
         /\ \A e \in Precedes(graph) : Position(e[1]) < Position(e[2])
         /\ Valid(graph, TRUE) => Head(sort.order) = graph.entry

\* Pruning keeps a valid graph valid, whichever leaves it removes.
PruningKeepsValid ==
    prune.on /\ prune.valid => Valid(graph, ~Cyclic(graph))

SortReturned == sort.pc # "queue" /\ ~prune.on

-----------------------------------------------------------------------------
(***************************************************************************)
(* The rubric evaluator that compares two workflow graphs                  *)
(* (pkg/evolver/workflow_evaluator.go), over the metrics that RecordRun of *)
(* workflow_graph.go keeps.                                                *)
(*                                                                         *)
(* Scores are percent of MaxScore; AvgLatencyMs, AvgCost and the rates are *)
(* kept as sums over the runs, so that they are compared exactly; costs    *)
(* are in 1/1000 dollar.                                                   *)
(***************************************************************************)
CONSTANTS Sizes,      \* nodes plus edges of the compared graphs
          Latencies,  \* of a run, in ms
          Costs,      \* of a run
          MaxRuns     \* bound: runs recorded of a graph

RubricAssumption == {Sizes, Latencies, Costs} \subseteq SUBSET Nat /\ MaxRuns \in Nat

VARIABLES metrics,  \* GraphMetrics of both graphs
          compare   \* a call of CompareGraphs

rubricVars == <<metrics, compare>>

Graphs == {"baseline", "candidate"}

NoRuns(size) == [runs |-> 0, success |-> 0, latency |-> 0, cost |-> 0, size |-> size]

RubricTypeOK ==
    /\ \A g \in Graphs :
         /\ metrics[g].runs \in 0..MaxRuns /\ metrics[g].success \in 0..metrics[g].runs
         /\ metrics[g].size \in Sizes
    /\ compare.pc \in {"idle", "half", "baseline", "candidate"}

RubricInit ==
    /\ \E s \in [Graphs -> Sizes] : metrics = [g \in Graphs |-> NoRuns(s[g])]
    /\ compare = [pc |-> "idle", base |-> NoRuns(0), cand |-> NoRuns(0)]

----------------------------------------------------------------------------
\* The rubric of workflow graphs.

RecordRunTwice(g, ok, latency, cost) == \* mutant: a failed run counts as a success
    /\ metrics[g].runs < MaxRuns /\ compare.pc \in {"idle", "half"}
    /\ LET m == metrics[g]
       IN  metrics' = [metrics EXCEPT ![g] =
             [runs |-> m.runs + 1, success |-> m.success + (IF ok THEN 1 ELSE 2),
              latency |-> m.latency + latency, cost |-> m.cost + cost, size |-> m.size]]
    /\ UNCHANGED compare

\* Runs after the comparison has returned do not matter to it.
RecordRun(g, ok, latency, cost) ==
    /\ metrics[g].runs < MaxRuns /\ compare.pc \in {"idle", "half"}
    /\ LET m == metrics[g]
       IN  metrics' = [metrics EXCEPT ![g] =
             [runs |-> m.runs + 1, success |-> m.success + (IF ok THEN 1 ELSE 0),
              latency |-> m.latency + latency, cost |-> m.cost + cost, size |-> m.size]]
    /\ UNCHANGED compare

\* The mean over the runs is at most b.  There is none before the first run,
\* when the average is zero.
MeanAtMost(sum, runs, b) == sum <= b * runs

\* What a rate divides by: both rates are zero before the first run.
Runs(m) == IF m.runs = 0 THEN 1 ELSE m.runs

LatencyScore(m) ==
    IF MeanAtMost(m.latency, m.runs, 500) THEN 95
    ELSE IF MeanAtMost(m.latency, m.runs, 2000) THEN 70
    ELSE IF MeanAtMost(m.latency, m.runs, 5000) THEN 40 ELSE 50

CostScore(m) ==
    IF MeanAtMost(m.cost, m.runs, 10) THEN 95
    ELSE IF MeanAtMost(m.cost, m.runs, 50) THEN 75
    ELSE IF MeanAtMost(m.cost, m.runs, 100) THEN 50 ELSE 20

SimplicityScoreFlat(m) == \* mutant: small graphs count as large ones
    IF m.size <= 10 THEN 40 ELSE IF m.size <= 20 THEN 60 ELSE IF m.size <= 50 THEN 80 ELSE 50

SimplicityScore(m) ==
    IF m.size <= 5 THEN 95
    ELSE IF m.size <= 10 THEN 80
    ELSE IF m.size <= 20 THEN 60 ELSE IF m.size <= 50 THEN 40 ELSE 50

\* The default rubric, in percent; every MaxScore is the same.
Weight == [completion |-> 30, latency |-> 20, cost |-> 20, errors |-> 15, simplicity |-> 15]

\* EvaluateFull, times Runs(m); the notes of an LLM do not count.
OverallScore(m) ==
    Weight.completion * 100 * m.success
      + Weight.errors * 100 * (Runs(m) - (m.runs - m.success))
      + Runs(m) * (Weight.latency * LatencyScore(m) + Weight.cost * CostScore(m)
                     + Weight.simplicity * SimplicityScore(m))

Above(a, b) == OverallScore(a) * Runs(b) > OverallScore(b) * Runs(a)

\* CompareGraphs reads each graph under its own lock, one after the other;
\* a run may be recorded in between.
CompareBegins ==
    /\ compare.pc = "idle"
    /\ compare' = [compare EXCEPT !.pc = "half", !.base = metrics["baseline"]]
    /\ UNCHANGED metrics

CompareEnds ==
    /\ compare.pc = "half"
    /\ LET cand == metrics["candidate"]
       IN  compare' = [compare EXCEPT !.cand = cand, !.pc =
               IF Above(cand, compare.base) THEN "candidate" ELSE "baseline"]
    /\ UNCHANGED metrics

----------------------------------------------------------------------------

RubricNext ==
    \/ \E g \in Graphs, ok \in BOOLEAN, l \in Latencies, c \in Costs : RecordRun(g, ok, l, c)
    \/ CompareBegins \/ CompareEnds

----------------------------------------------------------------------------
\* Properties.

\* Both have run, and a is no worse than b in any measure the rubric names.
NoWorse(a, b) ==
    /\ a.runs > 0 /\ b.runs > 0
    /\ a.success * b.runs >= b.success * a.runs
    /\ a.latency * b.runs <= b.latency * a.runs
    /\ a.cost * b.runs <= b.cost * a.runs
    /\ a.size <= b.size

Better(a, b) == NoWorse(a, b) /\ (Above(a, b) \/ Above(b, a))

\* A candidate that is no worse than the baseline in any measure, and is not
\* given the same score, wins the comparison.
BetterWins ==
    compare.pc = "baseline" => ~Better(compare.cand, compare.base)

\* The same within the bands in which the scores fall with latency and size:
\* to 5000 ms and 50 nodes and edges.
BetterWinsBelow ==
    /\ compare.pc = "baseline" /\ compare.base.size <= 50
    /\ MeanAtMost(compare.base.latency, compare.base.runs, 5000)
    => ~Better(compare.cand, compare.base)

RubricReturned == compare.pc # "half"

=============================================================================
