----------------------------- MODULE Procedures ------------------------------
(***************************************************************************)
(* Four procedures that go through a list, one item after the other, any   *)
(* of which may fail: Sequence.Run with its rollback (action/sequence.go), *)
(* Harness.Run (endurance/harness.go), FallbackChain.Execute with the      *)
(* latency budget (latency_budget.go) and DiscoveryMode.Scan               *)
(* (discovery_mode.go).                                                    *)
(***************************************************************************)
EXTENDS Integers, Sequences, FiniteSets

CONSTANTS Length,       \* steps, cycles per run, tiers, or element types
          Undoable,     \* steps with a Rollback
          MaxRuns,      \* bound: runs of one harness
          MaxElements   \* of the discovery

ProceduresAssumption ==
    Length \in Nat /\ MaxElements \in Nat /\ MaxRuns \in Nat \ {0}

VARIABLES way,     \* the procedure
          i,       \* the item it is at
          status,
          log,     \* what it did, in order
          result,  \* counts of the harness and of the scan, violations of the budget
          handoffs,
          late,    \* has the context expired?
          runs

vars == <<way, i, status, log, result, handoffs, late, runs>>

Ways    == {"sequence", "endurance", "chain", "scan"}
Nothing == [total |-> 0, passed |-> 0, failed |-> 0, violations |-> 0]

TypeOK ==
    /\ way \in Ways
    /\ i \in 0..(Length + 1)
    /\ status \in {"pending", "running", "failed", "completed", "rolled_back"}
    /\ \A n \in DOMAIN log : /\ log[n].did \in {"step", "undo", "cycle", "try", "type"}
                             /\ log[n].item \in 1..Length
    /\ \A f \in DOMAIN result : result[f] \in 0..(MaxRuns * Length)
    /\ \A n \in DOMAIN handoffs : handoffs[n] \in [from : 1..Length, to : 1..Length, success : BOOLEAN]
    /\ late \in BOOLEAN /\ runs \in 0..MaxRuns

Init ==
    /\ way \in Ways
    /\ i = 0 /\ status = "pending" /\ log = <<>> /\ result = Nothing /\ handoffs = <<>>
    /\ late = FALSE /\ runs = 0

Did(what, how) == log' = Append(log, [did |-> what, item |-> i, how |-> how])

\* Run, Execute and Scan begin; a harness keeps its result from run to run, and
\* a scan fails at once if the DOM cannot be captured.
Begin ==
    /\ status = "pending"
    /\ \/ i' = 1 /\ status' = "running"
       \/ way = "scan" /\ status' = "failed" /\ UNCHANGED i
    /\ runs' = runs + 1
    /\ UNCHANGED <<way, log, result, handoffs, late>>

Expires ==
    /\ status = "running" /\ ~late
    /\ late' = TRUE
    /\ UNCHANGED <<way, i, status, log, result, handoffs, runs>>

-----------------------------------------------------------------------------
(* Sequence.Run *)

RunStep ==
    /\ way = "sequence" /\ status = "running" /\ i <= Length
    /\ \E ok \in BOOLEAN :
          /\ Did("step", IF ok THEN "ok" ELSE "error")
          /\ IF ok THEN i' = i + 1 /\ UNCHANGED status
             ELSE status' = "failed" /\ UNCHANGED i
    /\ UNCHANGED <<way, result, handoffs, late, runs>>

\* mutant: the step that failed is not rolled back.
rollbackOthers ==
    /\ way = "sequence" /\ status = "failed" /\ i >= 1
    /\ IF i \in Undoable /\ log[Len(log)].did = "undo"
       THEN \E ok \in BOOLEAN : Did("undo", IF ok THEN "ok" ELSE "error")
       ELSE UNCHANGED log
    /\ i' = i - 1
    /\ UNCHANGED <<way, status, result, handoffs, late, runs>>

\* From the step that failed back to the first; errors are logged only.
rollback ==
    /\ way = "sequence" /\ status = "failed" /\ i >= 1
    /\ IF i \in Undoable THEN \E ok \in BOOLEAN : Did("undo", IF ok THEN "ok" ELSE "error")
       ELSE UNCHANGED log
    /\ i' = i - 1
    /\ UNCHANGED <<way, status, result, handoffs, late, runs>>

RolledBack ==
    /\ way = "sequence" /\ status = "failed" /\ i = 0
    /\ status' = "rolled_back"
    /\ UNCHANGED <<way, i, log, result, handoffs, late, runs>>

-----------------------------------------------------------------------------
(* Harness.Run *)

Cycle ==
    /\ way = "endurance" /\ status = "running" /\ i <= Length /\ ~late
    /\ \E ok \in BOOLEAN :
          /\ result' = [result EXCEPT !.total = @ + 1,
                                      !.passed = IF ok THEN @ + 1 ELSE @,
                                      !.failed = IF ok THEN @ ELSE @ + 1]
          /\ Did("cycle", IF ok THEN "ok" ELSE "error")
    /\ i' = i + 1
    /\ UNCHANGED <<way, status, handoffs, late, runs>>

\* MaxCycles were run or the duration is over; the harness may be run again.
HarnessReturns ==
    /\ way = "endurance" /\ status = "running" /\ (i > Length \/ late)
    /\ status' = IF runs < MaxRuns THEN "pending" ELSE "completed"
    /\ late' = FALSE
    /\ UNCHANGED <<way, i, log, result, handoffs, runs>>

-----------------------------------------------------------------------------
(* FallbackChain.Execute *)

Skip ==
    /\ way = "chain" /\ status = "running" /\ i <= Length
    /\ i' = i + 1
    /\ UNCHANGED <<way, status, log, result, handoffs, late, runs>>

\* The function may overrun the deadline of its tier, whatever it returns.
Record(slow) == result' = [result EXCEPT !.violations = IF slow THEN @ + 1 ELSE @]

Succeeds ==
    /\ way = "chain" /\ status = "running" /\ i <= Length
    /\ \E slow \in BOOLEAN : Record(slow)
    /\ Did("try", "ok")
    /\ handoffs' = IF i > 1 THEN Append(handoffs, [from |-> i - 1, to |-> i, success |-> TRUE])
                   ELSE handoffs
    /\ status' = "completed"
    /\ UNCHANGED <<way, i, late, runs>>

\* mutant: the last tier hands over too.
FailsOver ==
    /\ way = "chain" /\ status = "running" /\ i <= Length
    /\ \E slow \in BOOLEAN : Record(slow)
    /\ Did("try", "error")
    /\ handoffs' = Append(handoffs, [from |-> i, to |-> i, success |-> FALSE])
    /\ i' = i + 1
    /\ UNCHANGED <<way, status, late, runs>>

Fails ==
    /\ way = "chain" /\ status = "running" /\ i <= Length
    /\ \E slow \in BOOLEAN : Record(slow)
    /\ Did("try", "error")
    /\ handoffs' = IF i < Length THEN Append(handoffs, [from |-> i, to |-> i + 1, success |-> FALSE])
                   ELSE handoffs
    /\ i' = i + 1
    /\ UNCHANGED <<way, status, late, runs>>

-----------------------------------------------------------------------------
(* DiscoveryMode.Scan *)

\* mutant: the limit on registrations is that on candidates.
RegistersCounting == result.total <= MaxElements

\* May another element be registered?
Registers == result.passed < MaxElements

\* An element type fails, is a candidate of too little confidence or beyond the
\* limit, cannot be registered, or is registered.
Scan ==
    /\ way = "scan" /\ status = "running" /\ i <= Length /\ ~late
    /\ \/ /\ Did("type", "error")
          /\ result' = [result EXCEPT !.failed = @ + 1]
       \/ /\ Did("type", "candidate")
          /\ result' = [result EXCEPT !.total = @ + 1]
       \/ /\ Registers
          /\ Did("type", "unregistered")
          /\ result' = [result EXCEPT !.total = @ + 1, !.failed = @ + 1]
       \/ /\ Registers
          /\ Did("type", "registered")
          /\ result' = [result EXCEPT !.total = @ + 1, !.passed = @ + 1]
    /\ i' = i + 1
    /\ UNCHANGED <<way, status, handoffs, late, runs>>

\* The scan is over, by its timeout with an error more.
ScanTimesOut ==
    /\ way = "scan" /\ status = "running" /\ i <= Length /\ late
    /\ result' = [result EXCEPT !.failed = @ + 1]
    /\ i' = Length + 1
    /\ UNCHANGED <<way, status, log, handoffs, late, runs>>

\* The list is done.
Ends ==
    /\ way # "endurance" /\ status = "running" /\ i = Length + 1
    /\ status' = IF way = "chain" THEN "failed" ELSE "completed"
    /\ UNCHANGED <<way, i, log, result, handoffs, late, runs>>

Progress ==
    \/ RunStep \/ rollback \/ RolledBack \/ Cycle \/ HarnessReturns
    \/ Skip \/ Succeeds \/ Fails \/ Scan \/ ScanTimesOut \/ Ends

Next == Begin \/ Expires \/ Progress

-----------------------------------------------------------------------------
(* Properties *)

Entries(what, how) == Cardinality({n \in DOMAIN log : log[n].did = what /\ log[n].how \in how})
Failures           == {n \in DOMAIN log : log[n].did # "undo" /\ log[n].how = "error"}
Undos              == {n \in DOMAIN log : log[n].did = "undo"}

\* A sequence that failed has rolled back every step it ran that can be, the
\* failed one first, each once and in reverse order, whatever rollbacks failed.
RollbackIsComplete ==
    way = "sequence" =>
        /\ status = "completed" => Undos = {} /\ Failures = {}
        /\ status = "rolled_back" =>
              \E f \in Failures :
                  /\ Failures = {f}
                  /\ {log[n].item : n \in Undos} = {s \in Undoable : s \in 1..log[f].item}
                  /\ \A m, n \in Undos : m < n => log[m].item > log[n].item

\* The result of a harness, over all of its runs, counts its cycles.
HarnessCounts ==
    way = "endurance" =>
        /\ result.total = result.passed + result.failed
        /\ result.total = Len(log) /\ result.failed = Entries("cycle", {"error"})
        /\ result.total <= runs * Length

\* A chain answers with a tier that succeeded after all it tried before failed;
\* it hands over once per failure but for the last tier, and once to a tier
\* that succeeded, if it was not the first.
ChainIsOrdered ==
    way = "chain" =>
        /\ \A n \in DOMAIN log : log[n].how = "ok" <=> status = "completed" /\ n = Len(log)
        /\ \A n \in DOMAIN handoffs : handoffs[n].to = handoffs[n].from + 1
        /\ Len(handoffs) = Cardinality({n \in DOMAIN log :
                \/ log[n].how = "error" /\ log[n].item < Length
                \/ log[n].how = "ok" /\ log[n].item > 1})
        /\ result.violations <= Len(log)

\* A scan registers at most MaxElements elements, and every element type has
\* an element or an error unless the scan timed out.
ScanAccounts ==
    way = "scan" =>
        /\ result.passed <= MaxElements
        /\ result.passed = Entries("type", {"registered"})
        /\ result.total = Entries("type", {"candidate", "unregistered", "registered"})
        /\ status = "completed" =>
              Len(log) = Length \/ (late /\ result.failed > Entries("type", {"error", "unregistered"}))

Returned == status # "running" /\ (way = "sequence" => status # "failed")

-----------------------------------------------------------------------------
(***************************************************************************)
(* The pool of pkg/uiauto/parallel/pool.go: Run starts workers, hands them *)
(* the tasks through a channel that takes all of them, closes it, and      *)
(* collects results until the workers are gone.  A task's function is the  *)
(* caller's: it may succeed, fail or, once the context is cancelled, give  *)
(* up.  A cancelled context does not keep a worker from the next task.     *)
(***************************************************************************)
CONSTANTS Tasks,     \* sequence of tasks, distinct
          Workers,   \* workers of the pool, as many as are configured
          Idle       \* a worker without a task

VARIABLES started,   \* workers Run has started
          sent,      \* tasks put into taskCh
          queue,     \* taskCh
          shut,      \* is taskCh closed?
          doing,     \* the task of each worker
          gone,      \* workers that returned
          resultCh, collected,
          cancelled, \* is the context cancelled?
          ran,       \* ghost: tasks whose function was called, in order
          over       \* did Run return?

poolVars == <<started, sent, queue, shut, doing, gone, resultCh, collected, cancelled, ran, over>>

Numbers == {Tasks[k] : k \in DOMAIN Tasks}

IsInjective(f) == \A a, b \in DOMAIN f : f[a] = f[b] => a = b

\* WithWorkers takes no pool without a worker.
WorkersAssumption ==
    /\ IsFiniteSet(Workers) /\ Workers # {}
    /\ Tasks \in Seq(Numbers) /\ IsInjective(Tasks) /\ Idle \notin Numbers

Wanted  == IF Cardinality(Workers) < Len(Tasks) THEN Cardinality(Workers) ELSE Len(Tasks)

PoolTypeOK ==
    /\ started \subseteq Workers /\ gone \subseteq started
    /\ sent \in 0..Len(Tasks)
    /\ {shut, cancelled, over} \subseteq BOOLEAN
    /\ doing \in [Workers -> Numbers \cup {Idle}]
    /\ Len(queue) + Len(resultCh) + Len(collected) <= Len(Tasks)

PoolInit ==
    /\ started = {} /\ gone = {} /\ sent = 0
    /\ queue = <<>> /\ shut = FALSE
    /\ doing = [w \in Workers |-> Idle]
    /\ resultCh = <<>> /\ collected = <<>>
    /\ cancelled = FALSE /\ ran = <<>> /\ over = FALSE

StartWorker(w) ==
    /\ Cardinality(started) < Wanted /\ w \notin started
    /\ started' = started \cup {w}
    /\ UNCHANGED <<sent, queue, shut, doing, gone, resultCh, collected, cancelled, ran, over>>

Send ==
    /\ Cardinality(started) = Wanted /\ sent < Len(Tasks)
    /\ sent' = sent + 1
    /\ queue' = Append(queue, Tasks[sent + 1])
    /\ UNCHANGED <<started, shut, doing, gone, resultCh, collected, cancelled, ran, over>>

CloseTasks ==
    /\ sent = Len(Tasks) /\ ~shut
    /\ shut' = TRUE
    /\ UNCHANGED <<started, sent, queue, doing, gone, resultCh, collected, cancelled, ran, over>>

Take(w) ==
    /\ w \in started \ gone /\ doing[w] = Idle /\ queue # <<>>
    /\ doing' = [doing EXCEPT ![w] = Head(queue)]
    /\ queue' = Tail(queue)
    /\ ran' = Append(ran, Head(queue))
    /\ UNCHANGED <<started, sent, shut, gone, resultCh, collected, cancelled, over>>

\* mutant: a worker that finds the context cancelled drops its task.
FinishDropping(w) ==
    /\ doing[w] # Idle
    /\ resultCh' = IF cancelled THEN resultCh
                   ELSE Append(resultCh, [task |-> doing[w], success |-> TRUE])
    /\ doing' = [doing EXCEPT ![w] = Idle]
    /\ UNCHANGED <<started, sent, queue, shut, gone, collected, cancelled, ran, over>>

Finish(w) ==
    /\ doing[w] # Idle
    /\ \E ok \in BOOLEAN : resultCh' = Append(resultCh, [task |-> doing[w], success |-> ok])
    /\ doing' = [doing EXCEPT ![w] = Idle]
    /\ UNCHANGED <<started, sent, queue, shut, gone, collected, cancelled, ran, over>>

WorkerReturns(w) ==
    /\ w \in started \ gone /\ doing[w] = Idle /\ queue = <<>> /\ shut
    /\ gone' = gone \cup {w}
    /\ UNCHANGED <<started, sent, queue, shut, doing, resultCh, collected, cancelled, ran, over>>

Collect ==
    /\ shut /\ resultCh # <<>>
    /\ collected' = Append(collected, Head(resultCh))
    /\ resultCh' = Tail(resultCh)
    /\ UNCHANGED <<started, sent, queue, shut, doing, gone, cancelled, ran, over>>

\* resultCh is closed once all workers are gone, and drained.
RunReturns ==
    /\ shut /\ gone = started /\ resultCh = <<>> /\ ~over
    /\ over' = TRUE
    /\ UNCHANGED <<started, sent, queue, shut, doing, gone, resultCh, collected, cancelled, ran>>

Cancel ==
    /\ ~cancelled /\ ~over
    /\ cancelled' = TRUE
    /\ UNCHANGED <<started, sent, queue, shut, doing, gone, resultCh, collected, ran, over>>

PoolProgress ==
    \/ Send \/ CloseTasks \/ Collect \/ RunReturns
    \/ \E w \in Workers : StartWorker(w) \/ Take(w) \/ Finish(w) \/ WorkerReturns(w)

PoolNext == PoolProgress \/ Cancel

-----------------------------------------------------------------------------
(* Properties *)

\* Whatever the interleaving and whenever the context is cancelled, Run returns
\* one result for each task, of a task that was run once.
EveryTaskHasResult ==
    /\ IsInjective(ran)
    /\ over => /\ Len(collected) = Len(Tasks)
               /\ {collected[k].task : k \in DOMAIN collected} = Numbers

PoolReturned == over

=============================================================================
