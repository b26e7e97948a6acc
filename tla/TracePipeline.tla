--------------------------- MODULE TracePipeline ----------------------------
(***************************************************************************)
(* evolver.TraceBridge, TraceCollector and SignalMiner (trace_bridge.go,   *)
(* trace_collector.go, signal_miner.go of pkg/evolver): traces are         *)
(* recorded into a buffer, flushed to a JSONL file by the background loop, *)
(* by mining and by Stop, and mined for signals from the whole file.       *)
(*                                                                         *)
(* A flush that fails keeps the whole buffer, although lines of it were    *)
(* written; a line cut off by the failure stays at the end of the file,    *)
(* and the next flush writes its first trace behind it, on the same line,  *)
(* which LoadTraces then skips.                                            *)
(*                                                                         *)
(* All traces are of one task, and all failures have the same message.     *)
(* One call records and one mines at a time, beside each other and beside  *)
(* the loop.                                                               *)
(***************************************************************************)
EXTENDS Integers, Sequences, FiniteSets, FiniteSetsExt, SequencesExt

CONSTANTS Traces,          \* what may be recorded, each trace once
          Failures,        \* the traces that failed, with an ErrorMsg
          Slow,            \* those above HighLatencyThresholdMs
          Cost,            \* [Traces -> Nat], CostUSD
          RepeatThreshold, \* RepeatedFailureThreshold, 3 by default
          SpikeFactor,     \* CostSpikeMultiplier, 3 by default
          MaxFaults,       \* bound: flushes that fail
          MaxStarts        \* bound: loops begun

TraceAssumption ==
    /\ IsFiniteSet(Traces) /\ {Failures, Slow} \subseteq SUBSET Traces
    /\ Cost \in [Traces -> Nat]
    /\ {RepeatThreshold, SpikeFactor, MaxFaults, MaxStarts} \subseteq Nat
    /\ "garbage" \notin Traces

VARIABLES buffer,   \* collector.traces
          file,     \* the lines: a trace, or Garbage
          cut,      \* the last line of the file is cut off
          counting, \* a trace is in the buffer and its count is still to come
          counts,   \* b.counts, over all sources
          mark,     \* the lines that a call of MineSignals flushed, or NoMining
          signals,  \* of the last mining
          faults,   \* flushes that failed
          torn,     \* history: how often a line was cut off
          recorded, \* history: the traces recorded
          running,  \* b.running
          closed,   \* b.stopCh is closed
          loops,    \* goroutines of Start that have not ended
          starts,   \* how often Start began a loop
          stop      \* where a call of Stop is

underway == <<counting, mark>>
files == <<buffer, file, cut, underway, counts, signals, faults, torn, recorded>>
cycle == <<running, closed, loops, starts, stop>>

Garbage == "garbage"
NoMining == -1

Signals == [type : {"repeated_failure", "high_latency", "cost_spike", "low_success_rate"},
            severity : {"info", "warning", "critical"}]

TypeOK ==
    /\ buffer \in Seq(Traces)
    /\ file \in Seq(Traces \cup {Garbage})
    /\ cut \in BOOLEAN
    /\ counting \in BOOLEAN /\ counts \in 0..Cardinality(Traces)
    /\ mark \in NoMining..Len(file)
    /\ signals \subseteq Signals
    /\ faults \in 0..MaxFaults /\ torn \in 0..faults
    /\ recorded \subseteq Traces
    /\ running \in BOOLEAN /\ closed \in BOOLEAN
    /\ starts \in 0..MaxStarts /\ loops \in 0..starts
    /\ stop \in {"idle", "flush", "panic"}

Init ==
    /\ buffer = <<>> /\ file = <<>> /\ cut = FALSE
    /\ counting = FALSE /\ mark = NoMining
    /\ counts = 0 /\ signals = {} /\ faults = 0 /\ torn = 0 /\ recorded = {}
    /\ running = FALSE /\ closed = FALSE /\ loops = 0 /\ starts = 0 /\ stop = "idle"

----------------------------------------------------------------------------
\* SignalMiner.Mine: each detector yields at most one signal here.  Where a
\* line is no trace, LoadTraces skips it.

Loaded(lines) == {i \in DOMAIN lines : lines[i] # Garbage}
Runs(lines)   == Cardinality(Loaded(lines))
Total(lines)  == FoldSet(LAMBDA i, n : n + Cost[lines[i]], 0, Loaded(lines))

Count(lines, ts) == Cardinality({i \in DOMAIN lines : lines[i] \in ts})
Signal(found, type, severity) ==
    IF found THEN {[type |-> type, severity |-> severity]} ELSE {}

RepeatedFailures(lines) ==
    LET n == Count(lines, Failures)
    IN  Signal(n >= RepeatThreshold, "repeated_failure",
               IF n >= 2 * RepeatThreshold THEN "critical" ELSE "warning")

\* Ratios above 0.3 and 0.5.
HighLatency(lines) ==
    LET n == Count(lines, Slow)
    IN  Signal(n > 0, "high_latency",
               IF 2 * n > Runs(lines) THEN "critical"
               ELSE IF 10 * n > 3 * Runs(lines) THEN "warning" ELSE "info")

CostSpikesLoose(lines) == \* mutant: compared with the average of the others
    Signal(\E i \in Loaded(lines) :
              Cost[lines[i]] * (Runs(lines) - 1) > SpikeFactor * (Total(lines) - Cost[lines[i]]),
           "cost_spike", "warning")

\* A cost above SpikeFactor times the average, itself included.
CostSpikes(lines) ==
    Signal(Runs(lines) >= 2 /\ Total(lines) > 0
             /\ \E i \in Loaded(lines) :
                  Cost[lines[i]] * Runs(lines) > SpikeFactor * Total(lines),
           "cost_spike", "warning")

\* A success rate below 0.5, from three runs on.
LowSuccessRate(lines) ==
    LET ok == Runs(lines) - Count(lines, Failures)
    IN  Signal(Runs(lines) >= 3 /\ 2 * ok < Runs(lines), "low_success_rate", "critical")

Mine(lines) ==
    RepeatedFailures(lines) \cup HighLatency(lines) \cup CostSpikes(lines)
        \cup LowSuccessRate(lines)

----------------------------------------------------------------------------
\* The collector and the bridge.

\* record of the bridge, for any source and for each check of a report: the
\* collector's Record under its mutex, then the count under the bridge's.
Record(t) ==
    /\ t \notin recorded /\ ~counting
    /\ recorded' = recorded \cup {t}
    /\ buffer' = Append(buffer, t)
    /\ counting' = TRUE
    /\ UNCHANGED <<file, cut, counts, mark, signals, faults, torn, cycle>>

Counted ==
    /\ counting
    /\ counting' = FALSE /\ counts' = counts + 1
    /\ UNCHANGED <<buffer, file, cut, mark, signals, faults, torn, recorded, cycle>>

\* The file with the lines ts behind what it has: the first of them shares a
\* line that was cut off.
Appended(ts) ==
    IF cut /\ ts # <<>> THEN file \o <<Garbage>> \o Tail(ts) ELSE file \o ts

FlushTrimming == \* mutant: what was written is taken from the buffer although cut off
    /\ faults < MaxFaults /\ buffer # <<>>
    /\ faults' = faults + 1
    /\ \E k \in 0..(Len(buffer) - 1) : \E tears \in BOOLEAN :
        /\ file' = Appended(SubSeq(buffer, 1, k))
        /\ cut' = (tears \/ (cut /\ k = 0))
        /\ torn' = IF tears THEN torn + 1 ELSE torn
        /\ buffer' = IF tears THEN SubSeq(buffer, k + 2, Len(buffer)) ELSE buffer

\* Flush fails: the file cannot be opened, or some lines were written and
\* perhaps a part of the next.  The buffer stays.
FlushFails ==
    /\ faults < MaxFaults /\ buffer # <<>>
    /\ faults' = faults + 1
    /\ \E k \in 0..(Len(buffer) - 1) : \E tears \in BOOLEAN :
        /\ file' = Appended(SubSeq(buffer, 1, k))
        /\ cut' = (tears \/ (cut /\ k = 0))
        /\ torn' = IF tears THEN torn + 1 ELSE torn
    /\ UNCHANGED buffer

Flush ==
    /\ file' = Appended(buffer)
    /\ cut' = (cut /\ buffer = <<>>)
    /\ buffer' = <<>>
    /\ UNCHANGED <<faults, torn>>

\* MineSignals flushes, and returns when that fails.
MineSignals ==
    /\ mark = NoMining
    /\ \/ Flush /\ mark' = Len(file')
       \/ FlushFails /\ UNCHANGED mark
    /\ UNCHANGED <<counting, counts, signals, recorded, cycle>>

\* LoadTraces holds no mutex: it reads all that its own flush left, and of what
\* others flushed meanwhile or are flushing as many lines as are there.  No
\* file and no traces are no signals.
LoadTraces ==
    /\ mark # NoMining
    /\ \E n \in mark..Len(file) : signals' = Mine(SubSeq(file, 1, n))
    /\ mark' = NoMining
    /\ UNCHANGED <<buffer, file, cut, counting, counts, faults, torn, recorded, cycle>>

StartAgain == \* mutant: does not look whether it runs
    /\ starts < MaxStarts
    /\ running' = TRUE
    /\ starts' = starts + 1
    /\ loops' = loops + 1
    /\ UNCHANGED <<files, closed, stop>>

\* Start does nothing when it runs; stopCh is never made anew.
Start ==
    /\ ~running /\ starts < MaxStarts
    /\ running' = TRUE
    /\ starts' = starts + 1
    /\ loops' = loops + 1
    /\ UNCHANGED <<files, closed, stop>>

Tick ==
    /\ loops > 0
    /\ Flush \/ FlushFails
    /\ UNCHANGED <<underway, counts, signals, recorded, cycle>>

LoopNeverEnds == \* mutant: the loop does not wait for stopCh
    UNCHANGED <<files, cycle>>

LoopEnds ==
    /\ loops > 0 /\ closed
    /\ loops' = loops - 1
    /\ UNCHANGED <<files, running, closed, starts, stop>>

\* Stop closes stopCh, which panics the second time, and flushes.
Stop ==
    /\ stop = "idle"
    /\ stop' = IF running /\ closed THEN "panic" ELSE "flush"
    /\ closed' = (closed \/ running)
    /\ running' = (running /\ closed)
    /\ UNCHANGED <<files, loops, starts>>

StopFlushes ==
    /\ stop = "flush"
    /\ stop' = "idle"
    /\ Flush \/ FlushFails
    /\ UNCHANGED <<underway, counts, signals, recorded, running, closed, loops, starts>>

Progress == LoopEnds \/ StopFlushes

Next ==
    /\ stop # "panic"
    /\ \/ \E t \in Traces : Record(t)
       \/ Counted
       \/ MineSignals \/ LoadTraces
       \/ Start \/ Tick \/ Stop
       \/ Progress

----------------------------------------------------------------------------
\* Properties.

OnFile == {t \in Traces : \E i \in DOMAIN file : file[i] = t}

\* Every trace recorded is in the buffer or can be loaded, but for one that
\* each cut line may have cost; the bridge counts every recorded trace but one
\* whose call is not yet done; and only failed flushes write a trace twice.
TracesSurvive ==
    /\ Cardinality(recorded \ (OnFile \cup ToSet(buffer))) <= torn
    /\ counts = Cardinality(recorded) - (IF counting THEN 1 ELSE 0)
    /\ \A t \in Traces : Count(file, {t}) <= 1 + faults

\* A signal is earned: one failure written again by a failed flush counts
\* again, but without faults the threshold is met by as many failures, and a
\* cost never stands out of SpikeFactor traces or fewer.
SignalsAreEarned ==
    /\ (\E s \in signals : s.type = "repeated_failure")
           => (1 + faults) * Cardinality(Failures \cap recorded) >= RepeatThreshold
    /\ (\E s \in signals : s.type = "cost_spike")
           => (1 + faults) * Cardinality(recorded) > SpikeFactor

\* Two loops are never at work: a second one begins only after stopCh was
\* closed, which ends both; and only Stop after such a restart panics.
OneLoop ==
    /\ loops > 1 => closed
    /\ stop = "panic" => starts > 1

\* Loops end once stopCh is closed, and Stop returns unless it panics.
Stopped == (closed => loops = 0) /\ stop # "flush"

=============================================================================
