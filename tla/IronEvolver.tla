---------------------------- MODULE IronEvolver -----------------------------
(***************************************************************************)
(* evolver.IronEvolver.RunCycle (pkg/evolver/iron_evolver.go) with the     *)
(* EvolutionEngine it asks for mutations and the PromotionPipeline it      *)
(* submits them to.  Cycles of the background loop and of a caller may     *)
(* overlap, and a reviewer may decide about a record at any time, also     *)
(* while its evaluation is under way.                                      *)
(*                                                                         *)
(* A signal is its severity, a mutation its place in engine.mutations.     *)
(* What mining finds, whether the LLM answers and how an evaluation ends   *)
(* are outside.                                                            *)
(***************************************************************************)
EXTENDS Integers, Sequences, FiniteSets, FiniteSetsExt

CONSTANTS Runners,            \* goroutines that call RunCycle
          Limit,              \* MaxMutations, positive
          MaxMutationsPerRun, \* of the engine
          MaxSignals,         \* bound: signals of all minings
          MaxCycles,          \* bound: calls of RunCycle
          Setups              \* the configurations looked at

VARIABLES setup,  \* the configurations of evolver, engine and pipeline
          stats,  \* IronEvolverStats
          muts,   \* engine.mutations, each with its PromotionRecord and, as
                  \* history, everyone who ever approved it
          run     \* per runner: its RunCycle

vars == <<setup, stats, muts, run>>

Severity == {"info", "warning", "critical"}
Risk     == {"low", "medium", "high"}
Status   == {"new", "pending", "evaluated", "approved", "rejected"}
Approver == {"auto_promote", "iron-evolver", "human"}

Configs == [mode : {"repair-only", "harden", "balanced"}, dryRun : BOOLEAN,
            safety : BOOLEAN, hitl : BOOLEAN, autoLow : BOOLEAN]

IronAssumption ==
    /\ IsFiniteSet(Runners) /\ Limit \in Nat \ {0} /\ Setups \subseteq Configs
    /\ {MaxMutationsPerRun, MaxSignals, MaxCycles} \subseteq Nat

Sums == {"cycles", "found", "created", "applied", "errors"}

TypeOK ==
    /\ setup \in Configs
    /\ stats \in [Sums -> Nat]
    /\ muts \in Seq([risk : Risk, status : Status, approved : SUBSET Approver])
    /\ run \in [Runners -> [pc      : {"idle", "mine", "evolve", "loop", "evaluate", "approve"},
                            signals : Seq(Severity),
                            todo    : Seq(Nat),
                            applied : 0..Limit]]

Idle == [pc |-> "idle", signals |-> <<>>, todo |-> <<>>, applied |-> 0]

Init ==
    /\ setup \in Setups
    /\ stats = [s \in Sums |-> 0]
    /\ muts = <<>>
    /\ run = [r \in Runners |-> Idle]

----------------------------------------------------------------------------
\* The engine.

ShouldProcess(sev) ==
    CASE setup.mode = "repair-only" -> sev = "critical"
      [] setup.mode = "harden"      -> sev # "info"
      [] setup.mode = "balanced"    -> TRUE

EstimateRisk(sev) == [critical |-> "high", warning |-> "medium", info |-> "low"][sev]

\* The mutations of Evolve: the first of those signals that the mode lets
\* pass and for which a gene or the LLM has an answer.
Produced(signals, answered) ==
    LET ranked(i) == {j \in answered : j <= i /\ ShouldProcess(signals[j])}
        picked == {i \in answered : ShouldProcess(signals[i])
                                      /\ Cardinality(ranked(i)) <= MaxMutationsPerRun}
        nth(k) == CHOOSE i \in picked : Cardinality(ranked(i)) = k
    IN  [k \in 1..Cardinality(picked) |->
            [risk |-> EstimateRisk(signals[nth(k)]), status |-> "new", approved |-> {}]]

----------------------------------------------------------------------------
\* RunCycle.

At(r, pc) == run[r].pc = pc
Head1(r)  == Head(run[r].todo)
Add(s, n) == stats' = [stats EXCEPT ![s] = @ + n]
Goto(r, pc) == run' = [run EXCEPT ![r].pc = pc]

\* The record of m with a new status, approved by those in "by" as well.
Decided(m, status, by) ==
    [muts EXCEPT ![m] = [risk |-> muts[m].risk, status |-> status,
                         approved |-> muts[m].approved \cup by]]

\* The loop goes on with the next mutation, after n that were applied.
NextMutation(r, n) ==
    run' = [run EXCEPT ![r] = [pc |-> "loop", signals |-> run[r].signals,
                               todo |-> Tail(run[r].todo), applied |-> run[r].applied + n]]

Begin(r) ==
    /\ At(r, "idle") /\ stats["cycles"] < MaxCycles
    /\ Add("cycles", 1)
    /\ Goto(r, "mine")
    /\ UNCHANGED <<setup, muts>>

\* MineSignals fails, or finds signals or none.
MineFails(r) ==
    /\ At(r, "mine")
    /\ Add("errors", 1)
    /\ run' = [run EXCEPT ![r] = Idle]
    /\ UNCHANGED <<setup, muts>>

Mine(r) ==
    /\ At(r, "mine")
    /\ \E n \in 0..(MaxSignals - stats["found"]) : \E signals \in [1..n -> Severity] :
        /\ Add("found", n)
        /\ run' = [run EXCEPT ![r] = IF n = 0 THEN Idle
                                     ELSE [pc |-> "evolve", signals |-> signals, todo |-> <<>>,
                                           applied |-> 0]]
    /\ UNCHANGED <<setup, muts>>

\* Evolve holds the lock of the engine throughout; a dry run ends here.
Evolve(r) ==
    /\ At(r, "evolve")
    /\ \E answered \in SUBSET DOMAIN run[r].signals :
        LET new == Produced(run[r].signals, answered)
        IN  /\ muts' = muts \o new
            /\ Add("created", Len(new))
            /\ run' = [run EXCEPT ![r] =
                  IF setup.dryRun THEN Idle
                  ELSE [pc |-> "loop", signals |-> <<>>,
                        todo |-> [i \in 1..Len(new) |-> Len(muts) + i], applied |-> 0]]
    /\ UNCHANGED setup

Stops(r) == run[r].todo = <<>> \/ run[r].applied >= Limit

SkipsCritical(r) == \* mutant: only a critical risk is blocked
    setup.safety /\ muts[Head1(r)].risk = "critical"

Skips(r) == setup.safety /\ muts[Head1(r)].risk = "high"

\* isHighRisk; the engine estimates no risk above high.
Skip(r) ==
    /\ At(r, "loop") /\ ~Stops(r)
    /\ Skips(r)
    /\ NextMutation(r, 0)
    /\ UNCHANGED <<setup, stats, muts>>

Submit(r) ==
    /\ At(r, "loop") /\ ~Stops(r)
    /\ ~Skips(r)
    /\ muts' = Decided(Head1(r), "pending", {})
    /\ Goto(r, "evaluate")
    /\ UNCHANGED <<setup, stats>>

\* The evaluation ends with an error, or its verdict overwrites the status.
EvaluateFails(r) ==
    /\ At(r, "evaluate")
    /\ NextMutation(r, 0)
    /\ UNCHANGED <<setup, stats, muts>>

Evaluate(r) ==
    LET m == Head1(r)
        auto == setup.autoLow /\ ~setup.hitl /\ muts[m].risk = "low"
    IN  /\ At(r, "evaluate")
        /\ \/ muts' = Decided(m, "rejected", {})
           \/ auto /\ muts' = Decided(m, "approved", {"auto_promote"})
           \/ ~auto /\ muts' = Decided(m, "evaluated", {})
        /\ Goto(r, "approve")
        /\ UNCHANGED <<setup, stats>>

ApproveCounted(r) == \* mutant: counted although the approval was refused
    LET m == Head1(r)
    IN  /\ At(r, "approve")
        /\ IF muts[m].status = "evaluated"
           THEN muts' = Decided(m, "approved", {"iron-evolver"})
           ELSE UNCHANGED muts
        /\ NextMutation(r, 1)
        /\ UNCHANGED <<setup, stats>>

\* A mutation that is still evaluated is approved by the evolver itself; one
\* that was approved already is not counted.
Approve(r) ==
    LET m == Head1(r)
    IN  /\ At(r, "approve")
        /\ IF muts[m].status = "evaluated"
           THEN /\ muts' = Decided(m, "approved", {"iron-evolver"})
                /\ NextMutation(r, 1)
           ELSE /\ NextMutation(r, 0)
                /\ UNCHANGED muts
        /\ UNCHANGED <<setup, stats>>

Finish(r) ==
    /\ At(r, "loop") /\ Stops(r)
    /\ Add("applied", run[r].applied)
    /\ run' = [run EXCEPT ![r] = Idle]
    /\ UNCHANGED <<setup, muts>>

\* A reviewer, who knows a mutation once it was submitted.
HumanApproves(m) ==
    /\ muts[m].status = "evaluated"
    /\ muts' = Decided(m, "approved", {"human"})
    /\ UNCHANGED <<setup, stats, run>>

HumanRejects(m) ==
    /\ muts[m].status \in Status \ {"new", "rejected"}
    /\ muts' = Decided(m, "rejected", {})
    /\ UNCHANGED <<setup, stats, run>>

Progress ==
    \E r \in Runners :
        \/ MineFails(r) \/ Mine(r) \/ Evolve(r)
        \/ Skip(r) \/ Submit(r) \/ EvaluateFails(r) \/ Evaluate(r) \/ Approve(r)
        \/ Finish(r)

Next ==
    \/ \E r \in Runners : Begin(r)
    \/ Progress
    \/ \E m \in DOMAIN muts : HumanApproves(m) \/ HumanRejects(m)

Spec == Init /\ [][Next]_vars

----------------------------------------------------------------------------
\* Properties.

ByEvolver == {m \in DOMAIN muts : "iron-evolver" \in muts[m].approved}

AppliedNow == FoldSet(LAMBDA r, n : n + run[r].applied, 0, Runners)

\* The statistics of overlapping cycles agree with the records: what was
\* applied is what the evolver approved, never more than its limit per cycle,
\* out of mutations that each answer a signal of their own.
StatsAgree ==
    /\ stats["applied"] + AppliedNow = Cardinality(ByEvolver)
    /\ Cardinality(ByEvolver) <= Limit * stats["cycles"]
    /\ Len(muts) = stats["created"] /\ stats["created"] <= stats["found"]

\* iron_evolver.go:23 "SafetyChecks blocks high/critical-risk mutations":
\* such a mutation is never even submitted, so not by a reviewer approved.
HighRiskIsBlocked ==
    setup.safety => \A m \in DOMAIN muts : muts[m].risk = "high" => muts[m].status = "new"

\* promotion.go:45 "conservative defaults (HITL required)": with RequireHITL a
\* mutation is approved by a reviewer only.
HITLRequired ==
    setup.hitl => \A m \in DOMAIN muts : muts[m].approved \subseteq {"human"}

Returned == \A r \in Runners : At(r, "idle")

=============================================================================
