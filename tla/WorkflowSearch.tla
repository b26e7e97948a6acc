--------------------------- MODULE WorkflowSearch ---------------------------
(***************************************************************************)
(* The two searches for a better workflow graph: Optimize of               *)
(* WorkflowOptimizer (pkg/evolver/optimization.go) and OptimizePrompt of   *)
(* TextGradOptimizer (textgrad.go).  An evaluator is an interface, so a    *)
(* score is any of a small set, and an evaluation may fail.  Optimize      *)
(* mutates clones; OptimizePrompt tries its prompts on the caller's graph. *)
(*                                                                         *)
(* A graph and a prompt are versions: a mutation makes a new one, and      *)
(* scored says what the evaluator gave for a version.  Of a prompt only    *)
(* its weaknesses are kept, since they alone decide the gradient.          *)
(***************************************************************************)
EXTENDS Integers, Sequences

CONSTANTS Scores,           \* what an evaluation may give, positive or zero
          Threshold,        \* ImprovementThreshold, in percent
          MaxIterations,
          MutationsPerIteration,
          Quiet             \* iterations without improvement that mean convergence

SearchAssumption ==
    /\ Scores \subseteq Nat /\ Threshold \in Nat \ {0}
    /\ {MaxIterations, MutationsPerIteration, Quiet} \subseteq Nat \ {0}

VARIABLES pc,       \* where the call is, and which search it is
          best,     \* bestSoFar, and the version of working and of BestGraph
          history,  \* ImprovementHistory
          quiet,    \* noImprovementCount
          left,     \* mutations of this iteration still to try
          trial,    \* the version on trial, and the node's weaknesses under it
          held,     \* the prompt version the caller's graph holds
          scored,   \* the score each version was given
          weak,     \* weaknesses of the current prompt
          iter

vars == <<pc, best, history, quiet, left, trial, held, scored, weak, iter>>

Weaknesses == {"steps", "output", "brief", "verbose"}
Bound == MaxIterations * MutationsPerIteration

TypeOK ==
    /\ pc \in {"optimize", "try", "converged", "ended", "cancelled",
               "gradient", "evaluate", "tuned"}
    /\ best \in [score : Scores, version : 0..Bound]
    /\ history \in Seq(Scores) /\ quiet \in 0..Quiet
    /\ left \in 0..MutationsPerIteration
    /\ trial \in 0..Bound + 1 /\ held \in 0..Bound
    /\ scored \in [0..Bound -> Scores \cup {-1}]
    /\ weak \subseteq Weaknesses /\ iter \in 0..MaxIterations

\* A prompt cannot be both too brief and too verbose.  The baseline has been
\* evaluated: a call whose baseline evaluation fails returns an error at once.
Init ==
    \E score \in Scores, w \in SUBSET Weaknesses :
      /\ ~{"brief", "verbose"} \subseteq w
      /\ pc \in {"optimize", "gradient"}
      /\ pc = "optimize" => w = {}
      /\ best = [score |-> score, version |-> 0]
      /\ history = <<score>> /\ quiet = 0 /\ left = 0 /\ trial = 1 /\ held = 0
      /\ scored = [v \in 0..Bound |-> IF v = 0 THEN score ELSE -1]
      /\ weak = w /\ iter = 0

----------------------------------------------------------------------------
\* WorkflowOptimizer.Optimize.

\* improvement >= ImprovementThreshold.
Improves(score) ==
    IF best.score > 0
    THEN (score - best.score) * 100 >= Threshold * best.score
    ELSE score > best.score

Iterate ==
    /\ pc = "optimize" /\ iter < MaxIterations
    /\ pc' = "try" /\ left' = MutationsPerIteration
    /\ UNCHANGED <<best, history, quiet, trial, held, scored, weak, iter>>

\* ctx.Done() is looked at between iterations only; the graph may be empty.
Stop ==
    /\ pc = "optimize"
    /\ pc' \in IF iter < MaxIterations THEN {"cancelled", "ended"} ELSE {"ended"}
    /\ UNCHANGED <<best, history, quiet, left, trial, held, scored, weak, iter>>

\* The end of an iteration: accepted, or out of mutations.
EndIteration(accepted, score) ==
    /\ iter' = iter + 1
    /\ history' = Append(history, score)
    /\ quiet' = IF accepted THEN 0 ELSE quiet + 1
    /\ pc' = IF ~accepted /\ quiet + 1 >= Quiet THEN "converged" ELSE "optimize"
    /\ left' = 0

AcceptedAtOnce(score) == \* mutant: a score that is no worse is accepted
    /\ pc = "try" /\ left > 0 /\ 2 * score >= best.score
    /\ best' = [score |-> score, version |-> trial]
    /\ scored' = [scored EXCEPT ![trial] = score] /\ trial' = trial + 1
    /\ EndIteration(TRUE, score)
    /\ UNCHANGED <<held, weak>>

\* The first candidate that improves enough becomes the graph to go on with.
Accepted(score) ==
    /\ pc = "try" /\ left > 0 /\ Improves(score)
    /\ best' = [score |-> score, version |-> trial]
    /\ scored' = [scored EXCEPT ![trial] = score] /\ trial' = trial + 1
    /\ EndIteration(TRUE, score)
    /\ UNCHANGED <<held, weak>>

Declined(score) ==
    /\ pc = "try" /\ left > 0 /\ ~Improves(score)
    /\ scored' = [scored EXCEPT ![trial] = score] /\ trial' = trial + 1
    /\ left' = left - 1
    /\ UNCHANGED <<pc, best, history, quiet, held, weak, iter>>

\* The mutation or its evaluation failed.
Unscored ==
    /\ pc = "try" /\ left > 0
    /\ left' = left - 1 /\ trial' = trial + 1
    /\ UNCHANGED <<pc, best, history, quiet, held, scored, weak, iter>>

NoneAccepted ==
    /\ pc = "try" /\ left = 0
    /\ EndIteration(FALSE, best.score)
    /\ UNCHANGED <<best, trial, held, scored, weak>>

----------------------------------------------------------------------------
\* TextGradOptimizer.OptimizePrompt.

\* computeGradient and applyGradient: the additions cure what they name, the
\* numbered steps mention an output too, and truncating a verbose prompt may
\* cut off what it said of steps and output.
Cured(w) ==
    LET named == IF "steps" \in w THEN {"steps", "output"} ELSE w
    IN  IF "verbose" \in w THEN SUBSET ({"steps", "output"} \ named) ELSE {{}}

\* The node now holds the new prompt, for the evaluator to see.
Gradient ==
    /\ pc = "gradient" /\ iter < MaxIterations /\ weak # {}
    /\ held' = trial /\ pc' = "evaluate"
    /\ UNCHANGED <<best, history, quiet, left, trial, scored, weak, iter>>

TuneEnds ==
    /\ pc = "gradient" /\ (iter = MaxIterations \/ weak = {})
    /\ pc' = "tuned"
    /\ UNCHANGED <<best, history, quiet, left, trial, held, scored, weak, iter>>

Tuned(score) ==
    /\ pc = "evaluate" /\ best.score > 0 /\ Improves(score)
    /\ best' = [score |-> score, version |-> trial]
    /\ scored' = [scored EXCEPT ![trial] = score]
    /\ trial' = trial + 1 /\ iter' = iter + 1 /\ pc' = "gradient"
    /\ weak' \in Cured(weak)
    /\ UNCHANGED <<history, quiet, left, held>>

RestoreNot == \* mutant: a failed evaluation leaves the new prompt in place
    /\ pc = "evaluate"
    /\ \/ UNCHANGED <<scored, held>>
       \/ \E score \in Scores : ~(best.score > 0 /\ Improves(score))
             /\ scored' = [scored EXCEPT ![trial] = score] /\ held' = best.version
    /\ trial' = trial + 1 /\ iter' = iter + 1 /\ pc' = "gradient"
    /\ UNCHANGED <<best, history, quiet, left, weak>>

\* The evaluation failed or did not improve enough, which no score does for
\* a baseline of zero: the node gets its prompt back.
Restore ==
    /\ pc = "evaluate"
    /\ \/ UNCHANGED scored
       \/ \E score \in Scores : ~(best.score > 0 /\ Improves(score))
             /\ scored' = [scored EXCEPT ![trial] = score]
    /\ held' = best.version
    /\ trial' = trial + 1 /\ iter' = iter + 1 /\ pc' = "gradient"
    /\ UNCHANGED <<best, history, quiet, left, weak>>

Progress ==
    \/ Iterate \/ Unscored \/ NoneAccepted \/ Stop
    \/ \E score \in Scores : Accepted(score) \/ Declined(score) \/ Tuned(score)
    \/ Gradient \/ TuneEnds \/ Restore

Next == Progress

Spec == Init /\ [][Next]_vars /\ WF_vars(Progress)

----------------------------------------------------------------------------
\* Properties.

\* What a search returns was really measured: BestGraph and the optimized
\* prompt carry the score the evaluator gave them, the history never falls
\* and ends with the best score, and an optimizer says it converged exactly
\* when its last three iterations brought nothing.
SearchIsHonest ==
    /\ scored[best.version] = best.score
    /\ pc # "try" /\ history # <<>> =>
         \A i \in 1..Len(history) - 1 : history[i] <= history[i + 1]
    /\ pc \in {"converged", "ended", "cancelled"} =>
         /\ Len(history) = iter + 1 /\ history[Len(history)] = best.score
         /\ (pc = "converged") <=>
              (iter >= Quiet /\ history[Len(history) - Quiet] = best.score)

\* Between two trials, and when it returns, the caller's graph holds the
\* accepted prompt: a trial that failed leaves nothing behind.
PromptRestored == pc \in {"gradient", "tuned"} => held = best.version

Returned == pc \in {"converged", "ended", "cancelled", "tuned"}

=============================================================================
