------------------------------ MODULE Adoption ------------------------------
(***************************************************************************)
(* How a proposed change gets into the system (pkg/evolver): a batch of    *)
(* capsules run in the sandbox and passed by the human gate (sandbox.go,   *)
(* container_runner.go), a batch of mutations sent through review          *)
(* (review.go), and mutations applied to a file or a threshold and rolled  *)
(* back (applicator.go).  A behaviour follows one of the three.            *)
(***************************************************************************)
EXTENDS Integers, Sequences, FiniteSets

CONSTANTS Capsules,   \* a sequence: the capsules of RunBatch
          Batch,      \* a sequence: the risks of the reviewed mutations
          MaxRisk,    \* MaxAutoApproveRisk
          Mutations,  \* applied to one file or one threshold
          Absent      \* no such file, no such threshold

AdoptionAssumption == Len(Capsules) \in Nat /\ Batch \in Seq(STRING)

VARIABLES way,      \* "sandbox", "review", "config" or "threshold"
          gate,     \* autoApprove of the HITL gate
          live,     \* the context of the batch is not cancelled
          runs,     \* s.results
          granted,  \* g.approvals
          batch,    \* what RunBatch returns
          review,   \* a call of ProcessMutations
          events,   \* saved by the capsule store
          target,   \* the content of the file, or the threshold
          before,   \* BeforeState of a proposed mutation
          stack,    \* applied mutations, with what their rollback writes
          sound     \* no write failed half way, and every rollback was of the
                    \* last mutation, with none proposed that still waits

sandbox == <<gate, live, runs, granted, batch>>
applied == <<target, before, stack, sound>>
vars == <<way, sandbox, review, events, applied>>

TypeOK ==
    /\ runs \in Seq([id : Nat, success : BOOLEAN, container : BOOLEAN])
    /\ granted \in Seq([id : Nat, approved : BOOLEAN])
    /\ batch \in Seq(BOOLEAN) /\ Len(batch) <= Len(Capsules)
    /\ review.pc \in {"review", "returned", "failed"}
    /\ review.next \in 1..Len(Batch) + 1
    /\ events \subseteq [of : DOMAIN Batch, applied : BOOLEAN]
    /\ target \in Mutations \cup {Absent, "old", "torn"}
    /\ stack \in Seq([of : Mutations, old : Mutations \cup {Absent, "old", "torn", "none"}])

Init ==
    /\ way \in {"sandbox", "review", "config", "threshold"}
    /\ gate \in BOOLEAN /\ (way # "sandbox" => gate = FALSE) /\ live = TRUE
    /\ runs = <<>> /\ granted = <<>> /\ batch = <<>>
    /\ review = [pc |-> "review", next |-> 1, decisions |-> <<>>] /\ events = {}
    /\ target \in {"old", Absent}
    /\ before = [m \in Mutations |-> "none"]
    /\ stack = <<>> /\ sound = TRUE

----------------------------------------------------------------------------
\* EvolutionSandbox.

\* The id of the capsule at hand.
Current == Len(batch) + 1
InSandbox == way = "sandbox" /\ Current <= Len(Capsules) /\ UNCHANGED <<way, review, events, applied>>

CancelBatch ==
    /\ InSandbox /\ live
    /\ live' = FALSE
    /\ UNCHANGED <<gate, runs, granted, batch>>

\* A run that is not begun is not recorded.
RunCancelled ==
    /\ InSandbox /\ ~live
    /\ batch' = Append(batch, FALSE)
    /\ UNCHANGED <<gate, live, runs, granted>>

\* The exit code of DockerRunner.Run: the command's own, or what an end by
\* timeout or for memory, or a docker that cannot be started, makes of it.
DockerExit(outcome) ==
    CASE outcome = "done" -> 0 [] outcome = "killed" -> -1 [] OTHER -> 1

Outcomes == {"done", "failed", "killed"}

Success(outcome, container) ==
    IF container THEN DockerExit(outcome) = 0 ELSE outcome = "done"

RunEvolutionUngated(outcome, container) == \* mutant: containers need no approval
    LET success == Success(outcome, container)
    IN  /\ InSandbox /\ live
        /\ runs' = Append(runs, [id |-> Current, success |-> success, container |-> container])
        /\ granted' = IF success /\ ~container
                      THEN Append(granted, [id |-> Current, approved |-> gate]) ELSE granted
        /\ batch' = Append(batch, success /\ (container \/ gate))
        /\ UNCHANGED <<gate, live>>

\* RunEvolution, with mutationFn or in a container, and the review that
\* RunBatch puts behind it.  A rejection is noted in the returned result, not
\* in the recorded one.
RunEvolution(outcome, container) ==
    LET success == Success(outcome, container)
    IN  /\ InSandbox /\ live
        /\ runs' = Append(runs, [id |-> Current, success |-> success, container |-> container])
        /\ granted' = IF success THEN Append(granted, [id |-> Current, approved |-> gate])
                                 ELSE granted
        /\ batch' = Append(batch, success /\ gate)
        /\ UNCHANGED <<gate, live>>

----------------------------------------------------------------------------
\* ReviewGateway with the automatic reviewer or a human one.

riskOrd(r) ==
    CASE r = "low" -> 0 [] r = "medium" -> 1 [] r = "high" -> 2
      [] r = "critical" -> 3 [] OTHER -> 4

\* AutoApproveReviewer; a human may reject instead.
AutoDecision(risk) == IF riskOrd(risk) > riskOrd(MaxRisk) THEN "deferred" ELSE "approved"

InReview == way = "review" /\ review.pc = "review" /\ UNCHANGED <<way, sandbox, applied>>

ReviewOneApplied(decision) == \* mutant: a deferred mutation is recorded as applied
    /\ InReview /\ review.next <= Len(Batch)
    /\ decision \in {AutoDecision(Batch[review.next]), "rejected"}
    /\ review' = [review EXCEPT !.next = @ + 1, !.decisions = Append(@, decision)]
    /\ events' \in {events, events \cup {[of |-> review.next,
                                          applied |-> decision # "rejected"]}}

\* One turn of ProcessMutations.  The event may fail to be saved, which is
\* ignored; the new status is set on the loop's copy of the mutation, so the
\* caller's one keeps the status it had.
ReviewOne(decision) ==
    /\ InReview /\ review.next <= Len(Batch)
    /\ decision \in {AutoDecision(Batch[review.next]), "rejected"}
    /\ review' = [review EXCEPT !.next = @ + 1, !.decisions = Append(@, decision)]
    /\ events' \in {events, events \cup {[of |-> review.next,
                                          applied |-> decision = "approved"]}}

\* The reviewer fails: the responses so far are returned with the error.
ReviewFails ==
    /\ InReview /\ review.next <= Len(Batch)
    /\ review' = [review EXCEPT !.pc = "failed"]
    /\ UNCHANGED events

ReviewReturns ==
    /\ InReview /\ review.next > Len(Batch)
    /\ review' = [review EXCEPT !.pc = "returned"]
    /\ UNCHANGED events

----------------------------------------------------------------------------
\* The applicators.  ConfigMutator and PromptMutator write a file and roll
\* back to the BeforeState that the mutation was proposed with; the
\* ThresholdMutator remembers the value it replaces, 0 for none.

Applying == way \in {"config", "threshold"} /\ UNCHANGED <<way, sandbox, review, events>>

\* Proposed and not applied.
Waiting == {m \in Mutations : before[m] # "none" /\ \A i \in DOMAIN stack : stack[i].of # m}

Propose(m) ==
    /\ Applying /\ before[m] = "none"
    /\ before' = [before EXCEPT ![m] = target]
    /\ UNCHANGED <<target, stack, sound>>

\* What the rollback functions write back.
FileUndo(m) == before[m]
ThresholdUndo == target

ApplyStacked(m) == \* mutant: the file a later mutation left is rolled back to
    /\ Applying /\ m \in Waiting
    /\ target' = m
    /\ stack' = Append(stack, [of |-> m, old |-> IF stack = <<>> THEN m ELSE target])
    /\ UNCHANGED <<before, sound>>

Apply(m) ==
    /\ Applying /\ m \in Waiting
    /\ target' = m
    /\ stack' = Append(stack, [of |-> m, old |-> IF way = "config" THEN FileUndo(m) ELSE ThresholdUndo])
    /\ UNCHANGED <<before, sound>>

\* os.WriteFile empties the file first; when it then fails, the caller gets
\* no rollback function.
ApplyFails(m) ==
    /\ Applying /\ way = "config" /\ m \in Waiting
    /\ target' = "torn" /\ sound' = FALSE
    /\ UNCHANGED <<before, stack>>

\* A caller may roll back any applied mutation; without a BeforeState the
\* file is removed.
Rollback(i) ==
    /\ Applying
    /\ target' = stack[i].old
    /\ sound' = (/\ sound /\ i = Len(stack)
                 /\ way = "threshold" \/ Waiting = {})
    /\ stack' = SubSeq(stack, 1, i - 1) \o SubSeq(stack, i + 1, Len(stack))
    /\ before' = [before EXCEPT ![stack[i].of] = "none"]

\* The write of a rollback fails like any other, and a file that cannot be
\* removed stays; the caller may call the rollback function again.
RollbackFails(i) ==
    /\ Applying /\ way = "config"
    /\ target' \in {target} \cup IF stack[i].old = Absent THEN {} ELSE {"torn", stack[i].old}
    /\ UNCHANGED <<before, stack, sound>>

Progress ==
    \/ RunCancelled
    \/ \E o \in Outcomes, c \in BOOLEAN : RunEvolution(o, c)
    \/ \E d \in {"approved", "deferred", "rejected"} : ReviewOne(d)
    \/ ReviewFails \/ ReviewReturns

Next ==
    \/ CancelBatch
    \/ \E m \in Mutations : Propose(m) \/ Apply(m) \/ ApplyFails(m)
    \/ \E i \in DOMAIN stack : Rollback(i) \/ RollbackFails(i)
    \/ Progress

Spec == Init /\ [][Next]_vars

----------------------------------------------------------------------------
\* Properties.

\* RunBatch calls a capsule a success only after a run of it succeeded and
\* the gate let it through, and every success passed the gate once.
SuccessWasApproved ==
    /\ \A i \in DOMAIN batch : batch[i] =>
         /\ \E j \in DOMAIN runs : runs[j].id = i /\ runs[j].success
         /\ \E j \in DOMAIN granted : granted[j].id = i /\ granted[j].approved
    /\ Len(granted) = Cardinality({i \in DOMAIN runs : runs[i].success})

\* The events of a review say applied exactly of what was approved, and
\* nothing is recorded of a mutation that was not reached, also when the
\* reviewer fails half way.
ReviewIsRecorded ==
    \A e \in events :
        /\ e.of < review.next
        /\ e.applied <=> review.decisions[e.of] = "approved"
        /\ e.applied => riskOrd(Batch[e.of]) <= riskOrd(MaxRisk)

\* Rolling back, last in first out, everything that was applied leaves the
\* file or the threshold as it was, also when a mutation was proposed before
\* others were applied.  (A file mutation proposed before a rollback and
\* applied after it carries a stale BeforeState.)
RollbackRestores ==
    way \in {"config", "threshold"} /\ sound /\ stack = <<>> => target \in {"old", Absent}

Returned ==
    /\ way = "sandbox" => Len(batch) = Len(Capsules)
    /\ way = "review" => review.pc # "review"

=============================================================================
