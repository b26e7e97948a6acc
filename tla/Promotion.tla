----------------------------- MODULE Promotion ------------------------------
(***************************************************************************)
(* evolver.PromotionPipeline (pkg/evolver/promotion.go): a mutation is     *)
(* submitted, evaluated, approved and promoted, that is, saved as a        *)
(* capsule.  Submit lets go of the mutex while it evaluates and Promote    *)
(* while it saves, so both write to a record that others may have changed  *)
(* or replaced meanwhile.  A second Submit of a mutation puts a new record *)
(* in the table; the first caller keeps the old one.                       *)
(*                                                                         *)
(* A caller is a goroutine in one of these two methods; AutoPromoter adds  *)
(* the steps of Process around them.  Approve, Reject and Rollback hold    *)
(* the mutex throughout and are steps of the reviewers.  The pipeline is   *)
(* configured as AutoPromoter requires: AutoPromoteLowRisk, no RequireHITL.*)
(***************************************************************************)
EXTENDS Integers, Sequences, FiniteSets

CONSTANTS Callers,
          Mutations,
          LowRisk,     \* the mutations with RiskEstimate low
          MaxSubmits,  \* bound: records, one per Submit
          NoMutation

ASSUME PromotionAssumption ==
    /\ LowRisk \subseteq Mutations
    /\ MaxSubmits \in Nat
    /\ NoMutation \notin Mutations

VARIABLES records,   \* every PromotionRecord made, in the order of Submit
          current,   \* p.records: per mutation the index of its record, or 0
          saved,     \* the mutations with a capsule in the store
          caller,    \* per caller: its call
          passed,    \* history: the mutations that passed an evaluation
          broken     \* history: a capsule could not be saved

pipeVars == <<records, current, saved, caller, passed, broken>>

Status == {"pending", "evaluated", "approved", "rejected", "promoted", "rolled_back"}

PC == {"idle", "budget", "cooldown", "submit", "evaluating", "check", "build",
       "promote", "saving", "mark", "note"}

\* auto: the call was made by Process; at: when that began; rec: the record
\* that Submit made or that Promote looked up.
Call == [pc   : PC,
         mut  : Mutations \cup {NoMutation},
         rec  : Nat,
         auto : BOOLEAN,
         at   : Nat]

Idle == [pc |-> "idle", mut |-> NoMutation, rec |-> 0, auto |-> FALSE, at |-> 0]

PipeTypeOK ==
    /\ records \in Seq([mut : Mutations, status : Status])
    /\ current \in [Mutations -> 0..Len(records)]
    /\ saved \subseteq Mutations
    /\ caller \in [Callers -> Call]
    /\ \A c \in Callers : caller[c].rec <= Len(records)
    /\ passed \subseteq Mutations
    /\ broken \in BOOLEAN

PipeInit ==
    /\ records = <<>>
    /\ current = [m \in Mutations |-> 0]
    /\ saved = {}
    /\ caller = [c \in Callers |-> Idle]
    /\ passed = {}
    /\ broken = FALSE

----------------------------------------------------------------------------

At(c, pc) == caller[c].pc = pc
Mut(c)    == caller[c].mut
Goto(c, pc) == caller' = [caller EXCEPT ![c].pc = pc]
Return(c) == caller' = [caller EXCEPT ![c] = Idle]

Known(m)     == current[m] # 0
StatusOf(m)  == records[current[m]].status
SetStatus(i, s) == records' = [records EXCEPT ![i].status = s]

\* The bound on records leaves room for the calls that will submit.
Room == Len(records) + Cardinality({c \in Callers : caller[c].pc
            \in {"budget", "cooldown", "submit"}}) < MaxSubmits

\* A caller of its own accord submits a mutation, or promotes one.
Begin(c, m, pc) ==
    /\ At(c, "idle")
    /\ caller' = [caller EXCEPT ![c] = [Idle EXCEPT !.pc = pc, !.mut = m]]
    /\ UNCHANGED <<records, current, saved, passed, broken>>

\* Submit, up to the evaluation.
Submit(c) ==
    /\ At(c, "submit")
    /\ records' = Append(records, [mut |-> Mut(c), status |-> "pending"])
    /\ current' = [current EXCEPT ![Mut(c)] = Len(records) + 1]
    /\ caller' = [caller EXCEPT ![c].pc = "evaluating", ![c].rec = Len(records) + 1]
    /\ UNCHANGED <<saved, passed, broken>>

EvaluatePassesAnyway(c) == \* mutant: the verdict of the evaluation is not looked at
    /\ At(c, "evaluating")
    /\ \E pass \in BOOLEAN :
        /\ SetStatus(caller[c].rec, IF Mut(c) \in LowRisk THEN "approved" ELSE "evaluated")
        /\ passed' = IF pass THEN passed \cup {Mut(c)} ELSE passed
    /\ IF caller[c].auto THEN Goto(c, "check") ELSE Return(c)
    /\ UNCHANGED <<current, saved, broken>>

\* Submit, after the evaluation: whatever has become of the record.
Evaluate(c) ==
    /\ At(c, "evaluating")
    /\ \/ /\ SetStatus(caller[c].rec, IF Mut(c) \in LowRisk THEN "approved" ELSE "evaluated")
          /\ passed' = passed \cup {Mut(c)}
       \/ /\ SetStatus(caller[c].rec, "rejected")
          /\ UNCHANGED passed
    /\ IF caller[c].auto THEN Goto(c, "check") ELSE Return(c)
    /\ UNCHANGED <<current, saved, broken>>

\* Promote: the record of the mutation must be approved.
Lookup(c) ==
    /\ At(c, "promote")
    /\ IF Known(Mut(c)) /\ StatusOf(Mut(c)) = "approved"
       THEN caller' = [caller EXCEPT ![c].pc = "saving", ![c].rec = current[Mut(c)]]
       ELSE Return(c)
    /\ UNCHANGED <<records, current, saved, passed, broken>>

\* SaveCapsule, outside the mutex; on an error Promote leaves the record.
Save(c) ==
    /\ At(c, "saving")
    /\ \/ saved' = saved \cup {Mut(c)} /\ Goto(c, "mark") /\ UNCHANGED broken
       \/ broken' = TRUE /\ Return(c) /\ UNCHANGED saved
    /\ UNCHANGED <<records, current, passed>>

\* The record found before the save, whatever has become of it.
Mark(c) ==
    /\ At(c, "mark")
    /\ SetStatus(caller[c].rec, "promoted")
    /\ IF caller[c].auto THEN Goto(c, "note") ELSE Return(c)
    /\ UNCHANGED <<current, saved, passed, broken>>

----------------------------------------------------------------------------
\* The reviewers.

Approve(m) ==
    /\ Known(m) /\ StatusOf(m) = "evaluated"
    /\ SetStatus(current[m], "approved")
    /\ UNCHANGED <<current, saved, caller, passed, broken>>

\* From any status.
Reject(m) ==
    /\ Known(m)
    /\ SetStatus(current[m], "rejected")
    /\ UNCHANGED <<current, saved, caller, passed, broken>>

Rollback(m) ==
    /\ Known(m) /\ StatusOf(m) = "promoted"
    /\ SetStatus(current[m], "rolled_back")
    /\ UNCHANGED <<current, saved, caller, passed, broken>>

----------------------------------------------------------------------------
\* Properties.

\* A capsule is in the store only for a mutation that has passed an
\* evaluation, although records are replaced, rejected and overwritten
\* between the check and the save.
SavedHasPassed == saved \subseteq passed

=============================================================================
