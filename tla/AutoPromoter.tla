---------------------------- MODULE AutoPromoter ----------------------------
(***************************************************************************)
(* evolver.AutoPromoter (pkg/evolver/auto_promoter.go): Process takes a    *)
(* mutation through the gates (risk and category, rollback budget,         *)
(* cooldown of its signal), then through Submit, the building of a capsule *)
(* and Promote of the pipeline, which human reviewers use at the same      *)
(* time.  The gates are passed one after the other, each under the lock    *)
(* of a.mu, and the cooldown is noted only at the very end.                *)
(*                                                                         *)
(* Time is a clock; Process reads it once, at its beginning.  Mutations of *)
(* a disallowed category or higher risk are turned away before any gate    *)
(* and touch nothing but a counter: they are the ones not in LowRisk here. *)
(***************************************************************************)
EXTENDS Promotion

CONSTANTS SignalOf,      \* [Mutations -> the ID of the signal it answers]
          MaxRollbacks,  \* AutoPromoterConfig.MaxRollbacksPerDay
          Day,           \* the window of the rollback budget, in ticks
          MinCooldown,   \* MinCooldownPerSignal, in ticks; 0 disables it
          Capsules,      \* the IDs RecordRollback may be told
          MaxClock       \* bound: the clock

\* The instance checked: all mutations answer the same signal.
OneSignal == [m \in Mutations |-> "signal"]

Signals == {SignalOf[m] : m \in Mutations}
Never   == -1

ASSUME AutoPromoterAssumption ==
    /\ MaxRollbacks \in Nat \ {0}
    /\ Day \in Nat \ {0} /\ MinCooldown \in Nat
    /\ MaxClock \in Nat

VARIABLES clock,
          rollbacks,  \* a.rollbacks: what RecordRollback was told
          cooldown,   \* per signal: the time noted, or Never
          late        \* history: per caller the capsules Process saved since
                      \* the budget was exhausted, counted up to 2

autoVars == <<clock, rollbacks, cooldown, late>>
vars == <<pipeVars, autoVars>>

TypeOK ==
    /\ PipeTypeOK
    /\ clock \in 0..MaxClock
    /\ rollbacks \subseteq [capsule : Capsules, at : 0..MaxClock]
    /\ cooldown \in [Signals -> {Never} \cup 0..MaxClock]
    /\ late \in [Callers -> 0..2]

Init ==
    /\ PipeInit
    /\ clock = 0
    /\ rollbacks = {}
    /\ cooldown = [s \in Signals |-> Never]
    /\ late = [c \in Callers |-> 0]

----------------------------------------------------------------------------

\* The rollbacks of the day that ends at t.
Live(t) == {r \in rollbacks : r.at > t - Day}
Exhausted == Cardinality(Live(clock)) >= MaxRollbacks

Process(c, m) ==
    /\ m \in LowRisk
    /\ At(c, "idle")
    /\ Room
    /\ caller' = [caller EXCEPT ![c] =
          [Idle EXCEPT !.pc = "budget", !.mut = m, !.auto = TRUE, !.at = clock]]
    /\ UNCHANGED <<records, current, saved, passed, broken, autoVars>>

BudgetTooShort(c) == \* mutant: the day ends before its last moment
    /\ At(c, "budget")
    /\ rollbacks' = {r \in Live(caller[c].at) : r.at < caller[c].at}
    /\ IF Cardinality(rollbacks') >= MaxRollbacks THEN Return(c) ELSE Goto(c, "cooldown")
    /\ UNCHANGED <<records, current, saved, passed, broken>>
    /\ UNCHANGED <<clock, cooldown, late>>

\* rollbackBudgetExceeded forgets the older rollbacks.
Budget(c) ==
    /\ At(c, "budget")
    /\ rollbacks' = Live(caller[c].at)
    /\ IF Cardinality(rollbacks') >= MaxRollbacks THEN Return(c) ELSE Goto(c, "cooldown")
    /\ UNCHANGED <<records, current, saved, passed, broken>>
    /\ UNCHANGED <<clock, cooldown, late>>

CheckCooldown(c) ==
    LET last == cooldown[SignalOf[Mut(c)]]
    IN  /\ At(c, "cooldown")
        /\ IF last # Never /\ caller[c].at - last < MinCooldown
           THEN Return(c)
           ELSE Goto(c, "submit")
        /\ UNCHANGED <<records, current, saved, passed, broken, autoVars>>

\* The status is read after Submit has let go of the mutex.
Check(c) ==
    /\ At(c, "check")
    /\ IF records[caller[c].rec].status = "approved" THEN Goto(c, "build") ELSE Return(c)
    /\ UNCHANGED <<records, current, saved, passed, broken, autoVars>>

BuildKeeping(c) == \* mutant: a failed build leaves the record approved
    /\ At(c, "build")
    /\ Goto(c, "promote") \/ Return(c)
    /\ UNCHANGED <<records, current, saved, passed, broken, autoVars>>

\* The builder may fail: the mutation's record, whichever that is by now, is
\* rejected.
Build(c) ==
    /\ At(c, "build")
    /\ \/ Goto(c, "promote") /\ UNCHANGED records
       \/ SetStatus(current[Mut(c)], "rejected") /\ Return(c)
    /\ UNCHANGED <<current, saved, passed, broken, autoVars>>

NoteNext(c) == \* mutant: the end of the cooldown is noted, not its beginning
    /\ At(c, "note")
    /\ cooldown' = [cooldown EXCEPT ![SignalOf[Mut(c)]] = caller[c].at + MinCooldown]
    /\ Return(c)
    /\ UNCHANGED <<records, current, saved, passed, broken>>
    /\ UNCHANGED <<clock, rollbacks, late>>

\* a.cooldown[sig.ID] = now, which may be older than what another call noted.
Note(c) ==
    /\ At(c, "note")
    /\ cooldown' = [cooldown EXCEPT ![SignalOf[Mut(c)]] = caller[c].at]
    /\ Return(c)
    /\ UNCHANGED <<records, current, saved, passed, broken>>
    /\ UNCHANGED <<clock, rollbacks, late>>

\* The pipeline's own steps.
SaveStep(c) ==
    /\ Save(c)
    /\ late' = IF caller[c].auto /\ At(c, "mark")' /\ Exhausted
               THEN [late EXCEPT ![c] = IF @ = 0 THEN 1 ELSE 2]
               ELSE late
    /\ UNCHANGED <<clock, rollbacks, cooldown>>

PipeStep(c) ==
    /\ Submit(c) \/ Evaluate(c) \/ Lookup(c) \/ Mark(c)
    /\ UNCHANGED autoVars

\* People submit and promote what the automatic way turns away.
Manual(c, m) ==
    /\ m \notin LowRisk
    /\ \/ Room /\ Begin(c, m, "submit")
       \/ Begin(c, m, "promote")
    /\ UNCHANGED autoVars

Review(m) ==
    /\ Approve(m) \/ Reject(m)
    /\ UNCHANGED autoVars

\* An operator rolls back.
RollBack(m) == Rollback(m) /\ UNCHANGED autoVars

\* RecordRollback is told of the rollback of a capsule, which may be one that
\* an earlier process promoted.  It is told of each rollback once.
RecordRollback ==
    /\ \E id \in Capsules :
          LET entry == [capsule |-> id, at |-> clock]
          IN  entry \notin rollbacks /\ rollbacks' = rollbacks \cup {entry}
    /\ UNCHANGED <<pipeVars, clock, cooldown, late>>

\* Time passes; old rollbacks leave the day.
Tick ==
    /\ clock < MaxClock
    /\ clock' = clock + 1
    /\ late' = IF Cardinality(Live(clock')) >= MaxRollbacks THEN late ELSE [c \in Callers |-> 0]
    /\ UNCHANGED <<pipeVars, rollbacks, cooldown>>

Step(c) ==
    \/ Budget(c) \/ CheckCooldown(c) \/ PipeStep(c) \/ Check(c)
    \/ Build(c) \/ SaveStep(c) \/ Note(c)

Next ==
    \/ \E c \in Callers :
        \/ Step(c)
        \/ \E m \in Mutations : Process(c, m) \/ Manual(c, m)
    \/ \E m \in Mutations : Review(m) \/ RollBack(m)
    \/ RecordRollback
    \/ Tick

Spec == Init /\ [][Next]_vars

----------------------------------------------------------------------------
\* Properties.

\* An exhausted rollback budget stops promotions (auto_promoter.go:43), except
\* that a call past the gate when it closes still saves its capsule: at most
\* one for each caller.
LateOncePerCaller == \A c \in Callers : late[c] <= 1

\* auto_promoter.go:206: no phantom Approved record without a capsule is left
\* behind by Process, unless saving the capsule failed.
NoPhantomApproval ==
    (\A c \in Callers : At(c, "idle")) /\ ~broken
        => \A m \in LowRisk : Known(m) => StatusOf(m) # "approved"

=============================================================================
