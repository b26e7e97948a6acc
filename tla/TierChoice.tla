----------------------------- MODULE TierChoice -----------------------------
(***************************************************************************)
(* The contextual bandit (pkg/uiauto/bandits/thompson.go) and the snapshot *)
(* the learning loop writes of it (learning_loop.go).  A user selects an   *)
(* arm, works, and reports the outcome: the two calls lock the bandit, the *)
(* work between them does not.  The snapshot reads the total and then the  *)
(* contexts one by one, each under a lock of its own.  The draw of         *)
(* Thompson sampling may be any arm; posteriors are their trials.          *)
(***************************************************************************)
EXTENDS Integers, Sequences, FiniteSets

CONSTANTS Users,          \* goroutines that route actions
          Contexts,       \* sequence of context keys, in the order of the snapshot
          NumArms, WarmupRounds,
          MaxPulls,       \* bound: selections
          MaxResets, MaxSnapshots

BanditAssumption ==
    /\ IsFiniteSet(Users) /\ Users # {}
    /\ Contexts # <<>> /\ Contexts \in Seq({Contexts[i] : i \in DOMAIN Contexts})
    /\ NumArms \in Nat \ {0} /\ WarmupRounds \in Nat
    /\ MaxPulls \in Nat /\ MaxResets \in Nat /\ MaxSnapshots \in Nat

VARIABLES trials,     \* per context and arm
          pulls,      \* totalPulls
          holding,    \* per user: the selection to be reported
          draws,      \* how the last selection of each context was made
          snapshot,   \* the one being written: total, contexts read, trials
          written,    \* the file
          selected, resets, snapshots,
          calm        \* ghost: was the bandit not reset since the snapshot began?

vars == <<trials, pulls, holding, draws, snapshot, written, selected, resets, snapshots, calm>>

Arms  == 1..NumArms
Keys  == {Contexts[i] : i \in DOMAIN Contexts}
Fresh == [a \in Arms |-> 0]
None  == [key |-> Contexts[1], arm |-> 0]
Empty == [total |-> 0, next |-> 0, seen |-> [k \in Keys |-> Fresh]]

Min(S) == CHOOSE x \in S : \A y \in S : x <= y
Max(S) == CHOOSE x \in S : \A y \in S : x >= y
Sum(op(_), S) ==
    LET sum[s \in SUBSET S] ==
            IF s = {} THEN 0
            ELSE LET x == CHOOSE x \in s : TRUE IN op(x) + sum[s \ {x}]
    IN  sum[S]

SumTrials(t) == Sum(LAMBDA k : Sum(LAMBDA a : t[k][a], Arms), Keys)

TypeOK ==
    /\ trials \in [Keys -> [Arms -> 0..MaxPulls]]
    /\ pulls \in 0..MaxPulls
    /\ holding \in [Users -> [key : Keys, arm : 0..NumArms]]
    /\ draws \in [Keys -> {"none", "warmup", "sampled"}]
    /\ snapshot.next \in 0..(Len(Contexts) + 1) /\ snapshot.total \in 0..MaxPulls
    /\ written.next = 0 /\ written.total \in 0..MaxPulls
    /\ selected \in 0..MaxPulls /\ resets \in 0..MaxResets /\ snapshots \in 0..MaxSnapshots
    /\ calm \in BOOLEAN

Init ==
    /\ trials = [k \in Keys |-> Fresh]
    /\ pulls = 0
    /\ holding = [u \in Users |-> None]
    /\ draws = [k \in Keys |-> "none"]
    /\ snapshot = Empty /\ written = Empty
    /\ selected = 0 /\ resets = 0 /\ snapshots = 0
    /\ calm = TRUE

\* mutant: warm-up ends as soon as one arm had its rounds.
WarmingAny(k) == {a \in Arms : \A b \in Arms : trials[k][b] < WarmupRounds}

\* Arms that had too few trials; the first of them is taken.
Warming(k) == {a \in Arms : trials[k][a] < WarmupRounds}

SelectArm(u, k) ==
    /\ holding[u].arm = 0
    /\ selected < MaxPulls
    /\ selected' = selected + 1
    /\ \E a \in IF Warming(k) # {} THEN {Min(Warming(k))} ELSE Arms :
          holding' = [holding EXCEPT ![u] = [key |-> k, arm |-> a]]
    /\ draws' = [draws EXCEPT ![k] = IF Warming(k) # {} THEN "warmup" ELSE "sampled"]
    /\ UNCHANGED <<trials, pulls, snapshot, written, resets, snapshots, calm>>

\* mutant: a context is counted when it is first seen.
UpdateUncounted(u) ==
    LET h == holding[u] IN
    /\ h.arm # 0
    /\ trials' = [trials EXCEPT ![h.key][h.arm] = IF trials[h.key] = Fresh THEN @ ELSE @ + 1]
    /\ pulls' = pulls + 1
    /\ holding' = [holding EXCEPT ![u] = None]
    /\ UNCHANGED <<draws, snapshot, written, selected, resets, snapshots, calm>>

\* The outcome, of a selection made before a Reset too.
Update(u) ==
    LET h == holding[u] IN
    /\ h.arm # 0
    /\ trials' = [trials EXCEPT ![h.key][h.arm] = @ + 1]
    /\ pulls' = pulls + 1
    /\ holding' = [holding EXCEPT ![u] = None]
    /\ UNCHANGED <<draws, snapshot, written, selected, resets, snapshots, calm>>

Reset ==
    /\ resets < MaxResets
    /\ resets' = resets + 1
    /\ trials' = [k \in Keys |-> Fresh]
    /\ pulls' = 0
    /\ draws' = [k \in Keys |-> "none"]
    /\ calm' = FALSE
    /\ UNCHANGED <<holding, snapshot, written, selected, snapshots>>

SnapshotBegins ==
    /\ snapshot.next = 0 /\ snapshots < MaxSnapshots
    /\ snapshots' = snapshots + 1
    /\ snapshot' = [Empty EXCEPT !.total = pulls, !.next = 1]
    /\ calm' = TRUE
    /\ UNCHANGED <<trials, pulls, holding, draws, written, selected, resets>>

Stats ==
    /\ snapshot.next \in DOMAIN Contexts
    /\ snapshot' = [snapshot EXCEPT !.seen[Contexts[snapshot.next]] = trials[Contexts[snapshot.next]],
                                    !.next = @ + 1]
    /\ UNCHANGED <<trials, pulls, holding, draws, written, selected, resets, snapshots, calm>>

\* The file is replaced, or the error is logged and it stays.
SnapshotEnds ==
    /\ snapshot.next > Len(Contexts)
    /\ written' \in {[snapshot EXCEPT !.next = 0], written}
    /\ snapshot' = Empty
    /\ UNCHANGED <<trials, pulls, holding, draws, selected, resets, snapshots, calm>>

Next ==
    \/ \E u \in Users : Update(u) \/ \E k \in Keys : SelectArm(u, k)
    \/ Reset
    \/ SnapshotBegins \/ Stats \/ SnapshotEnds

Progress == Stats \/ SnapshotEnds \/ \E u \in Users : Update(u)

-----------------------------------------------------------------------------
(* Properties *)

\* Arms are drawn by sampling only in a context in which every arm has had its
\* WarmupRounds; until then concurrent users can give an arm at most one trial
\* each more than that, one apiece reported across a Reset included.
WarmupIsBounded ==
    \A k \in Keys :
        /\ draws[k] = "sampled" => \A a \in Arms : trials[k][a] >= WarmupRounds
        /\ draws[k] # "sampled" => \A a \in Arms :
              trials[k][a] < WarmupRounds + Cardinality(Users) * (1 + resets)

\* The total is the sum of the trials, and a snapshot that no Reset fell into
\* never claims more pulls than its contexts show.
SnapshotCovers ==
    /\ pulls = SumTrials(trials)
    /\ snapshot.next > Len(Contexts) /\ calm => snapshot.total <= SumTrials(snapshot.seen)

-----------------------------------------------------------------------------
(***************************************************************************)
(* The budget-aware router (pkg/uiauto/budget/router.go).  SelectTier and  *)
(* RecordCall are two calls, with the model call in between: concurrent    *)
(* users select before the others' costs are recorded.  A cost is the      *)
(* tier's CostPerCall, in cents.                                           *)
(***************************************************************************)
CONSTANTS TierLists,   \* the lists of tiers, of [cost, isLocal], a router may have
          DailyCap, MonthlyCap,
          MaxSelects   \* bound: calls of SelectTier

\* Somebody calls, and a tier that is local costs nothing per call.
BudgetAssumption ==
    /\ IsFiniteSet(Users) /\ Users # {}
    /\ DailyCap \in Nat /\ MonthlyCap \in Nat /\ MaxSelects \in Nat
    /\ \A ts \in TierLists :
          /\ ts \in Seq([cost : Nat, isLocal : BOOLEAN]) /\ ts # <<>>
          /\ \A t \in DOMAIN ts : ts[t].isLocal => ts[t].cost = 0

VARIABLES tiers,       \* cheapest first
          prefer,      \* PreferLocal
          daily, monthly,
          elapsed,     \* has ResetInterval passed since lastReset?
          counts,      \* callCounts
          chosen,      \* per user: index of the selected tier, 0 for none
          refused,     \* did a selection fail?
          selects      \* calls of SelectTier so far

budgetVars == <<tiers, prefer, daily, monthly, elapsed, counts, chosen, refused, selects>>

Index   == DOMAIN tiers
MaxCost == Max({tiers[t].cost : t \in Index})
Pending == Sum(LAMBDA u : IF chosen[u] = 0 THEN 0 ELSE tiers[chosen[u]].cost, Users)

BudgetTypeOK ==
    /\ tiers \in TierLists
    /\ prefer \in BOOLEAN /\ elapsed \in BOOLEAN /\ refused \in BOOLEAN
    /\ daily \in Nat /\ monthly \in Nat
    /\ counts \in [Index -> Nat]
    /\ chosen \in [Users -> Index \cup {0}]
    /\ selects \in 0..MaxSelects

BudgetInit ==
    /\ tiers \in TierLists
    /\ prefer \in BOOLEAN
    /\ daily = 0 /\ monthly = 0 /\ elapsed = FALSE
    /\ counts = [t \in Index |-> 0]
    /\ chosen = [u \in Users |-> 0]
    /\ refused = FALSE
    /\ selects = 0

\* mutant: the spend so far is compared with the caps, not the spend to be.
canAffordNow(t, spent) ==
    \/ tiers[t].isLocal
    \/ spent <= DailyCap /\ monthly <= MonthlyCap

canAfford(t, spent) ==
    \/ tiers[t].isLocal
    \/ spent + tiers[t].cost <= DailyCap /\ monthly + tiers[t].cost <= MonthlyCap

\* The spend of the day, forgotten once the interval has passed.
maybeReset == daily' = (IF elapsed THEN 0 ELSE daily) /\ elapsed' = FALSE

\* The first tier that is local and preferred, or affordable.
SelectTier(u) ==
    LET viable == {t \in Index : (prefer /\ tiers[t].isLocal) \/ canAfford(t, daily')} IN
    /\ chosen[u] = 0
    /\ selects < MaxSelects
    /\ selects' = selects + 1
    /\ maybeReset
    /\ chosen' = [chosen EXCEPT ![u] = IF viable = {} THEN 0 ELSE Min(viable)]
    /\ refused' = (viable = {})
    /\ UNCHANGED <<tiers, prefer, monthly, counts>>

RecordCall(u) ==
    LET t == chosen[u] IN
    /\ t # 0
    /\ daily' = daily + tiers[t].cost
    /\ monthly' = monthly + tiers[t].cost
    /\ counts' = [counts EXCEPT ![t] = @ + 1]
    /\ chosen' = [chosen EXCEPT ![u] = 0]
    /\ UNCHANGED <<tiers, prefer, elapsed, refused, selects>>

IntervalPasses ==
    /\ ~elapsed /\ selects < MaxSelects
    /\ elapsed' = TRUE
    /\ UNCHANGED <<tiers, prefer, daily, monthly, counts, chosen, refused, selects>>

BudgetNext ==
    \/ IntervalPasses
    \/ \E u \in Users : SelectTier(u) \/ RecordCall(u)

BudgetProgress == \E u \in Users : RecordCall(u)

-----------------------------------------------------------------------------
(* Properties *)

\* Selections are made before the cost of the calls under way is recorded, so
\* the caps are exceeded by at most one call of each of the other users, a
\* reset of the day in between included; the month is never forgotten.
SpendIsBounded ==
    LET slack == (Cardinality(Users) - 1) * MaxCost IN
    /\ daily + Pending <= DailyCap + slack
    /\ monthly + Pending <= MonthlyCap + slack
    /\ monthly = Sum(LAMBDA t : counts[t] * tiers[t].cost, Index)

\* A router with a local tier refuses nobody.
LocalNeverRefuses == refused => \A t \in Index : ~tiers[t].isLocal

=============================================================================
