----------------------------- MODULE DriftAlerts -----------------------------
(***************************************************************************)
(* PatternPipeline with its in-memory stores of alerts and handoffs, and   *)
(* the pattern table of PostgresPatternStore                               *)
(* (pkg/uiauto/postgres_store.go).                                         *)
(*                                                                         *)
(* CheckAndAlert asks the drift detector, which compares and replaces the  *)
(* hash of a page in one step, then reads the pattern, then inserts an     *)
(* alert and calls the handler under the lock of the alerts; statements of *)
(* other goroutines on the table come in between.  A page has one pattern  *)
(* of its own; confidence is in percent, boosts and decays are the ones    *)
(* the callers in pkg/uiauto use.                                          *)
(***************************************************************************)
EXTENDS Integers, Sequences, FiniteSets

CONSTANTS Callers, Sites, Htmls, Unseen, \* goroutines, pages, their contents, no content
          NoRow,                         \* no row in ui_patterns
          Boost,                         \* what BoostConfidence adds
          MaxChecks, MaxUpdates, MaxHandoffs  \* bounds

DriftAssumption ==
    /\ IsFiniteSet(Callers) /\ NoRow \notin Int
    /\ {Boost, MaxChecks, MaxUpdates, MaxHandoffs} \subseteq Nat

VARIABLES hash,      \* hashes of the drift detector
          table,     \* confidence of each pattern
          step,      \* the CheckAndAlert of each caller
          alerts,    \* InMemoryDriftAlertStore.alerts, without their IDs
          ids,       \* the IDs, in the same order
          nextID,
          told,      \* IDs the handler was called with
          handoffs,  \* IDs of InMemoryHandoffStore.handoffs
          checked, updates,
          changes,   \* ghost: changes of each page's content as its checks saw it
          resolved,  \* ghost: IDs ResolveAlert was called with when they existed
          lowest     \* ghost: has DecayConfidence taken a confidence below 5 percent?

vars == <<hash, table, step, alerts, ids, nextID, told, handoffs, checked, updates, changes,
          resolved, lowest>>

alertVars == <<alerts, ids, nextID, told>>

Calm == [at |-> "idle", site |-> CHOOSE s \in Sites : TRUE, conf |-> 0]
DriftSeverity == {"low", "medium", "high", "critical"}

Range(f) == {f[x] : x \in DOMAIN f}

TypeOK ==
    /\ hash \in [Sites -> Htmls \cup {Unseen}]
    /\ table \in [Sites -> 0..100 \cup {NoRow}]
    /\ \A c \in Callers : step[c].at \in {"idle", "get", "insert"} /\ step[c].conf \in 0..100
    /\ \A n \in DOMAIN alerts :
          alerts[n] \in [site : Sites, severity : DriftSeverity, resolved : BOOLEAN]
    /\ nextID \in 0..MaxChecks /\ Range(ids) \subseteq 1..MaxChecks
    /\ checked \in 0..MaxChecks /\ updates \in 0..MaxUpdates
    /\ Range(handoffs) \subseteq 1..MaxHandoffs
    /\ changes \in [Sites -> 0..MaxChecks] /\ resolved \subseteq 1..MaxChecks
    /\ lowest \in BOOLEAN

Init ==
    /\ hash = [s \in Sites |-> Unseen] /\ table = [s \in Sites |-> NoRow]
    /\ step = [c \in Callers |-> Calm]
    /\ alerts = <<>> /\ ids = <<>> /\ nextID = 0 /\ told = <<>> /\ handoffs = <<>>
    /\ checked = 0 /\ updates = 0
    /\ changes = [s \in Sites |-> 0] /\ resolved = {} /\ lowest = FALSE

-----------------------------------------------------------------------------
(* The pattern table: one statement each *)

\* An upsert of a pattern.
SavePattern(s, conf) ==
    /\ updates < MaxUpdates /\ updates' = updates + 1
    /\ table' = [table EXCEPT ![s] = conf]
    /\ UNCHANGED <<hash, step, alertVars, handoffs, checked, changes, resolved, lowest>>

\* mutant: the statement has no lower bound.
DecayConfidenceAll(S) ==
    /\ updates < MaxUpdates /\ updates' = updates + 1
    /\ table' = [s \in Sites |-> IF s \in S /\ table[s] # NoRow
                                 THEN table[s] \div 2 ELSE table[s]]
    /\ lowest' = (lowest \/ \E s \in S : table'[s] # NoRow /\ table'[s] < 5 /\ table[s] >= 5)
    /\ UNCHANGED <<hash, step, alertVars, handoffs, checked, changes, resolved>>

\* The patterns of S were seen before the cutoff; the factor is a half.
DecayConfidence(S) ==
    /\ updates < MaxUpdates /\ updates' = updates + 1
    /\ table' = [s \in Sites |-> IF s \in S /\ table[s] # NoRow /\ table[s] > 10
                                 THEN table[s] \div 2 ELSE table[s]]
    /\ lowest' = (lowest \/ \E s \in S : table'[s] # NoRow /\ table'[s] < 5 /\ table[s] >= 5)
    /\ UNCHANGED <<hash, step, alertVars, handoffs, checked, changes, resolved>>

\* No row, no update, and an error.
BoostConfidence(s) ==
    /\ updates < MaxUpdates /\ updates' = updates + 1
    /\ table' = [table EXCEPT ![s] = IF @ = NoRow THEN @
                                     ELSE IF @ + Boost > 100 THEN 100 ELSE @ + Boost]
    /\ UNCHANGED <<hash, step, alertVars, handoffs, checked, changes, resolved, lowest>>

-----------------------------------------------------------------------------
(* CheckAndAlert *)

\* CheckDrift; without a drift the call is over.
CheckDrift(c, s, h) ==
    LET drifted == hash[s] \notin {Unseen, h} IN
    /\ step[c].at = "idle" /\ checked < MaxChecks
    /\ checked' = checked + 1
    /\ hash' = [hash EXCEPT ![s] = h]
    /\ step' = IF drifted THEN [step EXCEPT ![c] = [Calm EXCEPT !.at = "get", !.site = s]] ELSE step
    /\ changes' = [changes EXCEPT ![s] = IF drifted THEN @ + 1 ELSE @]
    /\ UNCHANGED <<table, alertVars, handoffs, updates, resolved, lowest>>

\* A pattern the store does not have counts as a similarity of 0.
GetPattern(c) ==
    /\ step[c].at = "get"
    /\ step' = [step EXCEPT ![c].at = "insert",
                    ![c].conf = IF table[step[c].site] = NoRow THEN 0 ELSE table[step[c].site]]
    /\ UNCHANGED <<hash, table, alertVars, handoffs, checked, updates, changes, resolved, lowest>>

ClassifyDriftSeverity(similarity) ==
    CASE similarity >= 80 -> "low"
      [] similarity >= 50 -> "medium"
      [] similarity >= 20 -> "high"
      [] OTHER -> "critical"

\* mutant: the number of an alert is how many are unresolved.
InsertCounted(c) ==
    /\ step[c].at = "insert"
    /\ nextID' = 1 + Cardinality({n \in DOMAIN alerts : ~alerts[n].resolved})
    /\ ids' = Append(ids, nextID')
    /\ alerts' = Append(alerts, [site |-> step[c].site, resolved |-> FALSE,
                                 severity |-> ClassifyDriftSeverity(step[c].conf)])
    /\ told' = Append(told, nextID')
    /\ step' = [step EXCEPT ![c] = Calm]
    /\ UNCHANGED <<hash, table, handoffs, checked, updates, changes, resolved, lowest>>

\* The alert gets its ID, is kept, and is told to the handler, under one lock.
Insert(c) ==
    /\ step[c].at = "insert"
    /\ nextID' = nextID + 1
    /\ ids' = Append(ids, nextID')
    /\ alerts' = Append(alerts, [site |-> step[c].site, resolved |-> FALSE,
                                 severity |-> ClassifyDriftSeverity(step[c].conf)])
    /\ told' = Append(told, nextID')
    /\ step' = [step EXCEPT ![c] = Calm]
    /\ UNCHANGED <<hash, table, handoffs, checked, updates, changes, resolved, lowest>>

\* The first alert with the ID; an ID nobody has changes nothing.
Resolve(id) ==
    /\ id \notin resolved
    /\ LET with == {n \in DOMAIN ids : ids[n] = id} IN
          /\ with # {}
          /\ alerts' = [alerts EXCEPT ![CHOOSE n \in with : \A m \in with : n <= m].resolved = TRUE]
          /\ resolved' = resolved \cup {id}
    /\ UNCHANGED <<hash, table, step, ids, nextID, told, handoffs, checked, updates, changes, lowest>>

\* The alerts UnresolvedAlerts returns, by position.
Unresolved == {n \in DOMAIN alerts : ~alerts[n].resolved}

RecordHandoff ==
    /\ Len(handoffs) < MaxHandoffs
    /\ handoffs' = Append(handoffs, Len(handoffs) + 1)
    /\ UNCHANGED <<hash, table, step, alertVars, checked, updates, changes, resolved, lowest>>

\* The last limit handoffs, the newest first.
Recent(limit) ==
    LET n == IF limit > Len(handoffs) THEN Len(handoffs) ELSE limit IN
    [i \in 1..n |-> handoffs[Len(handoffs) - i + 1]]

Next ==
    \/ \E s \in Sites : \E conf \in {15, 90} : SavePattern(s, conf)
    \/ \E S \in SUBSET Sites : S # {} /\ DecayConfidence(S)
    \/ \E s \in Sites : BoostConfidence(s)
    \/ \E c \in Callers :
          \/ \E s \in Sites, h \in Htmls : CheckDrift(c, s, h)
          \/ GetPattern(c)
          \/ Insert(c)
    \/ \E id \in 1..MaxChecks : Resolve(id)
    \/ RecordHandoff

Progress == \E c \in Callers : GetPattern(c) \/ Insert(c)

-----------------------------------------------------------------------------
(* Properties *)

\* Every change of a page makes one alert, whichever of the concurrent checks
\* meets it first; the handler hears of the alerts in the order of their IDs,
\* and an alert nobody resolved is still returned.
OneAlertPerChange ==
    /\ \A s \in Sites :
          changes[s] = Cardinality({n \in DOMAIN alerts : alerts[n].site = s})
                       + Cardinality({c \in Callers : step[c].at # "idle" /\ step[c].site = s})
    /\ told = ids /\ \A n \in DOMAIN ids : ids[n] = n
    /\ {ids[n] : n \in Unresolved} = Range(ids) \ resolved

\* Decay stops at the bound the statement gives, however often it runs, and the
\* newest handoff comes first.
DecayHasFloor ==
    /\ ~lowest
    /\ \A l \in 1..MaxHandoffs : handoffs # <<>> => Recent(l)[1] = handoffs[Len(handoffs)]

Returned == \A c \in Callers : step[c].at = "idle"

=============================================================================
