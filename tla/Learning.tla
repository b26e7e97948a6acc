------------------------------ MODULE Learning -------------------------------
(***************************************************************************)
(* The learning loop (pkg/uiauto/learning_loop.go) over the self evaluator *)
(* (self_evaluator.go).                                                    *)
(*                                                                         *)
(* Tick holds no lock over its steps: it reads the agent's counters for a  *)
(* score, files the score, reads the counters again for the traces that    *)
(* are mined, feeds the latest score back to the pattern store and files   *)
(* the iteration.  Ticks overlap, the agent goes on acting, and a saved    *)
(* history may be loaded.  A score is its number in the order of filing,   *)
(* the actions and failures it saw and the class of its heal frequency.    *)
(***************************************************************************)
EXTENDS Integers, Sequences, FiniteSets

CONSTANTS Tickers,          \* goroutines that call Tick
          RepeatThreshold,  \* failures from which the miner reports a signal
          MaxHist,
          MaxActions, MaxTicks, MaxLoads   \* bounds

LearningAssumption ==
    /\ IsFiniteSet(Tickers)
    /\ {RepeatThreshold, MaxActions, MaxTicks, MaxLoads} \subseteq Nat /\ MaxHist \in Nat \ {0}

VARIABLES acts,     \* actions the agent executed: all, and those that failed
          filed,    \* scores filed so far
          scores,   \* history of the evaluator
          tick,     \* the call of each ticker
          ended,    \* ticks that ended
          loop,     \* history of the loop
          file,     \* the saved history
          loads,
          fed       \* the score each tick fed back, and what came of it

vars == <<acts, filed, scores, tick, ended, loop, file, loads, fed>>

Score   == [n : 0..MaxTicks, all : 0..MaxActions, failed : 0..MaxActions, heals : {"often", "some", "rare"}]
NoScore == [n |-> 0, all |-> 0, failed |-> 0, heals |-> "some"]
NoTick  == [at |-> "idle", score |-> NoScore, mined |-> 0]

TypeOK ==
    /\ acts \in [all : 0..MaxActions, failed : 0..MaxActions]
    /\ filed \in 0..MaxTicks /\ ended \in 0..MaxTicks /\ loads \in 0..MaxLoads
    /\ \A i \in DOMAIN scores : scores[i] \in Score
    /\ tick \in [Tickers -> [at : {"idle", "measured", "filed", "mined", "fed"},
                             score : Score, mined : 0..MaxActions]]
    /\ \A i \in DOMAIN loop : loop[i].n \in 1..MaxTicks
    /\ fed \in [Tickers -> [own : 0..MaxTicks, used : 0..MaxTicks, did : {"none", "decay", "boost"}]]

Init ==
    /\ acts = [all |-> 0, failed |-> 0]
    /\ filed = 0 /\ ended = 0 /\ loads = 0
    /\ scores = <<>> /\ loop = <<>> /\ file = <<>>
    /\ tick = [t \in Tickers |-> NoTick]
    /\ fed = [t \in Tickers |-> [own |-> 0, used |-> 0, did |-> "none"]]

\* mutant: the oldest entries are kept.
RecentOldest(s) == IF Len(s) > MaxHist THEN SubSeq(s, 1, MaxHist) ELSE s

\* The entries that are kept of a history.
Recent(s) == IF Len(s) > MaxHist THEN SubSeq(s, Len(s) - MaxHist + 1, Len(s)) ELSE s

-----------------------------------------------------------------------------
(* Tick *)

\* The agent executes an action.
Act(failed) ==
    /\ acts.all < MaxActions
    /\ acts' = [all |-> acts.all + 1, failed |-> acts.failed + failed]
    /\ UNCHANGED <<filed, scores, tick, ended, loop, file, loads, fed>>

\* Evaluate computes the score; the heal frequency is one per time elapsed.
Evaluate(t) ==
    /\ tick[t].at = "idle"
    /\ ended + Cardinality({u \in Tickers : tick[u].at # "idle"}) < MaxTicks
    /\ \E h \in {"often", "some", "rare"} :
          tick' = [tick EXCEPT ![t] = [at |-> "measured", mined |-> 0,
                      score |-> [n |-> 0, all |-> acts.all, failed |-> acts.failed, heals |-> h]]]
    /\ UNCHANGED <<acts, filed, scores, ended, loop, file, loads, fed>>

FileScore(t) ==
    LET s == [tick[t].score EXCEPT !.n = filed + 1] IN
    /\ tick[t].at = "measured"
    /\ filed' = filed + 1
    /\ scores' = Recent(Append(scores, s))
    /\ tick' = [tick EXCEPT ![t].at = "filed", ![t].score = s]
    /\ UNCHANGED <<acts, ended, loop, file, loads, fed>>

\* metricsToTraces reads the counters again, one trace per failure ever counted.
\* With signals the engine is run; its error leaves the tick without mutations.
Mine(t) ==
    /\ tick[t].at = "filed"
    /\ tick' = [tick EXCEPT ![t].at = "mined", ![t].mined = acts.failed]
    /\ UNCHANGED <<acts, filed, scores, ended, loop, file, loads, fed>>

Latest == scores[Len(scores)]

\* FeedbackToTracker: the latest score, of this tick or another, decides.
FeedbackToTracker(t) ==
    /\ tick[t].at = "mined"
    /\ tick' = [tick EXCEPT ![t].at = "fed"]
    /\ fed' = IF scores = <<>> THEN fed
              ELSE [fed EXCEPT ![t] = [own |-> tick[t].score.n, used |-> Latest.n,
                       did |-> CASE Latest.heals = "often" -> "decay"
                                 [] Latest.heals = "rare" /\ Latest.failed * 20 < Latest.all -> "boost"
                                 [] OTHER -> "none"]]
    /\ UNCHANGED <<acts, filed, scores, ended, loop, file, loads>>

\* The iteration is filed: its score, and whether signals were mined.
TickEnds(t) ==
    /\ tick[t].at = "fed"
    /\ ended' = ended + 1
    /\ loop' = Recent(Append(loop, [n |-> ended + 1, failed |-> tick[t].score.failed,
                                    signals |-> tick[t].mined >= RepeatThreshold]))
    /\ tick' = [tick EXCEPT ![t] = NoTick]
    /\ UNCHANGED <<acts, filed, scores, file, loads, fed>>

\* SaveHistory copies the history; LoadHistory replaces it.
SaveHistory ==
    /\ scores # <<>> /\ loads < MaxLoads /\ file # scores
    /\ file' = scores
    /\ UNCHANGED <<acts, filed, scores, tick, ended, loop, loads, fed>>

LoadHistory ==
    /\ file # <<>> /\ loads < MaxLoads
    /\ loads' = loads + 1
    /\ scores' = file
    /\ UNCHANGED <<acts, filed, tick, ended, loop, file, fed>>

Next ==
    \/ \E failed \in {0, 1} : Act(failed)
    \/ \E t \in Tickers : \/ Evaluate(t) \/ FileScore(t) \/ Mine(t)
                          \/ FeedbackToTracker(t) \/ TickEnds(t)
    \/ SaveHistory \/ LoadHistory

Progress == \E t \in Tickers :
    FileScore(t) \/ Mine(t) \/ FeedbackToTracker(t) \/ TickEnds(t)

-----------------------------------------------------------------------------
(* Properties *)

\* Histories hold the latest entries in the order of filing, and what a tick
\* feeds back is its own score or one filed after it, unless a saved history
\* was loaded in between.
FeedbackIsCurrent ==
    /\ \A i \in DOMAIN loop : loop[i].n = ended - Len(loop) + i
    /\ Len(loop) <= MaxHist /\ Len(scores) <= MaxHist
    /\ loads = 0 => /\ \A i \in DOMAIN scores : scores[i].n = filed - Len(scores) + i
                    /\ \A t \in Tickers : fed[t].used >= fed[t].own

\* The counters are read for the score and again for the signals: an iteration
\* whose score saw the failures has the signal, though not the reverse.
SignalsFollowScore ==
    \A i \in DOMAIN loop : loop[i].failed >= RepeatThreshold => loop[i].signals

\* Ticks end.
Returned == \A t \in Tickers : tick[t].at = "idle"

-----------------------------------------------------------------------------
(***************************************************************************)
(* The export of an agent's patterns and their import into another agent's *)
(* store (ExportPatterns, ImportPatterns of pkg/uiauto/learning_loop.go).  *)
(* The import loads the store once, compares each pattern of the export    *)
(* with what it loaded and sets patterns one by one, while the agent that  *)
(* owns the store goes on learning.                                        *)
(***************************************************************************)
CONSTANTS Imported,    \* the export to be merged: sequence of [id, conf]
          MaxConf,     \* bound: confidences are 1..MaxConf, 0 is absent
          MaxLearned   \* bound: patterns the agent stores meanwhile

\* An export comes from a map, so it names no pattern twice.
ImportAssumption ==
    /\ MaxConf \in Nat /\ MaxLearned \in Nat
    /\ Imported \in Seq([id : {Imported[i].id : i \in DOMAIN Imported}, conf : 1..MaxConf])
    /\ \A i, j \in DOMAIN Imported : Imported[i].id = Imported[j].id => i = j

VARIABLES patterns, \* confidences in the store
          import,   \* the call of ImportPatterns
          learned,
          start,    \* ghost: patterns when the import loaded them
          alone     \* ghost: did nobody else write patterns since then?

importVars == <<patterns, import, learned, start, alone>>

Ids      == {Imported[i].id : i \in DOMAIN Imported}
NoImport == [at |-> "idle", i |-> 1, seen |-> [k \in Ids |-> 0], merged |-> 0]

ImportTypeOK ==
    /\ patterns \in [Ids -> 0..MaxConf] /\ start \in [Ids -> 0..MaxConf]
    /\ import.at \in {"idle", "merging", "done", "failed"} /\ import.i \in 1..(Len(Imported) + 1)
    /\ learned \in 0..MaxLearned /\ alone \in BOOLEAN

ImportInit ==
    /\ patterns \in [Ids -> 0..MaxConf]
    /\ import = NoImport /\ learned = 0 /\ start = patterns /\ alone = TRUE

ImportBegins ==
    /\ import.at = "idle"
    /\ import' = [import EXCEPT !.at = "merging", !.seen = patterns]
    /\ start' = patterns /\ alone' = TRUE
    /\ UNCHANGED <<patterns, learned>>

\* The store could not be loaded.
ImportFails ==
    /\ import.at = "idle"
    /\ import' = [import EXCEPT !.at = "failed"]
    /\ UNCHANGED <<patterns, learned, start, alone>>

\* mutant: a pattern of equal confidence is taken too, and counted.
SkipsLower(p) == import.seen[p.id] > p.conf

\* The local pattern is as good, by what was loaded.
Skips(p) == import.seen[p.id] >= p.conf

ImportSkips ==
    /\ import.at = "merging" /\ import.i <= Len(Imported)
    /\ Skips(Imported[import.i])
    /\ import' = [import EXCEPT !.i = @ + 1]
    /\ UNCHANGED <<patterns, learned, start, alone>>

\* A Set that fails may have replaced the pattern: in the JSON store it is in the
\* map before the file is written.
ImportSets ==
    LET p == Imported[import.i]
        replaced == [patterns EXCEPT ![p.id] = p.conf] IN
    /\ import.at = "merging" /\ import.i <= Len(Imported)
    /\ ~Skips(p)
    /\ \/ /\ patterns' = replaced
          /\ import' = [import EXCEPT !.i = @ + 1, !.merged = @ + 1]
       \/ /\ patterns' \in {patterns, replaced}
          /\ import' = [import EXCEPT !.at = "failed"]
    /\ UNCHANGED <<learned, start, alone>>

ImportEnds ==
    /\ import.at = "merging" /\ import.i > Len(Imported)
    /\ import' = [import EXCEPT !.at = "done"]
    /\ UNCHANGED <<patterns, learned, start, alone>>

\* Meanwhile the agent stores a pattern of its own.
Learn(k, c) ==
    /\ learned < MaxLearned
    /\ learned' = learned + 1
    /\ patterns' = [patterns EXCEPT ![k] = c]
    /\ alone' = FALSE
    /\ UNCHANGED <<import, start>>

ImportNext ==
    \/ ImportBegins \/ ImportFails \/ ImportSkips \/ ImportSets \/ ImportEnds
    \/ \E k \in Ids, c \in 1..MaxConf : Learn(k, c)

ImportProgress == ImportSkips \/ ImportSets \/ ImportEnds

-----------------------------------------------------------------------------
(* Properties *)

\* An import nobody interferes with takes, of each pattern it came to, the one
\* of higher confidence, counts those it replaced, and stops at an error with a
\* part of the patterns merged: the one whose Set failed may be replaced too, and
\* is not counted.
ImportMerges ==
    alone /\ import.at # "idle" =>
        /\ \A i \in DOMAIN Imported :
              LET p == Imported[i]
                  better == p.conf > start[p.id] IN
              \/ patterns[p.id] = IF i < import.i /\ better THEN p.conf ELSE start[p.id]
              \/ import.at = "failed" /\ i = import.i /\ better /\ patterns[p.id] = p.conf
        /\ import.merged = Cardinality({i \in DOMAIN Imported :
              i < import.i /\ patterns[Imported[i].id] # start[Imported[i].id]})

\* An import ends.
ImportReturned == import.at # "merging"

-----------------------------------------------------------------------------
(***************************************************************************)
(* The maturity of patterns (pkg/uiauto/pattern_maturity_tracker.go).      *)
(* Successes and failures of any number of users arrive in any order; each *)
(* is recorded under the tracker's lock, and a change of level is told to  *)
(* the listeners before the lock is released.  A listener that keeps a     *)
(* picture of the levels stands for them all.  Counters saturate where     *)
(* larger values decide nothing.                                           *)
(***************************************************************************)
CONSTANTS Patterns,
          TestingSuccesses, StableSuccesses, TrustedSuccesses, DegradedFailures

MaturityAssumption ==
    {TestingSuccesses, StableSuccesses, TrustedSuccesses} \subseteq Nat /\ DegradedFailures \in Nat \ {0}

VARIABLES known,    \* patterns the tracker has a record of
          level,
          total,    \* TotalSuccesses
          wins,     \* ConsecutiveSuccesses
          losses,   \* ConsecutiveFailures
          picture,  \* the level each pattern has by the events emitted
          gaps,     \* did an event start from a level the listener did not know?
          regained  \* ghost: successes since the pattern was last degraded

maturityVars == <<known, level, total, wins, losses, picture, gaps, regained>>

Levels == {"new", "testing", "stable", "trusted", "degraded"}

Upto(max, n) == IF n > max THEN max ELSE n

MaturityTypeOK ==
    /\ known \subseteq Patterns
    /\ level \in [Patterns -> Levels] /\ picture \in [Patterns -> Levels]
    /\ total \in [Patterns -> 0..TrustedSuccesses]
    /\ wins \in [Patterns -> 0..TestingSuccesses]
    /\ losses \in [Patterns -> 0..DegradedFailures]
    /\ gaps \in BOOLEAN
    /\ regained \in [Patterns -> 0..(TestingSuccesses + 1)]

MaturityInit ==
    /\ known = {}
    /\ level = [p \in Patterns |-> "new"] /\ picture = level
    /\ total = [p \in Patterns |-> 0]
    /\ wins = [p \in Patterns |-> 0] /\ losses = [p \in Patterns |-> 0]
    /\ gaps = FALSE
    /\ regained = [p \in Patterns |-> TestingSuccesses + 1]

\* An event is emitted when the level changed.
emit(p) ==
    IF level'[p] = level[p] THEN UNCHANGED <<picture, gaps>>
    ELSE /\ picture' = [picture EXCEPT ![p] = level'[p]]
         /\ gaps' = (gaps \/ picture[p] # level[p])

\* mutant: a degraded pattern goes back to the level its successes once earned.
maybePromoteBack(lv, n, streak) ==
    CASE lv = "new" /\ n >= TestingSuccesses -> "testing"
      [] lv = "testing" /\ n >= StableSuccesses -> "stable"
      [] lv = "stable" /\ n >= TrustedSuccesses -> "trusted"
      [] lv = "degraded" /\ streak >= TestingSuccesses ->
            IF n >= StableSuccesses THEN "stable" ELSE "testing"
      [] OTHER -> lv

maybePromote(lv, n, streak) ==
    CASE lv = "new" /\ n >= TestingSuccesses -> "testing"
      [] lv = "testing" /\ n >= StableSuccesses -> "stable"
      [] lv = "stable" /\ n >= TrustedSuccesses -> "trusted"
      [] lv = "degraded" /\ streak >= TestingSuccesses -> "testing"
      [] OTHER -> lv

RecordSuccess(p) ==
    /\ known' = known \cup {p}
    /\ total' = [total EXCEPT ![p] = Upto(TrustedSuccesses, @ + 1)]
    /\ wins' = [wins EXCEPT ![p] = Upto(TestingSuccesses, @ + 1)]
    /\ losses' = [losses EXCEPT ![p] = 0]
    /\ level' = [level EXCEPT ![p] = maybePromote(@, total'[p], wins'[p])]
    /\ regained' = [regained EXCEPT ![p] = Upto(TestingSuccesses + 1, @ + 1)]
    /\ emit(p)

RecordFailure(p) ==
    /\ known' = known \cup {p}
    /\ losses' = [losses EXCEPT ![p] = Upto(DegradedFailures, @ + 1)]
    /\ wins' = [wins EXCEPT ![p] = 0]
    /\ level' = [level EXCEPT ![p] = IF losses'[p] >= DegradedFailures THEN "degraded" ELSE @]
    /\ regained' = [regained EXCEPT ![p] = IF level'[p] = "degraded" THEN 0 ELSE @]
    /\ emit(p)
    /\ UNCHANGED total

SuggestTier(p) ==
    CASE level[p] \in {"stable", "trusted"} -> "light"
      [] level[p] = "degraded" -> "vlm"
      [] OTHER -> "smart"

MaturityNext == \E p \in Patterns : RecordSuccess(p) \/ RecordFailure(p)

-----------------------------------------------------------------------------
(* Properties *)

\* The light tier is suggested only for a pattern that earned StableSuccesses,
\* did not just fail DegradedFailures times in a row and, if it was degraded
\* before, has succeeded more than TestingSuccesses times since.
LightIsEarned ==
    \A p \in Patterns : SuggestTier(p) = "light" =>
        /\ p \in known /\ total[p] >= StableSuccesses
        /\ losses[p] < DegradedFailures
        /\ regained[p] > TestingSuccesses

\* The events tell a listener every change of level, one from the other.
ListenersKnow == picture = level /\ ~gaps

=============================================================================
