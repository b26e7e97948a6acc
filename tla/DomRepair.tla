----------------------------- MODULE DomRepair ------------------------------
(***************************************************************************)
(* SelectorRepairV2.Repair (pkg/domheal/selector_repair_v2.go): the chain  *)
(* of strategies that look for a replacement of a broken selector, and its *)
(* last resort, a vision model.                                            *)
(*                                                                         *)
(* Which selectors a strategy generates, and how many elements each of     *)
(* them matches on the live page, is any choice; selectors that match      *)
(* nothing or cannot be evaluated leave no candidate.  Confidences are in  *)
(* units of 1/10000.                                                       *)
(***************************************************************************)
EXTENDS Integers, Sequences, FiniteSets

CONSTANTS Counts,      \* numbers of elements a candidate may match
          MaxPerStrategy  \* bound: candidates that match, per strategy

RepairAssumption == Counts \subseteq Nat /\ MaxPerStrategy \in Nat

VARIABLES wired,       \* is a VLM generator attached?
          phase,       \* "chain", "vlm", "report", "over"
          tried,       \* StrategiesTried
          candidates,  \* Candidates: strategy and confidence
          best,        \* BestCandidate, by position, 0 for none
          attempts,    \* RepairAttempts, per strategy
          wins,        \* RepairSuccess, per strategy
          suggested,   \* what the repair log was told: a position, 0 for nothing
          history      \* repairHist of the selector: [best, candidates]

vars == <<wired, phase, tried, candidates, best, attempts, wins, suggested, history>>

Chain      == <<"css", "xpath", "aria", "text_content">>
Range(f)   == {f[x] : x \in DOMAIN f}
Strategies == Range(Chain) \cup {"vlm"}
Confidence == 0..10000
Candidate  == [strategy : Strategies, conf : Confidence]
HighEnough == 8000
None       == [best |-> 0, found |-> 0]

TypeOK ==
    /\ wired \in BOOLEAN /\ phase \in {"chain", "vlm", "report", "over"}
    /\ tried \in 0..(Len(Chain) + 1)
    /\ candidates \in Seq(Candidate)
    /\ best \in 0..Len(candidates) /\ suggested \in 0..Len(candidates)
    /\ attempts \in [Strategies -> 0..1] /\ wins \in [Strategies -> 0..1]

Init ==
    /\ wired \in BOOLEAN
    /\ phase = "chain" /\ tried = 0 /\ candidates = <<>> /\ best = 0 /\ suggested = 0
    /\ attempts = [s \in Strategies |-> 0] /\ wins = attempts
    /\ history = None

Base == [css |-> 9500, xpath |-> 8500, aria |-> 8000, text_content |-> 7000, vlm |-> 6000]

\* Many matches cost confidence, a single one earns some.
strategyConfidence(s, count) ==
    LET conf == (Base[s] * (IF count > 10 THEN 80 ELSE IF count > 5 THEN 90 ELSE 100)) \div 100
        more == (conf * 105) \div 100
    IN  IF count # 1 THEN conf ELSE IF more > 10000 THEN 10000 ELSE more

\* The match counts of the candidates a strategy finds on the page.
Found == UNION {[1..n -> Counts] : n \in 0..MaxPerStrategy}

\* mutant: a later candidate as good as the best replaces it.
BetterOrEqual(list, n, b) == b = 0 \/ list[n].conf >= list[b].conf

Better(list, n, b) == b = 0 \/ list[n].conf > list[b].conf

\* The best of the candidates when those of found are added one by one.
BestOf(list, from, b) ==
    LET best_[n \in from..Len(list)] ==
            IF n = from THEN b
            ELSE IF Better(list, n, best_[n - 1]) THEN n ELSE best_[n - 1]
    IN  best_[Len(list)]

\* The candidates of strategy s are evaluated and kept.
Try(s) ==
    /\ tried' = tried + 1
    /\ attempts' = [attempts EXCEPT ![s] = @ + 1]
    /\ \E found \in Found :
          candidates' = candidates \o [n \in DOMAIN found |->
                           [strategy |-> s, conf |-> strategyConfidence(s, found[n])]]
    /\ best' = BestOf(candidates', Len(candidates), best)

\* Good enough to leave the chain and to spare the vision model?
Settled(list, b) == b # 0 /\ list[b].conf >= HighEnough

Strategy ==
    /\ phase = "chain" /\ tried < Len(Chain)
    /\ Try(Chain[tried + 1])
    /\ phase' = IF Settled(candidates', best') \/ tried + 1 = Len(Chain) THEN "vlm" ELSE "chain"
    /\ UNCHANGED <<wired, wins, suggested, history>>

\* mutant: the vision model is asked whenever it is there.
vlmAlways ==
    /\ phase = "vlm" /\ wired
    /\ Try("vlm")
    /\ phase' = "report"
    /\ UNCHANGED <<wired, wins, suggested, history>>

\* A generator that fails finds nothing.
vlmGen ==
    /\ phase = "vlm" /\ wired /\ ~Settled(candidates, best)
    /\ Try("vlm")
    /\ phase' = "report"
    /\ UNCHANGED <<wired, wins, suggested, history>>

NoVLM ==
    /\ phase = "vlm" /\ (~wired \/ Settled(candidates, best))
    /\ phase' = "report"
    /\ UNCHANGED <<wired, tried, candidates, best, attempts, wins, suggested, history>>

\* recordSuccess, the repair log and the history.
Report ==
    /\ phase = "report"
    /\ phase' = "over"
    /\ IF best = 0 THEN UNCHANGED <<wins, suggested>>
       ELSE /\ wins' = [wins EXCEPT ![candidates[best].strategy] = @ + 1]
            /\ suggested' = best
    /\ history' = [best |-> best, found |-> Len(candidates)]
    /\ UNCHANGED <<wired, tried, candidates, best, attempts>>

Next == Strategy \/ vlmGen \/ NoVLM \/ Report

Progress == Next

-----------------------------------------------------------------------------
(* Properties *)

\* What Repair returns is the most confident candidate, and of equal ones the
\* one that came first, whatever the order in which the strategies found them.
BestIsFirstOfBest ==
    IF candidates = <<>> THEN best = 0
    ELSE /\ best # 0
         /\ \A n \in DOMAIN candidates :
               /\ candidates[n].conf <= candidates[best].conf
               /\ n < best => candidates[n].conf < candidates[best].conf

\* A strategy is tried only if nothing before it was good enough, so the chain
\* goes in its order, a later strategy never wins over a good earlier one, and
\* the vision model is asked exactly when the rest did not suffice.
ChainStopsInTime ==
    LET good(s) == \E n \in DOMAIN candidates :
                       candidates[n].strategy = s /\ candidates[n].conf >= HighEnough IN
    /\ \A i, j \in DOMAIN Chain : i < j /\ good(Chain[i]) => attempts[Chain[j]] = 0
    /\ \A i, j \in DOMAIN Chain : i < j => attempts[Chain[j]] <= attempts[Chain[i]]
    /\ phase \in {"report", "over"} =>
          (attempts["vlm"] = 1 <=> wired /\ \A n \in DOMAIN candidates :
                                      \/ candidates[n].strategy = "vlm"
                                      \/ candidates[n].conf < HighEnough)
    /\ phase = "over" =>
          /\ history.best = suggested
          /\ \A s \in Strategies :
                wins[s] = (IF suggested # 0 /\ candidates[suggested].strategy = s THEN 1 ELSE 0)

Returned == phase = "over"

-----------------------------------------------------------------------------
(***************************************************************************)
(* The two files of pkg/domheal: the pattern store (pattern_store.go),     *)
(* which reads, changes and writes a map of patterns under its lock, and   *)
(* the repair log (repair_log.go), which reads, extends and writes a list  *)
(* without one.  os.WriteFile empties a file before it fills it, so a      *)
(* process that dies in between leaves a file that cannot be parsed, and   *)
(* an unlocked reader may meet one; every operation of the pattern store   *)
(* fails on such a file, while the log takes it for an empty one.          *)
(***************************************************************************)
CONSTANTS Writers, PageIDs,
          Broken,                  \* what a half-written file holds
          MaxPatterns, MaxEntries, \* bounds: Saves and Deletes, entries appended
          MaxCrashes               \* bound: deaths of the process

FilesAssumption == {MaxPatterns, MaxEntries, MaxCrashes} \subseteq Nat

VARIABLES store,      \* patterns.json: the last pattern of each page, 0 for none
          turn,       \* the operation that holds the pattern store's lock
          log,        \* the file of the repair log
          job,        \* what each writer is doing
          patterns,   \* Saves and Deletes so far; a pattern is the number of its Save
          entries,    \* entries made so far, numbered
          crashes,
          wanted,     \* ghost: pattern of each page after the operations that returned nil
          logged,     \* ghost: entries whose Append returned
          apart       \* ghost: did no two Appends overlap, and none meet a broken file?

filesVars == <<store, turn, log, job, patterns, entries, crashes, wanted, logged, apart>>

storeVars == <<store, turn, patterns, wanted>>
logVars   == <<log, entries, logged, apart>>

NoTurn == [at |-> "free", page |-> CHOOSE p \in PageIDs : TRUE, new |-> 0, map |-> Broken]
NoJob  == [at |-> "idle", entry |-> 0, read |-> <<>>]

FilesTypeOK ==
    /\ store \in [PageIDs -> 0..MaxPatterns] \cup {Broken}
    /\ turn.at \in {"free", "load", "save", "write"} /\ turn.new \in 0..MaxPatterns
    /\ log # Broken => \A n \in DOMAIN log : log[n] \in 1..MaxEntries
    /\ \A w \in Writers : job[w].at \in {"idle", "read", "write", "fill"}
    /\ patterns \in 0..MaxPatterns /\ entries \in 0..MaxEntries /\ crashes \in 0..MaxCrashes
    /\ wanted \in [PageIDs -> 0..MaxPatterns]
    /\ logged \subseteq 1..MaxEntries /\ apart \in BOOLEAN

FilesInit ==
    /\ store = [p \in PageIDs |-> 0] /\ turn = NoTurn
    /\ log = <<>> /\ job = [w \in Writers |-> NoJob]
    /\ patterns = 0 /\ entries = 0 /\ crashes = 0
    /\ wanted = store /\ logged = {} /\ apart = TRUE

-----------------------------------------------------------------------------
(* PatternStore *)

\* Save of a new pattern.
Save(p) ==
    /\ turn.at = "free" /\ patterns < MaxPatterns
    /\ patterns' = patterns + 1
    /\ turn' = [NoTurn EXCEPT !.at = "load", !.page = p, !.new = patterns + 1]
    /\ UNCHANGED <<store, job, crashes, wanted, logVars>>

\* Delete is given up when the pattern is not there.
Delete(p) ==
    /\ turn.at = "free" /\ patterns < MaxPatterns
    /\ patterns' = patterns + 1
    /\ turn' = [NoTurn EXCEPT !.at = "load", !.page = p]
    /\ UNCHANGED <<store, job, crashes, wanted, logVars>>

\* mutant: an unreadable file is taken for an empty one.
loadMapLenient ==
    /\ turn.at = "load"
    /\ turn' = [turn EXCEPT !.at = "save",
                            !.map = IF store = Broken THEN [p \in PageIDs |-> 0] ELSE store]

\* An absent file is an empty map, a broken one an error.
loadMap ==
    /\ turn.at = "load"
    /\ turn' = IF \/ store = Broken
                  \/ turn.new = 0 /\ store[turn.page] = 0
               THEN NoTurn ELSE [turn EXCEPT !.at = "save", !.map = store]

Loaded == loadMap /\ UNCHANGED <<store, job, patterns, crashes, wanted, logVars>>

\* saveMap: MkdirAll may fail before the file is touched; WriteFile empties it.
saveMap(ok) ==
    /\ turn.at = "save"
    /\ turn' = IF ok THEN [turn EXCEPT !.at = "write"] ELSE NoTurn
    /\ store' = IF ok THEN Broken ELSE store
    /\ UNCHANGED <<job, patterns, crashes, wanted, logVars>>

Written ==
    /\ turn.at = "write"
    /\ store' = [turn.map EXCEPT ![turn.page] = turn.new]
    /\ wanted' = [wanted EXCEPT ![turn.page] = turn.new]
    /\ turn' = NoTurn
    /\ UNCHANGED <<job, patterns, crashes, logVars>>

-----------------------------------------------------------------------------
(* RepairLog *)

\* Append begins by reading the file.
Append_(w) ==
    /\ job[w].at = "idle" /\ entries < MaxEntries
    /\ entries' = entries + 1
    /\ job' = [job EXCEPT ![w] = [at |-> "write", entry |-> entries + 1,
                                  read |-> IF log = Broken THEN <<>> ELSE log]]
    /\ apart' = (apart /\ log # Broken /\ \A v \in Writers : job[v].at = "idle")
    /\ UNCHANGED <<log, crashes, logged, storeVars>>

Empty(w) ==
    /\ job[w].at = "write"
    /\ log' = Broken
    /\ job' = [job EXCEPT ![w].at = "fill"]
    /\ UNCHANGED <<crashes, entries, logged, apart, storeVars>>

\* mutant: the file is written without what it held.
FillNew(w) ==
    /\ job[w].at = "fill"
    /\ log' = <<job[w].entry>>
    /\ logged' = logged \cup {job[w].entry}
    /\ job' = [job EXCEPT ![w] = NoJob]
    /\ UNCHANGED <<crashes, entries, apart, storeVars>>

\* Two writes at once may also leave a mixture of both.
Fill(w) ==
    /\ job[w].at = "fill"
    /\ \/ log' = Append(job[w].read, job[w].entry)
       \/ log' = Broken /\ \E v \in Writers \ {w} : job[v].at = "fill"
    /\ logged' = logged \cup {job[w].entry}
    /\ job' = [job EXCEPT ![w] = NoJob]
    /\ UNCHANGED <<crashes, entries, apart, storeVars>>

-----------------------------------------------------------------------------
\* The process dies and another one opens the files.
Crash ==
    /\ crashes < MaxCrashes
    /\ crashes' = crashes + 1
    /\ turn' = NoTurn /\ job' = [w \in Writers |-> NoJob]
    /\ UNCHANGED <<store, log, patterns, entries, wanted, logged, apart>>

FilesNext ==
    \/ \E p \in PageIDs : Save(p) \/ Delete(p)
    \/ Loaded \/ (\E ok \in BOOLEAN : saveMap(ok)) \/ Written
    \/ \E w \in Writers : Append_(w) \/ Empty(w) \/ Fill(w)
    \/ Crash

FilesProgress == \/ Loaded \/ (\E ok \in BOOLEAN : saveMap(ok)) \/ Written
            \/ \E w \in Writers : Empty(w) \/ Fill(w)

-----------------------------------------------------------------------------
(* Properties *)

\* Every pattern that Save reported as stored is in the file, and every one
\* that Delete reported as removed is not, unless the file was broken by a
\* crash: a store that cannot be read is never replaced by one pattern.
StoreKeepsPatterns == turn.at # "write" => store \in {Broken, wanted}

\* The log holds every entry that Append reported, in order, as long as no two
\* Appends overlapped and none found a half-written file.
LogKeepsEntries ==
    apart /\ log # Broken =>
        /\ logged \subseteq Range(log)
        /\ \A m, n \in DOMAIN log : m < n => log[m] < log[n]

FilesReturned == turn.at = "free" /\ \A w \in Writers : job[w].at = "idle"

=============================================================================
