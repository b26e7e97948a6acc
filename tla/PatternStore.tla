---------------------------- MODULE PatternStore ----------------------------
(***************************************************************************)
(* uiauto.JSONPatternStore (pkg/uiauto/pattern_tracker.go): a map from     *)
(* target to pattern, guarded by an RWMutex and mirrored in one JSON file, *)
(* with the callers that read a pattern in one critical section and write  *)
(* it back in another: PatternTracker.PenalizeConfidence and               *)
(* LightExecutor.executeWithMetrics.                                       *)
(*                                                                         *)
(* Set changes the map under the lock, releases it, and saves under the    *)
(* read lock; Boost and Decay keep the lock over both.  A save truncates   *)
(* the file and then writes it (os.WriteFile), and either half may fail or *)
(* be cut by a crash.  Load reads the file back over the map.              *)
(*                                                                         *)
(* A pattern is its selector and its confidence.  Confidence is a level:   *)
(* 0 is at most 0.1 (never decayed), Full is 1.0, Full + 1 is anything     *)
(* above.  LastSeen decides only which patterns are old enough to decay,   *)
(* so any set of them may be.  Waiting writers do not hold back readers    *)
(* here, which allows more interleavings than Go's RWMutex.                *)
(***************************************************************************)
EXTENDS Integers, FiniteSets

CONSTANTS Workers,    \* goroutines that share the store
          Targets,    \* pattern IDs
          Selectors,
          Full,       \* the level of confidence 1.0
          NoPattern,  \* the map has no such key
          NoTarget    \* the worker is not working on one

ASSUME FullAssumption == Full \in Nat \ {0}

Pattern == [sel : Selectors, conf : 0..(Full + 1)]

ASSUME NoPatternAssumption == NoPattern \notin Pattern
ASSUME NoTargetAssumption == NoTarget \notin Targets

Map == [Targets -> Pattern \cup {NoPattern}]
Empty == [t \in Targets |-> NoPattern]

VARIABLES
    up,      \* the process runs and NewPatternStore succeeded
    mem,     \* s.patterns
    disk,    \* the map in the file, when the file is whole
    file,    \* "absent", "torn" (truncated or partly written) or "whole"
    lock,    \* per worker: its hold on s.mu
    pc,      \* per worker: where it is in its operation
    target,  \* per worker: the key it works on
    copy,    \* per worker: the pattern it read, then the one it set
    buf,     \* per worker: the map its save marshalled
    failed,  \* history: a save failed and none has succeeded since
    hold     \* history: what became of the map entry the worker set

vars == <<up, mem, disk, file, lock, pc, target, copy, buf, failed, hold>>

PC == {"idle",
       "executing",   \* acting in the browser with a pattern read before
       "penalizing",  \* about to write the lowered confidence
       "unsaved",     \* Set: map changed, lock released, not saved
       "saving",      \* marshalled, file not yet opened
       "truncated"}   \* file opened with O_TRUNC, not yet written

TypeOK ==
    /\ up \in BOOLEAN
    /\ mem \in Map
    /\ disk \in Map
    /\ file \in {"absent", "torn", "whole"}
    /\ lock \in [Workers -> {"none", "read", "write"}]
    /\ pc \in [Workers -> PC]
    /\ target \in [Workers -> Targets \cup {NoTarget}]
    /\ copy \in [Workers -> Pattern \cup {NoPattern}]
    /\ buf \in [Workers -> Map]
    /\ failed \in BOOLEAN
    /\ hold \in [Workers -> {"none", "mine", "overwritten", "reloaded"}]

Init ==
    /\ up = TRUE
    /\ mem = Empty
    /\ disk = Empty
    /\ file = "absent"
    /\ lock = [w \in Workers |-> "none"]
    /\ pc = [w \in Workers |-> "idle"]
    /\ target = [w \in Workers |-> NoTarget]
    /\ copy = [w \in Workers |-> NoPattern]
    /\ buf = [w \in Workers |-> Empty]
    /\ failed = FALSE
    /\ hold = [w \in Workers |-> "none"]

----------------------------------------------------------------------------
\* Confidence arithmetic.

\* BoostConfidence: capped at 1.0, also when growth went past it.
Boosted(p) == [p EXCEPT !.conf = IF @ < Full THEN @ + 1 ELSE Full]

PenalizedUnfloored(p) == [p EXCEPT !.conf = @ - 1] \* mutant: no floor

Penalized(p) == [p EXCEPT !.conf = IF @ > 0 THEN @ - 1 ELSE 0]

Decayable(p) == p.conf > 0

\* DecayConfidence(24h, 0.9), and DecayConfidence(0, 1.05), which
\* FeedbackToTracker uses to reward stable patterns: no cap.
Decayed(p) == [p EXCEPT !.conf = @ - 1]
Grown(p)   == [p EXCEPT !.conf = IF @ <= Full THEN @ + 1 ELSE @]

----------------------------------------------------------------------------
\* The RWMutex.

LockFree  == \A w \in Workers : lock[w] = "none"
RLockFree == \A w \in Workers : lock[w] # "write"

\* The other workers' entries that this change of the map replaces.
Overwrites(w, ts) ==
    [v \in Workers |->
        IF v # w /\ hold[v] # "none" /\ target[v] \in ts
        THEN "overwritten" ELSE hold[v]]

----------------------------------------------------------------------------
\* Set, and the operations that end in it.

SetEntryLost(w, t, p) == \* mutant: the changed copy is never put back
    /\ LockFree
    /\ mem' = mem
    /\ target' = [target EXCEPT ![w] = t]
    /\ copy' = [copy EXCEPT ![w] = p]
    /\ pc' = [pc EXCEPT ![w] = "unsaved"]
    /\ hold' = [Overwrites(w, {t}) EXCEPT ![w] = "mine"]
    /\ UNCHANGED <<up, disk, file, lock, buf, failed>>

\* The first half of Set, up to Unlock.
SetEntry(w, t, p) ==
    /\ LockFree
    /\ mem' = [mem EXCEPT ![t] = p]
    /\ target' = [target EXCEPT ![w] = t]
    /\ copy' = [copy EXCEPT ![w] = p]
    /\ pc' = [pc EXCEPT ![w] = "unsaved"]
    /\ hold' = [Overwrites(w, {t}) EXCEPT ![w] = "mine"]
    /\ UNCHANGED <<up, disk, file, lock, buf, failed>>

\* RegisterPattern: a new or healed selector, at full confidence.
Register(w, t, s) ==
    /\ up
    /\ pc[w] = "idle"
    /\ SetEntry(w, t, [sel |-> s, conf |-> Full])

\* Get, by an execution or by PenalizeConfidence.
Get(w, t, use) ==
    /\ up
    /\ pc[w] = "idle"
    /\ RLockFree
    /\ mem[t] # NoPattern
    /\ target' = [target EXCEPT ![w] = t]
    /\ copy' = [copy EXCEPT ![w] = mem[t]]
    /\ pc' = [pc EXCEPT ![w] = use]
    /\ UNCHANGED <<up, mem, disk, file, lock, buf, failed, hold>>

\* The browser action succeeded: Set(pattern) with the pattern read before
\* it, only LastSeen refreshed.
WriteBack(w) ==
    /\ up
    /\ pc[w] = "executing"
    /\ SetEntry(w, target[w], copy[w])

\* Every attempt failed: the structural match reads the store again and
\* writes nothing.
GiveUp(w) ==
    /\ up
    /\ pc[w] = "executing"
    /\ pc' = [pc EXCEPT ![w] = "idle"]
    /\ target' = [target EXCEPT ![w] = NoTarget]
    /\ copy' = [copy EXCEPT ![w] = NoPattern]
    /\ UNCHANGED <<up, mem, disk, file, lock, buf, failed, hold>>

PenalizeConfidence(w) ==
    /\ up
    /\ pc[w] = "penalizing"
    /\ SetEntry(w, target[w], Penalized(copy[w]))

BeginSaveUnlocked(w) == \* mutant: the save does not take the read lock
    /\ up
    /\ pc[w] = "unsaved"
    /\ buf' = [buf EXCEPT ![w] = mem]
    /\ pc' = [pc EXCEPT ![w] = "saving"]
    /\ UNCHANGED <<up, mem, disk, file, lock, target, copy, failed, hold>>

\* Save takes the read lock and marshals.
BeginSave(w) ==
    /\ up
    /\ pc[w] = "unsaved"
    /\ RLockFree
    /\ lock' = [lock EXCEPT ![w] = "read"]
    /\ buf' = [buf EXCEPT ![w] = mem]
    /\ pc' = [pc EXCEPT ![w] = "saving"]
    /\ UNCHANGED <<up, mem, disk, file, target, copy, failed, hold>>

----------------------------------------------------------------------------
\* BoostConfidence and DecayConfidence: change and save under the lock.

\* The map with f applied to the patterns of ts.
Changed(ts, f(_)) == [t \in Targets |-> IF t \in ts THEN f(mem[t]) ELSE mem[t]]

ChangeAndSave(w, ts, map) ==
    /\ up
    /\ pc[w] = "idle"
    /\ LockFree
    /\ mem' = map
    /\ lock' = [lock EXCEPT ![w] = "write"]
    /\ buf' = [buf EXCEPT ![w] = mem']
    /\ pc' = [pc EXCEPT ![w] = "saving"]
    /\ hold' = Overwrites(w, ts)
    /\ UNCHANGED <<up, disk, file, target, copy, failed>>

BoostUnsaved(w, t) == \* mutant: the map changes and nothing is saved
    /\ up
    /\ pc[w] = "idle"
    /\ LockFree
    /\ mem[t] # NoPattern
    /\ mem' = [mem EXCEPT ![t] = Boosted(@)]
    /\ hold' = Overwrites(w, {t})
    /\ UNCHANGED <<up, disk, file, lock, pc, target, copy, buf, failed>>

Boost(w, t) ==
    /\ mem[t] # NoPattern
    /\ ChangeAndSave(w, {t}, Changed({t}, Boosted))

Known == {t \in Targets : mem[t] # NoPattern}

\* The patterns among old that are above 0.1; with none there is no save.
Decay(w, old) ==
    LET ts == {t \in Known \cap old : Decayable(mem[t])}
    IN  ts # {} /\ ChangeAndSave(w, ts, Changed(ts, Decayed))

\* olderThan = 0: every pattern is old enough.
Grow(w) ==
    LET ts == {t \in Known : Decayable(mem[t])}
    IN  ts # {} /\ ChangeAndSave(w, ts, Changed(ts, Grown))

----------------------------------------------------------------------------
\* The file.

\* The operation of w is over and its lock released.
Return(w) ==
    /\ pc' = [pc EXCEPT ![w] = "idle"]
    /\ lock' = [lock EXCEPT ![w] = "none"]
    /\ target' = [target EXCEPT ![w] = NoTarget]
    /\ copy' = [copy EXCEPT ![w] = NoPattern]
    /\ buf' = [buf EXCEPT ![w] = Empty]
    /\ hold' = [hold EXCEPT ![w] = "none"]

Truncate(w) ==
    /\ up
    /\ pc[w] = "saving"
    /\ file' = "torn"
    /\ disk' = Empty
    /\ pc' = [pc EXCEPT ![w] = "truncated"]
    /\ UNCHANGED <<up, mem, lock, target, copy, buf, failed, hold>>

WriteFile(w) ==
    /\ up
    /\ pc[w] = "truncated"
    /\ file' = "whole"
    /\ disk' = buf[w]
    /\ failed' = FALSE
    /\ Return(w)
    /\ UNCHANGED <<up, mem>>

\* The directory cannot be made, the file not opened or not written to the
\* end.  An overlapping save wrote the same bytes, so a file it completed
\* stays whole.
SaveFails(w) ==
    /\ up
    /\ pc[w] \in {"saving", "truncated"}
    /\ failed' = TRUE
    /\ Return(w)
    /\ UNCHANGED <<up, mem, disk, file>>

\* Load: the file's entries replace the map's, other keys stay.  A torn or
\* absent file is an error and changes nothing.
Load(w) ==
    /\ up
    /\ pc[w] = "idle"
    /\ LockFree
    /\ file = "whole"
    /\ mem' = [t \in Targets |-> IF disk[t] # NoPattern THEN disk[t] ELSE mem[t]]
    /\ hold' = [v \in Workers |->
                   IF hold[v] = "mine" /\ mem'[target[v]] # mem[target[v]]
                   THEN "reloaded" ELSE hold[v]]
    /\ UNCHANGED <<up, disk, file, lock, pc, target, copy, buf, failed>>

----------------------------------------------------------------------------
\* The process.

Crash ==
    /\ up
    /\ up' = FALSE
    /\ mem' = Empty
    /\ lock' = [w \in Workers |-> "none"]
    /\ pc' = [w \in Workers |-> "idle"]
    /\ target' = [w \in Workers |-> NoTarget]
    /\ copy' = [w \in Workers |-> NoPattern]
    /\ buf' = [w \in Workers |-> Empty]
    /\ hold' = [w \in Workers |-> "none"]
    /\ UNCHANGED <<disk, file, failed>>

\* NewPatternStore refuses a file it cannot parse.
Restart ==
    /\ ~up
    /\ file # "torn"
    /\ up' = TRUE
    /\ mem' = disk
    /\ failed' = FALSE
    /\ UNCHANGED <<disk, file, lock, pc, target, copy, buf, hold>>

Next ==
    \/ \E w \in Workers :
        \/ \E t \in Targets :
            \/ \E s \in Selectors : Register(w, t, s)
            \/ \E use \in {"executing", "penalizing"} : Get(w, t, use)
            \/ Boost(w, t)
        \/ WriteBack(w) \/ GiveUp(w) \/ PenalizeConfidence(w)
        \/ \E old \in SUBSET Targets : Decay(w, old)
        \/ Grow(w)
        \/ BeginSave(w) \/ Truncate(w) \/ WriteFile(w) \/ SaveFails(w)
        \/ Load(w)
    \/ Crash
    \/ Restart

Spec == Init /\ [][Next]_vars

----------------------------------------------------------------------------
\* Properties.

\* A worker between its change of the map and the end of its save.
Saving(w) == pc[w] \in {"unsaved", "saving", "truncated"}

\* Saves hold only the read lock, so two may write the file at once: they
\* write the same bytes, those of the map as it is now.
SavesAgree ==
    \A w \in Workers : pc[w] \in {"saving", "truncated"} => buf[w] = mem

\* With no save under way and none failed, a restart would find exactly the
\* map the running process has.
QuiescentAgreement ==
    up /\ ~failed /\ (\A w \in Workers : ~Saving(w))
        => file # "torn" /\ disk = mem

\* The worker's save ends without an error in this step.
Acknowledged(w) ==
    pc[w] = "truncated" /\ lock[w] = "read" /\ up' /\ pc'[w] = "idle" /\ ~failed'

\* A pattern whose Set returned nil is in the file, unless another operation
\* has written that target since or a Load has put an older one back.
AckedIsDurable ==
    [][\A w \in Workers : Acknowledged(w) /\ hold[w] = "mine"
           => disk'[target[w]] = copy[w]]_vars

\* pattern_tracker.go:310 "RegisterPattern learns a new pattern or updates an
\* existing one": the LastSeen refresh after a successful execution is not a
\* registration and leaves the stored selector alone.
SelectorsChangeByRegistration ==
    [][\A w \in Workers, t \in Targets :
           WriteBack(w) /\ mem[t] # NoPattern /\ mem'[t] # NoPattern
               => mem'[t].sel = mem[t].sel]_vars

=============================================================================
