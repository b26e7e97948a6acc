------------------------- MODULE PatternStoreProofs -------------------------
(***************************************************************************)
(* For every set of workers, targets and selectors: overlapping saves      *)
(* write the same bytes, a quiet store agrees with its file, and a pattern *)
(* whose Set succeeded is in the file.  The inductive invariant adds the   *)
(* discipline of the RWMutex and what the history variable hold stands     *)
(* for.                                                                    *)
(***************************************************************************)
EXTENDS PatternStore, TLAPS

\* The mutex is held exactly during a save, and exclusively by a writer.
LockDiscipline ==
    /\ \A w \in Workers : lock[w] # "none" <=> pc[w] \in {"saving", "truncated"}
    /\ \A v, w \in Workers : lock[w] = "write" /\ v # w => lock[v] = "none"

\* An entry still held is in the map as it was set.
HoldIsCurrent ==
    \A w \in Workers :
        /\ hold[w] # "none" => Saving(w) /\ target[w] \in Targets
        /\ hold[w] = "mine" => mem[target[w]] = copy[w]

\* A worker between a Get and its Set has a pattern in hand.
ReadsKnown ==
    \A w \in Workers : pc[w] \in {"executing", "penalizing"}
        => target[w] \in Targets /\ copy[w] \in Pattern

IInv ==
    /\ TypeOK
    /\ LockDiscipline
    /\ SavesAgree
    /\ HoldIsCurrent
    /\ ReadsKnown
    /\ QuiescentAgreement

----------------------------------------------------------------------------
\* Confidence stays a level.
LEMMA ConfidenceType ==
    ASSUME NEW p \in Pattern
    PROVE  /\ Boosted(p) \in Pattern
           /\ Penalized(p) \in Pattern
           /\ Decayable(p) => Decayed(p) \in Pattern
           /\ Grown(p) \in Pattern
BY FullAssumption
DEF Pattern, Boosted, Penalized, Decayable, Decayed, Grown

LEMMA InitIInv == Init => IInv
<1> SUFFICES ASSUME Init PROVE IInv
  OBVIOUS
<1>1. Empty \in Map
  BY DEF Empty, Map
<1>2. TypeOK
  BY <1>1 DEF Init, TypeOK, PC
<1> QED
  BY <1>2 DEF Init, IInv, LockDiscipline, SavesAgree, HoldIsCurrent, ReadsKnown,
              QuiescentAgreement, Saving

----------------------------------------------------------------------------
\* The first half of Set.
LEMMA SetEntryIInv ==
    ASSUME IInv, up, NEW w \in Workers, NEW t \in Targets, NEW p \in Pattern,
           pc[w] \in {"idle", "executing", "penalizing"}, SetEntry(w, t, p)
    PROVE  IInv'
<1> USE DEF IInv
<1>1. TypeOK'
  BY DEF TypeOK, Map, PC, SetEntry, Overwrites
<1>2. \A v \in Workers : lock[v] = "none" /\ pc[v] \notin {"saving", "truncated"}
  BY DEF LockDiscipline, SetEntry, LockFree
<1>3. \A v \in Workers : pc'[v] = IF v = w THEN "unsaved" ELSE pc[v]
  BY DEF SetEntry, TypeOK
<1>4. LockDiscipline'
  BY <1>2, <1>3 DEF LockDiscipline, SetEntry
<1>5. SavesAgree'
  BY <1>2, <1>3 DEF SavesAgree
<1>6. HoldIsCurrent'
  <2> SUFFICES ASSUME NEW v \in Workers
               PROVE  /\ hold'[v] # "none" => Saving(v)' /\ target'[v] \in Targets
                      /\ hold'[v] = "mine" => mem'[target'[v]] = copy'[v]
    BY DEF HoldIsCurrent
  <2>1. CASE v = w
    BY <2>1, <1>3 DEF SetEntry, TypeOK, Map, Saving
  <2>2. CASE v # w
    <3>1. target'[v] = target[v] /\ copy'[v] = copy[v] /\ pc'[v] = pc[v]
      BY <2>2 DEF SetEntry, TypeOK
    <3>2. hold'[v] = IF hold[v] # "none" /\ target[v] \in {t}
                     THEN "overwritten" ELSE hold[v]
      BY <2>2 DEF SetEntry, TypeOK, Overwrites
    <3>3. hold[v] # "none" /\ target[v] # t => mem'[target[v]] = mem[target[v]]
      BY DEF SetEntry, HoldIsCurrent, TypeOK, Map
    <3> QED
      BY <3>1, <3>2, <3>3 DEF HoldIsCurrent, Saving
  <2> QED
    BY <2>1, <2>2
<1>7. ReadsKnown'
  BY <1>3 DEF ReadsKnown, SetEntry, TypeOK
<1>8. QuiescentAgreement'
  BY <1>3 DEF QuiescentAgreement, Saving
<1> QED
  BY <1>1, <1>4, <1>5, <1>6, <1>7, <1>8

LEMMA RegisterIInv ==
    ASSUME IInv, NEW w \in Workers, NEW t \in Targets, NEW s \in Selectors, Register(w, t, s)
    PROVE  IInv'
<1>1. [sel |-> s, conf |-> Full] \in Pattern
  BY FullAssumption DEF Pattern
<1> QED
  BY <1>1, SetEntryIInv DEF Register

LEMMA WriteBackIInv ==
    ASSUME IInv, NEW w \in Workers, WriteBack(w)
    PROVE  IInv'
<1>1. target[w] \in Targets /\ copy[w] \in Pattern
  BY DEF IInv, ReadsKnown, WriteBack
<1> QED
  BY <1>1, SetEntryIInv DEF WriteBack

LEMMA PenalizeIInv ==
    ASSUME IInv, NEW w \in Workers, PenalizeConfidence(w)
    PROVE  IInv'
<1>1. target[w] \in Targets /\ copy[w] \in Pattern
  BY DEF IInv, ReadsKnown, PenalizeConfidence
<1> QED
  BY <1>1, SetEntryIInv, ConfidenceType DEF PenalizeConfidence

----------------------------------------------------------------------------
\* Operations that only read.

LEMMA GetIInv ==
    ASSUME IInv, NEW w \in Workers, NEW t \in Targets,
           NEW use \in {"executing", "penalizing"}, Get(w, t, use)
    PROVE  IInv'
<1> USE DEF IInv
<1>1. mem[t] \in Pattern
  BY DEF Get, TypeOK, Map
<1>2. TypeOK'
  BY <1>1 DEF TypeOK, PC, Get
<1>3. \A v \in Workers : v # w => /\ pc'[v] = pc[v] /\ target'[v] = target[v]
                                 /\ copy'[v] = copy[v]
  BY DEF Get, TypeOK
<1>4. pc[w] = "idle" /\ pc'[w] = use /\ target'[w] = t /\ copy'[w] = mem[t]
  BY DEF Get, TypeOK
<1>5. LockDiscipline'
  BY <1>3, <1>4 DEF LockDiscipline, Get
<1>6. SavesAgree'
  BY <1>3, <1>4 DEF SavesAgree, Get
<1>7. hold[w] = "none"
  BY <1>4 DEF HoldIsCurrent, Saving
<1>8. HoldIsCurrent'
  BY <1>3, <1>4, <1>7 DEF HoldIsCurrent, Saving, Get
<1>9. ReadsKnown'
  BY <1>1, <1>3, <1>4 DEF ReadsKnown
<1>10. QuiescentAgreement'
  BY <1>3, <1>4 DEF QuiescentAgreement, Saving, Get
<1> QED
  BY <1>2, <1>5, <1>6, <1>8, <1>9, <1>10

LEMMA GiveUpIInv ==
    ASSUME IInv, NEW w \in Workers, GiveUp(w)
    PROVE  IInv'
<1> USE DEF IInv
<1>1. TypeOK'
  BY DEF TypeOK, PC, GiveUp
<1>2. \A v \in Workers : v # w => /\ pc'[v] = pc[v] /\ target'[v] = target[v]
                                 /\ copy'[v] = copy[v]
  BY DEF GiveUp, TypeOK
<1>3. pc[w] = "executing" /\ pc'[w] = "idle"
  BY DEF GiveUp, TypeOK
<1>4. LockDiscipline'
  BY <1>2, <1>3 DEF LockDiscipline, GiveUp
<1>5. SavesAgree'
  BY <1>2, <1>3 DEF SavesAgree, GiveUp
<1>6. hold[w] = "none"
  BY <1>3 DEF HoldIsCurrent, Saving
<1>7. HoldIsCurrent'
  BY <1>2, <1>3, <1>6 DEF HoldIsCurrent, Saving, GiveUp
<1>8. ReadsKnown'
  BY <1>2, <1>3 DEF ReadsKnown
<1>9. QuiescentAgreement'
  BY <1>2, <1>3 DEF QuiescentAgreement, Saving, GiveUp
<1> QED
  BY <1>1, <1>4, <1>5, <1>7, <1>8, <1>9

----------------------------------------------------------------------------
\* Saves.

LEMMA BeginSaveIInv ==
    ASSUME IInv, NEW w \in Workers, BeginSave(w)
    PROVE  IInv'
<1> USE DEF IInv
<1>1. TypeOK'
  BY DEF TypeOK, PC, BeginSave
<1>2. \A v \in Workers : v # w => /\ pc'[v] = pc[v] /\ lock'[v] = lock[v]
                                 /\ buf'[v] = buf[v]
  BY DEF BeginSave, TypeOK
<1>3. /\ pc[w] = "unsaved" /\ pc'[w] = "saving"
      /\ lock'[w] = "read" /\ buf'[w] = mem /\ mem' = mem
      /\ \A v \in Workers : lock[v] # "write"
  BY DEF BeginSave, RLockFree, TypeOK
<1>4. LockDiscipline'
  BY <1>2, <1>3 DEF LockDiscipline
<1>5. SavesAgree'
  BY <1>2, <1>3 DEF SavesAgree
<1>6. HoldIsCurrent'
  BY <1>2, <1>3 DEF HoldIsCurrent, Saving, BeginSave
<1>7. ReadsKnown'
  BY <1>2, <1>3 DEF ReadsKnown, BeginSave
<1>8. QuiescentAgreement'
  BY <1>3 DEF QuiescentAgreement, Saving
<1> QED
  BY <1>1, <1>4, <1>5, <1>6, <1>7, <1>8

LEMMA TruncateIInv ==
    ASSUME IInv, NEW w \in Workers, Truncate(w)
    PROVE  IInv'
<1> USE DEF IInv
<1>1. Empty \in Map
  BY DEF Empty, Map
<1>2. TypeOK'
  BY <1>1 DEF TypeOK, PC, Truncate
<1>3. \A v \in Workers : v # w => pc'[v] = pc[v]
  BY DEF Truncate, TypeOK
<1>4. pc[w] = "saving" /\ pc'[w] = "truncated"
  BY DEF Truncate, TypeOK
<1>5. LockDiscipline' /\ SavesAgree'
  BY <1>3, <1>4 DEF LockDiscipline, SavesAgree, Truncate
<1>6. HoldIsCurrent' /\ ReadsKnown'
  BY <1>3, <1>4 DEF HoldIsCurrent, ReadsKnown, Saving, Truncate
<1>7. QuiescentAgreement'
  BY <1>4 DEF QuiescentAgreement, Saving
<1> QED
  BY <1>2, <1>5, <1>6, <1>7

\* The end of a save, whether it wrote the file or not.
LEMMA ReturnKeeps ==
    ASSUME IInv, NEW w \in Workers, pc[w] \in {"saving", "truncated"},
           Return(w), mem' = mem
    PROVE  /\ LockDiscipline' /\ SavesAgree' /\ HoldIsCurrent' /\ ReadsKnown'
           /\ pc' \in [Workers -> PC]
           /\ lock' \in [Workers -> {"none", "read", "write"}]
           /\ target' \in [Workers -> Targets \cup {NoTarget}]
           /\ copy' \in [Workers -> Pattern \cup {NoPattern}]
           /\ buf' \in [Workers -> Map]
           /\ hold' \in [Workers -> {"none", "mine", "overwritten", "reloaded"}]
<1> USE DEF IInv
<1>1. Empty \in Map
  BY DEF Empty, Map
<1>2. \A v \in Workers : v # w =>
        /\ pc'[v] = pc[v] /\ lock'[v] = lock[v] /\ target'[v] = target[v]
        /\ copy'[v] = copy[v] /\ buf'[v] = buf[v] /\ hold'[v] = hold[v]
  BY DEF Return, TypeOK
<1>3. pc'[w] = "idle" /\ lock'[w] = "none" /\ hold'[w] = "none"
  BY DEF Return, TypeOK
<1>4. LockDiscipline' /\ SavesAgree'
  BY <1>2, <1>3 DEF LockDiscipline, SavesAgree
<1>5. HoldIsCurrent' /\ ReadsKnown'
  BY <1>2, <1>3 DEF HoldIsCurrent, ReadsKnown, Saving
<1> QED
  BY <1>1, <1>4, <1>5 DEF Return, TypeOK, PC

LEMMA WriteFileIInv ==
    ASSUME IInv, NEW w \in Workers, WriteFile(w)
    PROVE  IInv'
<1>1. /\ pc[w] = "truncated" /\ Return(w) /\ mem' = mem /\ up' = up
      /\ file' = "whole" /\ disk' = buf[w] /\ failed' = FALSE
  BY DEF WriteFile
<1>2. buf[w] = mem
  BY <1>1 DEF IInv, SavesAgree
<1>3. QuiescentAgreement'
  BY <1>1, <1>2 DEF QuiescentAgreement
<1>4. TypeOK'
  BY <1>1, <1>2, ReturnKeeps DEF IInv, TypeOK
<1> QED
  BY <1>1, <1>3, <1>4, ReturnKeeps DEF IInv

LEMMA SaveFailsIInv ==
    ASSUME IInv, NEW w \in Workers, SaveFails(w)
    PROVE  IInv'
<1>1. /\ pc[w] \in {"saving", "truncated"} /\ Return(w) /\ failed' = TRUE
      /\ UNCHANGED <<up, mem, disk, file>>
  BY DEF SaveFails
<1>2. QuiescentAgreement'
  BY <1>1 DEF QuiescentAgreement
<1>3. TypeOK'
  BY <1>1, ReturnKeeps DEF IInv, TypeOK
<1> QED
  BY <1>1, <1>2, <1>3, ReturnKeeps DEF IInv

----------------------------------------------------------------------------
\* Boost, decay and growth.

\* A map that differs from the present one on ts only.
LEMMA ChangeAndSaveIInv ==
    ASSUME IInv, NEW w \in Workers, NEW ts \in SUBSET Targets, NEW map \in Map,
           \A t \in Targets \ ts : map[t] = mem[t],
           ChangeAndSave(w, ts, map)
    PROVE  IInv'
<1> USE DEF IInv
<1>1. \A v \in Workers : lock[v] = "none" /\ pc[v] \notin {"saving", "truncated"}
  BY DEF LockDiscipline, ChangeAndSave, LockFree
<1>2. \A v \in Workers : v # w => /\ pc'[v] = pc[v] /\ lock'[v] = lock[v]
                                 /\ buf'[v] = buf[v]
  BY DEF ChangeAndSave, TypeOK
<1>3. /\ pc[w] = "idle" /\ pc'[w] = "saving" /\ lock'[w] = "write"
      /\ buf'[w] = mem' /\ mem' = map /\ up' = up /\ file' = file /\ disk' = disk
      /\ target' = target /\ copy' = copy
  BY DEF ChangeAndSave, TypeOK
<1>4. TypeOK'
  BY DEF TypeOK, PC, ChangeAndSave, Overwrites
<1>5. LockDiscipline'
  BY <1>1, <1>2, <1>3 DEF LockDiscipline
<1>6. SavesAgree'
  BY <1>1, <1>2, <1>3 DEF SavesAgree
<1>7. HoldIsCurrent'
  <2> SUFFICES ASSUME NEW v \in Workers
               PROVE  /\ hold'[v] # "none" => Saving(v)' /\ target'[v] \in Targets
                      /\ hold'[v] = "mine" => mem'[target'[v]] = copy'[v]
    BY DEF HoldIsCurrent
  <2>1. hold'[v] = IF v # w /\ hold[v] # "none" /\ target[v] \in ts
                   THEN "overwritten" ELSE hold[v]
    BY DEF ChangeAndSave, Overwrites
  <2>2. hold[w] = "none"
    BY <1>3 DEF HoldIsCurrent, Saving
  <2>3. hold[v] # "none" /\ target[v] \notin ts => mem'[target[v]] = mem[target[v]]
    BY <1>3 DEF HoldIsCurrent
  <2> QED
    BY <1>2, <1>3, <2>1, <2>2, <2>3 DEF HoldIsCurrent, Saving
<1>8. ReadsKnown'
  BY <1>2, <1>3 DEF ReadsKnown
<1>9. QuiescentAgreement'
  BY <1>3 DEF QuiescentAgreement, Saving
<1> QED
  BY <1>4, <1>5, <1>6, <1>7, <1>8, <1>9

LEMMA BoostIInv ==
    ASSUME IInv, NEW w \in Workers, NEW t \in Targets, Boost(w, t)
    PROVE  IInv'
<1>1. mem \in Map /\ mem[t] \in Pattern
  BY DEF IInv, TypeOK, Map, Boost
<1>2. Changed({t}, Boosted) \in Map
  BY <1>1, ConfidenceType DEF Changed, Map
<1>3. \A x \in Targets \ {t} : Changed({t}, Boosted)[x] = mem[x]
  BY DEF Changed
<1> QED
  BY <1>2, <1>3, ChangeAndSaveIInv DEF Boost

LEMMA DecayIInv ==
    ASSUME IInv, NEW w \in Workers, NEW old \in SUBSET Targets, Decay(w, old)
    PROVE  IInv'
<1> DEFINE ts == {t \in Known \cap old : Decayable(mem[t])}
<1>1. mem \in Map /\ \A t \in ts : mem[t] \in Pattern /\ Decayable(mem[t])
  BY DEF IInv, TypeOK, Map, Known
<1>2. Changed(ts, Decayed) \in Map
  BY <1>1, ConfidenceType DEF Changed, Map
<1>3. ts \in SUBSET Targets /\ \A t \in Targets \ ts : Changed(ts, Decayed)[t] = mem[t]
  BY DEF Changed, Known
<1>4. ChangeAndSave(w, ts, Changed(ts, Decayed))
  BY DEF Decay
<1> QED
  BY <1>2, <1>3, <1>4, ChangeAndSaveIInv

LEMMA GrowIInv ==
    ASSUME IInv, NEW w \in Workers, Grow(w)
    PROVE  IInv'
<1> DEFINE ts == {t \in Known : Decayable(mem[t])}
<1>1. mem \in Map /\ \A t \in ts : mem[t] \in Pattern
  BY DEF IInv, TypeOK, Map, Known
<1>2. Changed(ts, Grown) \in Map
  BY <1>1, ConfidenceType DEF Changed, Map
<1>3. ts \in SUBSET Targets /\ \A t \in Targets \ ts : Changed(ts, Grown)[t] = mem[t]
  BY DEF Changed, Known
<1>4. ChangeAndSave(w, ts, Changed(ts, Grown))
  BY DEF Grow
<1> QED
  BY <1>2, <1>3, <1>4, ChangeAndSaveIInv

----------------------------------------------------------------------------
\* Load, crash and restart.

LEMMA LoadIInv ==
    ASSUME IInv, NEW w \in Workers, Load(w)
    PROVE  IInv'
<1> USE DEF IInv
<1>1. \A v \in Workers : lock[v] = "none" /\ pc[v] \notin {"saving", "truncated"}
  BY DEF LockDiscipline, Load, LockFree
<1>2. /\ mem' = [t \in Targets |-> IF disk[t] # NoPattern THEN disk[t] ELSE mem[t]]
      /\ UNCHANGED <<up, disk, file, lock, pc, target, copy, buf, failed>>
      /\ hold' = [v \in Workers |->
                    IF hold[v] = "mine" /\ mem'[target[v]] # mem[target[v]]
                    THEN "reloaded" ELSE hold[v]]
  BY DEF Load
<1>3. mem' \in Map
  BY <1>2 DEF TypeOK, Map
<1>4. TypeOK'
  <2>1. hold' \in [Workers -> {"none", "mine", "overwritten", "reloaded"}]
    BY <1>2 DEF TypeOK
  <2> QED
    BY <1>2, <1>3, <2>1 DEF TypeOK
<1>5. LockDiscipline' /\ ReadsKnown'
  BY <1>2 DEF LockDiscipline, ReadsKnown
<1>6. SavesAgree'
  BY <1>1, <1>2 DEF SavesAgree
<1>7. HoldIsCurrent'
  BY <1>2 DEF HoldIsCurrent, Saving
<1>8. QuiescentAgreement'
  <2> SUFFICES ASSUME up, ~failed, \A v \in Workers : ~Saving(v)
               PROVE  file # "torn" /\ disk = mem'
    BY <1>2 DEF QuiescentAgreement, Saving
  <2>1. file # "torn" /\ disk = mem
    BY DEF QuiescentAgreement
  <2>2. mem' = mem
    BY <1>2, <2>1 DEF TypeOK, Map
  <2> QED
    BY <2>1, <2>2
<1> QED
  BY <1>4, <1>5, <1>6, <1>7, <1>8

LEMMA CrashIInv == ASSUME IInv, Crash PROVE IInv'
<1>1. Empty \in Map
  BY DEF Empty, Map
<1>2. TypeOK'
  BY <1>1 DEF IInv, TypeOK, PC, Crash
<1> QED
  BY <1>2 DEF IInv, LockDiscipline, SavesAgree, HoldIsCurrent, ReadsKnown,
              QuiescentAgreement, Saving, Crash

\* A stopped process has no operation under way.
Stopped == ~up => \A w \in Workers : pc[w] = "idle" /\ hold[w] = "none"

Inv == IInv /\ Stopped

LEMMA RestartIInv ==
    ASSUME Inv, Restart
    PROVE  IInv'
<1> USE DEF Inv, IInv
<1>1. /\ mem' = disk /\ file # "torn"
      /\ UNCHANGED <<disk, file, lock, pc, target, copy, buf, hold>>
      /\ \A w \in Workers : pc[w] = "idle" /\ hold[w] = "none"
  BY DEF Restart, Stopped
<1>2. TypeOK'
  BY DEF TypeOK, Restart
<1> QED
  BY <1>1, <1>2 DEF LockDiscipline, SavesAgree, HoldIsCurrent, ReadsKnown,
                    QuiescentAgreement, Saving

----------------------------------------------------------------------------
\* One step per action.

LEMMA StepIInv == ASSUME Inv, [Next]_vars PROVE IInv'
<1>1. ASSUME NEW w \in Workers, NEW t \in Targets, NEW s \in Selectors, Register(w, t, s)
      PROVE  IInv'
  BY <1>1, RegisterIInv DEF Inv
<1>2. ASSUME NEW w \in Workers, NEW t \in Targets,
             NEW use \in {"executing", "penalizing"}, Get(w, t, use)
      PROVE  IInv'
  BY <1>2, GetIInv DEF Inv
<1>3. ASSUME NEW w \in Workers, NEW t \in Targets, Boost(w, t) PROVE IInv'
  BY <1>3, BoostIInv DEF Inv
<1>4. ASSUME NEW w \in Workers,
             WriteBack(w) \/ GiveUp(w) \/ PenalizeConfidence(w)
      PROVE  IInv'
  BY <1>4, WriteBackIInv, GiveUpIInv, PenalizeIInv DEF Inv
<1>5. ASSUME NEW w \in Workers, NEW old \in SUBSET Targets, Decay(w, old) PROVE IInv'
  BY <1>5, DecayIInv DEF Inv
<1>6. ASSUME NEW w \in Workers, Grow(w) \/ Load(w) PROVE IInv'
  BY <1>6, GrowIInv, LoadIInv DEF Inv
<1>7. ASSUME NEW w \in Workers,
             BeginSave(w) \/ Truncate(w) \/ WriteFile(w) \/ SaveFails(w)
      PROVE  IInv'
  BY <1>7, BeginSaveIInv, TruncateIInv, WriteFileIInv, SaveFailsIInv DEF Inv
<1>8. CASE Crash
  BY <1>8, CrashIInv DEF Inv
<1>9. CASE Restart
  BY <1>9, RestartIInv
<1>10. CASE UNCHANGED vars
  BY <1>10 DEF Inv, IInv, TypeOK, LockDiscipline, SavesAgree, HoldIsCurrent,
               ReadsKnown, QuiescentAgreement, Saving, vars
<1> QED
  BY <1>1, <1>2, <1>3, <1>4, <1>5, <1>6, <1>7, <1>8, <1>9, <1>10 DEF Next

\* Every action but Restart needs a running process, and only Crash stops it.
LEMMA StepStopped == ASSUME Inv, [Next]_vars PROVE Stopped'
<1>1. CASE Crash
  BY <1>1 DEF Crash, Stopped
<1>2. CASE Restart
  BY <1>2 DEF Restart, Stopped
<1>3. CASE UNCHANGED vars
  BY <1>3 DEF vars, Stopped, Inv
<1>4. ASSUME NEW w \in Workers, NEW t \in Targets,
             \/ \E s \in Selectors : Register(w, t, s)
             \/ \E use \in {"executing", "penalizing"} : Get(w, t, use)
             \/ Boost(w, t)
      PROVE  up'
  BY <1>4 DEF Register, SetEntry, Get, Boost, ChangeAndSave
<1>5. ASSUME NEW w \in Workers,
             \/ WriteBack(w) \/ GiveUp(w) \/ PenalizeConfidence(w)
             \/ \E old \in SUBSET Targets : Decay(w, old)
             \/ Grow(w)
      PROVE  up'
  <2>1. CASE WriteBack(w) \/ GiveUp(w) \/ PenalizeConfidence(w)
    BY <2>1 DEF WriteBack, GiveUp, PenalizeConfidence, SetEntry
  <2>2. ASSUME NEW ts, NEW map, ChangeAndSave(w, ts, map) PROVE up'
    BY <2>2 DEF ChangeAndSave
  <2>3. CASE (\E old \in SUBSET Targets : Decay(w, old)) \/ Grow(w)
    BY <2>2, <2>3 DEF Decay, Grow
  <2> QED
    BY <1>5, <2>1, <2>3
<1>6. ASSUME NEW w \in Workers,
             BeginSave(w) \/ Truncate(w) \/ WriteFile(w) \/ SaveFails(w) \/ Load(w)
      PROVE  up'
  BY <1>6 DEF BeginSave, Truncate, WriteFile, SaveFails, Load
<1> QED
  BY <1>1, <1>2, <1>3, <1>4, <1>5, <1>6 DEF Next, Stopped

----------------------------------------------------------------------------
\* The theorems.

\* The strengthened invariant holds whatever saves, loads and crashes meet.
THEOREM Invariance == Spec => []Inv
<1>1. Init => Inv
  BY InitIInv DEF Inv, Init, Stopped
<1>2. Inv /\ [Next]_vars => Inv'
  BY StepIInv, StepStopped DEF Inv
<1> QED
  BY <1>1, <1>2, PTL DEF Spec

THEOREM TypeCorrect == Spec => []TypeOK
<1>1. Inv => TypeOK
  BY DEF Inv, IInv
<1> QED
  BY Invariance, <1>1, PTL

\* Two saves under the read lock write the same bytes.
THEOREM OverlappingSavesAgree == Spec => []SavesAgree
<1>1. Inv => SavesAgree
  BY DEF Inv, IInv
<1> QED
  BY Invariance, <1>1, PTL

\* A store at rest whose last save succeeded agrees with its file.
THEOREM QuietStoreAgrees == Spec => []QuiescentAgreement
<1>1. Inv => QuiescentAgreement
  BY DEF Inv, IInv
<1> QED
  BY Invariance, <1>1, PTL

\* Of all steps only the completed write ends a save without an error.
LEMMA AcknowledgedByWrite ==
    ASSUME Inv, [Next]_vars, NEW w \in Workers, Acknowledged(w)
    PROVE  WriteFile(w)
<1> USE DEF Inv, IInv, Acknowledged
<1>1. pc[w] = "truncated" /\ lock[w] # "none" /\ pc'[w] = "idle" /\ up' /\ ~failed'
  BY DEF LockDiscipline
<1>2. ASSUME NEW v \in Workers, NEW t \in Targets, NEW p, SetEntry(v, t, p) PROVE FALSE
  BY <1>1, <1>2 DEF SetEntry, LockFree
<1>3. ASSUME NEW v \in Workers, NEW ts, NEW map, ChangeAndSave(v, ts, map) PROVE FALSE
  BY <1>1, <1>3 DEF ChangeAndSave, LockFree
<1>4. ASSUME NEW v \in Workers, NEW t \in Targets,
             \/ \E s \in Selectors : Register(v, t, s)
             \/ \E use \in {"executing", "penalizing"} : Get(v, t, use)
             \/ Boost(v, t)
      PROVE  FALSE
  BY <1>1, <1>2, <1>3, <1>4 DEF Register, Get, Boost, TypeOK
<1>5. ASSUME NEW v \in Workers,
             \/ WriteBack(v) \/ GiveUp(v) \/ PenalizeConfidence(v)
             \/ \E old \in SUBSET Targets : Decay(v, old)
             \/ Grow(v) \/ Load(v)
      PROVE  FALSE
  <2>1. CASE WriteBack(v) \/ PenalizeConfidence(v)
    BY <1>2, <2>1 DEF WriteBack, PenalizeConfidence, ReadsKnown
  <2>2. CASE GiveUp(v)
    BY <1>1, <2>2 DEF GiveUp, TypeOK
  <2>3. CASE (\E old \in SUBSET Targets : Decay(v, old)) \/ Grow(v)
    BY <1>3, <2>3 DEF Decay, Grow
  <2>4. CASE Load(v)
    BY <1>1, <2>4 DEF Load
  <2> QED
    BY <1>5, <2>1, <2>2, <2>3, <2>4
<1>6. ASSUME NEW v \in Workers, v # w,
             BeginSave(v) \/ Truncate(v) \/ WriteFile(v) \/ SaveFails(v)
      PROVE  FALSE
  BY <1>1, <1>6 DEF BeginSave, Truncate, WriteFile, SaveFails, Return, TypeOK
<1>7. ASSUME BeginSave(w) \/ Truncate(w) \/ SaveFails(w) PROVE FALSE
  BY <1>1, <1>7 DEF BeginSave, Truncate, SaveFails, TypeOK
<1>8. ~Crash /\ ~Restart
  BY <1>1 DEF Crash, Restart, Stopped
<1>9. ~UNCHANGED vars
  BY <1>1 DEF vars
<1> QED
  BY <1>4, <1>5, <1>6, <1>7, <1>8, <1>9 DEF Next

\* A Set that returned nil has put its pattern in the file.
THEOREM AcknowledgedSetIsDurable == Spec => AckedIsDurable
<1> DEFINE Durable == \A w \in Workers : Acknowledged(w) /\ hold[w] = "mine"
                                         => disk'[target[w]] = copy[w]
<1>1. Inv /\ [Next]_vars => [Durable]_vars
  <2> SUFFICES ASSUME Inv, [Next]_vars, NEW w \in Workers, Acknowledged(w),
                      hold[w] = "mine"
               PROVE  disk'[target[w]] = copy[w]
    OBVIOUS
  <2>1. WriteFile(w)
    BY AcknowledgedByWrite
  <2>2. disk' = mem
    BY <2>1 DEF WriteFile, Inv, IInv, SavesAgree
  <2> QED
    BY <2>2 DEF Inv, IInv, HoldIsCurrent
<1>2. Spec => [][Durable]_vars
  BY Invariance, <1>1, PTL DEF Spec
<1> QED
  BY <1>2 DEF AckedIsDurable

=============================================================================
