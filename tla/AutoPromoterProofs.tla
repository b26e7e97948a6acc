------------------------- MODULE AutoPromoterProofs -------------------------
(***************************************************************************)
(* For every set of callers and mutations and every budget: a saved capsule*)
(* has passed an evaluation, Process leaves no approval behind, and an     *)
(* exhausted rollback budget lets each caller save at most one capsule.    *)
(* The inductive invariant says what the program counter of a call knows   *)
(* of the records and of the budget while others change them.              *)
(***************************************************************************)
EXTENDS AutoPromoter, FiniteSetTheorems, TLAPS

\* A record that can still be promoted has passed, and a mutation's record is
\* its own.  No low-risk record waits for a reviewer.
RecordsSound ==
    /\ \A i \in 1..Len(records) :
        /\ records[i].status \in {"evaluated", "approved"} => records[i].mut \in passed
        /\ records[i].mut \in LowRisk => records[i].status # "evaluated"
    /\ \A m \in Mutations : Known(m) => records[current[m]].mut = m

\* What the program counter of a call stands for.
CallSound(c) ==
    /\ ~At(c, "idle") => Mut(c) \in Mutations
    /\ caller[c].pc \in {"evaluating", "check", "saving", "mark"}
        => caller[c].rec # 0 /\ records[caller[c].rec].mut = Mut(c)
    /\ caller[c].pc \in {"evaluating", "check", "build"} => Known(Mut(c))
    /\ At(c, "saving") => Mut(c) \in passed
    /\ ~At(c, "idle") /\ Mut(c) \in LowRisk => caller[c].auto
    /\ caller[c].at <= clock

CallsSound == \A c \in Callers : CallSound(c)

\* A call that will still promote or reject the record of m.
Vouches(c, m) ==
    /\ Mut(c) = m
    /\ \/ caller[c].pc \in {"build", "promote"}
       \/ caller[c].pc \in {"check", "saving", "mark"} /\ caller[c].rec = current[m]

Vouched ==
    \A m \in LowRisk : ~broken /\ Known(m) /\ StatusOf(m) = "approved"
        => \E c \in Callers : Vouches(c, m)

\* A caller that saved a capsule late is not past the gate once more.
GateHolds ==
    /\ IsFiniteSet(rollbacks)
    /\ \A c \in Callers : late[c] # 0 =>
        /\ late[c] = 1
        /\ Exhausted
        /\ caller[c].auto => caller[c].pc \in {"mark", "note", "budget"}

IInv ==
    /\ TypeOK
    /\ RecordsSound
    /\ CallsSound
    /\ SavedHasPassed
    /\ Vouched
    /\ GateHolds

----------------------------------------------------------------------------
\* What Goto and Return do to the calls, and SetStatus to the records.
LEMMA GotoFacts ==
    ASSUME caller \in [Callers -> Call], NEW c \in Callers, NEW pc \in PC, Goto(c, pc)
    PROVE  /\ caller' \in [Callers -> Call]
           /\ caller'[c].pc = pc
           /\ caller'[c].mut = caller[c].mut
           /\ caller'[c].rec = caller[c].rec
           /\ caller'[c].auto = caller[c].auto
           /\ caller'[c].at = caller[c].at
           /\ \A d \in Callers \ {c} : caller'[d] = caller[d]
BY DEF Goto, Call

LEMMA ReturnFacts ==
    ASSUME caller \in [Callers -> Call], NEW c \in Callers, Return(c)
    PROVE  /\ caller' \in [Callers -> Call]
           /\ caller'[c].pc = "idle"
           /\ caller'[c].rec = 0
           /\ caller'[c].auto = FALSE
           /\ caller'[c].at = 0
           /\ \A d \in Callers \ {c} : caller'[d] = caller[d]
BY DEF Return, Call, Idle, PC

LEMMA SetStatusFacts ==
    ASSUME PipeTypeOK, NEW i \in 1..Len(records), NEW s \in Status, SetStatus(i, s)
    PROVE  /\ records' \in Seq([mut : Mutations, status : Status])
           /\ Len(records') = Len(records)
           /\ records'[i].status = s
           /\ \A j \in 1..Len(records) :
                /\ records'[j].mut = records[j].mut
                /\ j # i => records'[j] = records[j]
<1> DEFINE Rec == [mut : Mutations, status : Status]
<1>1. records \in Seq(Rec) /\ records' = [records EXCEPT ![i].status = s]
  BY DEF SetStatus, PipeTypeOK
<1> HIDE DEF Rec
<1>0. records[i] \in Rec
  BY <1>1
<1>2. records[i] \in Rec /\ [records[i] EXCEPT !.status = s] \in Rec
  BY <1>0 DEF Rec
<1>3. records' = [records EXCEPT ![i] = [records[i] EXCEPT !.status = s]]
  BY <1>1
<1>4. records' \in Seq(Rec) /\ Len(records') = Len(records)
  BY <1>1, <1>2, <1>3
<1>5. records'[i] = [records[i] EXCEPT !.status = s]
  BY <1>1, <1>3
<1>6. records'[i].status = s /\ records'[i].mut = records[i].mut
  BY <1>2, <1>5 DEF Rec
<1>7. \A j \in 1..Len(records) : j # i => records'[j] = records[j]
  BY <1>1, <1>3
<1> QED
  BY <1>4, <1>6, <1>7 DEF Rec

----------------------------------------------------------------------------
\* A step of a call that changes its own place, and may save a capsule that
\* passed or fail to, keeps what is known of records and calls, if it does not
\* walk away from an approval.
LEMMA PlaceAndSave ==
    ASSUME IInv, NEW c \in Callers,
           caller' \in [Callers -> Call],
           \A d \in Callers \ {c} : caller'[d] = caller[d],
           UNCHANGED <<records, current, passed, clock>>,
           saved' \subseteq passed, broken' \in BOOLEAN, ~broken' => ~broken,
           caller'[c].rec <= Len(records),
           CallSound(c)',
           \A m \in LowRisk : ~broken' /\ Known(m) /\ StatusOf(m) = "approved" /\ Vouches(c, m)
                => Vouches(c, m)'
    PROVE  /\ PipeTypeOK'
           /\ RecordsSound'
           /\ CallsSound'
           /\ SavedHasPassed'
           /\ Vouched'
<1>1. PipeTypeOK'
  BY DEF IInv, TypeOK, PipeTypeOK
<1>2. RecordsSound' /\ SavedHasPassed'
  BY DEF IInv, RecordsSound, SavedHasPassed, Known
<1>3. CallsSound'
  <2> SUFFICES ASSUME NEW d \in Callers, d # c PROVE CallSound(d)'
    BY DEF CallsSound
  <2>1. CallSound(d)
    BY DEF IInv, CallsSound
  <2> QED
    BY <2>1 DEF CallSound, At, Mut, Known
<1>4. Vouched'
  <2> SUFFICES ASSUME NEW m \in LowRisk, ~broken', Known(m), StatusOf(m) = "approved"
               PROVE  \E d \in Callers : Vouches(d, m)'
    BY DEF Vouched, Known, StatusOf
  <2>1. PICK d \in Callers : Vouches(d, m)
    BY DEF IInv, Vouched
  <2>2. Vouches(d, m)'
    BY <2>1 DEF Vouches, Mut
  <2> QED
    BY <2>2
<1> QED
  BY <1>1, <1>2, <1>3, <1>4

\* The same for a step that saves nothing.
LEMMA OwnPlace ==
    ASSUME IInv, NEW c \in Callers,
           caller' \in [Callers -> Call],
           \A d \in Callers \ {c} : caller'[d] = caller[d],
           UNCHANGED <<records, current, saved, passed, broken, clock>>,
           caller'[c].rec <= Len(records),
           CallSound(c)',
           \A m \in LowRisk : ~broken /\ Known(m) /\ StatusOf(m) = "approved" /\ Vouches(c, m)
                => Vouches(c, m)'
    PROVE  /\ PipeTypeOK'
           /\ RecordsSound'
           /\ CallsSound'
           /\ SavedHasPassed'
           /\ Vouched'
<1>1. saved' \subseteq passed /\ broken' \in BOOLEAN
  BY DEF IInv, TypeOK, PipeTypeOK, SavedHasPassed
<1> QED
  BY <1>1, PlaceAndSave

\* The gate holds as long as budget and time stay and no caller that was late
\* gets past it.
LEMMA GateKept ==
    ASSUME IInv, NEW c \in Callers,
           \A d \in Callers \ {c} : caller'[d] = caller[d],
           UNCHANGED <<clock, rollbacks, late>>,
           late[c] # 0 /\ caller'[c].auto => caller'[c].pc \in {"mark", "note", "budget"}
    PROVE  GateHolds'
BY DEF IInv, GateHolds, Exhausted, Live

----------------------------------------------------------------------------
\* The actions.

\* What the invariant says of one call.
LEMMA CallFacts ==
    ASSUME IInv, NEW c \in Callers
    PROVE  /\ PipeTypeOK
           /\ caller \in [Callers -> Call]
           /\ caller[c] \in Call
           /\ caller[c].rec <= Len(records)
           /\ Len(records) \in Nat
           /\ CallSound(c)
BY DEF IInv, TypeOK, PipeTypeOK, CallsSound

LEMMA InitIInv == Init => IInv
<1> SUFFICES ASSUME Init PROVE IInv
  OBVIOUS
<1>1. Idle \in Call /\ Idle.rec = 0
  BY DEF Idle, Call, PC
<1>2. TypeOK
  <2>1. PipeTypeOK
    <3>1. records \in Seq([mut : Mutations, status : Status]) /\ Len(records) = 0
      BY DEF Init, PipeInit
    <3>2. current \in [Mutations -> 0..0]
      BY DEF Init, PipeInit
    <3>3. \A c \in Callers : caller[c] = Idle
      BY DEF Init, PipeInit
    <3>4. caller \in [Callers -> Call]
      BY <1>1 DEF Init, PipeInit
    <3>5. saved \subseteq Mutations /\ passed \subseteq Mutations /\ broken \in BOOLEAN
      BY DEF Init, PipeInit
    <3>6. \A c \in Callers : caller[c].rec <= Len(records)
      BY <1>1, <3>1, <3>3
    <3> QED
      BY <3>1, <3>2, <3>4, <3>5, <3>6 DEF PipeTypeOK
  <2> QED
    BY <2>1, AutoPromoterAssumption DEF Init, TypeOK
<1>3. RecordsSound /\ SavedHasPassed /\ Vouched
  BY PromotionAssumption DEF Init, PipeInit, RecordsSound, SavedHasPassed, Vouched, Known
<1>4. CallsSound
  BY DEF Init, PipeInit, CallsSound, CallSound, At, Mut, Idle
<1>5. GateHolds
  BY FS_EmptySet DEF Init, GateHolds
<1> QED
  BY <1>2, <1>3, <1>4, <1>5 DEF IInv

LEMMA ProcessIInv ==
    ASSUME IInv, NEW c \in Callers, NEW m \in Mutations, Process(c, m)
    PROVE  IInv'
<1> DEFINE call == [Idle EXCEPT !.pc = "budget", !.mut = m, !.auto = TRUE, !.at = clock]
<1>1. clock \in Nat
  BY AutoPromoterAssumption DEF IInv, TypeOK
<1>2. call \in Call /\ call.pc = "budget" /\ call.mut = m /\ call.rec = 0
        /\ call.auto = TRUE /\ call.at = clock
  BY <1>1 DEF Idle, Call, PC
<1>3. caller' = [caller EXCEPT ![c] = call]
  BY DEF Process
<1> HIDE DEF call
<1>4. /\ caller' \in [Callers -> Call]
      /\ caller'[c] = call
      /\ \A d \in Callers \ {c} : caller'[d] = caller[d]
  BY <1>2, <1>3, CallFacts
<1>5. UNCHANGED <<records, current, saved, passed, broken, autoVars>>
  BY DEF Process
<1>6. CallSound(c)'
  BY <1>1, <1>2, <1>4, <1>5 DEF CallSound, At, Mut, autoVars
<1>7. \A n \in LowRisk : ~Vouches(c, n)
  BY DEF Process, At, Vouches
<1>8. PipeTypeOK' /\ RecordsSound' /\ CallsSound' /\ SavedHasPassed' /\ Vouched'
  BY <1>2, <1>4, <1>5, <1>6, <1>7, CallFacts, OwnPlace DEF autoVars
<1>9. GateHolds'
  BY <1>2, <1>4, <1>5, GateKept DEF autoVars
<1> QED
  BY <1>5, <1>8, <1>9 DEF IInv, TypeOK, autoVars

LEMMA ManualIInv ==
    ASSUME IInv, NEW c \in Callers, NEW m \in Mutations, Manual(c, m)
    PROVE  IInv'
<1>1. PICK pc \in {"submit", "promote"} : Begin(c, m, pc)
  BY DEF Manual
<1> DEFINE call == [Idle EXCEPT !.pc = pc, !.mut = m]
<1>2. call \in Call /\ call.pc = pc /\ call.mut = m /\ call.rec = 0
        /\ call.auto = FALSE /\ call.at = 0
  BY DEF Idle, Call, PC
<1>3. caller' = [caller EXCEPT ![c] = call]
  BY <1>1 DEF Begin
<1> HIDE DEF call
<1>4. /\ caller' \in [Callers -> Call]
      /\ caller'[c] = call
      /\ \A d \in Callers \ {c} : caller'[d] = caller[d]
  BY <1>2, <1>3, CallFacts
<1>5. m \notin LowRisk /\ UNCHANGED <<records, current, saved, passed, broken, autoVars>>
  BY <1>1 DEF Manual, Begin
<1>6. CallSound(c)'
  BY <1>2, <1>4, <1>5, AutoPromoterAssumption DEF CallSound, At, Mut, autoVars, IInv, TypeOK
<1>7. \A n \in LowRisk : ~Vouches(c, n)
  BY <1>1 DEF Begin, At, Vouches
<1>8. PipeTypeOK' /\ RecordsSound' /\ CallsSound' /\ SavedHasPassed' /\ Vouched'
  BY <1>2, <1>4, <1>5, <1>6, <1>7, CallFacts, OwnPlace DEF autoVars
<1>9. GateHolds'
  BY <1>2, <1>4, <1>5, GateKept DEF autoVars
<1> QED
  BY <1>5, <1>8, <1>9 DEF IInv, TypeOK, autoVars

LEMMA BudgetIInv ==
    ASSUME IInv, NEW c \in Callers, Budget(c)
    PROVE  IInv'
<1> DEFINE at == caller[c].at
<1>1. /\ clock \in Nat /\ Day \in Nat /\ MaxRollbacks \in Nat \ {0}
      /\ caller[c] \in Call /\ at \in Nat /\ at <= clock
      /\ rollbacks \subseteq [capsule : Capsules, at : 0..MaxClock]
      /\ \A r \in rollbacks : r.at \in Int
  <2>1. clock \in Nat /\ rollbacks \subseteq [capsule : Capsules, at : 0..MaxClock]
    BY AutoPromoterAssumption DEF IInv, TypeOK
  <2>2. \A r \in [capsule : Capsules, at : 0..MaxClock] : r.at \in Int
    BY AutoPromoterAssumption
  <2>3. caller[c] \in Call /\ at <= clock
    BY CallFacts DEF CallSound
  <2>4. at \in Nat
    BY <2>3 DEF Call
  <2> QED
    BY <2>1, <2>2, <2>3, <2>4, AutoPromoterAssumption
<1>2. /\ rollbacks' = Live(at) /\ rollbacks' \subseteq rollbacks
      /\ UNCHANGED <<records, current, saved, passed, broken, clock, cooldown, late>>
  BY DEF Budget, Live
<1>3. Live(clock)' = Live(clock) /\ Live(clock) \subseteq rollbacks'
  BY <1>1, <1>2 DEF Live
<1>4. /\ IsFiniteSet(rollbacks) /\ IsFiniteSet(rollbacks') /\ IsFiniteSet(Live(clock))
      /\ Cardinality(rollbacks') \in Nat /\ Cardinality(Live(clock)) \in Nat
      /\ Cardinality(Live(clock)) <= Cardinality(rollbacks')
  <2>1. IsFiniteSet(rollbacks)
    BY DEF IInv, GateHolds
  <2>2. IsFiniteSet(rollbacks')
    BY <1>2, <2>1, FS_Subset
  <2> QED
    BY <1>3, <2>1, <2>2, FS_Subset, FS_CardinalityType
<1>5. Exhausted => Return(c)
  BY <1>1, <1>2, <1>4 DEF Budget, Exhausted
<1>6. Exhausted' <=> Exhausted
  BY <1>2, <1>3 DEF Exhausted
<1>7. \/ Return(c)
      \/ Goto(c, "cooldown")
  BY DEF Budget
<1>8. /\ caller' \in [Callers -> Call]
      /\ \A d \in Callers \ {c} : caller'[d] = caller[d]
      /\ caller'[c].rec <= Len(records)
      /\ CallSound(c)'
  <2>1. CASE Return(c)
    <3>1. /\ caller' \in [Callers -> Call]
          /\ \A d \in Callers \ {c} : caller'[d] = caller[d]
          /\ caller'[c].pc = "idle" /\ caller'[c].rec = 0 /\ caller'[c].at = 0
      BY <2>1, CallFacts, ReturnFacts
    <3>2. Len(records) \in Nat
      BY CallFacts
    <3>3. CallSound(c)'
      BY <1>1, <1>2, <3>1 DEF CallSound, At
    <3> QED
      BY <3>1, <3>2, <3>3
  <2>2. CASE Goto(c, "cooldown")
    <3>1. "cooldown" \in PC /\ At(c, "budget")
      BY DEF PC, Budget
    <3>2. /\ caller' \in [Callers -> Call]
          /\ \A d \in Callers \ {c} : caller'[d] = caller[d]
          /\ caller'[c].pc = "cooldown" /\ caller'[c].rec = caller[c].rec
          /\ caller'[c].auto = caller[c].auto /\ caller'[c].at = caller[c].at
          /\ caller'[c].mut = caller[c].mut
      BY <2>2, <3>1, CallFacts, GotoFacts
    <3>3. CallSound(c) /\ caller[c].rec <= Len(records)
      BY CallFacts
    <3>4. CallSound(c)'
      BY <1>2, <3>1, <3>2, <3>3 DEF CallSound, At, Mut
    <3> QED
      BY <3>2, <3>3, <3>4
  <2> QED
    BY <1>7, <2>1, <2>2
<1>9. \A m \in LowRisk : ~Vouches(c, m)
  BY DEF Budget, At, Vouches
<1>10. PipeTypeOK' /\ RecordsSound' /\ CallsSound' /\ SavedHasPassed' /\ Vouched'
  BY <1>2, <1>8, <1>9, OwnPlace
<1>11. TypeOK'
  BY <1>1, <1>2, <1>10 DEF IInv, TypeOK
<1>12. GateHolds'
  <2>1. Return(c) => caller'[c].auto = FALSE
    BY CallFacts, ReturnFacts
  <2>2. \A d \in Callers : late[d] # 0 =>
            late[d] = 1 /\ Exhausted
            /\ (caller[d].auto => caller[d].pc \in {"mark", "note", "budget"})
    BY DEF IInv, GateHolds
  <2>3. \A d \in Callers : late'[d] # 0 =>
            late'[d] = 1 /\ Exhausted'
            /\ (caller'[d].auto => caller'[d].pc \in {"mark", "note", "budget"})
    BY <1>2, <1>5, <1>6, <1>8, <2>1, <2>2
  <2> QED
    BY <1>4, <2>3 DEF GateHolds
<1> QED
  BY <1>10, <1>11, <1>12 DEF IInv

\* A call that leaves its own place only, for idle or for pc.
LEMMA MoveIInv ==
    ASSUME IInv, NEW c \in Callers, NEW pc \in PC, Return(c) \/ Goto(c, pc),
           UNCHANGED <<records, current, saved, passed, broken, clock, rollbacks, late>>,
           cooldown' \in [Signals -> {Never} \cup 0..MaxClock],
           ~At(c, "idle"),
           pc \notin {"evaluating", "check", "saving", "mark"},
           pc = "build" => Known(Mut(c)),
           pc \in {"mark", "note", "budget"} \/ caller[c].pc \notin {"mark", "note", "budget"},
           \A m \in LowRisk : ~broken /\ Known(m) /\ StatusOf(m) = "approved" /\ Vouches(c, m)
                => Goto(c, pc) /\ pc \in {"build", "promote"}
    PROVE  IInv'
<1>1. CASE Return(c)
  <2>1. /\ caller' \in [Callers -> Call]
        /\ \A d \in Callers \ {c} : caller'[d] = caller[d]
        /\ caller'[c].pc = "idle" /\ caller'[c].rec = 0
        /\ caller'[c].auto = FALSE /\ caller'[c].at = 0
    BY <1>1, CallFacts, ReturnFacts
  <2>2. clock \in Nat
    BY AutoPromoterAssumption DEF IInv, TypeOK
  <2>3. CallSound(c)'
    BY <2>1, <2>2 DEF CallSound, At
  <2>4. \A m \in LowRisk : ~broken /\ Known(m) /\ StatusOf(m) = "approved" /\ Vouches(c, m)
            => Vouches(c, m)'
    <3>1. ~(Goto(c, pc) /\ pc \in {"build", "promote"})
      <4>1. Goto(c, pc) => caller'[c].pc = pc
        BY CallFacts, GotoFacts
      <4> QED
        BY <2>1, <4>1
    <3> QED
      BY <3>1
  <2>5. PipeTypeOK' /\ RecordsSound' /\ CallsSound' /\ SavedHasPassed' /\ Vouched'
    BY <2>1, <2>3, <2>4, CallFacts, OwnPlace
  <2>6. GateHolds'
    BY <2>1, GateKept
  <2> QED
    BY <2>5, <2>6 DEF IInv, TypeOK
<1>2. CASE Goto(c, pc)
  <2>1. /\ caller' \in [Callers -> Call]
        /\ \A d \in Callers \ {c} : caller'[d] = caller[d]
        /\ caller'[c].pc = pc /\ caller'[c].rec = caller[c].rec
        /\ caller'[c].auto = caller[c].auto /\ caller'[c].at = caller[c].at
        /\ caller'[c].mut = caller[c].mut
    BY <1>2, CallFacts, GotoFacts
  <2>2. CallSound(c)
    BY CallFacts
  <2>3. CallSound(c)'
    BY <2>1, <2>2 DEF CallSound, At, Mut, Known
  <2>4. \A m \in LowRisk : ~broken /\ Known(m) /\ StatusOf(m) = "approved" /\ Vouches(c, m)
            => Vouches(c, m)'
    BY <2>1 DEF Vouches, Mut
  <2>5. PipeTypeOK' /\ RecordsSound' /\ CallsSound' /\ SavedHasPassed' /\ Vouched'
    BY <2>1, <2>3, <2>4, CallFacts, OwnPlace
  <2>6. late[c] # 0 /\ caller[c].auto => caller[c].pc \in {"mark", "note", "budget"}
    BY DEF IInv, GateHolds
  <2>7. GateHolds'
    BY <2>1, <2>6, GateKept
  <2> QED
    BY <2>5, <2>7 DEF IInv, TypeOK
<1> QED
  BY <1>1, <1>2

LEMMA CheckCooldownIInv ==
    ASSUME IInv, NEW c \in Callers, CheckCooldown(c)
    PROVE  IInv'
<1>1. /\ At(c, "cooldown")
      /\ Return(c) \/ Goto(c, "submit")
      /\ UNCHANGED <<records, current, saved, passed, broken, clock, rollbacks, cooldown, late>>
  BY DEF CheckCooldown, autoVars
<1>2. cooldown' \in [Signals -> {Never} \cup 0..MaxClock]
  BY <1>1 DEF IInv, TypeOK
<1>3. \A m \in LowRisk : ~Vouches(c, m)
  BY <1>1 DEF At, Vouches
<1>4. ~At(c, "idle") /\ caller[c].pc \notin {"mark", "note", "budget"} /\ "submit" \in PC
  BY <1>1 DEF At, PC
<1> QED
  BY <1>1, <1>2, <1>3, <1>4, MoveIInv

LEMMA CheckIInv ==
    ASSUME IInv, NEW c \in Callers, Check(c)
    PROVE  IInv'
<1>1. /\ At(c, "check")
      /\ Return(c) \/ Goto(c, "build")
      /\ records[caller[c].rec].status = "approved" => Goto(c, "build")
      /\ UNCHANGED <<records, current, saved, passed, broken, clock, rollbacks, cooldown, late>>
  BY DEF Check, autoVars
<1>2. cooldown' \in [Signals -> {Never} \cup 0..MaxClock]
  BY <1>1 DEF IInv, TypeOK
<1>3. \A m \in LowRisk : StatusOf(m) = "approved" /\ Vouches(c, m) => Goto(c, "build")
  BY <1>1 DEF At, Vouches, StatusOf
<1>4. ~At(c, "idle") /\ caller[c].pc \notin {"mark", "note", "budget"} /\ "build" \in PC
  BY <1>1 DEF At, PC
<1>5. Known(Mut(c))
  BY <1>1, CallFacts DEF CallSound, At
<1> QED
  BY <1>1, <1>2, <1>3, <1>4, <1>5, MoveIInv

LEMMA NoteIInv ==
    ASSUME IInv, NEW c \in Callers, Note(c)
    PROVE  IInv'
<1>1. /\ At(c, "note")
      /\ Return(c)
      /\ cooldown' = [cooldown EXCEPT ![SignalOf[Mut(c)]] = caller[c].at]
      /\ UNCHANGED <<records, current, saved, passed, broken, clock, rollbacks, late>>
  BY DEF Note
<1>2. cooldown' \in [Signals -> {Never} \cup 0..MaxClock]
  <2>1. caller[c].at \in Nat /\ caller[c].at <= clock
    BY CallFacts DEF CallSound, Call
  <2>2. clock \in 0..MaxClock /\ cooldown \in [Signals -> {Never} \cup 0..MaxClock]
    BY DEF IInv, TypeOK
  <2>3. caller[c].at \in 0..MaxClock
    BY <2>1, <2>2, AutoPromoterAssumption
  <2> QED
    BY <1>1, <2>2, <2>3
<1>3. \A m \in LowRisk : ~Vouches(c, m)
  BY <1>1 DEF At, Vouches
<1>4. ~At(c, "idle") /\ "note" \in PC
  BY <1>1 DEF At, PC
<1> QED
  BY <1>1, <1>2, <1>3, <1>4, MoveIInv

LEMMA LookupIInv ==
    ASSUME IInv, NEW c \in Callers, Lookup(c), UNCHANGED autoVars
    PROVE  IInv'
<1>1. /\ At(c, "promote")
      /\ UNCHANGED <<records, current, saved, passed, broken, clock, rollbacks, cooldown, late>>
  BY DEF Lookup, autoVars
<1>2. CASE Known(Mut(c)) /\ StatusOf(Mut(c)) = "approved"
  <2> DEFINE i == current[Mut(c)]
  <2>1. caller' = [caller EXCEPT ![c].pc = "saving", ![c].rec = i]
    BY <1>2 DEF Lookup
  <2>2. CallSound(c) /\ Mut(c) \in Mutations
    BY <1>1, CallFacts DEF CallSound, At
  <2>3. i \in 1..Len(records) /\ i \in Nat /\ Len(records) \in Nat
    BY <1>2, <2>2, CallFacts DEF PipeTypeOK, Known
  <2>4. /\ records[i].mut = Mut(c) /\ Mut(c) \in passed
    BY <1>2, <2>2, <2>3 DEF IInv, RecordsSound, StatusOf
  <2> HIDE DEF i
  <2>5. /\ caller' \in [Callers -> Call]
        /\ \A d \in Callers \ {c} : caller'[d] = caller[d]
        /\ caller'[c].pc = "saving" /\ caller'[c].rec = i
        /\ caller'[c].auto = caller[c].auto /\ caller'[c].at = caller[c].at
        /\ caller'[c].mut = caller[c].mut
    BY <2>1, <2>3, CallFacts DEF Call, PC
  <2>6. CallSound(c)'
    BY <1>1, <2>2, <2>3, <2>4, <2>5 DEF CallSound, At, Mut
  <2>7. \A m \in LowRisk : Vouches(c, m) => Vouches(c, m)'
    BY <1>1, <2>5 DEF Vouches, Mut, i
  <2>8. PipeTypeOK' /\ RecordsSound' /\ CallsSound' /\ SavedHasPassed' /\ Vouched'
    BY <1>1, <2>3, <2>5, <2>6, <2>7, OwnPlace
  <2>9. late[c] # 0 /\ caller[c].auto => caller[c].pc \in {"mark", "note", "budget"}
    BY DEF IInv, GateHolds
  <2>10. GateHolds'
    BY <1>1, <2>5, <2>9, GateKept DEF At
  <2> QED
    BY <1>1, <2>8, <2>10 DEF IInv, TypeOK
<1>3. CASE ~(Known(Mut(c)) /\ StatusOf(Mut(c)) = "approved")
  <2>1. Return(c)
    BY <1>3 DEF Lookup
  <2>2. cooldown' \in [Signals -> {Never} \cup 0..MaxClock]
    BY <1>1 DEF IInv, TypeOK
  <2>3. \A m \in LowRisk : ~(Known(m) /\ StatusOf(m) = "approved" /\ Vouches(c, m))
    BY <1>3 DEF Vouches
  <2>4. ~At(c, "idle") /\ "note" \in PC
    BY <1>1 DEF At, PC
  <2> QED
    BY <1>1, <2>1, <2>2, <2>3, <2>4, MoveIInv
<1> QED
  BY <1>2, <1>3

----------------------------------------------------------------------------
\* A step that sets the status of record i, of whoever may hold it.
LEMMA StatusStep ==
    ASSUME IInv, NEW i \in 1..Len(records), NEW s \in Status, SetStatus(i, s),
           UNCHANGED <<current, saved, broken, clock>>,
           passed \subseteq passed', passed' \subseteq Mutations,
           s \in {"evaluated", "approved"} => records[i].mut \in passed',
           records[i].mut \in LowRisk => s # "evaluated",
           caller' \in [Callers -> Call],
           \A d \in Callers : caller'[d].rec <= Len(records),
           \A d \in Callers : caller'[d] = caller[d] \/ CallSound(d)',
           \A n \in LowRisk : Known(n) /\ current[n] = i /\ s = "approved"
                => \E d \in Callers : Vouches(d, n)',
           \A n \in LowRisk, d \in Callers : Known(n) /\ current[n] # i /\ Vouches(d, n)
                => Vouches(d, n)'
    PROVE  /\ PipeTypeOK'
           /\ RecordsSound'
           /\ CallsSound'
           /\ SavedHasPassed'
           /\ Vouched'
<1>1. /\ records' \in Seq([mut : Mutations, status : Status])
      /\ Len(records') = Len(records)
      /\ records'[i].status = s
      /\ \A j \in 1..Len(records) :
            /\ records'[j].mut = records[j].mut
            /\ j # i => records'[j] = records[j]
  BY SetStatusFacts DEF IInv, TypeOK
<1>2. PipeTypeOK /\ Len(records) \in Nat
  BY DEF IInv, TypeOK, PipeTypeOK
<1>3. PipeTypeOK'
  BY <1>1, <1>2 DEF PipeTypeOK
<1>4. \A m \in Mutations : Known(m) => current[m] \in 1..Len(records)
  BY <1>2 DEF PipeTypeOK, Known
<1>5. RecordsSound'
  BY <1>1, <1>4 DEF IInv, RecordsSound, Known
<1>6. CallsSound'
  <2> SUFFICES ASSUME NEW d \in Callers, caller'[d] = caller[d] PROVE CallSound(d)'
    BY DEF CallsSound
  <2>1. CallSound(d) /\ caller[d].rec <= Len(records) /\ caller[d].rec \in Nat
    BY CallFacts DEF Call
  <2>2. caller[d].rec # 0 => caller[d].rec \in 1..Len(records)
    BY <1>2, <2>1
  <2> QED
    BY <1>1, <2>1, <2>2 DEF CallSound, At, Mut, Known
<1>7. SavedHasPassed'
  BY DEF IInv, SavedHasPassed
<1>8. Vouched'
  <2> SUFFICES ASSUME NEW n \in LowRisk, ~broken, Known(n), StatusOf(n)' = "approved"
               PROVE  \E d \in Callers : Vouches(d, n)'
    BY DEF Vouched, Known
  <2>1. current[n] \in 1..Len(records)
    BY <1>4, PromotionAssumption
  <2>2. CASE current[n] = i
    BY <1>1, <2>2 DEF StatusOf
  <2>3. CASE current[n] # i
    <3>1. StatusOf(n) = "approved"
      BY <1>1, <2>1, <2>3 DEF StatusOf
    <3>2. PICK d \in Callers : Vouches(d, n)
      BY <3>1 DEF IInv, Vouched
    <3> QED
      BY <2>3, <3>2
  <2> QED
    BY <2>2, <2>3
<1> QED
  BY <1>3, <1>5, <1>6, <1>7, <1>8

\* The three decisions of people.
LEMMA ReviewIInv ==
    ASSUME IInv, NEW m \in Mutations, Review(m) \/ RollBack(m)
    PROVE  IInv'
<1>1. /\ Known(m)
      /\ UNCHANGED <<current, saved, broken, passed, caller, clock, rollbacks, cooldown, late>>
  BY DEF Review, RollBack, Approve, Reject, Rollback, autoVars
<1>2. /\ PipeTypeOK
      /\ current[m] \in 1..Len(records)
      /\ records[current[m]].mut = m
  BY <1>1 DEF IInv, TypeOK, PipeTypeOK, RecordsSound, Known
<1>3. PICK s \in {"approved", "rejected", "rolled_back"} :
        /\ SetStatus(current[m], s)
        /\ s = "approved" => m \in passed /\ m \notin LowRisk
  <2>1. CASE Approve(m)
    BY <1>2, <2>1 DEF Approve, StatusOf, IInv, RecordsSound
  <2>2. CASE Reject(m) \/ Rollback(m)
    BY <2>2 DEF Reject, Rollback
  <2> QED
    BY <2>1, <2>2 DEF Review, RollBack
<1>4. s \in Status /\ s # "evaluated"
  BY DEF Status
<1>5. \A n \in LowRisk : Known(n) => records[current[n]].mut = n
  BY PromotionAssumption DEF IInv, RecordsSound
<1>6. \A n \in LowRisk : Known(n) /\ current[n] = current[m] => s # "approved"
  BY <1>2, <1>3, <1>5
<1>7. \A n \in LowRisk, d \in Callers : Vouches(d, n) => Vouches(d, n)'
  BY <1>1 DEF Vouches, Mut
<1>8. /\ caller' \in [Callers -> Call] /\ passed' \subseteq Mutations
      /\ passed \subseteq passed'
      /\ \A d \in Callers : caller'[d] = caller[d] /\ caller'[d].rec <= Len(records)
  BY <1>1, <1>2 DEF PipeTypeOK
<1>9. s \in {"evaluated", "approved"} => records[current[m]].mut \in passed'
  BY <1>1, <1>2, <1>3, <1>4
<1>10. PipeTypeOK' /\ RecordsSound' /\ CallsSound' /\ SavedHasPassed' /\ Vouched'
  BY <1>1, <1>2, <1>3, <1>4, <1>6, <1>7, <1>8, <1>9, StatusStep
<1>11. GateHolds'
  BY <1>1 DEF IInv, GateHolds, Exhausted, Live
<1> QED
  BY <1>1, <1>10, <1>11 DEF IInv, TypeOK

LEMMA EvaluateIInv ==
    ASSUME IInv, NEW c \in Callers, Evaluate(c), UNCHANGED autoVars
    PROVE  IInv'
<1> DEFINE i == caller[c].rec
<1>1. /\ At(c, "evaluating")
      /\ IF caller[c].auto THEN Goto(c, "check") ELSE Return(c)
      /\ UNCHANGED <<current, saved, broken, clock, rollbacks, cooldown, late>>
  BY DEF Evaluate, autoVars
<1>2. /\ PipeTypeOK /\ CallSound(c) /\ Mut(c) \in Mutations
      /\ i \in 1..Len(records) /\ i # 0 /\ records[i].mut = Mut(c) /\ Known(Mut(c))
      /\ Len(records) \in Nat
  <2>1. PipeTypeOK /\ CallSound(c) /\ caller[c] \in Call /\ i <= Len(records)
          /\ Len(records) \in Nat
    BY CallFacts
  <2>2. i \in Nat
    BY <2>1 DEF Call
  <2> QED
    BY <1>1, <2>1, <2>2 DEF CallSound, At
<1>3. PICK s \in {"approved", "evaluated", "rejected"} :
        /\ SetStatus(i, s)
        /\ s = "rejected" => passed' = passed
        /\ s # "rejected" => passed' = passed \cup {Mut(c)}
        /\ Mut(c) \in LowRisk => s # "evaluated"
        /\ s = "approved" => Mut(c) \in LowRisk
  BY DEF Evaluate
<1>4. s \in Status
  BY DEF Status
<1>5. /\ caller' \in [Callers -> Call]
      /\ \A d \in Callers \ {c} : caller'[d] = caller[d]
      /\ caller'[c].rec <= Len(records)
      /\ caller[c].auto => caller'[c].pc = "check" /\ caller'[c].mut = caller[c].mut
                           /\ caller'[c].rec = caller[c].rec /\ caller'[c].at = caller[c].at
                           /\ caller'[c].auto = caller[c].auto
      /\ ~caller[c].auto => caller'[c].pc = "idle" /\ caller'[c].rec = 0 /\ caller'[c].at = 0
                            /\ caller'[c].auto = FALSE
  <2>1. CASE caller[c].auto
    <3>1. Goto(c, "check") /\ "check" \in PC
      BY <1>1, <2>1 DEF PC
    <3> QED
      BY <2>1, <3>1, CallFacts, GotoFacts
  <2>2. CASE ~caller[c].auto
    <3>1. Return(c)
      BY <1>1, <2>2
    <3>2. /\ caller' \in [Callers -> Call]
          /\ \A d \in Callers \ {c} : caller'[d] = caller[d]
          /\ caller'[c].pc = "idle" /\ caller'[c].rec = 0 /\ caller'[c].at = 0
          /\ caller'[c].auto = FALSE
      BY <3>1, CallFacts, ReturnFacts
    <3>3. caller'[c].rec <= Len(records)
      BY <1>2, <3>2
    <3> QED
      BY <2>2, <3>2, <3>3
  <2> QED
    BY <2>1, <2>2
<1>6. CallSound(c)'
  <2>1. records'[i].mut = records[i].mut
    BY <1>2, <1>3, <1>4, SetStatusFacts
  <2>2. clock \in Nat
    BY AutoPromoterAssumption DEF IInv, TypeOK
  <2>3. CASE caller[c].auto
    BY <1>1, <1>2, <1>5, <2>1, <2>3 DEF CallSound, At, Mut, Known
  <2>4. CASE ~caller[c].auto
    BY <1>1, <1>5, <2>2, <2>4 DEF CallSound, At
  <2> QED
    BY <2>3, <2>4
<1> HIDE DEF i
<1>7. \A n \in LowRisk : Known(n) => records[current[n]].mut = n
  BY PromotionAssumption DEF IInv, RecordsSound
<1>8. \A n \in LowRisk : Known(n) /\ current[n] = i => Vouches(c, n)'
  <2> SUFFICES ASSUME NEW n \in LowRisk, Known(n), current[n] = i PROVE Vouches(c, n)'
    OBVIOUS
  <2>1. Mut(c) = n
    BY <1>2, <1>7
  <2>2. caller[c].auto
    BY <1>1, <1>2, <2>1 DEF CallSound, At
  <2> QED
    BY <1>1, <1>5, <2>1, <2>2 DEF Vouches, Mut, i
<1>9. \A n \in LowRisk, d \in Callers : Vouches(d, n) => Vouches(d, n)'
  <2>1. \A n \in LowRisk : ~Vouches(c, n)
    BY <1>1 DEF At, Vouches
  <2> QED
    BY <1>1, <1>5, <2>1 DEF Vouches, Mut
<1>10. /\ passed' \subseteq Mutations /\ passed \subseteq passed'
       /\ s \in {"evaluated", "approved"} => records[i].mut \in passed'
       /\ \A d \in Callers : caller'[d].rec <= Len(records)
       /\ \A d \in Callers : caller'[d] = caller[d] \/ CallSound(d)'
  BY <1>2, <1>3, <1>5, <1>6 DEF PipeTypeOK
<1>11. PipeTypeOK' /\ RecordsSound' /\ CallsSound' /\ SavedHasPassed' /\ Vouched'
  <2>1. SetStatus(i, s) /\ (records[i].mut \in LowRisk => s # "evaluated")
    BY <1>2, <1>3 DEF i
  <2> QED
    BY <1>1, <1>2, <1>4, <1>5, <1>8, <1>9, <1>10, <2>1, StatusStep
<1>12. GateHolds'
  <2>1. late[c] # 0 => ~caller[c].auto
    BY <1>1 DEF IInv, GateHolds, At
  <2> QED
    BY <1>1, <1>5, <2>1, GateKept
<1> QED
  BY <1>1, <1>11, <1>12 DEF IInv, TypeOK

LEMMA MarkIInv ==
    ASSUME IInv, NEW c \in Callers, Mark(c), UNCHANGED autoVars
    PROVE  IInv'
<1> DEFINE i == caller[c].rec
<1>1. /\ At(c, "mark")
      /\ IF caller[c].auto THEN Goto(c, "note") ELSE Return(c)
      /\ SetStatus(i, "promoted") /\ "promoted" \in Status
      /\ UNCHANGED <<current, saved, passed, broken, clock, rollbacks, cooldown, late>>
  BY DEF Mark, autoVars, Status
<1>2. PipeTypeOK /\ CallSound(c) /\ i \in 1..Len(records) /\ Len(records) \in Nat
  <2>1. PipeTypeOK /\ CallSound(c) /\ caller[c] \in Call /\ i <= Len(records)
          /\ Len(records) \in Nat
    BY CallFacts
  <2>2. i \in Nat
    BY <2>1 DEF Call
  <2> QED
    BY <1>1, <2>1, <2>2 DEF CallSound, At
<1>3. /\ caller' \in [Callers -> Call]
      /\ \A d \in Callers \ {c} : caller'[d] = caller[d]
      /\ caller'[c].rec <= Len(records)
      /\ CallSound(c)'
      /\ caller'[c].auto => caller'[c].pc = "note"
  <2>1. CASE caller[c].auto
    <3>1. Goto(c, "note") /\ "note" \in PC
      BY <1>1, <2>1 DEF PC
    <3>2. /\ caller' \in [Callers -> Call]
          /\ \A d \in Callers \ {c} : caller'[d] = caller[d]
          /\ caller'[c].pc = "note" /\ caller'[c].rec = caller[c].rec
          /\ caller'[c].auto = caller[c].auto /\ caller'[c].at = caller[c].at
          /\ caller'[c].mut = caller[c].mut
      BY <3>1, CallFacts, GotoFacts
    <3>3. CallSound(c)'
      BY <1>1, <1>2, <3>2 DEF CallSound, At, Mut
    <3> QED
      BY <1>2, <3>2, <3>3
  <2>2. CASE ~caller[c].auto
    <3>1. Return(c)
      BY <1>1, <2>2
    <3>2. /\ caller' \in [Callers -> Call]
          /\ \A d \in Callers \ {c} : caller'[d] = caller[d]
          /\ caller'[c].pc = "idle" /\ caller'[c].rec = 0 /\ caller'[c].at = 0
          /\ caller'[c].auto = FALSE
      BY <3>1, CallFacts, ReturnFacts
    <3>3. clock \in Nat
      BY AutoPromoterAssumption DEF IInv, TypeOK
    <3>4. CallSound(c)'
      BY <1>1, <3>2, <3>3 DEF CallSound, At
    <3>5. caller'[c].rec <= Len(records)
      BY <1>2, <3>2
    <3> QED
      BY <3>2, <3>4, <3>5
  <2> QED
    BY <2>1, <2>2
<1>4. \A n \in LowRisk, d \in Callers : current[n] # i /\ Vouches(d, n) => Vouches(d, n)'
  <2>1. \A n \in LowRisk : Vouches(c, n) => current[n] = i
    BY <1>1 DEF At, Vouches
  <2> QED
    BY <1>1, <1>3, <2>1 DEF Vouches, Mut
<1> HIDE DEF i
<1>5. /\ passed' \subseteq Mutations /\ passed \subseteq passed'
      /\ \A d \in Callers : caller'[d].rec <= Len(records)
      /\ \A d \in Callers : caller'[d] = caller[d] \/ CallSound(d)'
  BY <1>1, <1>2, <1>3 DEF PipeTypeOK
<1>6. PipeTypeOK' /\ RecordsSound' /\ CallsSound' /\ SavedHasPassed' /\ Vouched'
  BY <1>1, <1>2, <1>3, <1>4, <1>5, StatusStep
<1>7. GateHolds'
  BY <1>1, <1>3, GateKept
<1> QED
  BY <1>1, <1>6, <1>7 DEF IInv, TypeOK

LEMMA BuildIInv ==
    ASSUME IInv, NEW c \in Callers, Build(c)
    PROVE  IInv'
<1>1. /\ At(c, "build")
      /\ UNCHANGED <<current, saved, passed, broken, clock, rollbacks, cooldown, late>>
  BY DEF Build, autoVars
<1>2. CASE Goto(c, "promote") /\ UNCHANGED records
  <2>1. cooldown' \in [Signals -> {Never} \cup 0..MaxClock]
    BY <1>1 DEF IInv, TypeOK
  <2>2. ~At(c, "idle") /\ caller[c].pc \notin {"mark", "note", "budget"} /\ "promote" \in PC
    BY <1>1 DEF At, PC
  <2> QED
    BY <1>1, <1>2, <2>1, <2>2, MoveIInv
<1>3. CASE SetStatus(current[Mut(c)], "rejected") /\ Return(c)
  <2> DEFINE i == current[Mut(c)]
  <2>1. /\ PipeTypeOK /\ CallSound(c) /\ i \in 1..Len(records) /\ Len(records) \in Nat
    <3>1. PipeTypeOK /\ CallSound(c) /\ Len(records) \in Nat
      BY CallFacts
    <3>2. Mut(c) \in Mutations /\ current[Mut(c)] # 0
      BY <1>1, <3>1 DEF CallSound, At, Known
    <3>3. current \in [Mutations -> 0..Len(records)]
      BY <3>1 DEF PipeTypeOK
    <3> QED
      BY <3>1, <3>2, <3>3
  <2>2. /\ caller' \in [Callers -> Call]
        /\ \A d \in Callers \ {c} : caller'[d] = caller[d]
        /\ caller'[c].pc = "idle" /\ caller'[c].rec = 0 /\ caller'[c].at = 0
        /\ caller'[c].auto = FALSE
    BY <1>3, CallFacts, ReturnFacts
  <2>3. clock \in Nat
    BY AutoPromoterAssumption DEF IInv, TypeOK
  <2>4. CallSound(c)'
    BY <1>1, <2>2, <2>3 DEF CallSound, At
  <2>5. \A n \in LowRisk, d \in Callers : current[n] # i /\ Vouches(d, n) => Vouches(d, n)'
    <3>1. \A n \in LowRisk : Vouches(c, n) => current[n] = i
      BY DEF Vouches
    <3> QED
      BY <1>1, <2>2, <3>1 DEF Vouches, Mut
  <2>6. SetStatus(i, "rejected") /\ "rejected" \in Status
    BY <1>3 DEF Status
  <2> HIDE DEF i
  <2>7. /\ passed' \subseteq Mutations /\ passed \subseteq passed'
        /\ \A d \in Callers : caller'[d].rec <= Len(records)
        /\ \A d \in Callers : caller'[d] = caller[d] \/ CallSound(d)'
    <3>1. passed \subseteq Mutations /\ \A d \in Callers : caller[d].rec <= Len(records)
      BY <2>1 DEF PipeTypeOK
    <3>2. \A d \in Callers : caller'[d].rec <= Len(records)
      BY <2>1, <2>2, <3>1
    <3> QED
      BY <1>1, <2>2, <2>4, <3>1, <3>2
  <2>8. PipeTypeOK' /\ RecordsSound' /\ CallsSound' /\ SavedHasPassed' /\ Vouched'
    BY <1>1, <2>1, <2>2, <2>5, <2>6, <2>7, StatusStep
  <2>9. GateHolds'
    BY <1>1, <2>2, GateKept
  <2> QED
    BY <1>1, <2>8, <2>9 DEF IInv, TypeOK
<1> QED
  BY <1>2, <1>3 DEF Build

LEMMA SaveIInv ==
    ASSUME IInv, NEW c \in Callers, SaveStep(c)
    PROVE  IInv'
<1>1. /\ At(c, "saving")
      /\ UNCHANGED <<records, current, passed, clock, rollbacks, cooldown>>
  BY DEF SaveStep, Save
<1>2. PipeTypeOK /\ CallSound(c) /\ Mut(c) \in passed /\ Len(records) \in Nat
        /\ caller[c].rec <= Len(records) /\ saved \subseteq passed
  BY <1>1, CallFacts DEF CallSound, IInv, SavedHasPassed
<1>3. clock \in Nat /\ late \in [Callers -> 0..2]
  BY AutoPromoterAssumption DEF IInv, TypeOK
<1>4. caller[c].auto => late[c] = 0
  BY <1>1 DEF IInv, GateHolds, At
<1>5. CASE saved' = saved \cup {Mut(c)} /\ Goto(c, "mark") /\ UNCHANGED broken
  <2>1. "mark" \in PC
    BY DEF PC
  <2>2. /\ caller' \in [Callers -> Call]
        /\ \A d \in Callers \ {c} : caller'[d] = caller[d]
        /\ caller'[c].pc = "mark" /\ caller'[c].rec = caller[c].rec
        /\ caller'[c].auto = caller[c].auto /\ caller'[c].at = caller[c].at
        /\ caller'[c].mut = caller[c].mut
    BY <1>5, <2>1, CallFacts, GotoFacts
  <2>3. CallSound(c)'
    BY <1>1, <1>2, <2>2 DEF CallSound, At, Mut
  <2>4. \A m \in LowRisk : Vouches(c, m) => Vouches(c, m)'
    BY <1>1, <2>2 DEF Vouches, Mut, At
  <2>5. saved' \subseteq passed /\ broken' \in BOOLEAN
    BY <1>2, <1>5 DEF PipeTypeOK
  <2>6. PipeTypeOK' /\ RecordsSound' /\ CallsSound' /\ SavedHasPassed' /\ Vouched'
    BY <1>1, <1>2, <1>5, <2>2, <2>3, <2>4, <2>5, PlaceAndSave
  <2>7. \/ late' = late
        \/ Exhausted /\ caller[c].auto /\ late' = [late EXCEPT ![c] = IF @ = 0 THEN 1 ELSE 2]
    BY DEF SaveStep
  <2>8. /\ late' \in [Callers -> 0..2]
        /\ \A d \in Callers \ {c} : late'[d] = late[d]
        /\ late'[c] # late[c] => late'[c] = 1
        /\ late'[c] # late[c] => Exhausted
    <3>1. CASE late' = late
      <4>1. late' \in [Callers -> 0..2]
        BY <1>3, <3>1
      <4>2. \A d \in Callers : late'[d] = late[d]
        BY <3>1
      <4> QED
        BY <4>1, <4>2
    <3>2. CASE late' # late
      <4>1. Exhausted /\ late[c] = 0
        BY <1>4, <2>7, <3>2
      <4>2. late' = [late EXCEPT ![c] = 1]
        BY <1>3, <2>7, <3>2, <4>1
      <4> QED
        BY <1>3, <4>1, <4>2
    <3> QED
      BY <3>1, <3>2
  <2>9. GateHolds'
    <3>1. Exhausted' <=> Exhausted
      BY <1>1 DEF Exhausted, Live
    <3>2. \A d \in Callers : late[d] # 0 =>
              late[d] = 1 /\ Exhausted
              /\ (caller[d].auto => caller[d].pc \in {"mark", "note", "budget"})
      BY DEF IInv, GateHolds
    <3>3. \A d \in Callers : late'[d] # 0 =>
              late'[d] = 1 /\ Exhausted'
              /\ (caller'[d].auto => caller'[d].pc \in {"mark", "note", "budget"})
      BY <2>2, <2>8, <3>1, <3>2
    <3>4. IsFiniteSet(rollbacks')
      BY <1>1 DEF IInv, GateHolds
    <3> QED
      BY <3>3, <3>4 DEF GateHolds
  <2> QED
    BY <1>1, <2>6, <2>8, <2>9 DEF IInv, TypeOK
<1>6. CASE broken' = TRUE /\ Return(c) /\ UNCHANGED saved
  <2>1. /\ caller' \in [Callers -> Call]
        /\ \A d \in Callers \ {c} : caller'[d] = caller[d]
        /\ caller'[c].pc = "idle" /\ caller'[c].rec = 0 /\ caller'[c].at = 0
        /\ caller'[c].auto = FALSE
    BY <1>6, CallFacts, ReturnFacts
  <2>2. CallSound(c)'
    BY <1>1, <1>3, <2>1 DEF CallSound, At
  <2>3. caller'[c].rec <= Len(records)
    BY <1>2, <2>1
  <2>4. saved' \subseteq passed /\ broken' \in BOOLEAN /\ broken'
    BY <1>2, <1>6
  <2>5. PipeTypeOK' /\ RecordsSound' /\ CallsSound' /\ SavedHasPassed' /\ Vouched'
    BY <1>1, <2>1, <2>2, <2>3, <2>4, PlaceAndSave
  <2>6. late' = late
    BY <2>1 DEF SaveStep, At
  <2>7. GateHolds'
    BY <1>1, <2>1, <2>6, GateKept
  <2> QED
    BY <1>1, <2>5, <2>6, <2>7 DEF IInv, TypeOK
<1> QED
  BY <1>5, <1>6 DEF SaveStep, Save

\* A new record takes the place of the mutation's last one.
LEMMA SubmitIInv ==
    ASSUME IInv, NEW c \in Callers, Submit(c), UNCHANGED autoVars
    PROVE  IInv'
<1> DEFINE n == Len(records)
           Rec == [mut : Mutations, status : Status]
           new == [mut |-> Mut(c), status |-> "pending"]
<1>1. /\ At(c, "submit")
      /\ records' = Append(records, new)
      /\ current' = [current EXCEPT ![Mut(c)] = n + 1]
      /\ caller' = [caller EXCEPT ![c].pc = "evaluating", ![c].rec = n + 1]
      /\ UNCHANGED <<saved, passed, broken, clock, rollbacks, cooldown, late>>
  BY DEF Submit, autoVars
<1>2. /\ PipeTypeOK /\ CallSound(c) /\ Mut(c) \in Mutations /\ n \in Nat
      /\ records \in Seq(Rec) /\ current \in [Mutations -> 0..n]
      /\ caller \in [Callers -> Call]
  BY <1>1, CallFacts DEF CallSound, At, PipeTypeOK
<1>3. new \in Rec /\ new.mut = Mut(c) /\ new.status = "pending"
  BY <1>2 DEF Status
<1> HIDE DEF Rec, new
<1>4. /\ records' \in Seq(Rec) /\ Len(records') = n + 1
      /\ records'[n + 1] = new
      /\ \A j \in 1..n : records'[j] = records[j]
  BY <1>1, <1>2, <1>3
<1>5. /\ caller' \in [Callers -> Call]
      /\ \A d \in Callers \ {c} : caller'[d] = caller[d]
      /\ caller'[c].pc = "evaluating" /\ caller'[c].rec = n + 1
      /\ caller'[c].auto = caller[c].auto /\ caller'[c].at = caller[c].at
      /\ caller'[c].mut = caller[c].mut
  <2> HIDE DEF n
  <2>1. n + 1 \in Nat /\ "evaluating" \in PC
    BY <1>2 DEF PC
  <2> QED
    BY <1>1, <1>2, <2>1 DEF Call
<1>6. /\ current'[Mut(c)] = n + 1
      /\ \A m \in Mutations : m # Mut(c) => current'[m] = current[m]
      /\ current' \in [Mutations -> 0..(n + 1)]
  BY <1>1, <1>2
<1>7. PipeTypeOK'
  <2>1. \A d \in Callers : caller[d].rec <= n /\ caller[d].rec \in Nat
    BY <1>2 DEF PipeTypeOK, Call
  <2>2. \A d \in Callers : caller'[d].rec <= Len(records')
    <3> HIDE DEF n
    <3> QED
      BY <1>2, <1>4, <1>5, <2>1
  <2>3. saved' \subseteq Mutations /\ passed' \subseteq Mutations /\ broken' \in BOOLEAN
    BY <1>1, <1>2 DEF PipeTypeOK
  <2> QED
    BY <1>4, <1>5, <1>6, <2>2, <2>3 DEF PipeTypeOK, Rec
<1>8. RecordsSound'
  <2>1. \A j \in 1..(n + 1) : j \in 1..n \/ j = n + 1
    BY <1>2
  <2>2. \A j \in 1..Len(records') :
            /\ records'[j].status \in {"evaluated", "approved"} => records'[j].mut \in passed'
            /\ records'[j].mut \in LowRisk => records'[j].status # "evaluated"
    BY <1>1, <1>3, <1>4, <2>1 DEF IInv, RecordsSound
  <2>3. ASSUME NEW m \in Mutations, current'[m] # 0 PROVE records'[current'[m]].mut = m
    <3>1. CASE m = Mut(c)
      BY <1>3, <1>4, <1>6, <3>1
    <3>2. CASE m # Mut(c)
      <4>1. current[m] # 0 /\ current[m] \in 1..n
        BY <1>2, <1>6, <2>3, <3>2
      <4> QED
        BY <1>4, <1>6, <3>2, <4>1 DEF IInv, RecordsSound, Known
    <3> QED
      BY <3>1, <3>2
  <2> QED
    BY <2>2, <2>3 DEF RecordsSound, Known
<1>9. CallsSound'
  <2> SUFFICES ASSUME NEW d \in Callers PROVE CallSound(d)'
    BY DEF CallsSound
  <2>1. /\ CallSound(d) /\ caller[d] \in Call /\ caller[d].rec <= n /\ caller[d].rec \in Nat
    BY CallFacts DEF Call
  <2>2. caller[d].rec # 0 => caller[d].rec \in 1..n
    BY <1>2, <2>1
  <2>3. \A m \in Mutations : current[m] # 0 => current'[m] # 0
    BY <1>2, <1>6
  <2>4. CASE d = c
    BY <1>1, <1>2, <1>3, <1>4, <1>5, <1>6, <2>4 DEF CallSound, At, Mut, Known
  <2>5. CASE d # c
    <3>1. caller'[d] = caller[d]
      BY <1>5, <2>5
    <3>2. /\ caller[d].pc # "idle" => caller[d].mut \in Mutations
          /\ caller[d].pc \in {"evaluating", "check", "saving", "mark"}
                => caller[d].rec # 0 /\ records'[caller[d].rec].mut = caller[d].mut
      BY <1>4, <2>1, <2>2 DEF CallSound, At, Mut
    <3>3. caller[d].pc \in {"evaluating", "check", "build"} => current'[caller[d].mut] # 0
      BY <2>1, <2>3, <3>2 DEF CallSound, Mut, Known
    <3>4. /\ caller[d].pc = "saving" => caller[d].mut \in passed'
          /\ caller[d].pc # "idle" /\ caller[d].mut \in LowRisk => caller[d].auto
          /\ caller[d].at <= clock'
      BY <1>1, <2>1 DEF CallSound, At, Mut
    <3> QED
      BY <3>1, <3>2, <3>3, <3>4 DEF CallSound, At, Mut, Known
  <2> QED
    BY <2>4, <2>5
<1>10. SavedHasPassed'
  BY <1>1 DEF IInv, SavedHasPassed
<1>11. Vouched'
  <2> SUFFICES ASSUME NEW m \in LowRisk, ~broken, Known(m)', StatusOf(m)' = "approved"
               PROVE  \E d \in Callers : Vouches(d, m)'
    BY <1>1 DEF Vouched
  <2>1. m # Mut(c)
    BY <1>3, <1>4, <1>6 DEF StatusOf
  <2>2. Known(m) /\ current'[m] = current[m] /\ current[m] \in 1..n
    BY <1>2, <1>6, <2>1, PromotionAssumption DEF Known
  <2>3. StatusOf(m) = "approved"
    BY <1>4, <2>2 DEF StatusOf
  <2>4. PICK d \in Callers : Vouches(d, m)
    BY <2>2, <2>3 DEF IInv, Vouched
  <2>5. d # c
    BY <2>1, <2>4 DEF Vouches
  <2> QED
    BY <1>5, <2>2, <2>4, <2>5 DEF Vouches, Mut
<1>12. GateHolds'
  <2>1. late[c] # 0 => ~caller[c].auto
    BY <1>1 DEF IInv, GateHolds, At
  <2> QED
    BY <1>1, <1>5, <2>1, GateKept
<1> QED
  BY <1>1, <1>7, <1>8, <1>9, <1>10, <1>11, <1>12 DEF IInv, TypeOK

\* Steps that leave the pipeline alone.
LEMMA PipeUnchanged ==
    ASSUME IInv, UNCHANGED pipeVars, clock \in Nat, clock' \in Nat, clock <= clock'
    PROVE  PipeTypeOK' /\ RecordsSound' /\ CallsSound' /\ SavedHasPassed' /\ Vouched'
<1>1. UNCHANGED <<records, current, saved, caller, passed, broken>>
  BY DEF pipeVars
<1>2. PipeTypeOK'
  BY <1>1 DEF IInv, TypeOK, PipeTypeOK
<1>3. RecordsSound' /\ SavedHasPassed'
  BY <1>1 DEF IInv, RecordsSound, SavedHasPassed, Known
<1>4. CallsSound'
  <2> SUFFICES ASSUME NEW d \in Callers PROVE CallSound(d)'
    BY DEF CallsSound
  <2>1. CallSound(d) /\ caller[d].at \in Nat
    BY CallFacts DEF Call
  <2> QED
    BY <1>1, <2>1 DEF CallSound, At, Mut, Known
<1>5. Vouched'
  BY <1>1 DEF IInv, Vouched, Vouches, Known, StatusOf, Mut
<1> QED
  BY <1>2, <1>3, <1>4, <1>5

LEMMA RecordRollbackIInv ==
    ASSUME IInv, RecordRollback
    PROVE  IInv'
<1>1. PICK id \in Capsules : rollbacks' = rollbacks \cup {[capsule |-> id, at |-> clock]}
  BY DEF RecordRollback
<1> DEFINE entry == [capsule |-> id, at |-> clock]
<1>2. UNCHANGED <<pipeVars, clock, cooldown, late, caller>>
  BY DEF RecordRollback, pipeVars
<1>3. /\ clock \in 0..MaxClock /\ clock \in Nat /\ MaxRollbacks \in Nat
      /\ rollbacks \subseteq [capsule : Capsules, at : 0..MaxClock]
      /\ IsFiniteSet(rollbacks)
  BY AutoPromoterAssumption DEF IInv, TypeOK, GateHolds
<1>4. entry \in [capsule : Capsules, at : 0..MaxClock]
  BY <1>3
<1>5. PipeTypeOK' /\ RecordsSound' /\ CallsSound' /\ SavedHasPassed' /\ Vouched'
  BY <1>2, <1>3, PipeUnchanged
<1> HIDE DEF entry
<1>6. rollbacks' = rollbacks \cup {entry}
  BY <1>1 DEF entry
<1>7. IsFiniteSet(rollbacks')
  BY <1>3, <1>6, FS_AddElement
<1>8. Exhausted => Exhausted'
  <2>1. Live(clock) \subseteq Live(clock)' /\ Live(clock)' \subseteq rollbacks'
    BY <1>2, <1>6 DEF Live
  <2>2. IsFiniteSet(Live(clock)')
    BY <1>7, <2>1, FS_Subset
  <2>3. /\ Cardinality(Live(clock)) <= Cardinality(Live(clock)')
        /\ Cardinality(Live(clock)) \in Nat /\ Cardinality(Live(clock)') \in Nat
    BY <2>1, <2>2, FS_Subset, FS_CardinalityType
  <2> QED
    BY <1>3, <2>3 DEF Exhausted
<1>9. GateHolds'
  BY <1>2, <1>7, <1>8 DEF IInv, GateHolds
<1>10. TypeOK'
  BY <1>2, <1>3, <1>4, <1>5, <1>6 DEF IInv, TypeOK
<1> QED
  BY <1>5, <1>9, <1>10 DEF IInv

LEMMA TickIInv ==
    ASSUME IInv, Tick
    PROVE  IInv'
<1>1. /\ UNCHANGED <<pipeVars, rollbacks, cooldown, caller>>
      /\ clock < MaxClock /\ clock' = clock + 1
      /\ IF Cardinality(Live(clock')) >= MaxRollbacks
         THEN late' = late ELSE late' = [c \in Callers |-> 0]
  BY DEF Tick, pipeVars
<1>2. clock \in Nat /\ clock' \in Nat /\ clock' \in 0..MaxClock /\ clock <= clock'
  BY <1>1, AutoPromoterAssumption DEF IInv, TypeOK
<1>3. PipeTypeOK' /\ RecordsSound' /\ CallsSound' /\ SavedHasPassed' /\ Vouched'
  BY <1>1, <1>2, PipeUnchanged
<1>4. late' \in [Callers -> 0..2]
  BY <1>1 DEF IInv, TypeOK
<1>5. Exhausted' \/ late' = [c \in Callers |-> 0]
  BY <1>1 DEF Exhausted, Live
<1>6. late' = late \/ late' = [c \in Callers |-> 0]
  BY <1>1
<1>7. GateHolds'
  BY <1>1, <1>5, <1>6 DEF IInv, GateHolds
<1> QED
  BY <1>1, <1>2, <1>3, <1>4, <1>7 DEF IInv, TypeOK

LEMMA StutterIInv ==
    ASSUME IInv, UNCHANGED vars
    PROVE  IInv'
<1>1. UNCHANGED <<pipeVars, caller, clock, rollbacks, cooldown, late>> /\ clock \in Nat
  BY AutoPromoterAssumption DEF vars, autoVars, pipeVars, IInv, TypeOK
<1>2. PipeTypeOK' /\ RecordsSound' /\ CallsSound' /\ SavedHasPassed' /\ Vouched'
  BY <1>1, PipeUnchanged
<1>3. GateHolds'
  BY <1>1 DEF IInv, GateHolds, Exhausted, Live
<1> QED
  BY <1>1, <1>2, <1>3 DEF IInv, TypeOK

----------------------------------------------------------------------------
\* The invariant holds always.
THEOREM Invariance == Spec => []IInv
<1>1. IInv /\ [Next]_vars => IInv'
  <2> SUFFICES ASSUME IInv, [Next]_vars PROVE IInv'
    OBVIOUS
  <2>1. ASSUME NEW c \in Callers, Step(c) PROVE IInv'
    <3>1. CASE PipeStep(c)
      BY <3>1, SubmitIInv, EvaluateIInv, LookupIInv, MarkIInv DEF PipeStep
    <3> QED
      BY <2>1, <3>1, BudgetIInv, CheckCooldownIInv, CheckIInv, BuildIInv, SaveIInv,
         NoteIInv DEF Step
  <2>2. ASSUME NEW c \in Callers, NEW m \in Mutations, Process(c, m) \/ Manual(c, m)
        PROVE  IInv'
    BY <2>2, ProcessIInv, ManualIInv
  <2>3. ASSUME NEW m \in Mutations, Review(m) \/ RollBack(m) PROVE IInv'
    BY <2>3, ReviewIInv
  <2>4. CASE UNCHANGED vars
    BY <2>4, StutterIInv
  <2> QED
    BY <2>1, <2>2, <2>3, <2>4, RecordRollbackIInv, TickIInv DEF Next
<1> QED
  BY <1>1, InitIInv, PTL DEF Spec

\* Records, calls, budget and cooldowns keep their types (promotion.go,
\* auto_promoter.go).
THEOREM TypeCorrect == Spec => []TypeOK
<1>1. IInv => TypeOK
  BY DEF IInv
<1> QED
  BY <1>1, Invariance, PTL

\* Promote saves a capsule only for a mutation that passed an evaluation,
\* whatever reviewers and other calls do to its record meanwhile.
THEOREM OnlyPassedIsSaved == Spec => []SavedHasPassed
<1>1. IInv => SavedHasPassed
  BY DEF IInv
<1> QED
  BY <1>1, Invariance, PTL

\* Once the rollback budget is exhausted Process saves at most one capsule for
\* each caller, the one that was past the gate.
THEOREM BudgetStopsPromotion == Spec => []LateOncePerCaller
<1>1. IInv => LateOncePerCaller
  <2> SUFFICES ASSUME IInv, NEW c \in Callers PROVE late[c] <= 1
    BY DEF LateOncePerCaller
  <2> QED
    BY DEF IInv, GateHolds, TypeOK
<1> QED
  BY <1>1, Invariance, PTL

\* When no call is under way no low-risk mutation is left approved, unless a
\* capsule could not be saved.
THEOREM NoApprovalLeftBehind == Spec => []NoPhantomApproval
<1>1. IInv => NoPhantomApproval
  BY DEF IInv, Vouched, Vouches, NoPhantomApproval, At
<1> QED
  BY <1>1, Invariance, PTL

=============================================================================
