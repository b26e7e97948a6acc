---------------------------- MODULE SignalEmitter ----------------------------
(***************************************************************************)
(* signal.Emitter and its hooks (pkg/uiauto/signal): signals of a category *)
(* pass at most once per debounce interval and go to the handlers that     *)
(* were registered when they passed.  Emit decides under one lock, copies  *)
(* the handlers under another, and calls them under none, so the signals   *)
(* of concurrent emitters may reach a handler in another order.            *)
(***************************************************************************)
EXTENDS Integers, Sequences, FiniteSets

CONSTANTS Emitters, Handlers,
          Hooked,                  \* categories whose hooks are called
          MaxEmits, MaxIntervals   \* bounds

EmitterAssumption == {MaxEmits, MaxIntervals} \subseteq Nat

VARIABLES debounced,  \* is a debounce interval set?
          handlers,   \* in the order of their registration
          resting,    \* categories whose last signal is younger than the interval
          emit,       \* the Emit of each emitter
          heard,      \* signals each handler was called with, by number
          suppressed,
          emits,      \* Emits so far, which number the signals
          intervals,  \* ghost: intervals that passed, per category
          passed,     \* ghost: signals that passed, with category and severity
          missed      \* ghost: did Emit return before a handler of its beginning had heard?

vars == <<debounced, handlers, resting, emit, heard, suppressed, emits, intervals, passed, missed>>

\* What the hooks emit: a category, and a severity that tells good from bad.
Signals == {[category |-> "todo", severity |-> "success"],
            [category |-> "todo", severity |-> "info"],
            [category |-> "heal", severity |-> "success"],
            [category |-> "heal", severity |-> "warning"],
            [category |-> "circuit", severity |-> "info"],
            [category |-> "circuit", severity |-> "warning"],
            [category |-> "test", severity |-> "success"],
            [category |-> "test", severity |-> "error"]}
Category == {s.category : s \in Signals}
NoEmit   == [at |-> "idle", n |-> 0, left |-> <<>>, owed |-> {}]

Range(f) == {f[x] : x \in DOMAIN f}

TypeOK ==
    /\ debounced \in BOOLEAN /\ missed \in BOOLEAN
    /\ Range(handlers) \subseteq Handlers /\ resting \subseteq Category
    /\ \A e \in Emitters : emit[e].at \in {"idle", "copy", "call"}
    /\ \A h \in Handlers : Range(heard[h]) \subseteq 1..MaxEmits
    /\ suppressed \in 0..MaxEmits /\ emits \in 0..MaxEmits
    /\ intervals \in [Category -> 0..MaxIntervals]
    /\ \A p \in passed : p.n \in 1..MaxEmits /\ p.signal \in Signals

Init ==
    /\ debounced \in BOOLEAN
    /\ handlers = <<>> /\ resting = {}
    /\ emit = [e \in Emitters |-> NoEmit] /\ heard = [h \in Handlers |-> <<>>]
    /\ suppressed = 0 /\ emits = 0
    /\ intervals = [c \in Category |-> 0] /\ passed = {} /\ missed = FALSE

On(h) ==
    /\ h \notin Range(handlers)
    /\ handlers' = Append(handlers, h)
    /\ UNCHANGED <<debounced, resting, emit, heard, suppressed, emits, intervals, passed, missed>>

\* mutant: signals are debounced by severity as well as category, on paper only.
SuppressesBad(s) == debounced /\ s.category \in resting /\ s.severity \notin {"warning", "error"}

\* Too soon after another signal of the category, whatever its severity.
Suppresses(s) == debounced /\ s.category \in resting

Emit(e, s) ==
    /\ emit[e].at = "idle" /\ emits < MaxEmits
    /\ emits' = emits + 1
    /\ IF Suppresses(s)
       THEN suppressed' = suppressed + 1 /\ UNCHANGED <<resting, emit, passed>>
       ELSE /\ resting' = IF debounced THEN resting \cup {s.category} ELSE resting
            /\ emit' = [emit EXCEPT ![e] = [at |-> "copy", n |-> emits + 1, left |-> <<>>,
                                            owed |-> Range(handlers)]]
            /\ passed' = passed \cup {[n |-> emits + 1, signal |-> s]}
            /\ UNCHANGED suppressed
    /\ UNCHANGED <<debounced, handlers, heard, intervals, missed>>

CopyHandlers(e) ==
    /\ emit[e].at = "copy"
    /\ emit' = [emit EXCEPT ![e].at = "call", ![e].left = handlers]
    /\ UNCHANGED <<debounced, handlers, resting, heard, suppressed, emits, intervals, passed, missed>>

\* mutant: only the first handler is called.
CallHandlerOnce(e) ==
    /\ emit[e].at = "call" /\ emit[e].left # <<>>
    /\ heard' = [heard EXCEPT ![Head(emit[e].left)] = Append(@, emit[e].n)]
    /\ emit' = [emit EXCEPT ![e].left = <<>>]
    /\ UNCHANGED <<debounced, handlers, resting, suppressed, emits, intervals, passed, missed>>

CallHandler(e) ==
    /\ emit[e].at = "call" /\ emit[e].left # <<>>
    /\ heard' = [heard EXCEPT ![Head(emit[e].left)] = Append(@, emit[e].n)]
    /\ emit' = [emit EXCEPT ![e].left = Tail(@)]
    /\ UNCHANGED <<debounced, handlers, resting, suppressed, emits, intervals, passed, missed>>

EmitReturns(e) ==
    /\ emit[e].at = "call" /\ emit[e].left = <<>>
    /\ emit' = [emit EXCEPT ![e] = NoEmit]
    /\ missed' = (missed \/ \E h \in emit[e].owed : emit[e].n \notin Range(heard[h]))
    /\ UNCHANGED <<debounced, handlers, resting, heard, suppressed, emits, intervals, passed>>

IntervalPasses(c) ==
    /\ c \in resting /\ intervals[c] < MaxIntervals
    /\ resting' = resting \ {c}
    /\ intervals' = [intervals EXCEPT ![c] = @ + 1]
    /\ UNCHANGED <<debounced, handlers, emit, heard, suppressed, emits, passed, missed>>

Next ==
    \/ \E h \in Handlers : On(h)
    \/ \E e \in Emitters : \/ \E s \in Signals : s.category \in Hooked /\ Emit(e, s)
                           \/ CopyHandlers(e) \/ CallHandler(e) \/ EmitReturns(e)
    \/ \E c \in Category : IntervalPasses(c)

Progress == \E e \in Emitters : CopyHandlers(e) \/ CallHandler(e) \/ EmitReturns(e)

-----------------------------------------------------------------------------
(* Properties *)

\* Of a category at most one signal passes per interval, however many emitters
\* race for it, and what does not pass is counted: signals are dropped by the
\* debounce only, warnings and errors not excepted.
DebounceHolds ==
    /\ debounced => \A c \in Category :
          Cardinality({p \in passed : p.signal.category = c}) <= intervals[c] + 1
    /\ emits = suppressed + Cardinality(passed)

\* A handler that was registered when Emit began has heard a signal once, and
\* not twice, by the time Emit reports it as delivered.
HandlersHearOnce ==
    /\ ~missed
    /\ \A h \in Handlers : Cardinality(Range(heard[h])) = Len(heard[h])

Returned == \A e \in Emitters : emit[e].at = "idle"

=============================================================================
