--------------------------- MODULE QueuedProvider ---------------------------
(***************************************************************************)
(* llm.QueuedProvider (pkg/llm/queue.go): a bounded channel of requests,   *)
(* MaxConcurrent workers that serve it, a soft memory budget that callers  *)
(* look at before they enqueue, and a Shutdown that closes done and waits  *)
(* for the workers, who drain the channel first.                           *)
(*                                                                         *)
(* A caller makes one call.  A context may end at any time, the timeout of *)
(* a request included; the wrapped provider then answers with an error.    *)
(***************************************************************************)
EXTENDS Integers, Sequences, FiniteSets, FiniteSetsExt

CONSTANTS Callers,
          Workers,      \* MaxConcurrent goroutines
          MaxPending,
          Size,         \* per caller: estimateMemory of its request
          MaxMemory

VARIABLES pending,      \* q.pending
          done,         \* q.done is closed
          serving,      \* per worker: a request, "free" or "gone"
          reply,        \* respCh and errCh of a request
          call,         \* per caller: where its Complete is
          given,        \* history: the answer of the wrapped provider
          shutdown      \* Shutdown: "no", "waiting", "nil" or "error"

vars == <<pending, done, serving, reply, call, given, shutdown>>

Served  == {w \in Workers : serving[w] \in Callers}
\* memoryBytes; processRequest adds to it and gives back on return.
Memory  == MapThenSumSet(LAMBDA w : Size[serving[w]], Served)
Results == {"resp", "err", "refused"}

TypeOK ==
    /\ pending \in Seq(Callers) /\ Len(pending) <= MaxPending
    /\ done \in BOOLEAN
    /\ serving \in [Workers -> Callers \cup {"free", "gone"}]
    /\ reply \in [Callers -> {"none", "resp", "err"}]
    /\ call \in [Callers -> {"out", "delay", "admitted", "waiting"} \cup Results]
    /\ given \in [Callers -> {"none", "resp", "err"}]
    /\ shutdown \in {"no", "waiting", "nil", "error"}

Init ==
    /\ pending = <<>>
    /\ done = FALSE
    /\ serving = [w \in Workers |-> "free"]
    /\ reply = [c \in Callers |-> "none"]
    /\ call = [c \in Callers |-> "out"]
    /\ given = [c \in Callers |-> "none"]
    /\ shutdown = "no"

----------------------------------------------------------------------------
\* Complete.

Goto(c, pc) == call' = [call EXCEPT ![c] = pc]
Over(c)     == Memory + Size[c] > MaxMemory

\* The queue is not shut down; the memory budget is read, not reserved.
Enter(c) ==
    /\ call[c] = "out"
    /\ Goto(c, IF done THEN "refused" ELSE IF Over(c) THEN "delay" ELSE "admitted")
    /\ UNCHANGED <<pending, done, serving, reply, given, shutdown>>

\* After BackpressureDelay the budget is read again.
Recheck(c) ==
    /\ call[c] = "delay"
    /\ Goto(c, IF Over(c) THEN "refused" ELSE "admitted")
    /\ UNCHANGED <<pending, done, serving, reply, given, shutdown>>

\* A ready case of a select is taken at random, so a request may enter the
\* channel after done was closed and the workers have gone.
Enqueue(c) ==
    /\ call[c] = "admitted"
    /\ Len(pending) < MaxPending
    /\ pending' = Append(pending, c)
    /\ Goto(c, "waiting")
    /\ UNCHANGED <<done, serving, reply, given, shutdown>>

SeeDone(c) ==
    /\ call[c] = "admitted"
    /\ done
    /\ Goto(c, "refused")
    /\ UNCHANGED <<pending, done, serving, reply, given, shutdown>>

ReceiveOrWait(c) == \* mutant: a closed queue is no reason to stop waiting
    /\ call[c] = "waiting"
    /\ reply[c] # "none" /\ Goto(c, reply[c])
    /\ UNCHANGED <<pending, done, serving, reply, given, shutdown>>

\* An answer; or, once done is closed, the answer if it is there already
\* and ErrQueueShutdown if it is not.
Receive(c) ==
    /\ call[c] = "waiting"
    /\ \/ reply[c] # "none" /\ Goto(c, reply[c])
       \/ reply[c] = "none" /\ done /\ Goto(c, "refused")
    /\ UNCHANGED <<pending, done, serving, reply, given, shutdown>>

\* ctx.Done() is a case of every select.
ContextEnds(c) ==
    /\ call[c] \in {"delay", "admitted", "waiting"}
    /\ Goto(c, "refused")
    /\ UNCHANGED <<pending, done, serving, reply, given, shutdown>>

----------------------------------------------------------------------------
\* The workers.

TakeAndKeep(w) == \* mutant: the request stays in the channel
    /\ serving[w] = "free"
    /\ pending # <<>>
    /\ serving' = [serving EXCEPT ![w] = Head(pending)]
    /\ UNCHANGED <<pending, done, reply, call, given, shutdown>>

Take(w) ==
    /\ serving[w] = "free"
    /\ pending # <<>>
    /\ serving' = [serving EXCEPT ![w] = Head(pending)]
    /\ pending' = Tail(pending)
    /\ UNCHANGED <<done, reply, call, given, shutdown>>

\* processRequest: the wrapped provider returns, the answer goes to a channel
\* with room for one.
Process(w) ==
    /\ w \in Served
    /\ LET c == serving[w]
       IN  \E a \in {"resp", "err"} :
             /\ reply' = [reply EXCEPT ![c] = a]
             /\ given' = [given EXCEPT ![c] = a]
    /\ serving' = [serving EXCEPT ![w] = "free"]
    /\ UNCHANGED <<pending, done, call, shutdown>>

Exit(w) ==
    /\ serving[w] = "free"
    /\ done /\ pending = <<>>
    /\ serving' = [serving EXCEPT ![w] = "gone"]
    /\ UNCHANGED <<pending, done, reply, call, given, shutdown>>

----------------------------------------------------------------------------
\* Shutdown.

Close ==
    /\ shutdown = "no"
    /\ done' = TRUE
    /\ shutdown' = "waiting"
    /\ UNCHANGED <<pending, serving, reply, call, given>>

ReturnsBeforeWorkers == \* mutant: a worker that serves is not waited for
    /\ shutdown = "waiting"
    /\ \A w \in Workers : serving[w] # "free"
    /\ shutdown' = "nil"
    /\ UNCHANGED <<pending, done, serving, reply, call, given>>

ShutdownReturns ==
    /\ shutdown = "waiting"
    /\ \A w \in Workers : serving[w] = "gone"
    /\ shutdown' = "nil"
    /\ UNCHANGED <<pending, done, serving, reply, call, given>>

ShutdownGivesUp ==  \* its context ended
    /\ shutdown = "waiting"
    /\ shutdown' = "error"
    /\ UNCHANGED <<pending, done, serving, reply, call, given>>

CallerStep(c) ==
    \/ Recheck(c) \/ Enqueue(c) \/ SeeDone(c) \/ Receive(c)
WorkerStep(w) == Take(w) \/ Process(w) \/ Exit(w)

\* What goes on by itself; calls and the end of a context come from outside.
Progress ==
    \/ \E c \in Callers : CallerStep(c)
    \/ \E w \in Workers : WorkerStep(w)
    \/ ShutdownReturns

Next ==
    \/ Progress
    \/ \E c \in Callers : Enter(c) \/ ContextEnds(c)
    \/ Close \/ ShutdownGivesUp

Spec == Init /\ [][Next]_vars

----------------------------------------------------------------------------
\* Properties.

\* Once Shutdown has returned nil nothing is being served any more, and what
\* a late select put into the channel stays unserved for good.
QuietAfterShutdown == shutdown = "nil" => Served = {}

\* No call is left behind: with a free worker and an empty channel every
\* caller that waits has its answer at hand or can see that done is closed.
NobodyForgotten ==
    (pending = <<>> /\ Served = {} /\ ~done)
      => \A c \in Callers : call[c] = "waiting" => reply[c] # "none"

CallReturns     == \A c \in Callers : call[c] \in Results \cup {"out"}
ShutdownEnded   == shutdown # "waiting"

\* Complete keeps the promise of a wrapper.
Service == INSTANCE CompletionService WITH
    returned <- [c \in Callers |->
                   IF call[c] \in {"delay", "admitted", "waiting"} THEN "in" ELSE call[c]]
ImplementsService == Service!Spec

=============================================================================
