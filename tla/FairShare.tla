----------------------------- MODULE FairShare ------------------------------
(***************************************************************************)
(* llm.FairShareScheduler (pkg/llm/fairshare.go) over an UpstreamPool.     *)
(* Submit runs in the caller's goroutine: it takes a slot in its user's    *)
(* queue, passes the request through one channel to the scheduler, and     *)
(* waits for an answer, its context or the shutdown.  The scheduler loop   *)
(* starts one goroutine per request, at most MaxConcurrency at a time;     *)
(* that goroutine selects a node, calls it and answers, and then gives     *)
(* back semaphore and slot.  Clients of the pool are the requests.         *)
(*                                                                         *)
(* A select with several ready cases takes any of them, as in Go.  A call  *)
(* can always end by RequestTimeout.                                       *)
(***************************************************************************)
EXTENDS UpstreamPool, Sequences

CONSTANTS UserOf,          \* [Clients -> user]
          TierOf,          \* [Clients -> tier or NoTier], extractTierFromRequest
          MaxQueueDepth,   \* FairShareConfig.MaxQueueDepth
          MaxConcurrency,  \* FairShareConfig.MaxConcurrency
          Impatient,       \* the requests whose callers may give up
          QueueFactor      \* incoming holds MaxQueueDepth * QueueFactor; 10 in the code

Users == {UserOf[r] : r \in Clients}

ASSUME FairShareAssumption ==
    /\ MaxQueueDepth \in Nat \ {0}
    /\ MaxConcurrency \in Nat \ {0}
    /\ QueueFactor \in Nat \ {0}
    /\ Impatient \subseteq Clients
    /\ TierOf \in [Clients -> Tiers \cup {NoTier}]

\* For TLC: two requests of one user and one of another, all for any tier.
Owners  == [r \in Clients |-> IF r = "r3" THEN "bob" ELSE "alice"]
AnyTier == [r \in Clients |-> NoTier]
OneNode == <<"fast">>

VARIABLES closed,     \* done is closed
          cancelled,  \* per request: its context is done
          caller,     \* per request: where Submit is
          result,     \* per request: what Submit returned
          answer,     \* per request: what lies in respCh or errCh
          slots,      \* per user: the requests in its userQueue
          incoming,   \* the channel between Submit and the scheduler
          sched,      \* the scheduler: "recv", "acquire" or "stopped"
          head,       \* the requests (at most one) it has received
          work        \* per request: where its goroutine is

fairVars == <<closed, cancelled, caller, result, answer, slots, incoming, sched, head, work>>
vars == <<poolVars, fairVars>>

Answers == {"none", "response", "failure", "cancelled", "closed"}
Results == Answers \cup {"full"}

TypeOK ==
    /\ PoolTypeOK
    /\ closed \in BOOLEAN
    /\ cancelled \in [Clients -> BOOLEAN]
    /\ caller \in [Clients -> {"new", "checked", "reserved", "waiting", "returned"}]
    /\ result \in [Clients -> Results]
    /\ answer \in [Clients -> Answers]
    /\ slots \in [Users -> SUBSET Clients]
    /\ \A u \in Users : Cardinality(slots[u]) <= MaxQueueDepth
    /\ incoming \in Seq(Clients)
    /\ Len(incoming) <= MaxQueueDepth * QueueFactor
    /\ sched \in {"recv", "acquire", "stopped"}
    /\ head \in SUBSET Clients
    /\ work \in [Clients -> {"none", "running", "answered", "released", "done"}]

Init ==
    /\ PoolInit
    /\ closed = FALSE
    /\ cancelled = [r \in Clients |-> FALSE]
    /\ caller = [r \in Clients |-> "new"]
    /\ result = [r \in Clients |-> "none"]
    /\ answer = [r \in Clients |-> "none"]
    /\ slots = [u \in Users |-> {}]
    /\ incoming = <<>>
    /\ sched = "recv"
    /\ head = {}
    /\ work = [r \in Clients |-> "none"]

----------------------------------------------------------------------------
\* Submit.

ReturnFrom(r, res) ==
    /\ caller' = [caller EXCEPT ![r] = "returned"]
    /\ result' = [result EXCEPT ![r] = res]

\* The first select: refused once the scheduler is closed.
Submit(r) ==
    /\ caller[r] = "new"
    /\ IF closed
       THEN ReturnFrom(r, "closed")
       ELSE caller' = [caller EXCEPT ![r] = "checked"] /\ UNCHANGED result
    /\ UNCHANGED <<poolVars, closed, cancelled, answer, slots, incoming, sched, head, work>>

ReserveUnchecked(r) == \* mutant: depth compared with > instead of >=
    /\ caller[r] = "checked"
    /\ IF Cardinality(slots[UserOf[r]]) > MaxQueueDepth
       THEN ReturnFrom(r, "full") /\ UNCHANGED slots
       ELSE /\ slots' = [slots EXCEPT ![UserOf[r]] = @ \cup {r}]
            /\ caller' = [caller EXCEPT ![r] = "reserved"]
            /\ UNCHANGED result
    /\ UNCHANGED <<poolVars, closed, cancelled, answer, incoming, sched, head, work>>

\* A slot in the user's queue, or ErrUserQueueFull.
Reserve(r) ==
    /\ caller[r] = "checked"
    /\ IF Cardinality(slots[UserOf[r]]) >= MaxQueueDepth
       THEN ReturnFrom(r, "full") /\ UNCHANGED slots
       ELSE /\ slots' = [slots EXCEPT ![UserOf[r]] = @ \cup {r}]
            /\ caller' = [caller EXCEPT ![r] = "reserved"]
            /\ UNCHANGED result
    /\ UNCHANGED <<poolVars, closed, cancelled, answer, incoming, sched, head, work>>

Enqueue(r) ==
    /\ caller[r] = "reserved"
    /\ Len(incoming) < MaxQueueDepth * QueueFactor
    /\ incoming' = Append(incoming, r)
    /\ caller' = [caller EXCEPT ![r] = "waiting"]
    /\ UNCHANGED <<poolVars, closed, cancelled, result, answer, slots, sched, head, work>>

\* The context or the shutdown ends either select; the slot stays taken.
Abandon(r) ==
    /\ caller[r] \in {"reserved", "waiting"}
    /\ \/ cancelled[r] /\ ReturnFrom(r, "cancelled")
       \/ closed /\ ReturnFrom(r, "closed")
    /\ UNCHANGED <<poolVars, closed, cancelled, answer, slots, incoming, sched, head, work>>

Receive(r) ==
    /\ caller[r] = "waiting"
    /\ answer[r] # "none"
    /\ ReturnFrom(r, answer[r])
    /\ UNCHANGED <<poolVars, closed, cancelled, answer, slots, incoming, sched, head, work>>

\* The caller's context ends while Submit runs.
Cancel(r) ==
    /\ r \in Impatient
    /\ caller[r] \in {"checked", "reserved", "waiting"}
    /\ ~cancelled[r]
    /\ cancelled' = [cancelled EXCEPT ![r] = TRUE]
    /\ UNCHANGED <<poolVars, closed, caller, result, answer, slots, incoming, sched, head, work>>

----------------------------------------------------------------------------
\* schedulerLoop.

Take ==
    /\ sched = "recv"
    /\ incoming # <<>>
    /\ head' = {Head(incoming)}
    /\ incoming' = Tail(incoming)
    /\ sched' = "acquire"
    /\ UNCHANGED <<poolVars, closed, cancelled, caller, result, answer, slots, work>>

StopLate == \* mutant: done is looked at only when a request has come in
    /\ sched = "recv"
    /\ closed /\ incoming # <<>>
    /\ sched' = "stopped"
    /\ UNCHANGED <<poolVars, closed, cancelled, caller, result, answer, slots, incoming, head, work>>

Stop ==
    /\ sched = "recv"
    /\ closed
    /\ sched' = "stopped"
    /\ UNCHANGED <<poolVars, closed, cancelled, caller, result, answer, slots, incoming, head, work>>

\* Requests whose goroutine holds the semaphore.
Holding == {r \in Clients : work[r] \in {"running", "answered"}}

DispatchFreely(r) == \* mutant: the semaphore is not acquired
    /\ sched = "acquire" /\ r \in head
    /\ work' = [work EXCEPT ![r] = "running"]
    /\ BeginSelect(r, TierOf[r])
    /\ sched' = "recv" /\ head' = {}
    /\ UNCHANGED <<closed, cancelled, caller, result, answer, slots, incoming>>

\* The semaphore is acquired and the goroutine starts.
Dispatch(r) ==
    /\ sched = "acquire" /\ r \in head
    /\ Cardinality(Holding) < MaxConcurrency
    /\ work' = [work EXCEPT ![r] = "running"]
    /\ BeginSelect(r, TierOf[r])
    /\ sched' = "recv" /\ head' = {}
    /\ UNCHANGED <<closed, cancelled, caller, result, answer, slots, incoming>>

\* Shutdown or cancellation while waiting for the semaphore; neither branch
\* calls removeFromQueue.
Drop(r) ==
    /\ sched = "acquire" /\ r \in head
    /\ head' = {}
    /\ \/ /\ closed
          /\ answer' = [answer EXCEPT ![r] = "closed"]
          /\ sched' = "stopped"
       \/ /\ cancelled[r]
          /\ answer' = [answer EXCEPT ![r] = "cancelled"]
          /\ sched' = "recv"
    /\ UNCHANGED <<poolVars, closed, cancelled, caller, result, slots, incoming, work>>

----------------------------------------------------------------------------
\* The request goroutine: processRequest, then its deferred function.

SelectNode(r) ==
    /\ Scan(r) \/ Pick(r)
    /\ UNCHANGED fairVars

AnswerWith(r, a) ==
    /\ work[r] = "running"
    /\ work' = [work EXCEPT ![r] = "answered"]
    /\ answer' = [answer EXCEPT ![r] = a]
    /\ UNCHANGED <<closed, cancelled, caller, result, slots, incoming, sched, head>>

NoUpstreamSilent(r) == \* mutant: no answer is sent when no node is healthy
    /\ NoNode(r)
    /\ work[r] = "running"
    /\ work' = [work EXCEPT ![r] = "answered"]
    /\ UNCHANGED <<closed, cancelled, caller, result, answer, slots, incoming, sched, head>>

NoUpstream(r) == NoNode(r) /\ AnswerWith(r, "failure")
Complete(r)   == CallSucceeds(r) /\ AnswerWith(r, "response")
Error(r)      == CallFails(r, TRUE) /\ AnswerWith(r, "failure")

\* <-sem; the inflight counter that goes down next decides nothing.
Release(r) ==
    /\ work[r] = "answered"
    /\ work' = [work EXCEPT ![r] = "released"]
    /\ UNCHANGED <<poolVars, closed, cancelled, caller, result, answer, slots, incoming, sched, head>>

RemoveNothing(r) == \* mutant: removeFromQueue misses the request
    /\ work[r] = "released"
    /\ work' = [work EXCEPT ![r] = "done"]
    /\ UNCHANGED <<poolVars, closed, cancelled, caller, result, answer, slots, incoming, sched, head>>

RemoveAtClose(r) == \* mutant: the queues are tidied at shutdown only
    /\ work[r] = "released" /\ closed
    /\ work' = [work EXCEPT ![r] = "done"]
    /\ slots' = [slots EXCEPT ![UserOf[r]] = @ \ {r}]
    /\ UNCHANGED <<poolVars, closed, cancelled, caller, result, answer, incoming, sched, head>>

RemoveFromQueue(r) ==
    /\ work[r] = "released"
    /\ work' = [work EXCEPT ![r] = "done"]
    /\ slots' = [slots EXCEPT ![UserOf[r]] = @ \ {r}]
    /\ UNCHANGED <<poolVars, closed, cancelled, caller, result, answer, incoming, sched, head>>

Close ==
    /\ ~closed
    /\ closed' = TRUE
    /\ UNCHANGED <<poolVars, cancelled, caller, result, answer, slots, incoming, sched, head, work>>

----------------------------------------------------------------------------

\* The pool's own loop and the servers behind it.  The pool belongs to the
\* caller of NewFairShareScheduler and is closed after the scheduler.
PoolEnvironment ==
    /\ Tick \/ CheckAll \/ \E n \in Nodes : Flip(n)
    /\ UNCHANGED fairVars

CallerStep(r) == Submit(r) \/ Reserve(r) \/ Enqueue(r) \/ Abandon(r) \/ Receive(r)
Schedule == Take \/ Stop \/ \E r \in Clients : Dispatch(r) \/ Drop(r)
WorkStep(r) ==
    \/ SelectNode(r) \/ NoUpstream(r) \/ Complete(r) \/ Error(r)
    \/ Release(r) \/ RemoveFromQueue(r)

Next ==
    \/ \E r \in Clients : CallerStep(r) \/ Cancel(r) \/ WorkStep(r)
    \/ Schedule
    \/ Close
    \/ PoolEnvironment

Spec == Init /\ [][Next]_vars

\* Every goroutine that can run does; calls end, by RequestTimeout at latest.
FairSpec ==
    /\ Spec
    /\ WF_vars(Schedule)
    /\ \A r \in Clients : WF_vars(CallerStep(r)) /\ WF_vars(WorkStep(r))

----------------------------------------------------------------------------
\* Properties.

\* The upstreams never see more than MaxConcurrency requests at a time.
UpstreamLoadBounded ==
    Cardinality({r \in Clients : client[r].pc # "idle"}) <= MaxConcurrency

Pending(r) == caller[r] \in {"checked", "reserved", "waiting"}

\* Somebody will still remove the request from its user's queue: its Submit
\* has not passed it on yet, or the pipeline has it.
Tracked(r) ==
    \/ caller[r] = "reserved"
    \/ \E i \in DOMAIN incoming : incoming[i] = r
    \/ r \in head
    \/ work[r] \notin {"none", "done"}

\* A slot can be lost only to a cancellation or to the shutdown.
SlotsTracked ==
    \A r \in Clients : r \in slots[UserOf[r]] => Tracked(r) \/ cancelled[r] \/ closed

\* Every Submit returns, whatever the upstreams do, and so does Close, which
\* waits for the scheduler loop.
CallsReturn ==
    /\ \A r \in Clients : Pending(r) ~> caller[r] = "returned"
    /\ closed ~> sched = "stopped"

\* A slot is given back, unless the request was cancelled or the scheduler
\* closed.
SlotsReturned ==
    \A r \in Clients :
        r \in slots[UserOf[r]] ~> r \notin slots[UserOf[r]] \/ cancelled[r] \/ closed

\* fairshare.go:248 "QueueDepth returns the total number of pending requests
\* across all users": with every Submit returned and nothing in the pipeline
\* the depth is 0.
QueueDepthCountsPending ==
    (\A r \in Clients : ~Pending(r) /\ ~Tracked(r)) => \A u \in Users : slots[u] = {}

=============================================================================
