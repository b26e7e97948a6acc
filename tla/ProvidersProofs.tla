-------------------------- MODULE ProvidersProofs ---------------------------
(***************************************************************************)
(* The properties of the wrappers of pkg/llm that MCProviders puts         *)
(* together, for any number of callers, workers, requests and providers    *)
(* and any limits.  Every wrapper has an inductive invariant of its own;   *)
(* since the wrappers share no state, a step of the group is a step of one *)
(* of them and leaves the invariants of the others alone.                  *)
(***************************************************************************)
EXTENDS MCProviders, FiniteSetTheorems, SequenceTheorems, TLAPS

\* The modules that are instantiated count with operators of their own.
LEMMA Cardinalities ==
    ASSUME NEW S
    PROVE  C!Cardinality(S) = Cardinality(S) /\ R!Cardinality(S) = Cardinality(S)
BY DEF C!Cardinality, R!Cardinality, Cardinality

LEMMA Bijections == ASSUME NEW S, NEW T PROVE R!Bijection(S, T) = Bijection(S, T)
BY DEF R!Bijection, Bijection, R!Injection, Injection, R!Surjection, Surjection,
       R!IsInjective, IsInjective

----------------------------------------------------------------------------
(***************************************************************************)
(* QueuedProvider.  A request is in the channel or with a worker at most   *)
(* once, and exactly while it is waited for or given up without an answer. *)
(***************************************************************************)
Handled(c) ==
    \/ \E i \in DOMAIN pending : pending[i] = c
    \/ \E w \in Workers : serving[w] = c

HandledOnce ==
    /\ \A i, j \in DOMAIN pending : pending[i] = pending[j] => i = j
    /\ \A w, v \in Workers : serving[w] \in Callers /\ serving[w] = serving[v] => w = v
    /\ \A i \in DOMAIN pending, w \in Workers : serving[w] # pending[i]

Entering == {"out", "delay", "admitted"}

AnswersOpen ==
    \A c \in Callers :
        /\ given[c] = reply[c]
        /\ Handled(c) \/ call[c] \in Entering => reply[c] = "none"
        /\ Handled(c) => call[c] \notin Entering
        /\ call[c] = "waiting" /\ reply[c] = "none" => Handled(c)

GoneForGood == shutdown = "nil" => \A w \in Workers : serving[w] = "gone"

QueueInv == Q!TypeOK /\ HandledOnce /\ AnswersOpen /\ GoneForGood

LEMMA QueueInit == Q!Init => QueueInv
<1> SUFFICES ASSUME Q!Init PROVE QueueInv
  OBVIOUS
<1>1. MaxPending \in Nat /\ "free" \notin Callers
  BY ProvidersAssumption
<1>2. Q!TypeOK
  <2>1. <<>> \in Seq(Callers) /\ Len(<<>>) <= MaxPending
    BY <1>1
  <2> QED
    BY <2>1 DEF Q!Init, Q!TypeOK
<1>3. HandledOnce /\ AnswersOpen /\ GoneForGood
  BY <1>1 DEF Q!Init, HandledOnce, AnswersOpen, GoneForGood, Handled, Entering
<1> QED
  BY <1>2, <1>3 DEF QueueInv

\* A caller that moves on without touching channel or workers.
LEMMA CallerMoves ==
    ASSUME QueueInv, NEW c \in Callers, NEW pc \in {"delay", "admitted"} \cup Q!Results,
           Q!Goto(c, pc), UNCHANGED <<pending, done, serving, reply, given, shutdown>>,
           call[c] \in Entering \cup {"waiting"},
           pc \in {"delay", "admitted"} => call[c] \in Entering
    PROVE  QueueInv'
<1>1. /\ call \in [Callers -> {"out", "delay", "admitted", "waiting"} \cup Q!Results]
      /\ call' = [call EXCEPT ![c] = pc]
  BY DEF QueueInv, Q!TypeOK, Q!Goto
<1>2. Q!TypeOK'
  BY <1>1 DEF QueueInv, Q!TypeOK
<1>3. HandledOnce' /\ GoneForGood'
  BY DEF QueueInv, HandledOnce, GoneForGood
<1>4. pc # "waiting" /\ (pc \in Entering => call[c] \in Entering)
  BY DEF Q!Results, Entering
<1>5. \A d \in Callers : Handled(d)' <=> Handled(d)
  BY DEF Handled
<1>6. AnswersOpen'
  BY <1>1, <1>4, <1>5 DEF QueueInv, AnswersOpen
<1> QED
  BY <1>2, <1>3, <1>6 DEF QueueInv

LEMMA EnqueueStep ==
    ASSUME QueueInv, NEW c \in Callers, Q!Enqueue(c)
    PROVE  QueueInv'
<1>1. /\ pending \in Seq(Callers) /\ MaxPending \in Nat
      /\ pending' = Append(pending, c)
      /\ call' = [call EXCEPT ![c] = "waiting"] /\ call[c] = "admitted"
      /\ UNCHANGED <<done, serving, reply, given, shutdown>>
  BY ProvidersAssumption DEF QueueInv, Q!TypeOK, Q!Enqueue, Q!Goto
<1>2. /\ pending' \in Seq(Callers)
      /\ Len(pending') = Len(pending) + 1
      /\ DOMAIN pending' = DOMAIN pending \cup {Len(pending) + 1}
      /\ \A i \in DOMAIN pending : pending'[i] = pending[i]
      /\ pending'[Len(pending) + 1] = c
  BY <1>1
<1>3. Len(pending') <= MaxPending
  BY <1>1, <1>2 DEF Q!Enqueue
<1>4. Q!TypeOK'
  BY <1>1, <1>2, <1>3 DEF QueueInv, Q!TypeOK
<1>5. ~Handled(c)
  BY <1>1 DEF QueueInv, AnswersOpen, Entering
<1>6. HandledOnce'
  BY <1>1, <1>2, <1>5 DEF QueueInv, HandledOnce, Handled
<1>7. \A d \in Callers : Handled(d)' <=> Handled(d) \/ d = c
  BY <1>1, <1>2 DEF Handled
<1>8. AnswersOpen' /\ GoneForGood'
  BY <1>1, <1>7 DEF QueueInv, Q!TypeOK, AnswersOpen, GoneForGood, Entering
<1> QED
  BY <1>4, <1>6, <1>8 DEF QueueInv

\* The request at the head of the channel goes to a free worker.
LEMMA WorkerTakes ==
    ASSUME QueueInv, NEW w \in Workers, Q!Take(w)
    PROVE  QueueInv'
<1>1. /\ pending \in Seq(Callers) /\ pending # <<>> /\ serving[w] = "free"
      /\ serving \in [Workers -> Callers \cup {"free", "gone"}]
      /\ "free" \notin Callers /\ "gone" \notin Callers
      /\ MaxPending \in Nat /\ Len(pending) <= MaxPending
  BY ProvidersAssumption DEF QueueInv, Q!TypeOK, Q!Take
<1>2. /\ serving' = [serving EXCEPT ![w] = pending[1]] /\ pending' = Tail(pending)
      /\ UNCHANGED <<done, reply, call, given, shutdown>>
  BY <1>1 DEF Q!Take
<1>3. /\ pending[1] \in Callers /\ 1 \in DOMAIN pending
      /\ pending' \in Seq(Callers)
      /\ Len(pending') = Len(pending) - 1 /\ Len(pending) \in Nat
      /\ \A i \in DOMAIN pending' : i + 1 \in DOMAIN pending /\ pending'[i] = pending[i + 1]
      /\ \A i \in DOMAIN pending : i # 1 => /\ i - 1 \in DOMAIN pending'
                                            /\ pending'[i - 1] = pending[i]
  BY <1>1, <1>2
<1>4. Q!TypeOK'
  BY <1>1, <1>2, <1>3 DEF QueueInv, Q!TypeOK
<1>5. HandledOnce'
  <2>1. \A i \in DOMAIN pending' : pending'[i] # pending[1]
    BY <1>3 DEF QueueInv, HandledOnce
  <2>2. \A i, j \in DOMAIN pending' : pending'[i] = pending'[j] => i = j
    <3> SUFFICES ASSUME NEW i \in DOMAIN pending', NEW j \in DOMAIN pending',
                        pending'[i] = pending'[j]
                 PROVE  i = j
      OBVIOUS
    <3>1. i + 1 = j + 1
      BY <1>3 DEF QueueInv, HandledOnce
    <3>2. i \in Nat /\ j \in Nat
      BY <1>3
    <3> QED
      BY <3>1, <3>2
  <2>3. \A v \in Workers : v # w => serving'[v] = serving[v] /\ serving[v] # pending[1]
    BY <1>1, <1>2, <1>3 DEF QueueInv, HandledOnce
  <2>4. serving'[w] = pending[1]
    BY <1>1, <1>2
  <2>5. \A v, u \in Workers : serving'[v] \in Callers /\ serving'[v] = serving'[u] => v = u
    BY <2>3, <2>4 DEF QueueInv, HandledOnce
  <2>6. \A i \in DOMAIN pending', v \in Workers : serving'[v] # pending'[i]
    <3>1. ASSUME NEW i \in DOMAIN pending', NEW v \in Workers, v # w
          PROVE  serving'[v] # pending'[i]
      BY <1>3, <2>3, <3>1 DEF QueueInv, HandledOnce
    <3> QED
      BY <2>1, <2>4, <3>1
  <2> QED
    BY <2>2, <2>5, <2>6 DEF HandledOnce
<1>6. \A d \in Callers : Handled(d)' <=> Handled(d)
  BY SMTT(60), <1>1, <1>2, <1>3 DEF Handled
<1>7. AnswersOpen'
  BY <1>2, <1>6 DEF QueueInv, AnswersOpen
<1>8. GoneForGood'
  BY <1>1, <1>2 DEF QueueInv, GoneForGood
<1> QED
  BY <1>4, <1>5, <1>7, <1>8 DEF QueueInv

\* The wrapped provider answers the request of a worker.
LEMMA WorkerProcesses ==
    ASSUME QueueInv, NEW w \in Workers, Q!Process(w)
    PROVE  /\ QueueInv'
           /\ serving[w] \in Callers /\ Handled(serving[w])
           /\ \E a \in {"resp", "err"} : given' = [given EXCEPT ![serving[w]] = a]
<1> DEFINE c == serving[w]
<1>1. /\ c \in Callers /\ Handled(c)
      /\ serving \in [Workers -> Callers \cup {"free", "gone"}]
      /\ "free" \notin Callers /\ "gone" \notin Callers
      /\ reply \in [Callers -> {"none", "resp", "err"}]
      /\ given \in [Callers -> {"none", "resp", "err"}]
  BY ProvidersAssumption DEF QueueInv, Q!TypeOK, Q!Process, Q!Served, Handled
<1>2. PICK a \in {"resp", "err"} : reply' = [reply EXCEPT ![c] = a] /\ given' = [given EXCEPT ![c] = a]
  BY DEF Q!Process
<1>3. serving' = [serving EXCEPT ![w] = "free"] /\ UNCHANGED <<pending, done, call, shutdown>>
  BY DEF Q!Process
<1>4. Q!TypeOK'
  BY <1>1, <1>2, <1>3 DEF QueueInv, Q!TypeOK
<1>5. HandledOnce'
  BY <1>1, <1>3 DEF QueueInv, Q!TypeOK, HandledOnce
<1>6. \A d \in Callers : Handled(d)' <=> Handled(d) /\ d # c
  <2>1. ASSUME NEW d \in Callers, d # c PROVE Handled(d)' <=> Handled(d)
    BY <1>1, <1>3, <2>1 DEF Handled
  <2>2. ASSUME NEW d \in Callers, d = c PROVE ~Handled(d)'
    <3>1. \A v \in Workers : serving'[v] # c
      BY <1>1, <1>3 DEF QueueInv, HandledOnce
    <3>2. \A i \in DOMAIN pending' : pending'[i] # c
      BY <1>3 DEF QueueInv, HandledOnce
    <3> QED
      BY <1>3, <2>2, <3>1, <3>2 DEF Handled
  <2> QED
    BY <2>1, <2>2
<1>7. AnswersOpen'
  BY <1>1, <1>2, <1>3, <1>6 DEF QueueInv, AnswersOpen, Entering
<1>8. GoneForGood'
  BY <1>1, <1>3 DEF QueueInv, GoneForGood
<1> QED
  BY <1>1, <1>2, <1>4, <1>5, <1>7, <1>8 DEF QueueInv

LEMMA WorkerExits ==
    ASSUME QueueInv, NEW w \in Workers, Q!Exit(w)
    PROVE  QueueInv'
<1>1. /\ serving[w] = "free" /\ serving' = [serving EXCEPT ![w] = "gone"]
      /\ serving \in [Workers -> Callers \cup {"free", "gone"}]
      /\ "free" \notin Callers /\ "gone" \notin Callers
      /\ UNCHANGED <<pending, done, reply, call, given, shutdown>>
  BY ProvidersAssumption DEF QueueInv, Q!TypeOK, Q!Exit
<1>2. Q!TypeOK' /\ GoneForGood'
  BY <1>1 DEF QueueInv, Q!TypeOK, GoneForGood
<1>3. HandledOnce'
  <2>1. "gone" \notin {pending[i] : i \in DOMAIN pending}
    BY <1>1 DEF QueueInv, Q!TypeOK
  <2> QED
    BY <1>1, <2>1 DEF QueueInv, HandledOnce
<1>4. \A d \in Callers : Handled(d)' <=> Handled(d)
  BY <1>1 DEF Handled
<1>5. AnswersOpen'
  BY <1>1, <1>4 DEF QueueInv, AnswersOpen
<1> QED
  BY <1>2, <1>3, <1>5 DEF QueueInv

LEMMA ShutdownStep ==
    ASSUME QueueInv, Q!Close \/ Q!ShutdownReturns \/ Q!ShutdownGivesUp
    PROVE  QueueInv'
<1>1. UNCHANGED <<pending, serving, reply, call, given>>
  BY DEF Q!Close, Q!ShutdownReturns, Q!ShutdownGivesUp
<1>2. Q!TypeOK' /\ GoneForGood'
  BY <1>1 DEF QueueInv, Q!TypeOK, GoneForGood, Q!Close, Q!ShutdownReturns, Q!ShutdownGivesUp
<1>3. HandledOnce' /\ \A d \in Callers : Handled(d)' <=> Handled(d)
  BY <1>1 DEF QueueInv, HandledOnce, Handled
<1>4. AnswersOpen'
  BY <1>1, <1>3 DEF QueueInv, AnswersOpen
<1> QED
  BY <1>2, <1>3, <1>4 DEF QueueInv

\* The steps of a caller after it entered, but for putting its request into
\* the channel: it moves on or is turned away.
LEMMA CallerStepInv ==
    ASSUME QueueInv, NEW c \in Callers,
           Q!Enter(c) \/ Q!CallerStep(c) \/ Q!ContextEnds(c)
    PROVE  QueueInv'
<1>1. CASE Q!Enter(c) \/ Q!Recheck(c)
  <2>1. PICK pc \in {"delay", "admitted", "refused"} : Q!Goto(c, pc)
    BY <1>1 DEF Q!Enter, Q!Recheck
  <2>2. call[c] \in Entering /\ UNCHANGED <<pending, done, serving, reply, given, shutdown>>
    BY <1>1 DEF Q!Enter, Q!Recheck, Entering
  <2> QED
    BY <2>1, <2>2, CallerMoves DEF Q!Results
<1>2. CASE Q!Enqueue(c)
  BY <1>2, EnqueueStep
<1>3. CASE Q!SeeDone(c) \/ Q!Receive(c) \/ Q!ContextEnds(c)
  <2>1. PICK pc \in Q!Results : Q!Goto(c, pc)
    <3>1. reply[c] \in {"none", "resp", "err"}
      BY DEF QueueInv, Q!TypeOK
    <3> QED
      BY <1>3, <3>1 DEF Q!SeeDone, Q!Receive, Q!ContextEnds, Q!Results
  <2>2. /\ call[c] \in Entering \cup {"waiting"} /\ pc \notin {"delay", "admitted"}
        /\ UNCHANGED <<pending, done, serving, reply, given, shutdown>>
    BY <1>3 DEF Q!SeeDone, Q!Receive, Q!ContextEnds, Entering, Q!Results
  <2> QED
    BY <2>1, <2>2, CallerMoves
<1> QED
  BY <1>1, <1>2, <1>3 DEF Q!CallerStep

LEMMA QueueStep == ASSUME QueueInv, Q!Next PROVE QueueInv'
<1>1. ASSUME NEW w \in Workers, Q!WorkerStep(w) PROVE QueueInv'
  BY <1>1, WorkerTakes, WorkerProcesses, WorkerExits DEF Q!WorkerStep
<1> QED
  BY <1>1, CallerStepInv, ShutdownStep DEF Q!Next, Q!Progress

LEMMA QueueRests == ASSUME QueueInv, UNCHANGED queueVars PROVE QueueInv'
<1>1. Q!TypeOK' /\ GoneForGood' /\ HandledOnce'
  BY DEF QueueInv, queueVars, Q!TypeOK, GoneForGood, HandledOnce
<1>2. \A d \in Callers : Handled(d)' <=> Handled(d)
  BY DEF queueVars, Handled
<1>3. AnswersOpen'
  BY <1>2 DEF QueueInv, queueVars, AnswersOpen
<1> QED
  BY <1>1, <1>3 DEF QueueInv

\* After Shutdown every worker has gone; a waiting request without an answer
\* is in the channel or being served.
LEMMA QueueIsOrderly == QueueInv => ShutdownIsOrderly
<1> SUFFICES ASSUME QueueInv PROVE ShutdownIsOrderly
  OBVIOUS
<1>1. "gone" \notin Callers
  BY ProvidersAssumption
<1>2. Q!QuietAfterShutdown
  BY <1>1 DEF QueueInv, GoneForGood, Q!QuietAfterShutdown, Q!Served
<1>3. Q!NobodyForgotten
  <2> SUFFICES ASSUME pending = <<>>, Q!Served = {}, NEW c \in Callers,
                      call[c] = "waiting", reply[c] = "none"
               PROVE  FALSE
    BY DEF Q!NobodyForgotten
  <2>1. Handled(c)
    BY DEF QueueInv, AnswersOpen
  <2> QED
    BY <2>1 DEF Handled, Q!Served
<1> QED
  BY <1>2, <1>3 DEF ShutdownIsOrderly

----------------------------------------------------------------------------
\* The refinement: what a caller of CompletionService has returned.
Returned == [c \in Callers |->
    IF call[c] \in {"delay", "admitted", "waiting"} THEN "in" ELSE call[c]]

\* A step of Complete asks, returns or shows nothing.
LEMMA CallerMaps ==
    ASSUME QueueInv, NEW c \in Callers,
           Q!Enter(c) \/ Q!CallerStep(c) \/ Q!ContextEnds(c)
    PROVE  [Q!Service!Next]_<<given, Returned>>
<1>1. /\ call \in [Callers -> {"out", "delay", "admitted", "waiting"} \cup Q!Results]
      /\ reply \in [Callers -> {"none", "resp", "err"}] /\ given[c] = reply[c]
      /\ UNCHANGED given
  BY DEF QueueInv, Q!TypeOK, AnswersOpen, Q!Enter, Q!CallerStep, Q!ContextEnds,
         Q!Recheck, Q!Enqueue, Q!SeeDone, Q!Receive
<1>2. ASSUME NEW pc, Q!Goto(c, pc)
      PROVE  Returned' = [Returned EXCEPT ![c] =
                 IF pc \in {"delay", "admitted", "waiting"} THEN "in" ELSE pc]
  BY <1>1, <1>2 DEF Q!Goto, Returned
<1>3. CASE Q!Enter(c)
  <2>1. call[c] = "out" /\ \E pc \in {"refused", "delay", "admitted"} : Q!Goto(c, pc)
    BY <1>3 DEF Q!Enter
  <2>2. Returned[c] = "out" /\ \E r \in {"in", "refused"} : Returned' = [Returned EXCEPT ![c] = r]
    BY <1>2, <2>1 DEF Returned
  <2>3. Q!Service!Ask(c)
    BY <1>1, <2>2 DEF Q!Service!Ask, Returned
  <2> QED
    BY <2>3 DEF Q!Service!Next
<1>4. CASE call[c] \in {"delay", "admitted", "waiting"}
           /\ \E pc \in {"delay", "admitted", "waiting"} : Q!Goto(c, pc)
  <2>1. Returned' = Returned
    BY <1>1, <1>4 DEF Q!Goto, Returned
  <2> QED
    BY <1>1, <2>1
<1>5. CASE call[c] \in {"delay", "admitted", "waiting"}
           /\ \E pc \in {"refused", given[c]} \ {"none"} : Q!Goto(c, pc)
  <2>1. PICK pc \in {"refused", given[c]} \ {"none"} : Q!Goto(c, pc)
    BY <1>5
  <2>2. Returned[c] = "in" /\ Returned' = [Returned EXCEPT ![c] = pc]
    BY <1>1, <1>2, <1>5, <2>1 DEF Returned
  <2>3. Q!Service!Return(c)
    BY <1>1, <2>1, <2>2 DEF Q!Service!Return, Returned
  <2> QED
    BY <2>3 DEF Q!Service!Next
<1>6. CASE Q!Recheck(c)
  BY <1>4, <1>5, <1>6 DEF Q!Recheck
<1>7. CASE Q!Enqueue(c)
  BY <1>4, <1>7 DEF Q!Enqueue
<1>8. CASE Q!SeeDone(c)
  BY <1>5, <1>8 DEF Q!SeeDone
<1>9. CASE Q!Receive(c)
  BY <1>1, <1>5, <1>9 DEF Q!Receive
<1>10. CASE Q!ContextEnds(c)
  BY <1>5, <1>10 DEF Q!ContextEnds
<1> QED
  BY <1>3, <1>6, <1>7, <1>8, <1>9, <1>10 DEF Q!CallerStep

\* The wrapped provider gives its answer once per request; whatever else the
\* workers and Shutdown do shows nothing.
LEMMA QueueMaps == ASSUME QueueInv, Q!Next PROVE [Q!Service!Next]_<<given, Returned>>
<1>1. ASSUME NEW w \in Workers, Q!Process(w) PROVE [Q!Service!Next]_<<given, Returned>>
  <2>1. PICK a \in {"resp", "err"} : given' = [given EXCEPT ![serving[w]] = a]
    BY <1>1, WorkerProcesses
  <2>2. /\ serving[w] \in Callers /\ given[serving[w]] = "none"
        /\ call[serving[w]] # "out"
    BY <1>1, WorkerProcesses DEF QueueInv, AnswersOpen, Entering
  <2>3. Returned' = Returned /\ Returned[serving[w]] # "out"
    BY <1>1, <2>2 DEF Q!Process, Returned
  <2>4. Q!Service!Give(serving[w])
    BY <2>1, <2>2, <2>3 DEF Q!Service!Give, Q!Service!Answers, Returned
  <2> QED
    BY <2>2, <2>4 DEF Q!Service!Next
<1>2. ASSUME UNCHANGED <<given, call>> PROVE [Q!Service!Next]_<<given, Returned>>
  BY <1>2 DEF Returned
<1>3. ASSUME NEW w \in Workers, Q!Take(w) \/ Q!Exit(w)
      PROVE  [Q!Service!Next]_<<given, Returned>>
  BY <1>2, <1>3 DEF Q!Take, Q!Exit
<1>4. CASE Q!Close \/ Q!ShutdownReturns \/ Q!ShutdownGivesUp
  BY <1>2, <1>4 DEF Q!Close, Q!ShutdownReturns, Q!ShutdownGivesUp
<1> QED
  BY <1>1, <1>3, <1>4, CallerMaps DEF Q!Next, Q!Progress, Q!WorkerStep

----------------------------------------------------------------------------
(***************************************************************************)
(* The clients.  While a client goes on, everything so far was refused     *)
(* with 429 and an attempt is left.                                        *)
(***************************************************************************)
ClientInv ==
    /\ C!TypeOK /\ C!RepeatedOnlyIfRefused /\ C!ResponseIsLast
    /\ outcome = "idle" => attempt = 0
    /\ outcome \in {"send", "sleep"} =>
          attempt <= MaxRetries /\ \A i \in 1..attempt : replies[i] = "429"

LEMMA ClientInit == C!Init => ClientInv
<1>1. MaxRetries \in Nat
  BY ProvidersAssumption
<1>2. <<>> \in Seq(C!Replies) /\ Len(<<>>) = 0
  OBVIOUS
<1> QED
  BY <1>1, <1>2 DEF C!Init, ClientInv, C!TypeOK, C!RepeatedOnlyIfRefused, C!ResponseIsLast

\* Where an answer leaves a client: it pauses after a 429 with an attempt
\* left, and responds to an answer that is whole.
LEMMA Verdicts ==
    ASSUME NEW r \in C!Replies, NEW next,
           next = CASE kind = "claude" -> C!DecodedCLI(r)
                    [] kind = "ollama" -> C!DecodedOllama(r)
                    [] C!Retries(kind) /\ r = "429" /\ attempt < MaxRetries -> "sleep"
                    [] OTHER -> C!Decoded(r)
    PROVE  /\ next \in {"sleep", "response"} \cup C!Errors
           /\ next = "sleep" => r = "429" /\ attempt < MaxRetries
           /\ next = "response" => r \in {"ok", "plain"}
<1>1. CASE kind = "claude"
  BY <1>1 DEF C!DecodedCLI, C!Errors
<1>2. CASE kind = "ollama"
  BY <1>2 DEF C!DecodedOllama, C!Errors
<1>3. CASE kind \notin {"claude", "ollama"} /\ C!Retries(kind) /\ r = "429" /\ attempt < MaxRetries
  BY <1>3
<1>4. CASE kind \notin {"claude", "ollama"} /\ ~(C!Retries(kind) /\ r = "429" /\ attempt < MaxRetries)
  <2>1. next = C!Decoded(r)
    BY <1>4
  <2> QED
    BY <2>1 DEF C!Decoded, C!Errors
<1> QED
  BY <1>1, <1>2, <1>3, <1>4

LEMMA ClientStep == ASSUME ClientInv, C!Next PROVE ClientInv'
<1>1. CASE C!Begin
  <2>1. attempt = 0 /\ Len(replies) = 0 /\ MaxRetries \in Nat
    BY <1>1, ProvidersAssumption DEF ClientInv, C!TypeOK, C!Begin
  <2> QED
    BY <1>1, <2>1 DEF ClientInv, C!TypeOK, C!RepeatedOnlyIfRefused, C!ResponseIsLast, C!Begin, C!Errors
<1>2. CASE C!Send
  <2>1. PICK r \in C!Possible(kind) :
          /\ replies' = Append(replies, r)
          /\ attempt' = attempt + 1
          /\ outcome' = CASE kind = "claude" -> C!DecodedCLI(r)
                          [] kind = "ollama" -> C!DecodedOllama(r)
                          [] C!Retries(kind) /\ r = "429" /\ attempt < MaxRetries -> "sleep"
                          [] OTHER -> C!Decoded(r)
    BY <1>2 DEF C!Send
  <2>2. /\ r \in C!Replies /\ MaxRetries \in Nat /\ kind' = kind
        /\ replies \in Seq(C!Replies) /\ Len(replies) = attempt /\ attempt \in Nat
        /\ attempt <= MaxRetries /\ \A i \in 1..attempt : replies[i] = "429"
    BY <1>2, ProvidersAssumption DEF ClientInv, C!TypeOK, C!Send, C!Possible, C!Replies
  <2>3. /\ replies' \in Seq(C!Replies) /\ Len(replies') = attempt + 1
        /\ replies'[attempt + 1] = r
        /\ \A i \in 1..attempt : replies'[i] = "429"
    BY <2>1, <2>2
  <2>4. /\ outcome' \in {"sleep", "response"} \cup C!Errors
        /\ outcome' = "sleep" => r = "429" /\ attempt < MaxRetries
        /\ outcome' = "response" => r \in {"ok", "plain"}
    BY <2>1, <2>2, Verdicts
  <2>5. C!TypeOK'
    BY <2>1, <2>2, <2>3, <2>4 DEF ClientInv, C!TypeOK
  <2>6. C!RepeatedOnlyIfRefused' /\ C!ResponseIsLast'
    BY <2>1, <2>2, <2>3, <2>4 DEF C!RepeatedOnlyIfRefused, C!ResponseIsLast
  <2>7. outcome' # "idle" /\ outcome' # "send"
    BY <2>4 DEF C!Errors
  <2>8. outcome' = "sleep" => attempt' <= MaxRetries /\ \A i \in 1..attempt' : replies'[i] = "429"
    BY <2>1, <2>2, <2>3, <2>4
  <2> QED
    BY <2>5, <2>6, <2>7, <2>8 DEF ClientInv
<1>3. CASE C!Sleep
  BY <1>3 DEF ClientInv, C!TypeOK, C!RepeatedOnlyIfRefused, C!ResponseIsLast, C!Sleep, C!Errors
<1> QED
  BY <1>1, <1>2, <1>3 DEF C!Next, C!Progress

LEMMA ClientRests == ASSUME ClientInv, UNCHANGED clientVars PROVE ClientInv'
BY DEF ClientInv, clientVars, C!TypeOK, C!RepeatedOnlyIfRefused, C!ResponseIsLast

----------------------------------------------------------------------------
(***************************************************************************)
(* The limiter.  The tokens are the newest grants: all that are left of    *)
(* the grants in the window.  Of any MaxAllowed + 1 grants in a row the    *)
(* first and the last are a window apart.                                  *)
(***************************************************************************)
Dropped == Len(grants) - Len(tokens)

InOrderOfTime ==
    /\ \A i \in DOMAIN grants : grants[i] <= now
    /\ \A i, j \in DOMAIN grants : i <= j => grants[i] <= grants[j]

TokensAreNewest ==
    /\ Len(tokens) <= Len(grants)
    /\ \A i \in DOMAIN tokens : tokens[i] = grants[Dropped + i]
    /\ \A i \in 1..Dropped : grants[i] <= now - Window

GrantsApart ==
    \A i, j \in DOMAIN grants : j = i + MaxAllowed => grants[j] - grants[i] >= Window

LimiterInv == C!LimiterTypeOK /\ InOrderOfTime /\ TokensAreNewest /\ GrantsApart

LEMMA LimiterConstants ==
    MaxAllowed \in Nat \ {0} /\ Window \in Nat \ {0} /\ MaxTime \in Nat
BY ProvidersAssumption

LEMMA LimiterInit == C!LimiterInit => LimiterInv
<1>1. <<>> \in Seq(0..MaxTime) /\ Len(<<>>) = 0 /\ DOMAIN <<>> = {}
  OBVIOUS
<1>2. ASSUME C!LimiterInit PROVE C!LimiterTypeOK
  BY <1>1, <1>2, LimiterConstants DEF C!LimiterInit, C!LimiterTypeOK, C!Out
<1>3. ASSUME C!LimiterInit PROVE InOrderOfTime /\ TokensAreNewest /\ GrantsApart
  BY <1>1, <1>3 DEF C!LimiterInit, InOrderOfTime, TokensAreNewest, GrantsApart, Dropped
<1> QED
  BY <1>2, <1>3 DEF LimiterInv

\* The first of the natural numbers in a set.
LEMMA LeastElement ==
    ASSUME NEW S \in SUBSET Nat, S # {}
    PROVE  \E x \in S : \A y \in S : x <= y
<1> DEFINE less == {ss \in Nat \X Nat : ss[1] < ss[2]}
<1>1. IsWellFoundedOn(less, Nat)
  BY NatLessThanWellFounded DEF OpToRel
<1>2. PICK x \in S : \A y \in S : <<y, x>> \notin less
  BY <1>1, WFMin
<1>3. \A y \in S : x <= y
  <2> SUFFICES ASSUME NEW y \in S, ~(x <= y) PROVE FALSE
    OBVIOUS
  <2>1. y < x /\ <<y, x>> \in Nat \X Nat
    OBVIOUS
  <2> QED
    BY <1>2, <2>1
<1> QED
  BY <1>3

\* Pruning drops the tokens that have left the window, all in front of those
\* that have not.
LEMMA PruningKeepsNewest ==
    ASSUME LimiterInv
    PROVE  \E k \in 0..Len(tokens) :
              /\ C!Live = SubSeq(tokens, k + 1, Len(tokens))
              /\ C!Live \in Seq(0..MaxTime) /\ Len(C!Live) = Len(tokens) - k
              /\ \A i \in DOMAIN C!Live : C!Live[i] = tokens[k + i]
              /\ \A i \in 1..k : tokens[i] <= now - Window
              /\ \A i \in DOMAIN C!Live : C!Live[i] > now - Window
<1> DEFINE gone == {i \in DOMAIN tokens : ~C!Valid(tokens[i])}
<1>1. PICK n \in Nat : n = Len(tokens)
  BY DEF LimiterInv, C!LimiterTypeOK
<1>2. /\ tokens \in Seq(0..MaxTime) /\ DOMAIN tokens = 1..n
      /\ now \in Nat /\ Window \in Nat /\ MaxTime \in Nat
      /\ \A i \in 1..n : tokens[i] \in Nat
      /\ \A i \in 1..n : C!Valid(tokens[i]) <=> tokens[i] > now - Window
  BY <1>1, LimiterConstants DEF LimiterInv, C!LimiterTypeOK, C!Valid
<1>3. \A i, j \in 1..n : i <= j => tokens[i] <= tokens[j]
  <2>1. Len(grants) \in Nat /\ DOMAIN grants = 1..Len(grants) /\ n <= Len(grants)
    BY <1>1 DEF LimiterInv, C!LimiterTypeOK, TokensAreNewest
  <2> DEFINE d == Len(grants) - n
  <2>2. d \in Nat /\ d = Dropped /\ Len(grants) = n + d
    BY <1>1, <2>1 DEF Dropped
  <2> HIDE DEF d
  <2>3. \A i \in 1..n : tokens[i] = grants[d + i]
    BY <1>2, <2>2 DEF LimiterInv, TokensAreNewest
  <2>4. \A i, j \in DOMAIN grants : i <= j => grants[i] <= grants[j]
    BY DEF LimiterInv, InOrderOfTime
  <2> SUFFICES ASSUME NEW i \in 1..n, NEW j \in 1..n, i <= j PROVE tokens[i] <= tokens[j]
    OBVIOUS
  <2>5. d + i \in DOMAIN grants /\ d + j \in DOMAIN grants /\ d + i <= d + j
    BY <2>1, <2>2
  <2> QED
    BY <2>3, <2>4, <2>5
<1> HIDE DEF gone
<1>4. PICK m \in 1..n + 1 : m \notin gone /\ \A j \in 1..n + 1 : j \notin gone => m <= j
  <2> DEFINE kept == {i \in 1..n + 1 : i \notin gone}
  <2>1. n + 1 \in kept /\ kept \in SUBSET Nat
    BY <1>2 DEF gone
  <2>2. PICK m \in kept : \A j \in kept : m <= j
    BY <2>1, LeastElement
  <2> QED
    BY <2>2
<1>5. PICK k \in 0..n : m = k + 1
  BY <1>4
<1>6. \A i \in 1..k : i \in gone
  BY <1>4, <1>5
<1>7. \A i \in k + 1..n : C!Valid(tokens[i])
  <2> SUFFICES ASSUME NEW i \in k + 1..n PROVE C!Valid(tokens[i])
    OBVIOUS
  <2>1. i \in 1..n /\ m \in 1..n /\ m <= i
    BY <1>5
  <2>2. C!Valid(tokens[m])
    BY <1>2, <1>4, <2>1 DEF gone
  <2> QED
    BY <1>2, <1>3, <2>1, <2>2
<1>8. gone = 1..k
  BY <1>2, <1>6, <1>7 DEF gone
<1>9. C!Live = SubSeq(tokens, k + 1, n)
  <2>1. Cardinality(gone) = k
    BY <1>8, FS_Interval
  <2>2. C!Live = SubSeq(tokens, Cardinality(gone) + 1, Len(tokens))
    BY Cardinalities DEF C!Live, gone
  <2> QED
    BY <1>1, <2>1, <2>2
<1>10. /\ C!Live \in Seq(0..MaxTime) /\ Len(C!Live) = n - k
       /\ \A i \in 1..n - k : C!Live[i] = tokens[k + i]
  <2>1. \A i \in k + 1..n : tokens[i] \in 0..MaxTime
    BY <1>1, <1>2
  <2>2. /\ SubSeq(tokens, k + 1, n) \in Seq(0..MaxTime)
        /\ Len(SubSeq(tokens, k + 1, n)) = IF k + 1 <= n THEN n - (k + 1) + 1 ELSE 0
        /\ \A i \in 1..n - (k + 1) + 1 : SubSeq(tokens, k + 1, n)[i] = tokens[(k + 1) + i - 1]
    BY <2>1, SubSeqProperties
  <2>3. /\ n - (k + 1) + 1 = n - k /\ \A i \in 1..n - k : (k + 1) + i - 1 = k + i
        /\ (IF k + 1 <= n THEN n - (k + 1) + 1 ELSE 0) = n - k
    OBVIOUS
  <2> QED
    BY <1>9, <2>2, <2>3
<1>11. DOMAIN C!Live = 1..n - k
  BY <1>10
<1>12. \A i \in DOMAIN C!Live : C!Live[i] > now - Window
  <2> SUFFICES ASSUME NEW i \in 1..n - k PROVE C!Live[i] > now - Window
    BY <1>11
  <2>1. k + i \in k + 1..n /\ k + i \in 1..n
    OBVIOUS
  <2> QED
    BY <1>2, <1>7, <1>10, <2>1
<1>13. \A i \in 1..k : tokens[i] <= now - Window
  <2> SUFFICES ASSUME NEW i \in 1..k PROVE tokens[i] <= now - Window
    OBVIOUS
  <2>1. i \in 1..n /\ ~C!Valid(tokens[i])
    BY <1>6 DEF gone
  <2> QED
    BY <1>2, <2>1
<1> QED
  BY <1>1, <1>9, <1>10, <1>11, <1>12, <1>13

\* Hence what is left are the newest grants again, those in the window.
LEMMA LiveIsNewest ==
    ASSUME LimiterInv
    PROVE  \E e \in Nat :
              /\ Len(grants) = e + Len(C!Live)
              /\ C!Live \in Seq(0..MaxTime) /\ Len(C!Live) \in 0..MaxAllowed
              /\ \A i \in 1..Len(C!Live) : C!Live[i] = grants[e + i]
              /\ \A i \in 1..e : grants[i] <= now - Window
<1>1. PICK k \in 0..Len(tokens) :
          /\ C!Live \in Seq(0..MaxTime) /\ Len(C!Live) = Len(tokens) - k
          /\ \A i \in DOMAIN C!Live : C!Live[i] = tokens[k + i]
          /\ \A i \in 1..k : tokens[i] <= now - Window
  BY PruningKeepsNewest
<1>2. PICK n \in Nat : n = Len(tokens) /\ n <= MaxAllowed /\ DOMAIN tokens = 1..n
  BY LimiterConstants DEF LimiterInv, C!LimiterTypeOK
<1>3. PICK g \in Nat : g = Len(grants) /\ n <= g
  BY <1>2 DEF LimiterInv, C!LimiterTypeOK, TokensAreNewest
<1>4. PICK d \in Nat : d + n = g /\ d = Dropped
  <2>1. g - n \in Nat /\ (g - n) + n = g /\ g - n = Dropped
    BY <1>2, <1>3 DEF Dropped
  <2> QED
    BY <2>1
<1>5. /\ \A i \in 1..n : tokens[i] = grants[d + i]
      /\ \A i \in 1..d : grants[i] <= now - Window
  BY <1>2, <1>4 DEF LimiterInv, TokensAreNewest
<1>6. PICK e \in Nat : e = d + k
  BY <1>1, <1>2
<1>7. Len(C!Live) = n - k /\ n - k \in 0..MaxAllowed /\ g = e + (n - k) /\ DOMAIN C!Live = 1..n - k
  BY <1>1, <1>2, <1>4, <1>6, LimiterConstants
<1>8. ASSUME NEW i \in 1..n - k PROVE C!Live[i] = grants[e + i]
  <2>1. k + i \in 1..n /\ d + (k + i) = e + i
    BY <1>1, <1>2, <1>6
  <2> QED
    BY <1>1, <1>5, <1>7, <2>1
<1>9. ASSUME NEW i \in 1..e PROVE grants[i] <= now - Window
  <2>1. CASE i \in 1..d
    BY <1>5, <2>1
  <2>2. CASE i \notin 1..d
    <3>1. PICK j \in 1..k : i = d + j
      <4>1. i - d \in 1..k /\ i = d + (i - d)
        BY <1>1, <1>2, <1>6, <2>2
      <4> QED
        BY <4>1
    <3>2. j \in 1..n
      BY <1>1, <1>2
    <3> QED
      BY <1>1, <1>5, <3>1, <3>2
  <2> QED
    BY <2>1, <2>2
<1> QED
  BY <1>1, <1>3, <1>7, <1>8, <1>9

\* A caller is let through: there is room among the newest MaxAllowed grants.
LEMMA LetThrough ==
    ASSUME LimiterInv, NEW c \in Callers, Len(C!Live) < MaxAllowed,
           tokens' = Append(C!Live, now), grants' = Append(grants, now),
           sleeping' = [sleeping EXCEPT ![c] = C!Out], now' = now
    PROVE  LimiterInv'
<1>1. PICK e \in Nat :
          /\ Len(grants) = e + Len(C!Live)
          /\ C!Live \in Seq(0..MaxTime) /\ Len(C!Live) \in 0..MaxAllowed
          /\ \A i \in 1..Len(C!Live) : C!Live[i] = grants[e + i]
          /\ \A i \in 1..e : grants[i] <= now - Window
  BY LiveIsNewest
<1>2. /\ grants \in Seq(0..MaxTime) /\ now \in 0..MaxTime
      /\ MaxTime \in Nat /\ Window \in Nat \ {0} /\ MaxAllowed \in Nat \ {0}
      /\ sleeping \in [Callers -> {-2, -1} \cup 1..MaxTime + Window]
  BY LimiterConstants DEF LimiterInv, C!LimiterTypeOK
<1>3. PICK g \in Nat : g = Len(grants)
  BY <1>2
<1>4. PICK l \in Nat : l = Len(C!Live) /\ g = e + l /\ l < MaxAllowed
  BY <1>1, <1>3
<1>5. /\ grants' \in Seq(0..MaxTime) /\ Len(grants') = g + 1 /\ DOMAIN grants' = 1..g + 1
      /\ grants'[g + 1] = now /\ \A i \in 1..g : grants'[i] = grants[i]
  BY <1>2, <1>3
<1>6. /\ tokens' \in Seq(0..MaxTime) /\ Len(tokens') = l + 1 /\ DOMAIN tokens' = 1..l + 1
      /\ tokens'[l + 1] = now /\ \A i \in 1..l : tokens'[i] = C!Live[i]
  BY <1>1, <1>2, <1>4
<1>7. C!LimiterTypeOK'
  <2>1. sleeping' \in [Callers -> {-2, -1} \cup 1..MaxTime + Window]
    BY <1>2 DEF C!Out
  <2> QED
    BY <1>2, <1>4, <1>5, <1>6, <2>1 DEF C!LimiterTypeOK
<1>8. /\ \A i \in 1..g : grants[i] <= now /\ grants[i] \in Int
      /\ \A i, j \in 1..g : i <= j => grants[i] <= grants[j]
  <2>1. DOMAIN grants = 1..g /\ \A i \in 1..g : grants[i] \in 0..MaxTime
    BY <1>2, <1>3
  <2>2. \A i \in 1..g : grants[i] \in Int
    BY <1>2, <2>1
  <2> QED
    BY <2>1, <2>2 DEF LimiterInv, InOrderOfTime
<1>9. InOrderOfTime'
  <2>1. \A i \in 1..g + 1 : grants'[i] <= now
    BY <1>2, <1>3, <1>5, <1>8
  <2>2. ASSUME NEW i \in 1..g + 1, NEW j \in 1..g + 1, i <= j
        PROVE  grants'[i] <= grants'[j]
    <3>1. CASE j = g + 1
      BY <1>5, <2>1, <3>1
    <3>2. CASE j \in 1..g /\ i \in 1..g
      BY <1>5, <1>8, <2>2, <3>2
    <3> QED
      BY <1>3, <2>2, <3>1, <3>2
  <2> QED
    BY <1>5, <2>1, <2>2 DEF InOrderOfTime
<1>10. Dropped' = e
  BY <1>4, <1>5, <1>6 DEF Dropped
<1>11. TokensAreNewest'
  <2>1. ASSUME NEW i \in 1..l + 1 PROVE tokens'[i] = grants'[e + i]
    <3>1. CASE i = l + 1
      BY <1>4, <1>5, <1>6, <3>1
    <3>2. CASE i \in 1..l
      <4>1. e + i \in 1..g
        BY <1>4, <3>2
      <4> QED
        BY <1>1, <1>4, <1>5, <1>6, <3>2, <4>1
    <3>3. i = l + 1 \/ i \in 1..l
      BY <1>4, <2>1
    <3> QED
      BY <3>1, <3>2, <3>3
  <2>2. \A i \in 1..e : grants'[i] <= now - Window
    BY <1>1, <1>4, <1>5
  <2>3. Len(tokens') <= Len(grants')
    BY <1>4, <1>5, <1>6
  <2> QED
    BY <1>6, <1>10, <2>1, <2>2, <2>3 DEF TokensAreNewest
<1>12. GrantsApart'
  <2> SUFFICES ASSUME NEW i \in 1..g + 1, NEW j \in 1..g + 1, j = i + MaxAllowed
               PROVE  grants'[j] - grants'[i] >= Window
    BY <1>5 DEF GrantsApart
  <2>1. i \in 1..g
    BY <1>2
  <2>2. CASE j \in 1..g
    BY <1>3, <1>5, <2>1, <2>2 DEF LimiterInv, GrantsApart
  <2>3. CASE j = g + 1
    <3>1. i \in 1..e
      BY <1>2, <1>4, <2>3
    <3>2. grants[i] <= now - Window /\ grants[i] \in Int
      BY <1>1, <1>8, <2>1, <3>1
    <3>3. grants'[i] = grants[i] /\ grants'[j] = now
      BY <1>5, <2>1, <2>3
    <3>4. now \in Int /\ Window \in Int
      BY <1>2
    <3> QED
      BY <3>2, <3>3, <3>4
  <2> QED
    BY <1>3, <2>2, <2>3
<1> QED
  BY <1>7, <1>9, <1>11, <1>12 DEF LimiterInv

\* A caller has to wait: only the pruning shows.
LEMMA HeldBack ==
    ASSUME LimiterInv, NEW c \in Callers, ~(Len(C!Live) < MaxAllowed),
           tokens' = C!Live, grants' = grants, now' = now,
           sleeping' = [sleeping EXCEPT ![c] = Head(C!Live) + Window]
    PROVE  LimiterInv'
<1>1. PICK e \in Nat :
          /\ Len(grants) = e + Len(C!Live)
          /\ C!Live \in Seq(0..MaxTime) /\ Len(C!Live) \in 0..MaxAllowed
          /\ \A i \in 1..Len(C!Live) : C!Live[i] = grants[e + i]
          /\ \A i \in 1..e : grants[i] <= now - Window
  BY LiveIsNewest
<1>2. /\ MaxTime \in Nat /\ Window \in Nat \ {0} /\ MaxAllowed \in Nat \ {0}
      /\ sleeping \in [Callers -> {-2, -1} \cup 1..MaxTime + Window]
  BY LimiterConstants DEF LimiterInv, C!LimiterTypeOK
<1>3. Head(C!Live) \in 0..MaxTime
  BY <1>1, <1>2
<1>4. C!LimiterTypeOK'
  <2>1. Head(C!Live) + Window \in 1..MaxTime + Window
    BY <1>2, <1>3
  <2>2. sleeping' \in [Callers -> {-2, -1} \cup 1..MaxTime + Window]
    BY <1>2, <2>1
  <2> QED
    BY <1>1, <2>2 DEF LimiterInv, C!LimiterTypeOK
<1>5. Dropped' = e /\ DOMAIN tokens' = 1..Len(C!Live) /\ Len(tokens') <= Len(grants')
  BY <1>1 DEF Dropped
<1>6. TokensAreNewest'
  BY <1>1, <1>5 DEF TokensAreNewest
<1>7. InOrderOfTime' /\ GrantsApart'
  BY DEF LimiterInv, InOrderOfTime, GrantsApart
<1> QED
  BY <1>4, <1>6, <1>7 DEF LimiterInv

LEMMA LimiterStep == ASSUME LimiterInv, C!LimiterNext PROVE LimiterInv'
<1>1. /\ now \in 0..MaxTime /\ MaxTime \in Nat /\ Window \in Nat \ {0}
      /\ sleeping \in [Callers -> {-2, -1} \cup 1..MaxTime + Window]
  BY LimiterConstants DEF LimiterInv, C!LimiterTypeOK
<1>2. ASSUME NEW c \in Callers, C!Look(c) PROVE LimiterInv'
  BY <1>2, LetThrough, HeldBack DEF C!Look
<1>3. ASSUME NEW c \in Callers, C!LimiterBegin(c) \/ C!Wake(c) \/ C!ContextEnds(c)
      PROVE  LimiterInv'
  <2>1. sleeping' \in [Callers -> {-2, -1} \cup 1..MaxTime + Window]
    BY <1>1, <1>3 DEF C!LimiterBegin, C!Wake, C!ContextEnds, C!Awake, C!Out
  <2>2. UNCHANGED <<now, tokens, grants>>
    BY <1>3 DEF C!LimiterBegin, C!Wake, C!ContextEnds
  <2> QED
    BY <2>1, <2>2 DEF LimiterInv, C!LimiterTypeOK, InOrderOfTime, TokensAreNewest, GrantsApart, Dropped
<1>4. CASE C!Tick
  <2>1. now' = now + 1 /\ now' \in 0..MaxTime /\ UNCHANGED <<tokens, sleeping, grants>>
    BY <1>1, <1>4 DEF C!Tick
  <2>2. \A i \in DOMAIN grants : grants[i] \in Int
    <3>1. grants \in Seq(0..MaxTime)
      BY DEF LimiterInv, C!LimiterTypeOK
    <3>2. \A i \in DOMAIN grants : grants[i] \in 0..MaxTime
      <4>1. DOMAIN grants = 1..Len(grants)
        BY <3>1
      <4> QED
        BY <3>1, <4>1, ElementOfSeq
    <3> QED
      BY <1>1, <3>2
  <2>3. C!LimiterTypeOK' /\ GrantsApart'
    BY <2>1 DEF LimiterInv, C!LimiterTypeOK, GrantsApart
  <2>4. InOrderOfTime'
    BY <1>1, <2>1, <2>2 DEF LimiterInv, InOrderOfTime
  <2>5. TokensAreNewest'
    <3>1. 1..Dropped \subseteq DOMAIN grants /\ Dropped' = Dropped
      BY <2>1 DEF LimiterInv, C!LimiterTypeOK, TokensAreNewest, Dropped
    <3> QED
      BY <1>1, <2>1, <2>2, <3>1 DEF LimiterInv, TokensAreNewest
  <2> QED
    BY <2>3, <2>4, <2>5 DEF LimiterInv
<1> QED
  BY <1>2, <1>3, <1>4 DEF C!LimiterNext, C!LimiterProgress

LEMMA LimiterRests == ASSUME LimiterInv, UNCHANGED limiterVars PROVE LimiterInv'
BY DEF LimiterInv, limiterVars, C!LimiterTypeOK, InOrderOfTime, TokensAreNewest, GrantsApart, Dropped

\* The grants in a window begin with one and end before the MaxAllowed-th
\* after it.
LEMMA RateIsKept == LimiterInv => C!RateKept
<1> SUFFICES ASSUME LimiterInv, NEW t \in 0..MaxTime
             PROVE  Cardinality({i \in DOMAIN grants : grants[i] \in t..t + Window - 1}) <= MaxAllowed
  BY Cardinalities DEF C!RateKept
<1> DEFINE here == {i \in DOMAIN grants : grants[i] \in t..t + Window - 1}
<1>1. /\ MaxTime \in Nat /\ Window \in Nat \ {0} /\ MaxAllowed \in Nat \ {0}
      /\ grants \in Seq(0..MaxTime)
  BY LimiterConstants DEF LimiterInv, C!LimiterTypeOK
<1>2. PICK g \in Nat : g = Len(grants) /\ DOMAIN grants = 1..g
  BY <1>1
<1>3. CASE here = {}
  <2>1. Cardinality(here) = 0
    BY <1>3, FS_EmptySet
  <2> QED
    BY <1>1, <2>1
<1>4. CASE here # {}
  <2>1. PICK lo \in here : \A i \in here : lo <= i
    <3>1. here \in SUBSET Nat
      BY <1>2
    <3> QED
      BY <1>4, <3>1, LeastElement
  <2>2. here \subseteq lo..lo + MaxAllowed - 1
    <3> SUFFICES ASSUME NEW i \in here, i >= lo + MaxAllowed PROVE FALSE
      BY <1>1, <1>2, <2>1
    <3>1. lo + MaxAllowed \in 1..g /\ lo \in 1..g /\ i \in 1..g
      BY SMTT(60), <1>1, <1>2
    <3>2. grants[lo + MaxAllowed] - grants[lo] >= Window
      BY <1>2, <3>1 DEF LimiterInv, GrantsApart
    <3>3. grants[lo + MaxAllowed] <= grants[i]
      BY <1>2, <3>1 DEF LimiterInv, InOrderOfTime
    <3>4. /\ grants[lo] >= t /\ grants[i] <= t + Window - 1
          /\ grants[lo] \in Int /\ grants[i] \in Int /\ grants[lo + MaxAllowed] \in Int
      BY <1>1, <1>2, <3>1
    <3> QED
      BY SMTT(60), <1>1, <3>2, <3>3, <3>4
  <2>3. /\ IsFiniteSet(lo..lo + MaxAllowed - 1)
        /\ Cardinality(lo..lo + MaxAllowed - 1) = MaxAllowed
    <3>1. lo \in Int /\ lo + MaxAllowed - 1 \in Int /\ ~(lo > lo + MaxAllowed - 1)
          /\ (lo + MaxAllowed - 1) - lo + 1 = MaxAllowed
      BY <1>1, <1>2
    <3> QED
      BY <3>1, FS_Interval
  <2> DEFINE window == lo..lo + MaxAllowed - 1
  <2>4. here \in SUBSET window /\ IsFiniteSet(window) /\ Cardinality(window) = MaxAllowed
    BY <2>2, <2>3
  <2> HIDE DEF here, window
  <2>5. Cardinality(here) <= Cardinality(window)
    BY <2>4, FS_Subset
  <2> QED
    BY <2>4, <2>5 DEF here
<1> QED
  BY <1>3, <1>4

----------------------------------------------------------------------------
(***************************************************************************)
(* The routers.  What a provider is blamed for covers its count of         *)
(* failures: a request that was tried twice counts twice, and is done with *)
(* the provider then.  The calls under way to a provider were let through  *)
(* while it was fit, and can add one failure each.                         *)
(***************************************************************************)
Names   == R!Names
Left(c) == {route[c].todo[i] : i \in DOMAIN route[c].todo}
Twice(p) == {c \in blamed[p] : route[c].stage = "tiered" /\ p \notin Left(c)}
Under(p) == {c \in Requests : route[c].pc = "call" /\ R!Asked(c) = p}
Placed   == {c \in Requests : route[c].stage = "semantic" /\ route[c].pc \in {"semantic", "call"}}

RoutesFit ==
    \A c \in Requests :
        /\ route[c].pc \in {"semantic", "tiered"} => route[c].stage = route[c].pc
        /\ route[c].pc = "call" => route[c].todo # <<>>
        /\ route[c].pc = "out" => route[c].stage = "semantic"
        /\ \A i, j \in DOMAIN route[c].todo : route[c].todo[i] = route[c].todo[j] => i = j

BlameFits ==
    \A p \in Names : \A c \in blamed[p] :
        route[c].stage = "semantic" => route[c].pc # "out" /\ p \notin Left(c)

HealthIsVerdict ==
    \A p \in Names : health[p].healthy <=> health[p].failCount < Threshold

FailuresAccounted ==
    \A p \in Names :
        health[p].failCount <= Cardinality(blamed[p]) + Cardinality(Twice(p))

CallsLetThrough ==
    \A p \in Names :
        health[p].failCount + Cardinality(Under(p)) <= Threshold - 1 + Cardinality(Requests)

RoutingInv ==
    /\ R!TypeOK /\ RoutesFit /\ BlameFits /\ HealthIsVerdict
    /\ FailuresAccounted /\ CallsLetThrough /\ R!RoutesAddUp

\* What the type invariant says of one provider and of one request.
Standings == [healthy : BOOLEAN, failCount : Nat, cooled : BOOLEAN]
Courses  == [pc : {"out", "semantic", "tiered", "call", "ok", "error"},
             stage : {"semantic", "tiered"}, todo : Seq(Names)]

LEMMA RoutingConstants ==
    /\ IsFiniteSet(Requests) /\ Cardinality(Requests) \in Nat
    /\ Threshold \in Nat /\ Threshold >= 3
    /\ IsFiniteSet(Names)
<1>1. IsFiniteSet(Requests) /\ Threshold \in Nat /\ Threshold >= 3
  BY ProvidersAssumption
<1>2. IsFiniteSet(Names)
  <2> DEFINE T == {Providers[i] : i \in DOMAIN Providers}
  <2>1. Providers \in Seq(T)
    BY ProvidersAssumption
  <2>2. PICK n \in Nat : DOMAIN Providers = 1..n /\ Providers \in [1..n -> T]
    BY <2>1
  <2>3. Names = T
    BY DEF Names, R!Names, R!Range
  <2>4. Providers \in Surjection(1..n, T)
    BY <2>2 DEF Surjection
  <2>5. IsFiniteSet(1..n)
    <3>1. 1 \in Int /\ n \in Int
      BY <2>2
    <3> QED
      BY <3>1, FS_Interval
  <2> QED
    BY <2>3, <2>4, <2>5, FS_Surjection
<1> QED
  BY <1>1, <1>2, FS_CardinalityType

\* The lists of providers a request goes through name nobody twice.
LEMMA ListsAreLists ==
    ASSUME NEW S \in SUBSET Names, NEW key, NEW list \in R!InOrder(S, key)
    PROVE  /\ list \in Seq(Names)
           /\ \A i, j \in DOMAIN list : list[i] = list[j] => i = j
<1>1. Cardinality(S) \in Nat
  BY RoutingConstants, FS_Subset, FS_CardinalityType
<1>2. list \in Bijection(1..Cardinality(S), S)
  BY Cardinalities, Bijections DEF R!InOrder
<1>3. list \in [1..Cardinality(S) -> S] /\ \A i, j \in DOMAIN list : list[i] = list[j] => i = j
  BY <1>2 DEF Bijection, Injection, IsInjective
<1>4. list \in [1..Cardinality(S) -> Names]
  BY <1>3
<1>5. list \in Seq(Names)
  BY <1>1, <1>4
<1> QED
  BY <1>3, <1>5

LEMMA CandidatesAreLists ==
    ASSUME NEW list, (\E task : list \in R!Candidates(task)) \/ list \in R!Tiered
    PROVE  /\ list \in Seq(Names)
           /\ \A i, j \in DOMAIN list : list[i] = list[j] => i = j
BY ListsAreLists DEF R!Candidates, R!Tiered, Names

\* Who is first in a list of different names is not in the rest of it.
LEMMA HeadIsPassed ==
    ASSUME NEW s \in Seq(Names), s # <<>>,
           \A i, j \in DOMAIN s : s[i] = s[j] => i = j
    PROVE  /\ Head(s) \in Names /\ Head(s) \in {s[i] : i \in DOMAIN s}
           /\ Tail(s) \in Seq(Names)
           /\ \A i, j \in DOMAIN Tail(s) : Tail(s)[i] = Tail(s)[j] => i = j
           /\ {Tail(s)[i] : i \in DOMAIN Tail(s)} = {s[i] : i \in DOMAIN s} \ {Head(s)}
<1>1. PICK n \in Nat : Len(s) = n + 1 /\ DOMAIN s = 1..n + 1
  <2>1. Len(s) \in Nat \ {0} /\ DOMAIN s = 1..Len(s)
    OBVIOUS
  <2>2. Len(s) - 1 \in Nat /\ Len(s) = (Len(s) - 1) + 1
    BY <2>1
  <2> QED
    BY Zenon, <2>1, <2>2
<1>2. /\ Head(s) = s[1] /\ Head(s) \in Names /\ Tail(s) \in Seq(Names) /\ Len(Tail(s)) = n
      /\ \A i \in 1..n : Tail(s)[i] = s[i + 1]
  BY <1>1, HeadTailProperties
<1>3. DOMAIN Tail(s) = 1..n
  BY <1>2
<1>4. \A i, j \in 1..n : Tail(s)[i] = Tail(s)[j] => i = j
  <2> SUFFICES ASSUME NEW i \in 1..n, NEW j \in 1..n, Tail(s)[i] = Tail(s)[j] PROVE i = j
    OBVIOUS
  <2>1. i + 1 \in DOMAIN s /\ j + 1 \in DOMAIN s /\ s[i + 1] = s[j + 1]
    BY <1>1, <1>2
  <2> QED
    BY <2>1
<1>5. {Tail(s)[i] : i \in 1..n} = {s[i] : i \in 1..n + 1} \ {s[1]}
  <2>1. ASSUME NEW i \in 1..n PROVE Tail(s)[i] \in {s[k] : k \in 1..n + 1} \ {s[1]}
    <3>1. i + 1 \in 1..n + 1 /\ 1 \in 1..n + 1 /\ i + 1 # 1
      BY <2>1
    <3> QED
      BY <1>1, <1>2, <2>1, <3>1
  <2>2. ASSUME NEW i \in 1..n + 1, s[i] # s[1] PROVE s[i] \in {Tail(s)[k] : k \in 1..n}
    <3>1. i # 1
      BY <2>2
    <3>2. i - 1 \in 1..n /\ (i - 1) + 1 = i
      BY <2>2, <3>1
    <3> QED
      BY <1>2, <3>2
  <2> QED
    BY ZenonT(90), <2>1, <2>2
<1>6. s[1] \in {s[i] : i \in DOMAIN s}
  <2>1. 1 \in 1..n + 1
    BY <1>1
  <2> QED
    BY <2>1
<1>7. {Tail(s)[i] : i \in DOMAIN Tail(s)} = {s[i] : i \in DOMAIN s} \ {s[1]}
  BY <1>1, <1>3, <1>5
<1>8. \A i, j \in DOMAIN Tail(s) : Tail(s)[i] = Tail(s)[j] => i = j
  BY <1>3, <1>4
<1> QED
  BY <1>2, <1>6, <1>7, <1>8

\* A provider that was passed is not asked again from the same list.
LEMMA PassedOnce ==
    ASSUME RoutingInv, NEW c \in Requests, route[c].todo # <<>>
    PROVE  /\ R!Asked(c) \in Names /\ R!Asked(c) \in Left(c)
           /\ Tail(route[c].todo) \in Seq(Names)
           /\ \A i, j \in DOMAIN Tail(route[c].todo) :
                 Tail(route[c].todo)[i] = Tail(route[c].todo)[j] => i = j
           /\ {Tail(route[c].todo)[i] : i \in DOMAIN Tail(route[c].todo)} = Left(c) \ {R!Asked(c)}
<1>1. /\ route[c].todo \in Seq(Names)
      /\ \A i, j \in DOMAIN route[c].todo : route[c].todo[i] = route[c].todo[j] => i = j
  BY DEF RoutingInv, R!TypeOK, RoutesFit, Names
<1> QED
  BY <1>1, HeadIsPassed DEF R!Asked, Left

LEMMA RoutingInit == R!Init => RoutingInv
<1> SUFFICES ASSUME R!Init PROVE RoutingInv
  OBVIOUS
<1>1. \A c \in Requests : route[c] = [pc |-> "out", stage |-> "semantic", todo |-> <<>>]
  BY DEF R!Init
<1>2. \A p \in Names : blamed[p] = {} /\ health[p] = [healthy |-> TRUE, failCount |-> 0, cooled |-> FALSE]
  BY DEF R!Init, Names
<1>3. R!TypeOK
  <2>1. <<>> \in Seq(R!Names)
    OBVIOUS
  <2>2. route \in [Requests -> [pc : {"out", "semantic", "tiered", "call", "ok", "error"},
                              stage : {"semantic", "tiered"}, todo : Seq(R!Names)]]
    BY <2>1 DEF R!Init
  <2>3. health \in [R!Names -> [healthy : BOOLEAN, failCount : Nat, cooled : BOOLEAN]]
    BY DEF R!Init
  <2> QED
    BY <2>2, <2>3 DEF R!Init, R!TypeOK
<1>4. RoutesFit
  <2>1. DOMAIN <<>> = {}
    OBVIOUS
  <2> QED
    BY <1>1, <2>1 DEF RoutesFit
<1>5. BlameFits
  BY <1>2 DEF BlameFits
<1>6. HealthIsVerdict
  BY <1>2, RoutingConstants DEF HealthIsVerdict
<1>7. FailuresAccounted
  <2> SUFFICES ASSUME NEW p \in Names
               PROVE  health[p].failCount <= Cardinality(blamed[p]) + Cardinality(Twice(p))
    BY DEF FailuresAccounted
  <2>1. blamed[p] = {} /\ Twice(p) = {} /\ health[p].failCount = 0
    BY <1>2 DEF Twice
  <2> QED
    BY <2>1, FS_EmptySet
<1>8. CallsLetThrough
  <2> SUFFICES ASSUME NEW p \in Names
               PROVE  health[p].failCount + Cardinality(Under(p)) <= Threshold - 1 + Cardinality(Requests)
    BY DEF CallsLetThrough
  <2>1. Under(p) = {} /\ health[p].failCount = 0
    BY <1>1, <1>2 DEF Under
  <2>2. Cardinality(Under(p)) = 0
    BY <2>1, FS_EmptySet
  <2> QED
    BY <2>1, <2>2, RoutingConstants
<1>9. R!RoutesAddUp
  <2>1. Placed = {}
    BY <1>1 DEF Placed
  <2>2. Cardinality(Placed) = 0
    BY <2>1, FS_EmptySet
  <2> QED
    BY <2>2, Cardinalities DEF R!Init, R!RoutesAddUp, Placed
<1> QED
  BY <1>3, <1>4, <1>5, <1>6, <1>7, <1>8, <1>9 DEF RoutingInv

\* One request moves on; the others are where they were.
LEMMA OneMoves ==
    ASSUME RoutingInv, NEW c \in Requests,
           NEW pc \in {"out", "semantic", "tiered", "call", "ok", "error"},
           NEW stage \in {"semantic", "tiered"}, NEW todo \in Seq(Names),
           route' = [route EXCEPT ![c] = R!At(pc, stage, todo)]
    PROVE  /\ route' \in [Requests -> Courses]
           /\ route'[c].pc = pc /\ route'[c].stage = stage /\ route'[c].todo = todo
           /\ \A d \in Requests \ {c} : route'[d] = route[d]
<1>1. route \in [Requests -> Courses]
  BY DEF RoutingInv, R!TypeOK, Courses, Names
<1>2. R!At(pc, stage, todo) \in Courses
  BY DEF R!At, Courses
<1>3. route'[c] = R!At(pc, stage, todo)
  BY <1>1
<1> QED
  BY <1>1, <1>2, <1>3 DEF R!At

\* A request goes on to a later place, in the same list or in the next one.
LEMMA RouteMoves ==
    ASSUME RoutingInv, NEW c \in Requests,
           NEW pc \in {"semantic", "tiered", "call", "ok", "error"},
           NEW stage \in {"semantic", "tiered"}, NEW todo \in Seq(Names),
           route' = [route EXCEPT ![c] = R!At(pc, stage, todo)],
           pc \in {"semantic", "tiered"} => stage = pc,
           pc = "call" => todo # <<>>,
           \A i, j \in DOMAIN todo : todo[i] = todo[j] => i = j
    PROVE  route' \in [Requests -> Courses] /\ RoutesFit'
<1>1. /\ route' \in [Requests -> Courses]
      /\ route'[c].pc = pc /\ route'[c].stage = stage /\ route'[c].todo = todo
      /\ \A d \in Requests \ {c} : route'[d] = route[d]
  BY ZenonT(90), OneMoves
<1>2. RoutesFit'
  <2> SUFFICES ASSUME NEW d \in Requests
               PROVE  /\ route'[d].pc \in {"semantic", "tiered"} => route'[d].stage = route'[d].pc
                      /\ route'[d].pc = "call" => route'[d].todo # <<>>
                      /\ route'[d].pc = "out" => route'[d].stage = "semantic"
                      /\ \A i, j \in DOMAIN route'[d].todo :
                            route'[d].todo[i] = route'[d].todo[j] => i = j
    BY DEF RoutesFit
  <2>1. CASE d = c
    BY <1>1, <2>1
  <2>2. CASE d # c
    BY <1>1, <2>2 DEF RoutingInv, RoutesFit
  <2> QED
    BY <2>1, <2>2
<1> QED
  BY <1>1, <1>2

\* The standing of one provider changes.
LEMMA HealthMoves ==
    ASSUME RoutingInv, NEW p \in Names,
           NEW h \in Standings, health' = [health EXCEPT ![p] = h]
    PROVE  /\ health' \in [Names -> Standings] /\ health'[p] = h
           /\ \A q \in Names \ {p} : health'[q] = health[q]
BY DEF RoutingInv, R!TypeOK, Standings, Names

\* The requests of a provider are finitely many.
LEMMA Countable ==
    ASSUME R!TypeOK, NEW p \in Names
    PROVE  /\ blamed[p] \subseteq Requests /\ Twice(p) \subseteq blamed[p]
           /\ IsFiniteSet(blamed[p]) /\ IsFiniteSet(Twice(p)) /\ IsFiniteSet(Under(p))
           /\ Cardinality(blamed[p]) \in Nat /\ Cardinality(Twice(p)) \in Nat
           /\ Cardinality(Twice(p)) <= Cardinality(blamed[p])
           /\ Cardinality(Under(p)) \in Nat /\ Cardinality(Under(p)) <= Cardinality(Requests)
<1>1. blamed[p] \subseteq Requests /\ Twice(p) \subseteq blamed[p] /\ Under(p) \subseteq Requests
  BY DEF R!TypeOK, Twice, Under, Names
<1>2. IsFiniteSet(blamed[p]) /\ IsFiniteSet(Under(p)) /\ Cardinality(Under(p)) <= Cardinality(Requests)
  BY <1>1, RoutingConstants, FS_Subset
<1>3. IsFiniteSet(Twice(p)) /\ Cardinality(Twice(p)) <= Cardinality(blamed[p])
  BY <1>1, <1>2, FS_Subset
<1> QED
  BY <1>1, <1>2, <1>3, FS_CardinalityType

\* Who was tried twice stays so.
LEMMA TwiceGrows ==
    ASSUME R!TypeOK, R!TypeOK', NEW p \in Names, blamed[p] \subseteq blamed'[p],
           \A d \in Requests : route[d].stage = "tiered" =>
               route'[d].stage = "tiered" /\ Left(d)' \subseteq Left(d)
    PROVE  /\ Twice(p) \subseteq Twice(p)'
           /\ Cardinality(blamed[p]) <= Cardinality(blamed'[p])
           /\ Cardinality(Twice(p)) <= Cardinality(Twice(p)')
<1>1. blamed[p] \subseteq Requests /\ blamed'[p] \subseteq Requests
  BY DEF R!TypeOK, Names
<1>2. Twice(p) \subseteq Twice(p)'
  BY <1>1 DEF Twice
<1>3. Twice(p)' \subseteq Requests
  BY <1>1 DEF Twice
<1>4. IsFiniteSet(blamed'[p]) /\ IsFiniteSet(Twice(p)')
  BY <1>1, <1>3, RoutingConstants, FS_Subset
<1> QED
  BY <1>2, <1>4, FS_Subset

\* A provider that nothing happens to keeps its accounts.
LEMMA Untouched ==
    ASSUME RoutingInv, R!TypeOK', NEW q \in Names, blamed'[q] = blamed[q],
           health'[q].failCount = health[q].failCount,
           health'[q].healthy <=> health[q].healthy,
           \A d \in Requests : route[d].stage = "tiered" =>
               route'[d].stage = "tiered" /\ Left(d)' \subseteq Left(d),
           Under(q)' \subseteq Under(q)
    PROVE  /\ health'[q].healthy <=> health'[q].failCount < Threshold
           /\ health'[q].failCount <= Cardinality(blamed'[q]) + Cardinality(Twice(q)')
           /\ health'[q].failCount + Cardinality(Under(q)') <= Threshold - 1 + Cardinality(Requests)
<1>1. R!TypeOK /\ health[q].failCount \in Nat
  BY DEF RoutingInv, R!TypeOK, Names
<1>2. health'[q].healthy <=> health'[q].failCount < Threshold
  BY DEF RoutingInv, HealthIsVerdict
<1>3. health'[q].failCount <= Cardinality(blamed'[q]) + Cardinality(Twice(q)')
  <2>1. Cardinality(Twice(q)) <= Cardinality(Twice(q)')
    BY <1>1, TwiceGrows
  <2>2. health[q].failCount <= Cardinality(blamed[q]) + Cardinality(Twice(q))
    BY DEF RoutingInv, FailuresAccounted
  <2>3. /\ Cardinality(blamed[q]) \in Nat /\ Cardinality(Twice(q)) \in Nat
        /\ Cardinality(Twice(q)') \in Nat
    <3>1. Cardinality(Twice(q)') \in Nat
      <4>1. Twice(q)' \subseteq Requests
        BY DEF Twice, R!TypeOK, Names
      <4> QED
        BY <4>1, RoutingConstants, FS_Subset, FS_CardinalityType
    <3> QED
      BY <1>1, <3>1, Countable
  <2> QED
    BY <1>1, <2>1, <2>2, <2>3
<1>4. health'[q].failCount + Cardinality(Under(q)') <= Threshold - 1 + Cardinality(Requests)
  <2>1. IsFiniteSet(Under(q)) /\ Cardinality(Under(q)) \in Nat
    BY <1>1, Countable
  <2>2. Cardinality(Under(q)') <= Cardinality(Under(q)) /\ Cardinality(Under(q)') \in Nat
    BY <2>1, FS_Subset, FS_CardinalityType
  <2>3. health[q].failCount + Cardinality(Under(q)) <= Threshold - 1 + Cardinality(Requests)
    BY DEF RoutingInv, CallsLetThrough
  <2> QED
    BY <1>1, <2>1, <2>2, <2>3, RoutingConstants
<1> QED
  BY <1>2, <1>3, <1>4

\* How the requests that are still placed are counted when one moves.
LEMMA PlacedMoves ==
    ASSUME R!TypeOK, NEW c \in Requests,
           \A d \in Requests \ {c} : route'[d] = route[d]
    PROVE  /\ Cardinality(Placed) \in Nat
           /\ (c \in Placed <=> c \in Placed') => Cardinality(Placed') = Cardinality(Placed)
           /\ c \notin Placed /\ c \in Placed' => Cardinality(Placed') = Cardinality(Placed) + 1
           /\ c \in Placed /\ c \notin Placed' => Cardinality(Placed') = Cardinality(Placed) - 1
<1>1. IsFiniteSet(Placed)
  <2>1. Placed \subseteq Requests
    BY DEF Placed
  <2> QED
    BY <2>1, RoutingConstants, FS_Subset
<1>2. Placed' = IF c \in Placed' THEN Placed \cup {c} ELSE Placed \ {c}
  BY DEF Placed
<1>3. /\ Cardinality(Placed) \in Nat
      /\ Cardinality(Placed \cup {c}) = IF c \in Placed THEN Cardinality(Placed) ELSE Cardinality(Placed) + 1
      /\ Cardinality(Placed \ {c}) = IF c \in Placed THEN Cardinality(Placed) - 1 ELSE Cardinality(Placed)
  BY <1>1, FS_AddElement, FS_RemoveElement, FS_CardinalityType
<1> QED
  BY <1>2, <1>3

\* A request moves on, and no provider notices.
LEMMA RouteAlone ==
    ASSUME RoutingInv, NEW c \in Requests,
           NEW pc \in {"semantic", "tiered", "error"},
           NEW stage \in {"semantic", "tiered"}, NEW todo \in Seq(Names),
           route' = [route EXCEPT ![c] = R!At(pc, stage, todo)],
           pc \in {"semantic", "tiered"} => stage = pc,
           \A i, j \in DOMAIN todo : todo[i] = todo[j] => i = j,
           UNCHANGED <<health, blamed>>, counted' \in [task : Nat, tier : Nat, fallbacks : Nat],
           route[c].pc # "call",
           route[c].stage = "tiered" => stage = "tiered" /\ {todo[i] : i \in DOMAIN todo} \subseteq Left(c),
           stage = "semantic" => \A p \in Names :
               c \in blamed[p] => p \notin {todo[i] : i \in DOMAIN todo}
    PROVE  /\ R!TypeOK' /\ RoutesFit' /\ BlameFits' /\ HealthIsVerdict'
           /\ FailuresAccounted' /\ CallsLetThrough'
<1>1. /\ route' \in [Requests -> Courses]
      /\ route'[c].pc = pc /\ route'[c].stage = stage /\ route'[c].todo = todo
      /\ \A d \in Requests \ {c} : route'[d] = route[d]
  BY ZenonT(90), OneMoves
<1>2. R!TypeOK'
  BY <1>1 DEF RoutingInv, R!TypeOK, Courses, Names
<1>3. RoutesFit'
  BY ZenonT(90), RouteMoves
<1>4. /\ Left(c)' = {todo[i] : i \in DOMAIN todo}
      /\ \A d \in Requests \ {c} : Left(d)' = Left(d)
  BY <1>1 DEF Left
<1>5. BlameFits'
  <2> SUFFICES ASSUME NEW p \in Names, NEW d \in blamed[p], route'[d].stage = "semantic"
               PROVE  route'[d].pc # "out" /\ p \notin Left(d)'
    BY DEF BlameFits
  <2>1. d \in Requests
    BY DEF RoutingInv, R!TypeOK, Names
  <2>2. CASE d = c
    BY <1>1, <1>4, <2>2
  <2>3. CASE d # c
    BY <1>1, <1>4, <2>1, <2>3 DEF RoutingInv, BlameFits
  <2> QED
    BY <2>2, <2>3
<1>6. \A d \in Requests : route[d].stage = "tiered" =>
          route'[d].stage = "tiered" /\ Left(d)' \subseteq Left(d)
  BY <1>1, <1>4
<1>7. \A q \in Names : Under(q)' \subseteq Under(q)
  BY <1>1 DEF Under, R!Asked
<1>8. ASSUME NEW q \in Names
      PROVE  /\ health'[q].healthy <=> health'[q].failCount < Threshold
             /\ health'[q].failCount <= Cardinality(blamed'[q]) + Cardinality(Twice(q)')
             /\ health'[q].failCount + Cardinality(Under(q)') <= Threshold - 1 + Cardinality(Requests)
  BY <1>2, <1>6, <1>7, <1>8, Untouched
<1> QED
  BY <1>2, <1>3, <1>5, <1>8 DEF HealthIsVerdict, FailuresAccounted, CallsLetThrough

\* The metrics, with the requests that are still placed counted once.
LEMMA AddUp ==
    /\ R!RoutesAddUp <=> counted.task = counted.tier + counted.fallbacks + Cardinality(Placed)
    /\ R!RoutesAddUp' <=> counted'.task = counted'.tier + counted'.fallbacks + Cardinality(Placed')
BY Cardinalities DEF R!RoutesAddUp, Placed

LEMMA CountedType ==
    ASSUME R!TypeOK
    PROVE  /\ counted.task \in Nat /\ counted.tier \in Nat /\ counted.fallbacks \in Nat
           /\ counted = [task |-> counted.task, tier |-> counted.tier, fallbacks |-> counted.fallbacks]
           /\ counted \in [task : Nat, tier : Nat, fallbacks : Nat]
BY DEF R!TypeOK

LEMMA BeginStep == ASSUME RoutingInv, NEW c \in Requests, R!Begin(c) PROVE RoutingInv'
<1>1. PICK todo \in Seq(Names) :
          /\ \A i, j \in DOMAIN todo : todo[i] = todo[j] => i = j
          /\ route' = [route EXCEPT ![c] = R!At("semantic", "semantic", todo)]
  BY CandidatesAreLists DEF R!Begin
<1>2. /\ R!TypeOK /\ route[c].pc = "out" /\ route[c].stage = "semantic"
      /\ UNCHANGED <<health, blamed>> /\ counted' = [counted EXCEPT !.task = @ + 1]
  BY DEF RoutingInv, RoutesFit, R!Begin
<1>3. /\ counted'.task = counted.task + 1 /\ counted'.tier = counted.tier
      /\ counted'.fallbacks = counted.fallbacks
      /\ counted' \in [task : Nat, tier : Nat, fallbacks : Nat]
  BY <1>2, CountedType
<1>4. \A p \in Names : c \notin blamed[p]
  BY <1>2 DEF RoutingInv, BlameFits
<1>5. /\ R!TypeOK' /\ RoutesFit' /\ BlameFits' /\ HealthIsVerdict'
      /\ FailuresAccounted' /\ CallsLetThrough'
  BY <1>1, <1>2, <1>3, <1>4, RouteAlone
<1>6. Cardinality(Placed') = Cardinality(Placed) + 1 /\ Cardinality(Placed) \in Nat
  <2>1. /\ route'[c].pc = "semantic" /\ route'[c].stage = "semantic"
        /\ \A d \in Requests \ {c} : route'[d] = route[d]
    BY <1>1, OneMoves
  <2>2. c \notin Placed /\ c \in Placed'
    BY <1>2, <2>1 DEF Placed
  <2> QED
    BY <1>2, <2>1, <2>2, PlacedMoves
<1>7. R!RoutesAddUp
  BY DEF RoutingInv
<1>8. R!RoutesAddUp'
  BY <1>2, <1>3, <1>6, <1>7, AddUp, CountedType
<1> QED
  BY <1>5, <1>8 DEF RoutingInv

\* A provider that rests is passed over.
LEMMA PassStep ==
    ASSUME RoutingInv, NEW c \in Requests, R!Try(c), ~R!IsAvailable(health[R!Asked(c)])
    PROVE  RoutingInv'
<1>1. PICK todo : todo = Tail(route[c].todo)
  OBVIOUS
<1>2. PICK p : p = R!Asked(c)
  OBVIOUS
<1>3. /\ R!TypeOK /\ route[c].pc \in {"semantic", "tiered"} /\ route[c].stage = route[c].pc
      /\ route[c].todo # <<>>
  BY DEF RoutingInv, RoutesFit, R!Try
<1>4. /\ p \in Names /\ todo \in Seq(Names)
      /\ \A i, j \in DOMAIN todo : todo[i] = todo[j] => i = j
      /\ {todo[i] : i \in DOMAIN todo} = Left(c) \ {p}
  BY <1>1, <1>2, <1>3, PassedOnce
<1>5. R!Looked(health[p]) = health[p]
  BY <1>2 DEF R!Looked, R!IsAvailable
<1>6. UNCHANGED <<health, blamed, counted>>
  <2>1. health' = [health EXCEPT ![p] = health[p]] /\ UNCHANGED <<blamed, counted>>
    BY <1>2, <1>5 DEF R!Try
  <2> QED
    BY <1>3, <2>1 DEF R!TypeOK
<1>7. route' = [route EXCEPT ![c] = R!At(route[c].pc, route[c].stage, todo)]
  BY <1>1, <1>3 DEF R!Try, R!TypeOK
<1>8. counted' \in [task : Nat, tier : Nat, fallbacks : Nat]
  BY <1>3, <1>6, CountedType
<1>9. route[c].stage = "semantic" => \A q \in Names :
          c \in blamed[q] => q \notin {todo[i] : i \in DOMAIN todo}
  BY <1>4 DEF RoutingInv, BlameFits
<1>10. /\ R!TypeOK' /\ RoutesFit' /\ BlameFits' /\ HealthIsVerdict'
       /\ FailuresAccounted' /\ CallsLetThrough'
  BY ZenonT(90), <1>3, <1>4, <1>6, <1>7, <1>8, <1>9, RouteAlone
<1>11. Cardinality(Placed') = Cardinality(Placed)
  <2>1. /\ route'[c].pc = route[c].pc /\ route'[c].stage = route[c].stage
        /\ \A d \in Requests \ {c} : route'[d] = route[d]
    BY ZenonT(90), <1>3, <1>4, <1>7, OneMoves
  <2>2. c \in Placed <=> c \in Placed'
    BY <2>1 DEF Placed
  <2> QED
    BY <1>3, <2>1, <2>2, PlacedMoves
<1>12. R!RoutesAddUp'
  BY <1>6, <1>11, AddUp DEF RoutingInv
<1> QED
  BY <1>10, <1>12 DEF RoutingInv

LEMMA FallBackStep == ASSUME RoutingInv, NEW c \in Requests, R!FallBack(c) PROVE RoutingInv'
<1>1. PICK todo \in Seq(Names) :
          /\ \A i, j \in DOMAIN todo : todo[i] = todo[j] => i = j
          /\ route' = [route EXCEPT ![c] = R!At("tiered", "tiered", todo)]
  BY CandidatesAreLists DEF R!FallBack
<1>2. /\ R!TypeOK /\ route[c].pc = "semantic" /\ route[c].stage = "semantic"
      /\ UNCHANGED <<health, blamed>> /\ counted' = [counted EXCEPT !.fallbacks = @ + 1]
  BY DEF RoutingInv, RoutesFit, R!FallBack
<1>3. /\ counted'.task = counted.task /\ counted'.tier = counted.tier
      /\ counted'.fallbacks = counted.fallbacks + 1
      /\ counted' \in [task : Nat, tier : Nat, fallbacks : Nat]
  BY <1>2, CountedType
<1>4. /\ R!TypeOK' /\ RoutesFit' /\ BlameFits' /\ HealthIsVerdict'
      /\ FailuresAccounted' /\ CallsLetThrough'
  BY <1>1, <1>2, <1>3, RouteAlone
<1>5. Cardinality(Placed') = Cardinality(Placed) - 1 /\ Cardinality(Placed) \in Nat
  <2>1. /\ route'[c].pc = "tiered" /\ route'[c].stage = "tiered"
        /\ \A d \in Requests \ {c} : route'[d] = route[d]
    BY <1>1, OneMoves
  <2>2. c \in Placed /\ c \notin Placed'
    BY <1>2, <2>1 DEF Placed
  <2> QED
    BY <1>2, <2>1, <2>2, PlacedMoves
<1>6. R!RoutesAddUp
  BY DEF RoutingInv
<1>7. R!RoutesAddUp'
  BY <1>2, <1>3, <1>5, <1>6, AddUp, CountedType
<1> QED
  BY <1>4, <1>7 DEF RoutingInv

LEMMA AllFailedStep == ASSUME RoutingInv, NEW c \in Requests, R!AllFailed(c) PROVE RoutingInv'
<1>1. /\ R!TypeOK /\ route[c].pc = "tiered" /\ route[c].stage = "tiered"
      /\ UNCHANGED <<health, counted, blamed>>
      /\ route' = [route EXCEPT ![c] = R!At("error", "tiered", <<>>)]
  <2>1. route[c].pc = "tiered" /\ route[c].stage = "tiered" /\ UNCHANGED <<health, counted, blamed>>
    BY DEF RoutingInv, RoutesFit, R!AllFailed
  <2> QED
    BY <2>1 DEF RoutingInv, R!TypeOK, R!AllFailed
<1>2. counted' \in [task : Nat, tier : Nat, fallbacks : Nat]
  BY <1>1, CountedType
<1>3. <<>> \in Seq(Names) /\ DOMAIN <<>> = {}
  OBVIOUS
<1>4. /\ R!TypeOK' /\ RoutesFit' /\ BlameFits' /\ HealthIsVerdict'
      /\ FailuresAccounted' /\ CallsLetThrough'
  BY ZenonT(90), <1>1, <1>2, <1>3, RouteAlone
<1>5. Cardinality(Placed') = Cardinality(Placed)
  <2>1. /\ route'[c].pc = "error" /\ \A d \in Requests \ {c} : route'[d] = route[d]
    BY <1>1, <1>3, OneMoves
  <2>2. c \notin Placed /\ c \notin Placed'
    BY <1>1, <2>1 DEF Placed
  <2> QED
    BY <1>1, <2>1, <2>2, PlacedMoves
<1>6. R!RoutesAddUp'
  BY <1>1, <1>5, AddUp DEF RoutingInv
<1> QED
  BY <1>4, <1>6 DEF RoutingInv

LEMMA CooldownStep == ASSUME RoutingInv, NEW p \in Names, R!Cooldown(p) PROVE RoutingInv'
<1>1. UNCHANGED <<route, counted, blamed>> /\ R!TypeOK
  BY DEF RoutingInv, R!Cooldown
<1>2. /\ health[p] \in Standings
      /\ health' = [health EXCEPT ![p] = [health[p] EXCEPT !.cooled = TRUE]]
  BY <1>1 DEF R!TypeOK, R!Cooldown, Standings, Names
<1>3. PICK h \in Standings : h = [health[p] EXCEPT !.cooled = TRUE]
  BY <1>2 DEF Standings
<1>4. h.failCount = health[p].failCount /\ (h.healthy <=> health[p].healthy)
  BY <1>2, <1>3 DEF Standings
<1>5. /\ health' \in [Names -> Standings]
      /\ \A q \in Names : /\ health'[q].failCount = health[q].failCount
                          /\ health'[q].healthy <=> health[q].healthy
  <2>1. /\ health' \in [Names -> Standings] /\ health'[p] = h
        /\ \A q \in Names \ {p} : health'[q] = health[q]
    BY <1>2, <1>3, HealthMoves
  <2> QED
    BY <1>4, <2>1
<1>6. R!TypeOK'
  BY <1>1, <1>5 DEF R!TypeOK, Standings, Names
<1>7. \A q \in Names : Under(q)' = Under(q) /\ Twice(q)' = Twice(q)
  BY <1>1 DEF Under, Twice, Left, R!Asked
<1>8. RoutesFit' /\ BlameFits'
  BY <1>1 DEF RoutingInv, RoutesFit, BlameFits, Left
<1>9. HealthIsVerdict'
  BY <1>5 DEF RoutingInv, HealthIsVerdict
<1>10. FailuresAccounted' /\ CallsLetThrough'
  BY <1>1, <1>5, <1>7 DEF RoutingInv, FailuresAccounted, CallsLetThrough
<1>11. R!RoutesAddUp'
  BY <1>1, AddUp DEF RoutingInv, Placed
<1> QED
  BY <1>6, <1>8, <1>9, <1>10, <1>11 DEF RoutingInv

\* Blame is only taken away, lists only get shorter.
LEMMA BlameStillFits ==
    ASSUME RoutingInv, NEW c \in Requests,
           \A d \in Requests \ {c} : route'[d] = route[d],
           route'[c].stage = route[c].stage, route'[c].pc # "out", Left(c)' \subseteq Left(c),
           \A p \in Names : blamed'[p] \subseteq blamed[p]
    PROVE  BlameFits'
<1> SUFFICES ASSUME NEW p \in Names, NEW d \in blamed'[p], route'[d].stage = "semantic"
             PROVE  route'[d].pc # "out" /\ p \notin Left(d)'
  BY DEF BlameFits
<1>1. d \in blamed[p] /\ d \in Requests
  BY DEF RoutingInv, R!TypeOK, Names
<1>2. CASE d = c
  BY <1>1, <1>2 DEF RoutingInv, BlameFits
<1>3. CASE d # c
  <2>1. route'[d] = route[d] /\ Left(d)' = Left(d)
    BY <1>1, <1>3 DEF Left
  <2> QED
    BY <1>1, <2>1 DEF RoutingInv, BlameFits
<1> QED
  BY <1>2, <1>3

\* Who looks at a provider that is fit, or whose rest is over, asks it.
LEMMA AskStep ==
    ASSUME RoutingInv, NEW c \in Requests, R!Try(c), R!IsAvailable(health[R!Asked(c)])
    PROVE  RoutingInv'
<1>1. PICK p : p = R!Asked(c)
  OBVIOUS
<1>2. PICK todo : todo = route[c].todo
  OBVIOUS
<1>3. /\ R!TypeOK /\ route[c].pc \in {"semantic", "tiered"} /\ route[c].stage = route[c].pc
      /\ todo # <<>> /\ todo \in Seq(Names) /\ p \in Names /\ UNCHANGED counted
      /\ \A i, j \in DOMAIN todo : todo[i] = todo[j] => i = j
  BY <1>1, <1>2, PassedOnce DEF RoutingInv, RoutesFit, R!TypeOK, R!Try, Names
<1>4. PICK h : h = R!Looked(health[p])
  OBVIOUS
<1>5. /\ health' = [health EXCEPT ![p] = h]
      /\ blamed' = IF h # health[p] THEN [blamed EXCEPT ![p] = {}] ELSE blamed
      /\ route' = [route EXCEPT ![c] = R!At("call", route[c].stage, todo)]
  BY <1>1, <1>2, <1>3, <1>4 DEF R!Try, R!TypeOK
<1>6. health[p] \in Standings
  BY <1>3 DEF R!TypeOK, Standings, Names
<1>7. \/ h = health[p] /\ health[p].healthy
      \/ h = [healthy |-> TRUE, failCount |-> 0, cooled |-> FALSE] /\ h # health[p]
  <2>1. CASE health[p].healthy
    BY <1>4, <2>1 DEF R!Looked
  <2>2. CASE ~health[p].healthy
    <3>1. health[p].cooled
      BY <1>1, <2>2 DEF R!IsAvailable
    <3>2. h = [healthy |-> TRUE, failCount |-> 0, cooled |-> FALSE]
      BY <1>4, <2>2, <3>1 DEF R!Looked
    <3>3. h.healthy
      BY <3>2
    <3> QED
      BY <2>2, <3>2, <3>3
  <2> QED
    BY <2>1, <2>2
<1>8. h \in Standings /\ h.healthy /\ h.failCount < Threshold /\ h.failCount \in Nat
  <2>1. CASE h = health[p] /\ health[p].healthy
    BY <1>3, <1>6, <2>1 DEF RoutingInv, HealthIsVerdict, Standings
  <2>2. CASE h = [healthy |-> TRUE, failCount |-> 0, cooled |-> FALSE]
    BY <2>2, RoutingConstants DEF Standings
  <2> QED
    BY <1>7, <2>1, <2>2
<1>9. /\ health' \in [Names -> Standings] /\ health'[p] = h
      /\ \A q \in Names \ {p} : health'[q] = health[q]
  BY <1>3, <1>5, <1>8, HealthMoves
<1>10. /\ route' \in [Requests -> Courses] /\ RoutesFit'
       /\ route'[c].pc = "call" /\ route'[c].stage = route[c].stage /\ route'[c].todo = todo
       /\ \A d \in Requests \ {c} : route'[d] = route[d]
  BY ZenonT(90), <1>3, <1>5, OneMoves, RouteMoves
<1>11. /\ blamed' \in [Names -> SUBSET Requests]
       /\ \A q \in Names : blamed'[q] \subseteq blamed[q]
       /\ \A q \in Names \ {p} : blamed'[q] = blamed[q]
       /\ h # health[p] => blamed'[p] = {}
       /\ h = health[p] => blamed'[p] = blamed[p]
  BY <1>3, <1>5 DEF R!TypeOK, Names
<1>12. R!TypeOK'
  BY <1>3, <1>9, <1>10, <1>11 DEF R!TypeOK, Standings, Courses, Names
<1>13. \A d \in Requests : Left(d)' = Left(d) /\ route'[d].stage = route[d].stage
  BY <1>2, <1>10 DEF Left
<1>14. BlameFits'
  BY <1>10, <1>11, <1>13, BlameStillFits
<1>15. ASSUME NEW q \in Names \ {p}
       PROVE  /\ health'[q].healthy <=> health'[q].failCount < Threshold
              /\ health'[q].failCount <= Cardinality(blamed'[q]) + Cardinality(Twice(q)')
              /\ health'[q].failCount + Cardinality(Under(q)') <= Threshold - 1 + Cardinality(Requests)
  <2>1. Under(q)' \subseteq Under(q)
    <3>1. R!Asked(c)' = p
      BY <1>1, <1>2, <1>10 DEF R!Asked
    <3> QED
      BY <1>10, <1>15, <3>1 DEF Under, R!Asked
  <2> QED
    BY <1>9, <1>11, <1>12, <1>13, <1>15, <2>1, Untouched
<1>16. health'[p].healthy <=> health'[p].failCount < Threshold
  BY <1>8, <1>9
<1>17. health'[p].failCount <= Cardinality(blamed'[p]) + Cardinality(Twice(p)')
  <2>1. Twice(p)' \subseteq Requests /\ blamed'[p] \subseteq Requests
    BY <1>3, <1>11 DEF Twice
  <2>2. Cardinality(Twice(p)') \in Nat /\ Cardinality(blamed'[p]) \in Nat
    BY <2>1, RoutingConstants, FS_Subset, FS_CardinalityType
  <2>3. CASE h = health[p]
    <3>1. Cardinality(Twice(p)) <= Cardinality(Twice(p)') /\ blamed'[p] = blamed[p]
      BY <1>3, <1>11, <1>12, <1>13, <2>3, TwiceGrows
    <3>2. health[p].failCount <= Cardinality(blamed[p]) + Cardinality(Twice(p))
      BY <1>3 DEF RoutingInv, FailuresAccounted
    <3>3. Cardinality(Twice(p)) \in Nat
      BY <1>3, Countable
    <3> QED
      BY <1>8, <1>9, <2>2, <2>3, <3>1, <3>2, <3>3
  <2>4. CASE h # health[p]
    <3>1. h.failCount = 0
      BY <1>7, <2>4
    <3> QED
      BY <1>9, <2>2, <3>1
  <2> QED
    BY <2>3, <2>4
<1>18. health'[p].failCount + Cardinality(Under(p)') <= Threshold - 1 + Cardinality(Requests)
  <2>1. Under(p)' \subseteq Requests
    BY DEF Under
  <2>2. Cardinality(Under(p)') \in Nat /\ Cardinality(Under(p)') <= Cardinality(Requests)
    BY <2>1, RoutingConstants, FS_Subset, FS_CardinalityType
  <2> QED
    BY <1>8, <1>9, <2>2, RoutingConstants
<1>19. HealthIsVerdict' /\ FailuresAccounted' /\ CallsLetThrough'
  BY <1>15, <1>16, <1>17, <1>18 DEF HealthIsVerdict, FailuresAccounted, CallsLetThrough
<1>20. R!RoutesAddUp'
  <2>1. c \in Placed <=> c \in Placed'
    BY <1>3, <1>10 DEF Placed
  <2>2. Cardinality(Placed') = Cardinality(Placed)
    BY <1>3, <1>10, <2>1, PlacedMoves
  <2> QED
    BY <1>3, <2>2, AddUp DEF RoutingInv
<1> QED
  BY <1>10, <1>12, <1>14, <1>19, <1>20 DEF RoutingInv

\* A success clears the provider.
LEMMA SucceedStep == ASSUME RoutingInv, NEW c \in Requests, R!Succeeds(c) PROVE RoutingInv'
<1>1. PICK p : p = R!Asked(c)
  OBVIOUS
<1>2. /\ R!TypeOK /\ route[c].pc = "call" /\ route[c].todo # <<>> /\ p \in Names
      /\ route[c].stage \in {"semantic", "tiered"}
  BY <1>1, PassedOnce DEF RoutingInv, RoutesFit, R!TypeOK, R!Succeeds
<1>3. PICK h : h = R!RecordSuccess(health[p])
  OBVIOUS
<1>4. /\ health' = [health EXCEPT ![p] = h]
      /\ blamed' = [blamed EXCEPT ![p] = {}]
      /\ route' = [route EXCEPT ![c] = R!At("ok", route[c].stage, <<>>)]
  BY <1>1, <1>2, <1>3 DEF R!Succeeds, R!TypeOK
<1>5. h \in Standings /\ h.healthy /\ h.failCount = 0
  BY <1>2, <1>3 DEF R!RecordSuccess, R!TypeOK, Standings, Names
<1>6. /\ health' \in [Names -> Standings] /\ health'[p] = h
      /\ \A q \in Names \ {p} : health'[q] = health[q]
  BY <1>2, <1>4, <1>5, HealthMoves
<1>7. <<>> \in Seq(Names) /\ DOMAIN <<>> = {}
  OBVIOUS
<1>8. /\ route' \in [Requests -> Courses] /\ RoutesFit'
      /\ route'[c].pc = "ok" /\ route'[c].stage = route[c].stage /\ route'[c].todo = <<>>
      /\ \A d \in Requests \ {c} : route'[d] = route[d]
  BY ZenonT(90), <1>2, <1>4, <1>7, OneMoves, RouteMoves
<1>9. /\ blamed' \in [Names -> SUBSET Requests] /\ blamed'[p] = {}
      /\ \A q \in Names \ {p} : blamed'[q] = blamed[q]
  BY <1>2, <1>4 DEF R!TypeOK, Names
<1>10. PICK n \in {0, 1} :
          /\ n = IF c \in Placed THEN 1 ELSE 0
          /\ counted'.task = counted.task /\ counted'.tier = counted.tier + n
          /\ counted'.fallbacks = counted.fallbacks
          /\ counted' \in [task : Nat, tier : Nat, fallbacks : Nat]
  <2>1. CASE route[c].stage = "semantic"
    <3>1. c \in Placed /\ counted' = [counted EXCEPT !.tier = @ + 1]
      BY <1>2, <2>1 DEF Placed, R!Succeeds
    <3>2. /\ counted'.task = counted.task /\ counted'.tier = counted.tier + 1
          /\ counted'.fallbacks = counted.fallbacks
          /\ counted' \in [task : Nat, tier : Nat, fallbacks : Nat]
      BY <1>2, <3>1, CountedType
    <3> QED
      BY <3>1, <3>2
  <2>2. CASE route[c].stage # "semantic"
    <3>1. c \notin Placed /\ counted' = counted
      BY <2>2 DEF Placed, R!Succeeds
    <3> QED
      BY <1>2, <3>1, CountedType
  <2> QED
    BY <2>1, <2>2
<1>11. R!TypeOK'
  BY <1>6, <1>8, <1>9, <1>10 DEF R!TypeOK, Standings, Courses, Names
<1>12. \A d \in Requests : Left(d)' \subseteq Left(d) /\ route'[d].stage = route[d].stage
  BY <1>7, <1>8 DEF Left
<1>13. BlameFits'
  BY <1>8, <1>9, <1>12, BlameStillFits
<1>14. \A q \in Names : Under(q)' \subseteq Under(q)
  BY <1>8 DEF Under, R!Asked
<1>15. ASSUME NEW q \in Names \ {p}
       PROVE  /\ health'[q].healthy <=> health'[q].failCount < Threshold
              /\ health'[q].failCount <= Cardinality(blamed'[q]) + Cardinality(Twice(q)')
              /\ health'[q].failCount + Cardinality(Under(q)') <= Threshold - 1 + Cardinality(Requests)
  BY <1>6, <1>9, <1>11, <1>12, <1>14, <1>15, Untouched
<1>16. /\ health'[p].healthy <=> health'[p].failCount < Threshold
       /\ health'[p].failCount <= Cardinality(blamed'[p]) + Cardinality(Twice(p)')
       /\ health'[p].failCount + Cardinality(Under(p)') <= Threshold - 1 + Cardinality(Requests)
  <2>1. Twice(p)' \subseteq Requests /\ blamed'[p] \subseteq Requests /\ Under(p)' \subseteq Requests
    BY <1>2, <1>9 DEF Twice, Under
  <2>2. /\ Cardinality(Twice(p)') \in Nat /\ Cardinality(blamed'[p]) \in Nat
        /\ Cardinality(Under(p)') \in Nat /\ Cardinality(Under(p)') <= Cardinality(Requests)
    BY <2>1, RoutingConstants, FS_Subset, FS_CardinalityType
  <2>3. health'[p].failCount = 0 /\ health'[p].healthy
    BY <1>5, <1>6
  <2> QED
    BY <2>2, <2>3, RoutingConstants
<1>17. HealthIsVerdict' /\ FailuresAccounted' /\ CallsLetThrough'
  BY <1>15, <1>16 DEF HealthIsVerdict, FailuresAccounted, CallsLetThrough
<1>18. R!RoutesAddUp'
  <2>1. c \notin Placed'
    BY <1>8 DEF Placed
  <2>2. Cardinality(Placed') = Cardinality(Placed) - n /\ Cardinality(Placed) \in Nat
    BY <1>2, <1>8, <1>10, <2>1, PlacedMoves
  <2>3. counted.task = counted.tier + counted.fallbacks + Cardinality(Placed)
    BY AddUp DEF RoutingInv
  <2>4. counted.tier \in Nat /\ counted.fallbacks \in Nat
    BY <1>2, CountedType
  <2>5. counted'.task = counted'.tier + counted'.fallbacks + Cardinality(Placed')
    BY <1>10, <2>2, <2>3, <2>4
  <2> QED
    BY <2>5, AddUp
<1> QED
  BY <1>8, <1>11, <1>13, <1>17, <1>18 DEF RoutingInv

\* A failure is blamed on the provider: on a request that is new to it, or on
\* one that asked it for the second and last time.
LEMMA FailStep == ASSUME RoutingInv, NEW c \in Requests, R!Fails(c) PROVE RoutingInv'
<1>1. PICK p : p = R!Asked(c)
  OBVIOUS
<1>2. PICK todo : todo = Tail(route[c].todo)
  OBVIOUS
<1>3. /\ R!TypeOK /\ route[c].pc = "call" /\ route[c].todo # <<>>
      /\ route[c].stage \in {"semantic", "tiered"} /\ UNCHANGED counted
  BY DEF RoutingInv, RoutesFit, R!TypeOK, R!Fails
<1>4. /\ p \in Names /\ p \in Left(c) /\ todo \in Seq(Names)
      /\ \A i, j \in DOMAIN todo : todo[i] = todo[j] => i = j
      /\ {todo[i] : i \in DOMAIN todo} = Left(c) \ {p}
  BY <1>1, <1>2, <1>3, PassedOnce
<1>5. PICK h : h = R!RecordFailure(health[p])
  OBVIOUS
<1>6. /\ health' = [health EXCEPT ![p] = h]
      /\ blamed' = [blamed EXCEPT ![p] = @ \cup {c}]
      /\ route' = [route EXCEPT ![c] = R!At(route[c].stage, route[c].stage, todo)]
  BY <1>1, <1>2, <1>3, <1>5 DEF R!Fails, R!TypeOK
<1>7. /\ health[p] \in Standings /\ health[p].failCount \in Nat
      /\ health[p].healthy \in BOOLEAN
  BY <1>3, <1>4 DEF R!TypeOK, Standings, Names
<1>8. /\ h.failCount = health[p].failCount + 1
      /\ h.healthy <=> health[p].healthy /\ health[p].failCount + 1 < Threshold
  BY <1>5 DEF R!RecordFailure
<1>9. h \in Standings
  <2>1. (health[p].healthy /\ health[p].failCount + 1 < Threshold) \in BOOLEAN
    BY <1>7
  <2>2. health[p].failCount + 1 \in Nat
    BY <1>7
  <2> QED
    BY <1>5, <2>1, <2>2 DEF R!RecordFailure, Standings
<1>10. /\ health' \in [Names -> Standings] /\ health'[p] = h
       /\ \A q \in Names \ {p} : health'[q] = health[q]
  BY <1>4, <1>6, <1>9, HealthMoves
<1>11. /\ route' \in [Requests -> Courses] /\ RoutesFit'
       /\ route'[c].pc = route[c].stage /\ route'[c].stage = route[c].stage
       /\ route'[c].todo = todo /\ \A d \in Requests \ {c} : route'[d] = route[d]
  BY ZenonT(90), <1>3, <1>4, <1>6, OneMoves, RouteMoves
<1>12. /\ blamed' \in [Names -> SUBSET Requests] /\ blamed'[p] = blamed[p] \cup {c}
       /\ \A q \in Names \ {p} : blamed'[q] = blamed[q]
  BY <1>3, <1>4, <1>6 DEF R!TypeOK, Names
<1>13. R!TypeOK'
  BY <1>3, <1>10, <1>11, <1>12 DEF R!TypeOK, Standings, Courses, Names
<1>14. /\ Left(c)' = Left(c) \ {p}
       /\ \A d \in Requests \ {c} : Left(d)' = Left(d)
       /\ \A d \in Requests : route'[d].stage = route[d].stage
  <2>1. Left(c)' = {todo[i] : i \in DOMAIN todo}
    BY <1>11 DEF Left
  <2>2. \A d \in Requests \ {c} : Left(d)' = Left(d)
    BY <1>11 DEF Left
  <2> QED
    BY <1>4, <1>11, <2>1, <2>2
<1>15. BlameFits'
  <2> SUFFICES ASSUME NEW q \in Names, NEW d \in blamed'[q], route'[d].stage = "semantic"
               PROVE  route'[d].pc # "out" /\ q \notin Left(d)'
    BY DEF BlameFits
  <2>1. d \in Requests
    BY <1>12
  <2>2. CASE d = c
    <3>1. q # p => q \notin Left(c)
      BY <1>11, <1>12, <2>2 DEF RoutingInv, BlameFits
    <3> QED
      BY <1>3, <1>11, <1>14, <2>2, <3>1
  <2>3. CASE d # c
    <3>1. d \in blamed[q] /\ route'[d] = route[d] /\ Left(d)' = Left(d)
      BY <1>11, <1>12, <1>14, <2>1, <2>3
    <3> QED
      BY <3>1 DEF RoutingInv, BlameFits
  <2> QED
    BY <2>2, <2>3
<1>16. c \in Under(p) /\ Under(p)' = Under(p) \ {c}
  BY <1>1, <1>3, <1>11 DEF Under, R!Asked
<1>17. ASSUME NEW q \in Names \ {p}
       PROVE  /\ health'[q].healthy <=> health'[q].failCount < Threshold
              /\ health'[q].failCount <= Cardinality(blamed'[q]) + Cardinality(Twice(q)')
              /\ health'[q].failCount + Cardinality(Under(q)') <= Threshold - 1 + Cardinality(Requests)
  <2>1. Under(q)' \subseteq Under(q)
    BY <1>3, <1>11 DEF Under, R!Asked
  <2>2. \A d \in Requests : route[d].stage = "tiered" =>
            route'[d].stage = "tiered" /\ Left(d)' \subseteq Left(d)
    BY <1>14
  <2> QED
    BY <1>10, <1>12, <1>13, <1>17, <2>1, <2>2, Untouched
<1>18. health'[p].healthy <=> health'[p].failCount < Threshold
  <2>1. health[p].healthy <=> health[p].failCount < Threshold
    BY <1>4 DEF RoutingInv, HealthIsVerdict
  <2> QED
    BY <1>7, <1>8, <1>10, <2>1, RoutingConstants
<1>19. health'[p].failCount <= Cardinality(blamed'[p]) + Cardinality(Twice(p)')
  <2>1. /\ IsFiniteSet(blamed[p]) /\ IsFiniteSet(Twice(p))
        /\ Cardinality(blamed[p]) \in Nat /\ Cardinality(Twice(p)) \in Nat
    BY <1>3, <1>4, Countable
  <2>2. health[p].failCount <= Cardinality(blamed[p]) + Cardinality(Twice(p))
    BY <1>4 DEF RoutingInv, FailuresAccounted
  <2>3. /\ Twice(p) \subseteq Twice(p)' /\ IsFiniteSet(Twice(p)')
        /\ Cardinality(Twice(p)) <= Cardinality(Twice(p)') /\ Cardinality(Twice(p)') \in Nat
    <3>1. \A d \in Requests : route[d].stage = "tiered" =>
              route'[d].stage = "tiered" /\ Left(d)' \subseteq Left(d)
      BY <1>14
    <3>2. /\ Twice(p) \subseteq Twice(p)'
          /\ Cardinality(Twice(p)) <= Cardinality(Twice(p)')
      BY <1>3, <1>4, <1>12, <1>13, <3>1, TwiceGrows
    <3>3. Twice(p)' \subseteq Requests
      BY <1>4, <1>12 DEF Twice
    <3> QED
      BY <3>2, <3>3, RoutingConstants, FS_Subset, FS_CardinalityType
  <2>4. CASE c \notin blamed[p]
    <3>1. Cardinality(blamed'[p]) = Cardinality(blamed[p]) + 1
      BY ZenonT(90), <1>12, <2>1, <2>4, FS_AddElement
    <3> QED
      BY <1>7, <1>8, <1>10, <2>1, <2>2, <2>3, <3>1
  <2>5. CASE c \in blamed[p]
    <3>1. blamed'[p] = blamed[p]
      BY <1>12, <2>5
    <3>2. route[c].stage = "tiered"
      BY <1>3, <1>4, <2>5 DEF RoutingInv, BlameFits
    <3>3. c \notin Twice(p) /\ c \in Twice(p)'
      BY <1>4, <1>11, <1>14, <2>5, <3>1, <3>2 DEF Twice
    <3>4. Cardinality(Twice(p) \cup {c}) = Cardinality(Twice(p)) + 1
      BY <2>1, <3>3, FS_AddElement
    <3>5. Cardinality(Twice(p) \cup {c}) <= Cardinality(Twice(p)')
      BY <2>3, <3>3, FS_Subset
    <3> QED
      BY <1>7, <1>8, <1>10, <2>1, <2>2, <2>3, <3>1, <3>4, <3>5
  <2> QED
    BY <2>4, <2>5
<1>20. health'[p].failCount + Cardinality(Under(p)') <= Threshold - 1 + Cardinality(Requests)
  <2>1. IsFiniteSet(Under(p)) /\ Cardinality(Under(p)) \in Nat
    BY <1>3, <1>4, Countable
  <2>2. Cardinality(Under(p)') = Cardinality(Under(p)) - 1
    BY <1>16, <2>1, FS_RemoveElement
  <2>3. health[p].failCount + Cardinality(Under(p)) <= Threshold - 1 + Cardinality(Requests)
    BY <1>4 DEF RoutingInv, CallsLetThrough
  <2> QED
    BY <1>7, <1>8, <1>10, <2>1, <2>2, <2>3, RoutingConstants
<1>21. HealthIsVerdict' /\ FailuresAccounted' /\ CallsLetThrough'
  BY <1>17, <1>18, <1>19, <1>20 DEF HealthIsVerdict, FailuresAccounted, CallsLetThrough
<1>22. R!RoutesAddUp'
  <2>1. c \in Placed <=> c \in Placed'
    BY <1>3, <1>11 DEF Placed
  <2>2. Cardinality(Placed') = Cardinality(Placed)
    BY <1>3, <1>11, <2>1, PlacedMoves
  <2> QED
    BY <1>3, <2>2, AddUp DEF RoutingInv
<1> QED
  BY <1>11, <1>13, <1>15, <1>21, <1>22 DEF RoutingInv

LEMMA RoutingStep == ASSUME RoutingInv, R!Next PROVE RoutingInv'
<1>1. ASSUME NEW c \in Requests, R!Try(c) PROVE RoutingInv'
  BY <1>1, AskStep, PassStep
<1> QED
  BY <1>1, BeginStep, SucceedStep, FailStep, FallBackStep, AllFailedStep, CooldownStep
     DEF R!Next, R!Progress, Names

LEMMA RoutingRests == ASSUME RoutingInv, UNCHANGED routingVars PROVE RoutingInv'
<1>1. UNCHANGED <<health, route, counted, blamed>>
  BY DEF routingVars
<1>2. R!TypeOK' /\ RoutesFit' /\ BlameFits' /\ HealthIsVerdict'
  BY <1>1 DEF RoutingInv, R!TypeOK, RoutesFit, BlameFits, HealthIsVerdict, Left
<1>3. \A q \in Names : Under(q)' = Under(q) /\ Twice(q)' = Twice(q)
  BY <1>1 DEF Under, Twice, Left, R!Asked
<1>4. FailuresAccounted' /\ CallsLetThrough'
  BY <1>1, <1>3 DEF RoutingInv, FailuresAccounted, CallsLetThrough
<1>5. Placed' = Placed
  BY <1>1 DEF Placed
<1>6. R!RoutesAddUp'
  BY <1>1, <1>5, AddUp DEF RoutingInv
<1> QED
  BY <1>2, <1>4, <1>6 DEF RoutingInv

\* Three failures take two requests: none counts for more than two.
LEMMA VerdictsAreFair == RoutingInv => R!OneRequestIsNoVerdict /\ R!RestingIsSpared
<1> SUFFICES ASSUME RoutingInv PROVE R!OneRequestIsNoVerdict /\ R!RestingIsSpared
  OBVIOUS
<1>1. R!TypeOK
  BY DEF RoutingInv
<1>2. ASSUME NEW p \in Names
      PROVE  /\ health[p].failCount \in Nat
             /\ ~health[p].healthy => health[p].failCount >= Threshold
             /\ health[p].failCount <= Cardinality(blamed[p]) + Cardinality(Twice(p))
             /\ health[p].failCount + Cardinality(Under(p)) <= Threshold - 1 + Cardinality(Requests)
             /\ Cardinality(blamed[p]) \in Nat /\ Cardinality(Twice(p)) \in Nat
             /\ Cardinality(Twice(p)) <= Cardinality(blamed[p]) /\ Cardinality(Under(p)) \in Nat
  <2>1. health[p].failCount \in Nat
    BY <1>1, <1>2 DEF R!TypeOK, Names
  <2>2. ~health[p].healthy => health[p].failCount >= Threshold
    BY <1>2, <2>1, RoutingConstants DEF RoutingInv, HealthIsVerdict
  <2> QED
    BY <1>1, <1>2, <2>1, <2>2, Countable DEF RoutingInv, FailuresAccounted, CallsLetThrough
<1>3. ASSUME NEW p \in Names, ~health[p].healthy PROVE Cardinality(blamed[p]) >= 2
  BY <1>2, <1>3, RoutingConstants
<1>4. ASSUME NEW p \in Names
      PROVE  health[p].failCount <= Threshold - 1 + Cardinality(Requests)
  BY <1>2, <1>4, RoutingConstants
<1>5. R!OneRequestIsNoVerdict
  BY <1>3, Cardinalities DEF R!OneRequestIsNoVerdict, Names
<1>6. R!RestingIsSpared
  BY <1>4, Cardinalities DEF R!RestingIsSpared, Names
<1> QED
  BY <1>5, <1>6

----------------------------------------------------------------------------
(***************************************************************************)
(* The pool is UpstreamPool with one node per server.                      *)
(***************************************************************************)
LEMMA PoolConstants ==
    /\ NodeCount \in Nat
    /\ UnhealthyThreshold \in Nat \ {0}
    /\ HealthChecks \in BOOLEAN
    /\ NoTier \notin Tiers
BY ProvidersAssumption DEF P!PoolAssumption

\* MarkUnhealthy and MarkHealthy keep the flag and the count of a node in
\* agreement.
LEMMA VerdictsAgree ==
    ASSUME NEW s \in [healthy : BOOLEAN, fails : 0..UnhealthyThreshold],
           s.healthy <=> s.fails < UnhealthyThreshold
    PROVE  /\ P!FailedOnceMore(s) \in [healthy : BOOLEAN, fails : 0..UnhealthyThreshold]
           /\ P!FailedOnceMore(s).healthy <=> P!FailedOnceMore(s).fails < UnhealthyThreshold
           /\ P!Alive(s) \in [healthy : BOOLEAN, fails : 0..UnhealthyThreshold]
           /\ P!Alive(s).healthy <=> P!Alive(s).fails < UnhealthyThreshold
<1> DEFINE f == IF s.fails < UnhealthyThreshold THEN s.fails + 1 ELSE s.fails
<1>1. f \in 0..UnhealthyThreshold /\ (s.fails < UnhealthyThreshold \/ ~(f < UnhealthyThreshold))
  BY PoolConstants
<1>2. P!FailedOnceMore(s).fails = f /\ P!FailedOnceMore(s).healthy = (s.healthy /\ f < UnhealthyThreshold)
  BY DEF P!FailedOnceMore
<1>3. P!FailedOnceMore(s) = [healthy |-> s.healthy /\ f < UnhealthyThreshold, fails |-> f]
  BY DEF P!FailedOnceMore
<1>4. P!FailedOnceMore(s) \in [healthy : BOOLEAN, fails : 0..UnhealthyThreshold]
  BY <1>1, <1>3
<1>5. P!FailedOnceMore(s).healthy <=> f < UnhealthyThreshold
  BY <1>1, <1>2
<1>6. /\ P!Alive(s) \in [healthy : BOOLEAN, fails : 0..UnhealthyThreshold]
      /\ P!Alive(s).healthy <=> P!Alive(s).fails < UnhealthyThreshold
  BY PoolConstants DEF P!Alive
<1> QED
  BY <1>2, <1>4, <1>5, <1>6

\* A verdict on one node keeps all of them in agreement.
LEMMA JudgedNode ==
    ASSUME P!PoolTypeOK, P!HealthMatchesCount, NEW n \in P!Nodes,
           \/ node' = [node EXCEPT ![n] = P!Alive(@)]
           \/ node' = [node EXCEPT ![n] = P!FailedOnceMore(@)]
    PROVE  /\ node' \in [P!Nodes -> [healthy : BOOLEAN, fails : 0..UnhealthyThreshold]]
           /\ P!HealthMatchesCount'
<1>1. PICK s : /\ node' = [node EXCEPT ![n] = s]
               /\ s \in [healthy : BOOLEAN, fails : 0..UnhealthyThreshold]
               /\ s.healthy <=> s.fails < UnhealthyThreshold
  <2>1. /\ node[n] \in [healthy : BOOLEAN, fails : 0..UnhealthyThreshold]
        /\ node[n].healthy <=> node[n].fails < UnhealthyThreshold
    BY DEF P!PoolTypeOK, P!HealthMatchesCount
  <2> QED
    BY <2>1, VerdictsAgree
<1> QED
  BY <1>1 DEF P!PoolTypeOK, P!HealthMatchesCount

\* NewUpstreamPool starts with every node healthy and no client in a call.
LEMMA PoolInitInv == P!PoolInit => P!PoolInv
BY PoolConstants DEF P!PoolInit, P!PoolInv, P!PoolTypeOK, P!PlacesKnown, P!HealthMatchesCount, P!Idle, P!Nodes,
       P!Turn

\* A selection moves one client on, and no node.
LEMMA SelectionStep ==
    ASSUME P!PoolInv, NEW c \in Clients,
           \/ \E tier \in Tiers \cup {NoTier} : P!BeginSelect(c, tier)
           \/ P!Scan(c) \/ P!Pick(c) \/ P!NoNode(c)
    PROVE  P!PoolInv'
<1> USE PoolConstants DEF P!PoolInv, P!Nodes
<1>1. UNCHANGED <<open, node, backend, probing>> /\ P!HealthMatchesCount'
  BY DEF P!BeginSelect, P!Scan, P!Pick, P!NoNode, P!HealthMatchesCount
<1> DEFINE ClientType == [pc : {"idle", "scan", "call", "none"}, tier : Tiers \cup {NoTier},
                          at : 0..NodeCount + 1, cands : SUBSET P!Nodes, node : 0..NodeCount]
<1>2. client \in [Clients -> ClientType]
  BY DEF P!PoolTypeOK
<1>3. ASSUME NEW s \in ClientType, client' = [client EXCEPT ![c] = s],
             s.pc = "scan" => s.at # 0, s.pc = "call" => s.node # 0
      PROVE  P!PoolInv'
  BY <1>1, <1>2, <1>3 DEF P!PoolTypeOK, P!PlacesKnown
<1> HIDE DEF P!PoolInv
<1>4. ASSUME NEW tier \in Tiers \cup {NoTier}, P!BeginSelect(c, tier) PROVE P!PoolInv'
  <2>1. /\ P!Scanning(tier, 1, {}) \in ClientType
        /\ P!Scanning(tier, 1, {}).pc = "scan" /\ P!Scanning(tier, 1, {}).at # 0
    BY DEF P!Scanning
  <2> QED
    BY <1>3, <1>4, <2>1 DEF P!BeginSelect
<1>5. CASE P!Scan(c)
  <2> DEFINE s == client[c]
             fits == (s.tier = NoTier \/ Tier[s.at] = s.tier) /\ node[s.at].healthy
             new == P!Scanning(s.tier, s.at + 1, s.cands \cup IF fits THEN {s.at} ELSE {})
  <2>1. s \in ClientType /\ s.at \in P!Nodes
    BY <1>2, <1>5 DEF P!Scan, P!PlacesKnown, P!PoolInv
  <2>2. new \in ClientType /\ new.pc = "scan" /\ new.at # 0
    BY <2>1 DEF P!Scanning
  <2>3. client' = [client EXCEPT ![c] = new]
    BY <1>5 DEF P!Scan
  <2> QED
    BY <1>3, <2>2, <2>3
<1>6. CASE P!Pick(c)
  <2>1. ASSUME NEW n \in client[c].cands, client' = [client EXCEPT ![c] = P!Calling(n)]
        PROVE  P!PoolInv'
    <3>1. n \in 1..NodeCount
      BY <1>2, <2>1
    <3>2. P!Calling(n) \in ClientType /\ P!Calling(n).pc = "call" /\ P!Calling(n).node # 0
      BY <3>1 DEF P!Calling
    <3> QED
      BY <1>3, <2>1, <3>2
  <2>2. CASE client' = [client EXCEPT ![c] = P!Scanning(NoTier, 1, {})]
    <3>1. /\ P!Scanning(NoTier, 1, {}) \in ClientType
          /\ P!Scanning(NoTier, 1, {}).pc = "scan" /\ P!Scanning(NoTier, 1, {}).at # 0
      BY DEF P!Scanning
    <3> QED
      BY <1>3, <2>2, <3>1
  <2>3. CASE client' = [client EXCEPT ![c] = P!Nobody]
    <3>1. P!Nobody \in ClientType /\ P!Nobody.pc = "none"
      BY DEF P!Nobody, P!Idle
    <3> QED
      BY <1>3, <2>3, <3>1
  <2> QED
    BY <1>6, <2>1, <2>2, <2>3 DEF P!Pick
<1>7. CASE P!NoNode(c)
  <2>1. P!Idle \in ClientType /\ P!Idle.pc = "idle"
    BY DEF P!Idle
  <2> QED
    BY <1>3, <1>7, <2>1 DEF P!NoNode
<1> QED
  BY <1>4, <1>5, <1>6, <1>7

\* A call reports to the node it went to and frees its client.
LEMMA ReportStep ==
    ASSUME P!PoolInv, NEW c \in Clients,
           P!CallSucceeds(c) \/ \E late \in BOOLEAN : P!CallFails(c, late)
    PROVE  P!PoolInv'
<1> USE PoolConstants DEF P!PoolInv, P!Nodes
<1>1. client[c].node \in P!Nodes
  BY DEF P!CallSucceeds, P!CallFails, P!PlacesKnown, P!PoolTypeOK
<1>2. UNCHANGED <<open, backend, probing>> /\ client' = [client EXCEPT ![c] = P!Idle]
  BY DEF P!CallSucceeds, P!CallFails
<1>3. P!PlacesKnown' /\ client' \in [Clients ->
          [pc : {"idle", "scan", "call", "none"}, tier : Tiers \cup {NoTier},
           at : 0..NodeCount + 1, cands : SUBSET P!Nodes, node : 0..NodeCount]]
  BY <1>2 DEF P!PlacesKnown, P!PoolTypeOK, P!Idle
<1>4. \/ node' = [node EXCEPT ![client[c].node] = P!Alive(@)]
      \/ node' = [node EXCEPT ![client[c].node] = P!FailedOnceMore(@)]
  BY DEF P!CallSucceeds, P!CallFails
<1>5. /\ node' \in [P!Nodes -> [healthy : BOOLEAN, fails : 0..UnhealthyThreshold]]
      /\ P!HealthMatchesCount'
  BY <1>1, <1>4, JudgedNode
<1> QED
  BY <1>2, <1>3, <1>5 DEF P!PoolTypeOK

\* The loop, its probes and the servers leave the clients alone.
LEMMA ProbeStep ==
    ASSUME P!PoolInv, P!Tick \/ P!CheckAll \/ P!ClosePool \/ \E n \in P!Nodes : P!Flip(n)
    PROVE  P!PoolInv'
<1> USE PoolConstants DEF P!PoolInv, P!Nodes
<1>1. CASE P!Tick
  BY <1>1, PoolConstants DEF P!Tick, P!Turn, P!PoolTypeOK, P!PlacesKnown, P!HealthMatchesCount
<1>2. CASE P!CheckAll
  <2>1. probing \in [at : 0..NodeCount, seen : {"none", "up", "down"}]
    BY DEF P!PoolTypeOK
  <2>2. CASE P!Probe \/ P!EndRound
    <3>1. /\ probing.at # 0 /\ UNCHANGED <<open, node, backend, client>>
          /\ \/ probing' = P!Turn(0)
             \/ probing' = [probing EXCEPT !.seen = "up"]
             \/ probing' = [probing EXCEPT !.seen = "down"]
      BY <2>2 DEF P!Probe, P!EndRound
    <3>2. /\ probing' \in [at : 0..NodeCount, seen : {"none", "up", "down"}]
          /\ probing'.seen # "none" => probing'.at # 0
      BY <2>1, <3>1 DEF P!Turn
    <3> QED
      BY <3>1, <3>2 DEF P!PoolTypeOK, P!PlacesKnown, P!HealthMatchesCount
  <2>3. CASE P!ReportProbe
    <3>1. /\ probing.at \in P!Nodes /\ UNCHANGED <<open, backend, client>>
          /\ probing' = P!Turn((probing.at + 1) % (NodeCount + 1))
      BY <2>1, <2>3 DEF P!ReportProbe, P!PlacesKnown
    <3>2. \/ node' = [node EXCEPT ![probing.at] = P!Alive(@)]
          \/ node' = [node EXCEPT ![probing.at] = P!FailedOnceMore(@)]
      BY <2>3 DEF P!ReportProbe
    <3>3. /\ node' \in [P!Nodes -> [healthy : BOOLEAN, fails : 0..UnhealthyThreshold]]
          /\ P!HealthMatchesCount'
      BY <3>1, <3>2, JudgedNode
    <3>4. (probing.at + 1) % (NodeCount + 1) \in 0..NodeCount
      BY <3>1
    <3>5. /\ probing' \in [at : 0..NodeCount, seen : {"none", "up", "down"}]
          /\ probing'.seen = "none"
      BY <3>1, <3>4 DEF P!Turn
    <3> QED
      BY <3>1, <3>3, <3>5 DEF P!PoolTypeOK, P!PlacesKnown
  <2> QED
    BY <1>2, <2>2, <2>3 DEF P!CheckAll
<1>3. CASE P!ClosePool
  BY <1>3 DEF P!ClosePool, P!PoolTypeOK, P!PlacesKnown, P!HealthMatchesCount
<1>4. CASE \E n \in P!Nodes : P!Flip(n)
  BY <1>4 DEF P!Flip, P!PoolTypeOK, P!PlacesKnown, P!HealthMatchesCount
<1> QED
  BY <1>1, <1>2, <1>3, <1>4

----------------------------------------------------------------------------
(***************************************************************************)
(* The group.                                                              *)
(***************************************************************************)
Inv == QueueInv /\ ClientInv /\ LimiterInv /\ RoutingInv /\ P!PoolInv

LEMMA InitInv == Init => Inv
<1> SUFFICES ASSUME Init PROVE Inv
  OBVIOUS
<1>1. QueueInv /\ ClientInv /\ LimiterInv /\ RoutingInv
  BY QueueInit, ClientInit, LimiterInit, RoutingInit DEF Init
<1>2. P!PoolInv
  BY PoolInitInv DEF Init
<1> QED
  BY <1>1, <1>2 DEF Inv

LEMMA PoolStep == ASSUME P!PoolInv, P!PoolNext \/ UNCHANGED poolVars PROVE P!PoolInv'
<1>1. CASE P!PoolNext
  BY <1>1, SelectionStep, ReportStep, ProbeStep DEF P!PoolNext
<1>2. CASE UNCHANGED poolVars
  BY <1>2 DEF poolVars, P!PoolInv, P!PoolTypeOK, P!PlacesKnown, P!HealthMatchesCount, P!Nodes
<1> QED
  BY <1>1, <1>2

LEMMA StepInv == ASSUME Inv, [Next]_vars PROVE Inv'
<1>1. CASE Queue /\ Q!Next
  <2>1. QueueInv'
    BY <1>1, QueueStep DEF Inv
  <2>2. UNCHANGED clientVars /\ UNCHANGED limiterVars /\ UNCHANGED routingVars /\ UNCHANGED poolVars
    BY <1>1 DEF Queue
  <2> QED
    BY <2>1, <2>2, ClientRests, LimiterRests, RoutingRests, PoolStep DEF Inv
<1>2. CASE Client /\ C!Next
  <2>1. ClientInv'
    BY <1>2, ClientStep DEF Inv
  <2>2. UNCHANGED queueVars /\ UNCHANGED limiterVars /\ UNCHANGED routingVars /\ UNCHANGED poolVars
    BY <1>2 DEF Client
  <2> QED
    BY <2>1, <2>2, QueueRests, LimiterRests, RoutingRests, PoolStep DEF Inv
<1>3. CASE Limiter /\ C!LimiterNext
  <2>1. LimiterInv'
    BY <1>3, LimiterStep DEF Inv
  <2>2. UNCHANGED queueVars /\ UNCHANGED clientVars /\ UNCHANGED routingVars /\ UNCHANGED poolVars
    BY <1>3 DEF Limiter
  <2> QED
    BY <2>1, <2>2, QueueRests, ClientRests, RoutingRests, PoolStep DEF Inv
<1>4. CASE Routing /\ R!Next
  <2>1. RoutingInv'
    BY <1>4, RoutingStep DEF Inv
  <2>2. UNCHANGED queueVars /\ UNCHANGED clientVars /\ UNCHANGED limiterVars /\ UNCHANGED poolVars
    BY <1>4 DEF Routing
  <2> QED
    BY <2>1, <2>2, QueueRests, ClientRests, LimiterRests, PoolStep DEF Inv
<1>5. CASE Pool /\ P!PoolNext
  <2>1. P!PoolInv'
    BY <1>5, PoolStep DEF Inv
  <2>2. UNCHANGED queueVars /\ UNCHANGED clientVars /\ UNCHANGED limiterVars /\ UNCHANGED routingVars
    BY <1>5 DEF Pool
  <2> QED
    BY <2>1, <2>2, QueueRests, ClientRests, LimiterRests, RoutingRests DEF Inv
<1>6. CASE UNCHANGED vars
  <2>1. /\ UNCHANGED queueVars /\ UNCHANGED clientVars /\ UNCHANGED limiterVars
        /\ UNCHANGED routingVars /\ UNCHANGED poolVars
    BY <1>6 DEF vars
  <2> QED
    BY <2>1, QueueRests, ClientRests, LimiterRests, RoutingRests, PoolStep DEF Inv
<1> QED
  BY <1>1, <1>2, <1>3, <1>4, <1>5, <1>6 DEF Next

\* The invariants of all wrappers hold in every behaviour of the group.
THEOREM Invariance == Spec => []Inv
<1>1. Init => Inv
  BY InitInv
<1>2. Inv /\ [Next]_vars => Inv'
  BY StepInv
<1> QED
  BY <1>1, <1>2, PTL DEF Spec

\* The state of the queue, the clients, the limiter, the routers and the pool
\* keeps its type.
THEOREM TypeCorrect == Spec => []TypeOK
<1>1. Inv => TypeOK
  BY DEF Inv, TypeOK, QueueInv, ClientInv, LimiterInv, RoutingInv, P!PoolInv
<1> QED
  BY <1>1, Invariance, PTL

\* A client repeats only what was refused, no window of the limiter sees more
\* than MaxAllowed requests, and a resting provider is asked by nobody new.
THEOREM LimitsAreKept == Spec => []ProvidersSpared
<1>1. Inv => ProvidersSpared
  BY RateIsKept, VerdictsAreFair DEF Inv, ClientInv, ProvidersSpared
<1> QED
  BY <1>1, Invariance, PTL

\* The pool's verdict is its count of failures, no request alone takes a routed
\* provider out, the router's metrics place every request once, and a response
\* is the last answer.
THEOREM VerdictsAreEarned == Spec => []ReportsAddUp
<1>1. Inv => ReportsAddUp
  BY VerdictsAreFair DEF Inv, ClientInv, RoutingInv, P!PoolInv, ReportsAddUp
<1> QED
  BY <1>1, Invariance, PTL

\* After Shutdown returned no worker serves, and nobody waits for an answer
\* that cannot come.
THEOREM ShutdownLeavesNobody == Spec => []ShutdownIsOrderly
<1>1. Inv => ShutdownIsOrderly
  BY QueueIsOrderly DEF Inv
<1> QED
  BY <1>1, Invariance, PTL

\* QueuedProvider implements CompletionService: the wrapped provider gives its
\* answer at most once per request, and a caller gets that answer or none.
THEOREM QueueIsService == Spec => QueueImplementsService
<1>1. Init => Q!Service!Init
  BY ProvidersAssumption DEF Init, Q!Init, Q!Service!Init
<1>2. Inv /\ [Next]_vars =>
        [Q!Service!Next]_<<given, [c \in Callers |->
            IF call[c] \in {"delay", "admitted", "waiting"} THEN "in" ELSE call[c]]>>
  <2> SUFFICES ASSUME Inv, [Next]_vars PROVE [Q!Service!Next]_<<given, Returned>>
    BY DEF Returned
  <2>1. CASE Q!Next
    BY <2>1, QueueMaps DEF Inv
  <2>2. CASE UNCHANGED queueVars
    BY <2>2 DEF queueVars, Returned
  <2> QED
    BY <2>1, <2>2 DEF Next, vars, Queue, Client, Limiter, Routing, Pool
<1> QED
  BY <1>1, <1>2, Invariance, PTL
     DEF Spec, QueueImplementsService, Q!ImplementsService, Q!Service!Spec

=============================================================================
