-------------------------- MODULE FairShareProofs ---------------------------
(***************************************************************************)
(* For every number of requests, users and nodes and every limit: the type *)
(* invariant of the scheduler with its bounded queues, the bound on the    *)
(* load of the upstreams, and that a queue slot is lost to a cancellation  *)
(* or the shutdown only.  The pool's part is PoolInv of UpstreamPool; the  *)
(* strengthening says that a call to an upstream is made by a goroutine    *)
(* that holds the semaphore, and that the scheduler has one request at a   *)
(* time, so that none is forgotten when it is dispatched or dropped.       *)
(***************************************************************************)
EXTENDS FairShare, FiniteSetTheorems, TLAPS

----------------------------------------------------------------------------
\* The pool by itself.

\* MarkUnhealthy and MarkHealthy keep the flag and the count of a node in
\* agreement.
LEMMA VerdictsAgree ==
    ASSUME NEW s \in [healthy : BOOLEAN, fails : 0..UnhealthyThreshold],
           s.healthy <=> s.fails < UnhealthyThreshold
    PROVE  /\ FailedOnceMore(s) \in [healthy : BOOLEAN, fails : 0..UnhealthyThreshold]
           /\ FailedOnceMore(s).healthy <=> FailedOnceMore(s).fails < UnhealthyThreshold
           /\ Alive(s) \in [healthy : BOOLEAN, fails : 0..UnhealthyThreshold]
           /\ Alive(s).healthy <=> Alive(s).fails < UnhealthyThreshold
<1> DEFINE f == IF s.fails < UnhealthyThreshold THEN s.fails + 1 ELSE s.fails
<1>1. f \in 0..UnhealthyThreshold /\ (s.fails < UnhealthyThreshold \/ ~(f < UnhealthyThreshold))
  BY PoolAssumption
<1>2. FailedOnceMore(s).fails = f /\ FailedOnceMore(s).healthy = (s.healthy /\ f < UnhealthyThreshold)
  BY DEF FailedOnceMore
<1>3. FailedOnceMore(s) = [healthy |-> s.healthy /\ f < UnhealthyThreshold, fails |-> f]
  BY DEF FailedOnceMore
<1>4. FailedOnceMore(s) \in [healthy : BOOLEAN, fails : 0..UnhealthyThreshold]
  BY <1>1, <1>3
<1>5. FailedOnceMore(s).healthy <=> f < UnhealthyThreshold
  BY <1>1, <1>2
<1>6. /\ Alive(s) \in [healthy : BOOLEAN, fails : 0..UnhealthyThreshold]
      /\ Alive(s).healthy <=> Alive(s).fails < UnhealthyThreshold
  BY PoolAssumption DEF Alive
<1> QED
  BY <1>2, <1>4, <1>5, <1>6

\* A verdict on one node keeps all of them in agreement.
LEMMA JudgedNode ==
    ASSUME PoolTypeOK, HealthMatchesCount, NEW n \in Nodes,
           \/ node' = [node EXCEPT ![n] = Alive(@)]
           \/ node' = [node EXCEPT ![n] = FailedOnceMore(@)]
    PROVE  /\ node' \in [Nodes -> [healthy : BOOLEAN, fails : 0..UnhealthyThreshold]]
           /\ HealthMatchesCount'
<1>1. PICK s : /\ node' = [node EXCEPT ![n] = s]
               /\ s \in [healthy : BOOLEAN, fails : 0..UnhealthyThreshold]
               /\ s.healthy <=> s.fails < UnhealthyThreshold
  <2>1. /\ node[n] \in [healthy : BOOLEAN, fails : 0..UnhealthyThreshold]
        /\ node[n].healthy <=> node[n].fails < UnhealthyThreshold
    BY DEF PoolTypeOK, HealthMatchesCount
  <2> QED
    BY <2>1, VerdictsAgree
<1> QED
  BY <1>1 DEF PoolTypeOK, HealthMatchesCount

\* NewUpstreamPool starts with every node healthy and no client in a call.
LEMMA PoolInitInv == PoolInit => PoolInv
BY PoolAssumption DEF PoolInit, PoolInv, PoolTypeOK, PlacesKnown, HealthMatchesCount, Idle, Nodes, Turn

\* A selection moves one client on, and no node.
LEMMA SelectionStep ==
    ASSUME PoolInv, NEW c \in Clients,
           \/ \E tier \in Tiers \cup {NoTier} : BeginSelect(c, tier)
           \/ Scan(c) \/ Pick(c) \/ NoNode(c)
    PROVE  PoolInv'
<1> USE PoolAssumption DEF PoolInv, Nodes
<1>1. UNCHANGED <<open, node, backend, probing>> /\ HealthMatchesCount'
  BY DEF BeginSelect, Scan, Pick, NoNode, HealthMatchesCount
<1> DEFINE ClientType == [pc : {"idle", "scan", "call", "none"}, tier : Tiers \cup {NoTier},
                          at : 0..NodeCount + 1, cands : SUBSET Nodes, node : 0..NodeCount]
<1>2. client \in [Clients -> ClientType]
  BY DEF PoolTypeOK
<1>3. ASSUME NEW s \in ClientType, client' = [client EXCEPT ![c] = s],
             s.pc = "scan" => s.at # 0, s.pc = "call" => s.node # 0
      PROVE  PoolInv'
  BY <1>1, <1>2, <1>3 DEF PoolTypeOK, PlacesKnown
<1> HIDE DEF PoolInv
<1>4. ASSUME NEW tier \in Tiers \cup {NoTier}, BeginSelect(c, tier) PROVE PoolInv'
  <2>1. /\ Scanning(tier, 1, {}) \in ClientType
        /\ Scanning(tier, 1, {}).pc = "scan" /\ Scanning(tier, 1, {}).at # 0
    BY DEF Scanning
  <2> QED
    BY <1>3, <1>4, <2>1 DEF BeginSelect
<1>5. CASE Scan(c)
  <2> DEFINE s == client[c]
             fits == (s.tier = NoTier \/ Tier[s.at] = s.tier) /\ node[s.at].healthy
             new == Scanning(s.tier, s.at + 1, s.cands \cup IF fits THEN {s.at} ELSE {})
  <2>1. s \in ClientType /\ s.at \in Nodes
    BY <1>2, <1>5 DEF Scan, PlacesKnown, PoolInv
  <2>2. new \in ClientType /\ new.pc = "scan" /\ new.at # 0
    BY <2>1 DEF Scanning
  <2>3. client' = [client EXCEPT ![c] = new]
    BY <1>5 DEF Scan
  <2> QED
    BY <1>3, <2>2, <2>3
<1>6. CASE Pick(c)
  <2>1. ASSUME NEW n \in client[c].cands, client' = [client EXCEPT ![c] = Calling(n)]
        PROVE  PoolInv'
    <3>1. n \in 1..NodeCount
      BY <1>2, <2>1
    <3>2. Calling(n) \in ClientType /\ Calling(n).pc = "call" /\ Calling(n).node # 0
      BY <3>1 DEF Calling
    <3> QED
      BY <1>3, <2>1, <3>2
  <2>2. CASE client' = [client EXCEPT ![c] = Scanning(NoTier, 1, {})]
    <3>1. /\ Scanning(NoTier, 1, {}) \in ClientType
          /\ Scanning(NoTier, 1, {}).pc = "scan" /\ Scanning(NoTier, 1, {}).at # 0
      BY DEF Scanning
    <3> QED
      BY <1>3, <2>2, <3>1
  <2>3. CASE client' = [client EXCEPT ![c] = Nobody]
    <3>1. Nobody \in ClientType /\ Nobody.pc = "none"
      BY DEF Nobody, Idle
    <3> QED
      BY <1>3, <2>3, <3>1
  <2> QED
    BY <1>6, <2>1, <2>2, <2>3 DEF Pick
<1>7. CASE NoNode(c)
  <2>1. Idle \in ClientType /\ Idle.pc = "idle"
    BY DEF Idle
  <2> QED
    BY <1>3, <1>7, <2>1 DEF NoNode
<1> QED
  BY <1>4, <1>5, <1>6, <1>7

\* A call reports to the node it went to and frees its client.
LEMMA ReportStep ==
    ASSUME PoolInv, NEW c \in Clients,
           CallSucceeds(c) \/ \E late \in BOOLEAN : CallFails(c, late)
    PROVE  PoolInv'
<1> USE PoolAssumption DEF PoolInv, Nodes
<1>1. client[c].node \in Nodes
  BY DEF CallSucceeds, CallFails, PlacesKnown, PoolTypeOK
<1>2. UNCHANGED <<open, backend, probing>> /\ client' = [client EXCEPT ![c] = Idle]
  BY DEF CallSucceeds, CallFails
<1>3. PlacesKnown' /\ client' \in [Clients ->
          [pc : {"idle", "scan", "call", "none"}, tier : Tiers \cup {NoTier},
           at : 0..NodeCount + 1, cands : SUBSET Nodes, node : 0..NodeCount]]
  BY <1>2 DEF PlacesKnown, PoolTypeOK, Idle
<1>4. \/ node' = [node EXCEPT ![client[c].node] = Alive(@)]
      \/ node' = [node EXCEPT ![client[c].node] = FailedOnceMore(@)]
  BY DEF CallSucceeds, CallFails
<1>5. /\ node' \in [Nodes -> [healthy : BOOLEAN, fails : 0..UnhealthyThreshold]]
      /\ HealthMatchesCount'
  BY <1>1, <1>4, JudgedNode
<1> QED
  BY <1>2, <1>3, <1>5 DEF PoolTypeOK

\* The loop, its probes and the servers leave the clients alone.
LEMMA ProbeStep ==
    ASSUME PoolInv, Tick \/ CheckAll \/ ClosePool \/ \E n \in Nodes : Flip(n)
    PROVE  PoolInv'
<1> USE PoolAssumption DEF PoolInv, Nodes
<1>1. CASE Tick
  BY <1>1 DEF Tick, Turn, PoolTypeOK, PlacesKnown, HealthMatchesCount
<1>2. CASE CheckAll
  <2>1. probing \in [at : 0..NodeCount, seen : {"none", "up", "down"}]
    BY DEF PoolTypeOK
  <2>2. CASE Probe \/ EndRound
    <3>1. /\ probing.at # 0 /\ UNCHANGED <<open, node, backend, client>>
          /\ \/ probing' = Turn(0)
             \/ probing' = [probing EXCEPT !.seen = "up"]
             \/ probing' = [probing EXCEPT !.seen = "down"]
      BY <2>2 DEF Probe, EndRound
    <3>2. /\ probing' \in [at : 0..NodeCount, seen : {"none", "up", "down"}]
          /\ probing'.seen # "none" => probing'.at # 0
      BY <2>1, <3>1 DEF Turn
    <3> QED
      BY <3>1, <3>2 DEF PoolTypeOK, PlacesKnown, HealthMatchesCount
  <2>3. CASE ReportProbe
    <3>1. /\ probing.at \in Nodes /\ UNCHANGED <<open, backend, client>>
          /\ probing' = Turn((probing.at + 1) % (NodeCount + 1))
      BY <2>1, <2>3 DEF ReportProbe, PlacesKnown
    <3>2. \/ node' = [node EXCEPT ![probing.at] = Alive(@)]
          \/ node' = [node EXCEPT ![probing.at] = FailedOnceMore(@)]
      BY <2>3 DEF ReportProbe
    <3>3. /\ node' \in [Nodes -> [healthy : BOOLEAN, fails : 0..UnhealthyThreshold]]
          /\ HealthMatchesCount'
      BY <3>1, <3>2, JudgedNode
    <3>4. (probing.at + 1) % (NodeCount + 1) \in 0..NodeCount
      BY <3>1
    <3>5. /\ probing' \in [at : 0..NodeCount, seen : {"none", "up", "down"}]
          /\ probing'.seen = "none"
      BY <3>1, <3>4 DEF Turn
    <3> QED
      BY <3>1, <3>3, <3>5 DEF PoolTypeOK, PlacesKnown
  <2> QED
    BY <1>2, <2>2, <2>3 DEF CheckAll
<1>3. CASE ClosePool
  BY <1>3 DEF ClosePool, PoolTypeOK, PlacesKnown, HealthMatchesCount
<1>4. CASE \E n \in Nodes : Flip(n)
  BY <1>4 DEF Flip, PoolTypeOK, PlacesKnown, HealthMatchesCount
<1> QED
  BY <1>1, <1>2, <1>3, <1>4

\* However clients, probes and the servers take turns, the flag of a node is
\* what its count of failures says.
THEOREM PoolCorrect == PoolSpec => []PoolInv
<1>1. PoolInit => PoolInv
  BY PoolInitInv
<1>2. ASSUME PoolInv, [PoolNext]_poolVars PROVE PoolInv'
  <2>1. CASE UNCHANGED poolVars
    BY <1>2, <2>1 DEF poolVars, PoolInv, PoolTypeOK, PlacesKnown, HealthMatchesCount
  <2>2. CASE PoolNext
    BY <1>2, <2>2, SelectionStep, ReportStep, ProbeStep DEF PoolNext
  <2> QED
    BY <1>2, <2>1, <2>2
<1> QED
  BY <1>1, <1>2, PTL DEF PoolSpec

----------------------------------------------------------------------------
\* The scheduler over the pool.

\* Queues hold finitely many requests.
SlotsFinite == \A u \in Users : IsFiniteSet(slots[u])

\* A request is with the pool only while its goroutine runs.
CallsAreHeld == \A r \in Clients : client[r].pc # "idle" => work[r] = "running"

\* The semaphore has MaxConcurrency places.
SemaphoreHolds == IsFiniteSet(Holding) /\ Cardinality(Holding) <= MaxConcurrency

\* The scheduler has at most one request in hand, and one only while it
\* waits for the semaphore.
OneInHand ==
    /\ \A r, s \in head : r = s
    /\ sched # "acquire" => head = {}

Inv ==
    /\ TypeOK /\ PoolInv
    /\ SlotsFinite /\ CallsAreHeld /\ SemaphoreHolds /\ OneInHand
    /\ SlotsTracked

----------------------------------------------------------------------------
\* The initial state.

LEMMA InitInv == Init => Inv
<1> SUFFICES ASSUME Init PROVE Inv
  OBVIOUS
<1> USE DEF Init
<1>1. PoolInv
  BY PoolInitInv
<1>2. SlotsFinite /\ \A u \in Users : Cardinality(slots[u]) <= MaxQueueDepth
  BY FS_EmptySet, FairShareAssumption DEF SlotsFinite
<1>3. incoming \in Seq(Clients) /\ Len(incoming) <= MaxQueueDepth * QueueFactor
  <2>1. MaxQueueDepth * QueueFactor \in Nat
    BY FairShareAssumption
  <2>2. incoming \in Seq(Clients) /\ Len(incoming) = 0
    OBVIOUS
  <2> QED
    BY <2>1, <2>2
<1>4. TypeOK
  BY <1>1, <1>2, <1>3 DEF PoolInv, TypeOK, Answers, Results
<1>5. Holding = {}
  BY DEF Holding
<1>6. SemaphoreHolds
  BY <1>5, FS_EmptySet, FairShareAssumption DEF SemaphoreHolds
<1>7. CallsAreHeld
  BY DEF PoolInit, Idle, CallsAreHeld
<1>8. OneInHand /\ SlotsTracked
  BY DEF OneInHand, SlotsTracked, Users
<1> QED
  BY <1>1, <1>2, <1>4, <1>6, <1>7, <1>8 DEF Inv

----------------------------------------------------------------------------
\* The steps of Submit leave pool, scheduler and goroutines alone.

LEMMA PoolUnchanged ==
    ASSUME PoolInv, UNCHANGED poolVars
    PROVE  PoolInv'
BY DEF PoolInv, PoolTypeOK, PlacesKnown, HealthMatchesCount, poolVars

LEMMA GoroutinesUnchanged ==
    ASSUME CallsAreHeld, SemaphoreHolds, UNCHANGED <<client, work>>
    PROVE  CallsAreHeld' /\ SemaphoreHolds'
BY DEF CallsAreHeld, SemaphoreHolds, Holding

LEMMA SubmitStep ==
    ASSUME Inv, NEW r \in Clients, CallerStep(r) \/ Cancel(r)
    PROVE  Inv'
<1>1. UNCHANGED <<poolVars, closed, sched, head, work>>
  BY DEF CallerStep, Submit, Reserve, Enqueue, Abandon, Receive, Cancel
<1>2. PoolInv'
  BY <1>1, PoolUnchanged DEF Inv
<1>3. CallsAreHeld' /\ SemaphoreHolds'
  BY <1>1, GoroutinesUnchanged DEF Inv, poolVars
<1>4. OneInHand'
  BY <1>1 DEF Inv, OneInHand
<1>5. CASE Submit(r)
  <2>1. TypeOK'
    BY <1>2, <1>5 DEF Inv, PoolInv, TypeOK, Submit, ReturnFrom, Answers, Results
  <2>2. SlotsFinite' /\ SlotsTracked'
    BY <1>5 DEF Inv, TypeOK, SlotsFinite, SlotsTracked, Tracked, Submit, ReturnFrom
  <2> QED
    BY <1>2, <1>3, <1>4, <2>1, <2>2 DEF Inv
<1>6. CASE Reserve(r)
  <2> DEFINE u == UserOf[r]
  <2>1. u \in Users
    BY DEF Users
  <2>2. CASE Cardinality(slots[u]) >= MaxQueueDepth
    <3>1. ReturnFrom(r, "full") /\ UNCHANGED slots /\ caller[r] = "checked"
      BY <1>6, <2>2 DEF Reserve
    <3>2. TypeOK'
      BY <1>1, <1>2, <1>6, <3>1 DEF Inv, PoolInv, TypeOK, Reserve, ReturnFrom, Answers, Results
    <3>3. SlotsFinite' /\ SlotsTracked'
      BY <1>1, <1>6, <3>1 DEF Inv, TypeOK, SlotsFinite, SlotsTracked, Tracked, Reserve, ReturnFrom
    <3> QED
      BY <1>2, <1>3, <1>4, <3>2, <3>3 DEF Inv
  <2>3. CASE ~(Cardinality(slots[u]) >= MaxQueueDepth)
    <3>1. /\ slots' = [slots EXCEPT ![u] = @ \cup {r}]
          /\ caller' = [caller EXCEPT ![r] = "reserved"]
          /\ UNCHANGED <<cancelled, answer, incoming, result>>
      BY <1>6, <2>3 DEF Reserve
    <3>2. /\ IsFiniteSet(slots[u] \cup {r})
          /\ Cardinality(slots[u] \cup {r}) <= MaxQueueDepth
      <4>1. IsFiniteSet(slots[u]) /\ Cardinality(slots[u]) \in Nat
        BY <2>1, FS_CardinalityType DEF Inv, SlotsFinite
      <4>2. /\ IsFiniteSet(slots[u] \cup {r})
            /\ Cardinality(slots[u] \cup {r}) \in {Cardinality(slots[u]), Cardinality(slots[u]) + 1}
        BY <4>1, FS_AddElement
      <4> QED
        BY <2>3, <4>1, <4>2, FairShareAssumption
    <3>3. /\ slots' \in [Users -> SUBSET Clients]
          /\ SlotsFinite'
          /\ \A v \in Users : Cardinality(slots'[v]) <= MaxQueueDepth
      BY <2>1, <3>1, <3>2 DEF Inv, TypeOK, SlotsFinite
    <3>4. TypeOK'
      BY <1>1, <1>2, <3>1, <3>3 DEF Inv, PoolInv, TypeOK
    <3>5. SlotsTracked'
      BY <1>1, <2>1, <3>1 DEF Inv, TypeOK, SlotsTracked, Tracked, Users
    <3> QED
      BY <1>2, <1>3, <1>4, <3>3, <3>4, <3>5 DEF Inv
  <2> QED
    BY <2>2, <2>3
<1>7. CASE Enqueue(r)
  <2>1. incoming \in Seq(Clients) /\ incoming' = Append(incoming, r)
    BY <1>7 DEF Enqueue, Inv, TypeOK
  <2>2. /\ incoming' \in Seq(Clients)
        /\ Len(incoming') = Len(incoming) + 1
        /\ \A i \in DOMAIN incoming : i \in DOMAIN incoming' /\ incoming'[i] = incoming[i]
        /\ Len(incoming') \in DOMAIN incoming' /\ incoming'[Len(incoming')] = r
    BY <2>1
  <2>3. MaxQueueDepth * QueueFactor \in Nat /\ Len(incoming) \in Nat
    BY <2>1, FairShareAssumption
  <2>4. Len(incoming') <= MaxQueueDepth * QueueFactor
    BY <1>7, <2>2, <2>3 DEF Enqueue
  <2>5. TypeOK'
    BY <1>1, <1>2, <1>7, <2>2, <2>4 DEF Inv, PoolInv, TypeOK, Enqueue
  <2>6. SlotsFinite'
    BY <1>7 DEF Inv, SlotsFinite, Enqueue
  <2>7. SlotsTracked'
    BY <1>1, <1>7, <2>2 DEF Inv, TypeOK, SlotsTracked, Tracked, Enqueue
  <2> QED
    BY <1>2, <1>3, <1>4, <2>5, <2>6, <2>7 DEF Inv
<1>8. CASE Abandon(r)
  <2>1. TypeOK'
    BY <1>2, <1>8 DEF Inv, PoolInv, TypeOK, Abandon, ReturnFrom, Answers, Results
  <2>2. SlotsFinite' /\ SlotsTracked'
    BY <1>8 DEF Inv, TypeOK, SlotsFinite, SlotsTracked, Tracked, Abandon, ReturnFrom
  <2> QED
    BY <1>2, <1>3, <1>4, <2>1, <2>2 DEF Inv
<1>9. CASE Receive(r)
  <2>1. TypeOK'
    BY <1>2, <1>9 DEF Inv, PoolInv, TypeOK, Receive, ReturnFrom, Answers, Results
  <2>2. SlotsFinite' /\ SlotsTracked'
    BY <1>9 DEF Inv, TypeOK, SlotsFinite, SlotsTracked, Tracked, Receive, ReturnFrom
  <2> QED
    BY <1>2, <1>3, <1>4, <2>1, <2>2 DEF Inv
<1>10. CASE Cancel(r)
  <2>1. TypeOK'
    BY <1>2, <1>10 DEF Inv, PoolInv, TypeOK, Cancel
  <2>2. SlotsFinite' /\ SlotsTracked'
    BY <1>10 DEF Inv, TypeOK, SlotsFinite, SlotsTracked, Tracked, Cancel
  <2> QED
    BY <1>2, <1>3, <1>4, <2>1, <2>2 DEF Inv
<1> QED
  BY <1>5, <1>6, <1>7, <1>8, <1>9, <1>10 DEF CallerStep

----------------------------------------------------------------------------
\* The scheduler loop.

LEMMA TakeStep == ASSUME Inv, Take PROVE Inv'
<1>1. PoolInv' /\ CallsAreHeld' /\ SemaphoreHolds'
  BY PoolUnchanged, GoroutinesUnchanged DEF Inv, Take, poolVars
<1>2. incoming \in Seq(Clients) /\ incoming # <<>>
  BY DEF Inv, TypeOK, Take
<1>3. /\ Head(incoming) \in Clients /\ Head(incoming) = incoming[1]
      /\ Tail(incoming) \in Seq(Clients)
      /\ Len(Tail(incoming)) = Len(incoming) - 1
      /\ \A i \in DOMAIN incoming : i # 1 => /\ i - 1 \in DOMAIN Tail(incoming)
                                             /\ Tail(incoming)[i - 1] = incoming[i]
  BY <1>2
<1>4. Len(Tail(incoming)) <= MaxQueueDepth * QueueFactor
  <2>1. MaxQueueDepth * QueueFactor \in Nat /\ Len(incoming) \in Nat
    BY <1>2, FairShareAssumption
  <2> QED
    BY <1>3, <2>1 DEF Inv, TypeOK
<1>5. TypeOK' /\ SlotsFinite'
  BY <1>1, <1>3, <1>4 DEF Inv, PoolInv, TypeOK, SlotsFinite, Take
<1>6. OneInHand'
  BY DEF OneInHand, Take
<1>7. ASSUME NEW r \in Clients, Tracked(r) PROVE Tracked(r)'
  <2>1. head = {}
    BY DEF Inv, OneInHand, Take
  <2>2. ASSUME NEW i \in DOMAIN incoming, incoming[i] = r PROVE Tracked(r)'
    BY <1>3, <2>2 DEF Take, Tracked
  <2> QED
    BY <1>7, <2>1, <2>2 DEF Tracked, Take
<1>8. SlotsTracked'
  BY <1>7 DEF Inv, SlotsTracked, Take
<1> QED
  BY <1>1, <1>5, <1>6, <1>8 DEF Inv

LEMMA StopStep == ASSUME Inv, Stop PROVE Inv'
<1>1. PoolInv' /\ CallsAreHeld' /\ SemaphoreHolds'
  BY PoolUnchanged, GoroutinesUnchanged DEF Inv, Stop, poolVars
<1>2. TypeOK' /\ SlotsFinite'
  BY <1>1 DEF Inv, PoolInv, TypeOK, SlotsFinite, Stop
<1>3. OneInHand' /\ SlotsTracked'
  BY DEF Inv, OneInHand, SlotsTracked, Tracked, Stop
<1> QED
  BY <1>1, <1>2, <1>3 DEF Inv

\* The semaphore had a place left.
LEMMA DispatchStep == ASSUME Inv, NEW r \in Clients, Dispatch(r) PROVE Inv'
<1>1. TierOf[r] \in Tiers \cup {NoTier}
  BY FairShareAssumption
<1>2. PoolInv'
  BY <1>1, SelectionStep DEF Dispatch, Inv
<1>3. TypeOK' /\ SlotsFinite'
  BY <1>2 DEF Inv, PoolInv, TypeOK, SlotsFinite, Dispatch
<1>4. work \in [Clients -> {"none", "running", "answered", "released", "done"}]
      /\ work' = [work EXCEPT ![r] = "running"]
  BY DEF Inv, TypeOK, Dispatch
<1>5. CallsAreHeld'
  <2>1. client \in [Clients -> [pc : {"idle", "scan", "call", "none"}, tier : Tiers \cup {NoTier},
                                at : 0..NodeCount + 1, cands : SUBSET Nodes, node : 0..NodeCount]]
    BY DEF Inv, PoolInv, PoolTypeOK
  <2>2. \A s \in Clients : s # r => client'[s] = client[s]
    BY <2>1 DEF Dispatch, BeginSelect
  <2> QED
    BY <1>4, <2>2 DEF Inv, CallsAreHeld
<1>6. Holding' = Holding \cup {r}
  BY <1>4 DEF Holding
<1>7. SemaphoreHolds'
  <2>1. IsFiniteSet(Holding) /\ Cardinality(Holding) \in Nat /\ Cardinality(Holding) < MaxConcurrency
    BY FS_CardinalityType DEF Inv, SemaphoreHolds, Dispatch
  <2>2. /\ IsFiniteSet(Holding \cup {r})
        /\ Cardinality(Holding \cup {r}) \in {Cardinality(Holding), Cardinality(Holding) + 1}
    BY <2>1, FS_AddElement
  <2> QED
    BY <1>6, <2>1, <2>2, FairShareAssumption DEF SemaphoreHolds
<1>8. OneInHand'
  BY DEF OneInHand, Dispatch
<1>9. ASSUME NEW s \in Clients, Tracked(s) PROVE Tracked(s)'
  <2>1. \A q \in head : q = r
    BY DEF Inv, OneInHand, Dispatch
  <2> QED
    BY <1>4, <1>9, <2>1 DEF Tracked, Dispatch
<1>10. SlotsTracked'
  BY <1>9 DEF Inv, SlotsTracked, Dispatch
<1> QED
  BY <1>2, <1>3, <1>5, <1>7, <1>8, <1>10 DEF Inv

\* A dropped request keeps its slot: it was cancelled, or the scheduler is
\* closed.
LEMMA DropStep == ASSUME Inv, NEW r \in Clients, Drop(r) PROVE Inv'
<1>1. PoolInv' /\ CallsAreHeld' /\ SemaphoreHolds'
  BY PoolUnchanged, GoroutinesUnchanged DEF Inv, Drop, poolVars
<1>2. TypeOK' /\ SlotsFinite'
  BY <1>1 DEF Inv, PoolInv, TypeOK, SlotsFinite, Drop, Answers, Results
<1>3. OneInHand'
  BY DEF OneInHand, Drop
<1>4. SlotsTracked'
  <2>1. \A q \in head : q = r
    BY DEF Inv, OneInHand, Drop
  <2> QED
    BY <2>1 DEF Inv, SlotsTracked, Tracked, Drop
<1> QED
  BY <1>1, <1>2, <1>3, <1>4 DEF Inv

----------------------------------------------------------------------------
\* The goroutine of a request.

LEMMA SelectNodeStep == ASSUME Inv, NEW r \in Clients, SelectNode(r) PROVE Inv'
<1>1. PoolInv'
  BY SelectionStep DEF Inv, SelectNode
<1>2. CallsAreHeld'
  <2>1. \A s \in Clients : client[s].pc = "idle" => client'[s].pc = "idle"
    BY DEF Inv, PoolInv, PoolTypeOK, SelectNode, Scan, Pick
  <2> QED
    BY <2>1 DEF Inv, CallsAreHeld, SelectNode, fairVars
<1>3. TypeOK' /\ SlotsFinite' /\ OneInHand' /\ SlotsTracked' /\ SemaphoreHolds'
  BY <1>1 DEF Inv, PoolInv, TypeOK, SlotsFinite, OneInHand, SlotsTracked, Tracked,
              SemaphoreHolds, Holding, SelectNode, fairVars
<1> QED
  BY <1>1, <1>2, <1>3 DEF Inv

\* The answer is sent when the pool is done with the request.
LEMMA AnswerStep ==
    ASSUME Inv, NEW r \in Clients, NoUpstream(r) \/ Complete(r) \/ Error(r)
    PROVE  Inv'
<1>1. PoolInv'
  BY SelectionStep, ReportStep DEF Inv, NoUpstream, Complete, Error
<1>2. PICK a \in Answers : AnswerWith(r, a)
  BY DEF NoUpstream, Complete, Error, Answers
<1>3. client' = [client EXCEPT ![r] = Idle]
  BY DEF NoUpstream, Complete, Error, NoNode, CallSucceeds, CallFails
<1>4. TypeOK' /\ SlotsFinite'
  BY <1>1, <1>2 DEF Inv, PoolInv, TypeOK, SlotsFinite, AnswerWith
<1>5. CallsAreHeld'
  BY <1>2, <1>3 DEF Inv, PoolInv, PoolTypeOK, TypeOK, CallsAreHeld, AnswerWith, Idle
<1>6. Holding' = Holding
  BY <1>2 DEF Inv, TypeOK, Holding, AnswerWith
<1>7. SemaphoreHolds' /\ OneInHand'
  BY <1>2, <1>6 DEF Inv, SemaphoreHolds, OneInHand, AnswerWith
<1>8. SlotsTracked'
  BY <1>2 DEF Inv, TypeOK, SlotsTracked, Tracked, AnswerWith
<1> QED
  BY <1>1, <1>4, <1>5, <1>7, <1>8 DEF Inv

LEMMA ReleaseStep == ASSUME Inv, NEW r \in Clients, Release(r) PROVE Inv'
<1>1. PoolInv'
  BY PoolUnchanged DEF Inv, Release
<1>2. TypeOK' /\ SlotsFinite'
  BY <1>1 DEF Inv, PoolInv, TypeOK, SlotsFinite, Release
<1>3. CallsAreHeld'
  BY DEF Inv, TypeOK, CallsAreHeld, Release, poolVars
<1>4. Holding' = Holding \ {r}
  BY DEF Inv, TypeOK, Holding, Release
<1>5. SemaphoreHolds'
  <2>1. IsFiniteSet(Holding) /\ Cardinality(Holding) \in Nat
    BY FS_CardinalityType DEF Inv, SemaphoreHolds
  <2>2. /\ IsFiniteSet(Holding \ {r})
        /\ Cardinality(Holding \ {r}) \in {Cardinality(Holding), Cardinality(Holding) - 1}
    BY <2>1, FS_RemoveElement
  <2> QED
    BY <1>4, <2>1, <2>2, FairShareAssumption DEF Inv, SemaphoreHolds
<1>6. OneInHand' /\ SlotsTracked'
  BY DEF Inv, TypeOK, OneInHand, SlotsTracked, Tracked, Release
<1> QED
  BY <1>1, <1>2, <1>3, <1>5, <1>6 DEF Inv

LEMMA RemoveFromQueueStep ==
    ASSUME Inv, NEW r \in Clients, RemoveFromQueue(r)
    PROVE  Inv'
<1>1. PoolInv'
  BY PoolUnchanged DEF Inv, RemoveFromQueue
<1>2. UserOf[r] \in Users
  BY DEF Users
<1> DEFINE mine == slots[UserOf[r]]
<1>3. IsFiniteSet(mine) /\ Cardinality(mine) \in Nat /\ Cardinality(mine) <= MaxQueueDepth
  BY <1>2, FS_CardinalityType DEF Inv, SlotsFinite, TypeOK
<1>4. IsFiniteSet(mine \ {r}) /\ Cardinality(mine \ {r}) <= MaxQueueDepth
  <2>1. /\ IsFiniteSet(mine \ {r})
        /\ Cardinality(mine \ {r}) \in {Cardinality(mine), Cardinality(mine) - 1}
    BY <1>3, FS_RemoveElement
  <2> QED
    BY <1>3, <2>1, FairShareAssumption
<1>5. slots' = [slots EXCEPT ![UserOf[r]] = mine \ {r}] /\ slots \in [Users -> SUBSET Clients]
  BY DEF Inv, TypeOK, RemoveFromQueue
<1>6. /\ slots' \in [Users -> SUBSET Clients] /\ SlotsFinite'
      /\ \A u \in Users : Cardinality(slots'[u]) <= MaxQueueDepth
  BY <1>2, <1>4, <1>5 DEF Inv, TypeOK, SlotsFinite
<1>7. TypeOK'
  BY <1>1, <1>6 DEF Inv, PoolInv, TypeOK, RemoveFromQueue
<1>8. CallsAreHeld'
  BY DEF Inv, TypeOK, CallsAreHeld, RemoveFromQueue, poolVars
<1>9. Holding' = Holding
  BY DEF Inv, TypeOK, Holding, RemoveFromQueue
<1>10. SemaphoreHolds' /\ OneInHand'
  BY <1>9 DEF Inv, SemaphoreHolds, OneInHand, RemoveFromQueue
<1>11. ASSUME NEW s \in Clients, s \in slots'[UserOf[s]]
       PROVE  (Tracked(s) \/ cancelled[s] \/ closed)'
  <2>1. UserOf[s] \in Users
    BY DEF Users
  <2>2. s # r /\ s \in slots[UserOf[s]]
    BY <1>2, <1>5, <1>11, <2>1
  <2> QED
    BY <2>2 DEF Inv, TypeOK, SlotsTracked, Tracked, RemoveFromQueue
<1>12. SlotsTracked'
  BY <1>11 DEF SlotsTracked
<1> QED
  BY <1>1, <1>6, <1>7, <1>8, <1>10, <1>12 DEF Inv

----------------------------------------------------------------------------
\* The rest of the system, and the theorems.

LEMMA OtherStep == ASSUME Inv, Close \/ PoolEnvironment \/ UNCHANGED vars PROVE Inv'
<1>1. UNCHANGED <<client, cancelled, caller, result, answer, slots, incoming, sched, head, work>>
  BY DEF Close, PoolEnvironment, vars, fairVars, poolVars, Tick, CheckAll, Probe, ReportProbe,
         EndRound, Flip
<1>2. PoolInv'
  BY PoolUnchanged, ProbeStep DEF Inv, Close, PoolEnvironment, vars
<1>3. closed' \in BOOLEAN /\ (closed => closed')
  BY DEF Inv, TypeOK, Close, PoolEnvironment, vars, fairVars
<1>4. TypeOK' /\ SlotsFinite'
  BY <1>1, <1>2, <1>3 DEF Inv, PoolInv, TypeOK, SlotsFinite
<1>5. CallsAreHeld' /\ SemaphoreHolds'
  BY <1>1, GoroutinesUnchanged DEF Inv
<1>6. OneInHand' /\ SlotsTracked'
  BY <1>1, <1>3 DEF Inv, OneInHand, SlotsTracked, Tracked
<1> QED
  BY <1>2, <1>4, <1>5, <1>6 DEF Inv

LEMMA StepInv == ASSUME Inv, [Next]_vars PROVE Inv'
<1>1. ASSUME NEW r \in Clients, CallerStep(r) \/ Cancel(r) PROVE Inv'
  BY <1>1, SubmitStep
<1>2. ASSUME NEW r \in Clients, WorkStep(r) PROVE Inv'
  BY <1>2, SelectNodeStep, AnswerStep, ReleaseStep, RemoveFromQueueStep DEF WorkStep
<1>3. CASE Schedule
  BY <1>3, TakeStep, StopStep, DispatchStep, DropStep DEF Schedule
<1>4. CASE Close \/ PoolEnvironment \/ UNCHANGED vars
  BY <1>4, OtherStep
<1> QED
  BY <1>1, <1>2, <1>3, <1>4 DEF Next

\* The inductive invariant holds however callers, scheduler, goroutines,
\* probes and servers take turns.
THEOREM Invariance == Spec => []Inv
<1>1. Init => Inv
  BY InitInv
<1>2. Inv /\ [Next]_vars => Inv'
  BY StepInv
<1> QED
  BY <1>1, <1>2, PTL DEF Spec

\* Every user's queue and the channel to the scheduler stay within their
\* bounds, and every variable in its type.
THEOREM TypeCorrect == Spec => []TypeOK
<1>1. Inv => TypeOK
  BY DEF Inv
<1> QED
  BY <1>1, Invariance, PTL

\* At most MaxConcurrency requests select or call an upstream at a time.
THEOREM LoadIsBounded == Spec => []UpstreamLoadBounded
<1>1. ASSUME Inv PROVE UpstreamLoadBounded
  <2> DEFINE busy == {r \in Clients : client[r].pc # "idle"}
  <2>1. busy \subseteq Holding
    BY <1>1 DEF Inv, CallsAreHeld, Holding
  <2>2. IsFiniteSet(Holding) /\ Cardinality(Holding) \in Nat /\ Cardinality(Holding) <= MaxConcurrency
    BY <1>1, FS_CardinalityType DEF Inv, SemaphoreHolds
  <2>3. Cardinality(busy) <= Cardinality(Holding) /\ Cardinality(busy) \in Nat
    BY <2>1, <2>2, FS_Subset, FS_CardinalityType
  <2> QED
    BY <2>2, <2>3, FairShareAssumption DEF UpstreamLoadBounded
<1> QED
  BY <1>1, Invariance, PTL

\* A queue slot whose request nobody handles any more belongs to a cancelled
\* request or to a closed scheduler.
THEOREM SlotsAreTracked == Spec => []SlotsTracked
<1>1. Inv => SlotsTracked
  BY DEF Inv
<1> QED
  BY <1>1, Invariance, PTL

\* Under the scheduler, too, a node is out of selection exactly after its
\* threshold of failures without a success in between.
THEOREM HealthIsCount == Spec => []HealthMatchesCount
<1>1. Inv => HealthMatchesCount
  BY DEF Inv, PoolInv
<1> QED
  BY <1>1, Invariance, PTL

=============================================================================
