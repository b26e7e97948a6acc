---------------------------- MODULE UpstreamPool ----------------------------
(***************************************************************************)
(* llm.UpstreamPool (pkg/llm/upstream_pool.go): LLM nodes with a health    *)
(* flag and a failure count, a background loop that probes them in turn,   *)
(* and clients that select a node, call it and report the outcome.  Each   *)
(* node has a lock of its own, so a selection reads the nodes one by one   *)
(* while other clients and the prober change them.                         *)
(*                                                                         *)
(* A probe or call reaches the backend, which is up or down when it ends;  *)
(* a call also ends in an error when its context is cancelled or times     *)
(* out.  Weights are positive, so any candidate may be drawn.  failCount   *)
(* is compared with the threshold only and saturates there.                *)
(***************************************************************************)
EXTENDS Integers, FiniteSets

CONSTANTS NodeCount,           \* nodes, in the order they are scanned
          Tiers,               \* the tiers a request may name, served or not
          Tier,                \* [Nodes -> tier]
          NoTier,              \* the request names no tier
          Clients,             \* goroutines that select and call
          UnhealthyThreshold,  \* HealthCheckConfig.UnhealthyThreshold
          HealthChecks         \* HealthCheckConfig.Interval > 0

Nodes == 1..NodeCount

ASSUME PoolAssumption ==
    /\ NodeCount \in Nat
    /\ UnhealthyThreshold \in Nat \ {0}
    /\ HealthChecks \in BOOLEAN
    /\ NoTier \notin Tiers

VARIABLES open,     \* Close has not cancelled the loop's context
          node,     \* per node: healthy and failCount
          backend,  \* per node: the server answers
          probing,  \* the node at hand in a round of the loop, 0 between
                    \* rounds, and what its probe saw
          client    \* per client: its selection or call

poolVars == <<open, node, backend, probing, client>>

Idle == [pc |-> "idle", tier |-> NoTier, at |-> 0, cands |-> {}, node |-> 0]
Nobody == [Idle EXCEPT !.pc = "none"]
Scanning(tier, at, cands) ==
    [pc |-> "scan", tier |-> tier, at |-> at, cands |-> cands, node |-> 0]
Calling(n) == [pc |-> "call", tier |-> NoTier, at |-> 0, cands |-> {}, node |-> n]

Turn(n) == [at |-> n, seen |-> "none"]

PoolTypeOK ==
    /\ open \in BOOLEAN
    /\ node \in [Nodes -> [healthy : BOOLEAN, fails : 0..UnhealthyThreshold]]
    /\ backend \in [Nodes -> BOOLEAN]
    /\ probing \in [at : 0..NodeCount, seen : {"none", "up", "down"}]
    /\ client \in [Clients ->
          [pc : {"idle", "scan", "call", "none"}, tier : Tiers \cup {NoTier},
           at : 0..NodeCount + 1, cands : SUBSET Nodes, node : 0..NodeCount]]

PoolInit ==
    /\ open = TRUE
    /\ node = [n \in Nodes |-> [healthy |-> TRUE, fails |-> 0]]
    /\ backend = [n \in Nodes |-> TRUE]
    /\ probing = Turn(0)
    /\ client = [c \in Clients |-> Idle]

----------------------------------------------------------------------------
\* MarkUnhealthy and MarkHealthy, and checkAll's two branches.

FailedOnceMore(s) ==
    LET f == IF s.fails < UnhealthyThreshold THEN s.fails + 1 ELSE s.fails
    IN  [healthy |-> s.healthy /\ f < UnhealthyThreshold, fails |-> f]

Alive(s) == [healthy |-> TRUE, fails |-> 0]

----------------------------------------------------------------------------
\* Selecting a node.

\* SelectByTier, or SelectAny when the request names no tier.
BeginSelect(c, tier) ==
    /\ client[c].pc = "idle"
    /\ client' = [client EXCEPT ![c] = Scanning(tier, 1, {})]
    /\ UNCHANGED <<open, node, backend, probing>>

\* One turn of the loop: the node at hand is a candidate if it is of the
\* tier and healthy now.
Scan(c) ==
    LET s == client[c]
        fits == (s.tier = NoTier \/ Tier[s.at] = s.tier) /\ node[s.at].healthy
    IN  /\ s.pc = "scan" /\ s.at <= NodeCount
        /\ client' = [client EXCEPT
              ![c] = Scanning(s.tier, s.at + 1, s.cands \cup IF fits THEN {s.at} ELSE {})]
        /\ UNCHANGED <<open, node, backend, probing>>

\* A candidate is drawn, also one that has gone down meanwhile; with none in
\* the tier SelectAny tries all nodes, and with none at all there is no node.
Pick(c) ==
    LET s == client[c]
    IN  /\ s.pc = "scan" /\ s.at = NodeCount + 1
        /\ \/ \E n \in s.cands : client' = [client EXCEPT ![c] = Calling(n)]
           \/ /\ s.cands = {} /\ s.tier # NoTier
              /\ client' = [client EXCEPT ![c] = Scanning(NoTier, 1, {})]
           \/ /\ s.cands = {} /\ s.tier = NoTier
              /\ client' = [client EXCEPT ![c] = Nobody]
        /\ UNCHANGED <<open, node, backend, probing>>

----------------------------------------------------------------------------
\* The call and its report.

CallSucceeds(c) ==
    LET n == client[c].node
    IN  /\ client[c].pc = "call" /\ backend[n]
        /\ node' = [node EXCEPT ![n] = Alive(@)]
        /\ client' = [client EXCEPT ![c] = Idle]
        /\ UNCHANGED <<open, backend, probing>>

\* Any error of Complete is held against the node.
CallFails(c, cancelled) ==
    LET n == client[c].node
    IN  /\ client[c].pc = "call" /\ (cancelled \/ ~backend[n])
        /\ node' = [node EXCEPT ![n] = FailedOnceMore(@)]
        /\ client' = [client EXCEPT ![c] = Idle]
        /\ UNCHANGED <<open, backend, probing>>

\* ErrNoHealthyUpstream.
NoNode(c) ==
    /\ client[c].pc = "none"
    /\ client' = [client EXCEPT ![c] = Idle]
    /\ UNCHANGED <<open, node, backend, probing>>

----------------------------------------------------------------------------
\* healthCheckLoop and checkAll.

\* A round begins; with no nodes it is over at once.
Tick ==
    /\ HealthChecks /\ open
    /\ probing.at = 0 /\ NodeCount # 0
    /\ probing' = Turn(1)
    /\ UNCHANGED <<open, node, backend, client>>

\* The probe of the node at hand ends, without its lock; one cut by Close
\* fails like any other.
Probe ==
    /\ probing.at # 0 /\ probing.seen = "none"
    /\ probing' = [probing EXCEPT !.seen = IF backend[probing.at] /\ open THEN "up" ELSE "down"]
    /\ UNCHANGED <<open, node, backend, client>>

ReportProbeKept == \* mutant: a recovered node keeps its count
    /\ probing.seen # "none"
    /\ node' = [node EXCEPT ![probing.at] =
                    IF probing.seen = "up" THEN [@ EXCEPT !.healthy = TRUE]
                    ELSE FailedOnceMore(@)]
    /\ probing' = Turn((probing.at + 1) % (NodeCount + 1))
    /\ UNCHANGED <<open, backend, client>>

\* What the probe saw is written over what clients have reported since.
ReportProbe ==
    /\ probing.seen # "none"
    /\ node' = [node EXCEPT ![probing.at] =
                    IF probing.seen = "up" THEN Alive(@) ELSE FailedOnceMore(@)]
    /\ probing' = Turn((probing.at + 1) % (NodeCount + 1))
    /\ UNCHANGED <<open, backend, client>>

\* Close is noticed before the next probe.
EndRound ==
    /\ ~open /\ probing.at # 0 /\ probing.seen = "none"
    /\ probing' = Turn(0)
    /\ UNCHANGED <<open, node, backend, client>>

CheckAll == Probe \/ ReportProbe \/ EndRound

ClosePool ==
    /\ open' = FALSE
    /\ UNCHANGED <<node, backend, probing, client>>

\* A server goes down or comes back.
Flip(n) ==
    /\ backend' = [backend EXCEPT ![n] = ~@]
    /\ UNCHANGED <<open, node, probing, client>>

PoolNext ==
    \/ \E c \in Clients :
        \/ \E tier \in Tiers \cup {NoTier} : BeginSelect(c, tier)
        \/ Scan(c) \/ Pick(c) \/ NoNode(c)
        \/ CallSucceeds(c)
        \/ \E cancelled \in BOOLEAN : CallFails(c, cancelled)
    \/ Tick
    \/ CheckAll
    \/ ClosePool
    \/ \E n \in Nodes : Flip(n)

PoolSpec == PoolInit /\ [][PoolNext]_poolVars

\* The ticker fires and a probe ends by its timeout.
PoolFairSpec == PoolSpec /\ WF_poolVars(Tick) /\ WF_poolVars(CheckAll)

----------------------------------------------------------------------------
\* Properties.

\* The flag and the count agree whoever wrote last, the prober or a client:
\* a node is out exactly after UnhealthyThreshold failures without a success
\* in between.
HealthMatchesCount ==
    \A n \in Nodes : node[n].healthy <=> node[n].fails < UnhealthyThreshold

\* A server that stays up is taken back into selection again and again, even
\* if cancelled calls keep counting against it.
Recovers == \A n \in Nodes : []open /\ <>[]backend[n] => []<>node[n].healthy

----------------------------------------------------------------------------
\* What is inductive.  A selection is at a node or behind the last one, and a
\* call or a probe was of a node: the type alone lets them be nowhere.
PlacesKnown ==
    /\ \A c \in Clients :
          /\ client[c].pc = "scan" => client[c].at # 0
          /\ client[c].pc = "call" => client[c].node # 0
    /\ probing.seen # "none" => probing.at # 0

PoolInv == PoolTypeOK /\ PlacesKnown /\ HealthMatchesCount

=============================================================================
