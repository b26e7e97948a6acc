------------------------------- MODULE Fleet --------------------------------
(***************************************************************************)
(* evolver.PersistentFleetCoordinator over a FileStore, and Propagate of   *)
(* the CapsulePropagator that shares capsules through it (fleet_           *)
(* coordination.go, persistent_fleet.go, capsule_propagation.go and        *)
(* persist.go of pkg/evolver).  Every operation changes the memory first   *)
(* and the store after it; a restart loads the nodes and nothing else.  A  *)
(* file is truncated and then written, so a write that fails or is cut off *)
(* may leave it as it was, torn or written; a listing skips a torn file.   *)
(*                                                                         *)
(* Files are named by an ID, but a share by its source, its pattern and    *)
(* the millisecond.  Time is a count of milliseconds.                      *)
(***************************************************************************)
EXTENDS Integers, Sequences, FiniteSets

CONSTANTS Nodes,       \* FleetNode IDs
          Source,      \* cfg.SourceNode
          Targets,     \* cfg.TargetNodes, a sequence
          Capsules,    \* the stored capsules, a sequence as ListCapsules sorts them
          Active,      \* those with CapsuleStatusActive
          MaxCapsules, \* cfg.MaxCapsules, 0 for all
          Tasks,       \* the TaskDelegations asked for: source and target
          MaxTime,     \* bound: milliseconds
          MaxCalls,    \* bound: calls of Propagate
          MaxRestarts  \* bound: crashes

FleetAssumption ==
    /\ Source \in Nodes /\ Targets \in Seq(Nodes) /\ Len(Capsules) \in Nat
    /\ \A t \in Tasks : {t.source, t.target} \subseteq Nodes
    /\ {MaxCapsules, MaxTime, MaxCalls, MaxRestarts} \subseteq Nat

VARIABLES ms,         \* the clock
          nodes,      \* fleet.nodes, by ID
          shares,     \* fleet.shares
          delegated,  \* fleet.delegations
          nodeFile,   \* fleet/nodes of the store
          shareFile,  \* fleet/shares: the name of a readable file -> the share
          taskFile,   \* fleet/delegations
          send,       \* the call of Propagate
          calls,      \* how often it was called
          restarts,
          acked,      \* history: shares whose SharePattern returned no error
          cutOff      \* history: names in fleet/shares whose last write tore the file

vars == <<ms, nodes, shares, delegated, nodeFile, shareFile, taskFile, send,
          calls, restarts, acked, cutOff>>

Share == [source : Nodes, target : Nodes, pattern : Active, at : 0..MaxTime]
FileName(s) == <<s.source, s.pattern, s.at>>

TypeOK ==
    /\ ms \in 0..MaxTime
    /\ nodes \subseteq Nodes /\ nodeFile \subseteq Nodes
    /\ shares \in Seq(Share) /\ acked \subseteq Share
    /\ delegated \subseteq Tasks /\ taskFile \subseteq Tasks
    /\ \A f \in DOMAIN shareFile : shareFile[f] \in Share /\ f = FileName(shareFile[f])
    /\ send \in [pc : {"idle", "share", "save", "done"}, target : Nat, capsule : Nat,
                 sent : Nat, reached : Nat, errors : Nat]
    /\ calls \in 0..MaxCalls /\ restarts \in 0..MaxRestarts
    /\ cutOff \subseteq {FileName(s) : s \in Share} \ DOMAIN shareFile

NoSend == [pc |-> "idle", target |-> 1, capsule |-> 1, sent |-> 0, reached |-> 0, errors |-> 0]

Init ==
    /\ ms = 0
    /\ nodes = {} /\ shares = <<>> /\ delegated = {}
    /\ nodeFile = {} /\ shareFile = <<>> /\ taskFile = {}
    /\ send = NoSend
    /\ calls = 0 /\ restarts = 0
    /\ acked = {} /\ cutOff = {}

----------------------------------------------------------------------------
\* The coordinator: memory, then saveJSON.  A process that dies in it leaves what
\* one that fails may leave, and Restart follows.

\* What saveJSON makes of the files of a directory: the one of x is left alone,
\* torn or written, and it is written if nothing fails.
Saves(file, x) == {file, file \ {x}, file \cup {x}}

RegisterNode(n) ==
    /\ nodes' = nodes \cup {n}
    /\ nodeFile' \in Saves(nodeFile, n)
    /\ UNCHANGED <<ms, shares, delegated, shareFile, taskFile, send, calls, restarts, acked, cutOff>>

\* The target need not be registered.
DelegateTask(t) ==
    /\ t.source \in nodes
    /\ delegated' = delegated \cup {t}
    /\ taskFile' \in Saves(taskFile, t)
    /\ UNCHANGED <<ms, nodes, shares, nodeFile, shareFile, send, calls, restarts, acked, cutOff>>

----------------------------------------------------------------------------
\* Propagate.

\* The first MaxCapsules of the active ones.
Eligible ==
    LET upTo(i) == {j \in 1..i : Capsules[j] \in Active}
        active == upTo(Len(Capsules))
        picked == {i \in active : MaxCapsules > 0 => Cardinality(upTo(i)) <= MaxCapsules}
        nth(k) == CHOOSE i \in active : Cardinality(upTo(i)) = k
    IN  [k \in 1..Cardinality(picked) |-> Capsules[nth(k)]]

\* The loops go on with the next capsule or the next target, which counts as
\* reached whatever became of its shares.
Advance(s) ==
    IF s.capsule < Len(Eligible) THEN [s EXCEPT !.pc = "share", !.capsule = @ + 1]
    ELSE [s EXCEPT !.pc = IF s.target < Len(Targets) THEN "share" ELSE "done",
                   !.target = @ + 1, !.capsule = 1, !.reached = @ + 1]

Propagate ==
    /\ send.pc \in {"idle", "done"} /\ <<>> \notin {Targets, Eligible}
    /\ calls < MaxCalls
    /\ calls' = calls + 1
    /\ send' = [NoSend EXCEPT !.pc = "share"]
    /\ UNCHANGED <<ms, nodes, shares, delegated, nodeFile, shareFile, taskFile, restarts, acked, cutOff>>

\* The context is cancelled: noticed before the next target.
PropagateCancelled ==
    /\ send.pc = "share" /\ send.capsule = 1
    /\ send' = [send EXCEPT !.pc = "done", !.errors = @ + 1]
    /\ UNCHANGED <<ms, nodes, shares, delegated, nodeFile, shareFile, taskFile, calls, restarts, acked, cutOff>>

Sending(at) == [source |-> Source, target |-> Targets[send.target],
                pattern |-> Eligible[send.capsule], at |-> at]

\* SharePattern of the coordinator in memory.
ShareInMemory ==
    /\ send.pc = "share"
    /\ {Source, Targets[send.target]} \subseteq nodes
    /\ shares' = Append(shares, Sending(ms))
    /\ send' = [send EXCEPT !.pc = "save"]
    /\ UNCHANGED <<ms, nodes, delegated, nodeFile, shareFile, taskFile, calls, restarts, acked, cutOff>>

ShareRefused ==
    /\ send.pc = "share"
    /\ ~({Source, Targets[send.target]} \subseteq nodes)
    /\ send' = Advance([send EXCEPT !.errors = @ + 1])
    /\ UNCHANGED <<ms, nodes, shares, delegated, nodeFile, shareFile, taskFile, calls, restarts, acked, cutOff>>

SaveShareUnnamed == \* mutant: the pattern is not a part of the name
    LET s == Sending(ms)
    IN  /\ send.pc = "save"
        /\ shareFile' = [f \in {g \in DOMAIN shareFile : g[1] # s.source \/ g[3] # s.at}
                               \cup {FileName(s)} |->
                            IF f = FileName(s) THEN s ELSE shareFile[f]]
        /\ cutOff' = cutOff \ {FileName(s)}
        /\ acked' = acked \cup {s}
        /\ send' = Advance([send EXCEPT !.sent = @ + 1])
        /\ UNCHANGED <<ms, nodes, shares, delegated, nodeFile, taskFile, calls, restarts>>

Written(s) ==
    /\ shareFile' = [f \in DOMAIN shareFile \cup {FileName(s)} |->
                        IF f = FileName(s) THEN s ELSE shareFile[f]]
    /\ cutOff' = cutOff \ {FileName(s)}

Torn(s) ==
    /\ shareFile' = [f \in DOMAIN shareFile \ {FileName(s)} |-> shareFile[f]]
    /\ cutOff' = cutOff \cup {FileName(s)}

\* SavePatternShare, with a time of its own.
SaveShare ==
    /\ send.pc = "save"
    /\ Written(Sending(ms))
    /\ acked' = acked \cup {Sending(ms)}
    /\ send' = Advance([send EXCEPT !.sent = @ + 1])
    /\ UNCHANGED <<ms, nodes, shares, delegated, nodeFile, taskFile, calls, restarts>>

\* The write fails: at its opening, on the way, or when everything is written.
SaveShareFails ==
    /\ send.pc = "save"
    /\ \/ UNCHANGED <<shareFile, cutOff>>
       \/ Torn(Sending(ms))
       \/ Written(Sending(ms))
    /\ send' = Advance([send EXCEPT !.errors = @ + 1])
    /\ UNCHANGED <<ms, nodes, shares, delegated, nodeFile, taskFile, calls, restarts, acked>>

----------------------------------------------------------------------------

\* The process ends at any point, in the write of a share too;
\* NewPersistentFleetCoordinator registers the stored nodes, or none when they
\* cannot be listed.
Restart ==
    /\ restarts < MaxRestarts
    /\ restarts' = restarts + 1
    /\ nodes' \in {nodeFile, {}}
    /\ shares' = <<>> /\ delegated' = {}
    /\ send' = NoSend
    /\ \/ UNCHANGED <<shareFile, cutOff>>
       \/ send.pc = "save" /\ (Torn(Sending(ms)) \/ Written(Sending(ms)))
    /\ UNCHANGED <<ms, nodeFile, taskFile, calls, acked>>

Pass ==
    /\ ms < MaxTime
    /\ ms' = ms + 1
    /\ UNCHANGED <<nodes, shares, delegated, nodeFile, shareFile, taskFile, send, calls, restarts, acked, cutOff>>

Progress ==
    \/ PropagateCancelled \/ ShareInMemory \/ ShareRefused \/ SaveShare \/ SaveShareFails

Next ==
    \/ \E n \in Nodes : RegisterNode(n)
    \/ \E t \in Tasks : DelegateTask(t)
    \/ Propagate \/ Progress
    \/ Restart \/ Pass

Spec == Init /\ [][Next]_vars

----------------------------------------------------------------------------
\* Properties.

Attempts == (send.target - 1) * Len(Eligible) + send.capsule - 1

\* The result of Propagate adds up: every share tried was sent or is an
\* error, and no more were sent than the memory shows.
PropagationAddsUp ==
    /\ send.sent + send.errors
          \in IF send.pc = "done" THEN {Attempts, Attempts + 1} ELSE {Attempts}
    /\ send.sent <= Len(shares)

\* What is on disk survives and is complete per millisecond: a share that was
\* acknowledged is there, replaced by one of the same capsule in the same
\* millisecond, or torn by the failing or cut-off write of such a one, the last
\* under its name; and no delegation in memory has an unknown source.
SharesSurvive ==
    /\ \A s \in acked : FileName(s) \notin cutOff =>
          \E f \in DOMAIN shareFile :
             /\ shareFile[f].source = s.source
             /\ shareFile[f].pattern = s.pattern
             /\ shareFile[f].at = s.at
    /\ \A t \in delegated : t.source \in nodes

Sent == send.pc \in {"idle", "done"}

=============================================================================
