---------------------------- MODULE FallbackStore ----------------------------
(***************************************************************************)
(* A pattern store with a fallback (pkg/uiauto/store): FallbackStore asks  *)
(* its primary store, a remote one, as long as its breaker allows it, and  *)
(* otherwise a JSONFileStore, a map that is written to a file as a whole.  *)
(*                                                                         *)
(* A call takes the breaker's lock to choose a store, works on the primary *)
(* without it, takes it again to record the outcome, and then goes to the  *)
(* fallback: the steps of concurrent calls interleave.  A pattern is the   *)
(* number of the write it comes from, 0 for none, and a flag saying that   *)
(* its confidence was changed since.  The primary may fail a call after    *)
(* having carried it out.                                                  *)
(*                                                                         *)
(* The file is cut to nothing and then written, under the lock of the      *)
(* JSONFileStore.  A write that fails in between, or that the end of the   *)
(* process cuts off, leaves a file that no new process can open.           *)
(***************************************************************************)
EXTENDS Integers, FiniteSets

CONSTANTS Callers,      \* goroutines that use the store
          Keys,         \* pattern IDs
          FailureThreshold,
          MaxWrites,    \* bound: calls of Set
          MaxCalls,     \* bound: calls of the other operations
          MaxRestarts   \* bound: restarts of the process

FallbackAssumption ==
    /\ Keys # {} /\ FailureThreshold \in Nat \ {0}
    /\ {MaxWrites, MaxCalls, MaxRestarts} \subseteq Nat

VARIABLES circuit,   \* state of the breaker
          failures,  \* failures, counted up to FailureThreshold
          cooled,    \* has HalfOpenTimeout passed since lastFailureTime?
          prim,      \* what the primary holds
          fall,      \* patterns of the JSONFileStore
          disk,      \* what its file held when it was last written as a whole
          torn,      \* was the file cut to nothing since, or half written?
          opened,    \* could the process open its stores?
          call,      \* the call of each caller
          writes,    \* calls of Set so far
          others,    \* other calls so far
          restarts,
          acked,     \* ghost: last write of a key that returned without error
          solo,      \* ghost: keys no two calls of Set ever overlapped on
          clean      \* ghost: keys whose calls all succeeded on the primary

vars == <<circuit, failures, cooled, prim, fall, disk, torn, opened, call, writes, others,
          restarts, acked, solo, clean>>

breaker == <<circuit, failures, cooled>>
stores  == <<prim, fall, disk, torn, opened>>
ghosts  == <<acked, solo, clean>>

Pattern  == [ver : 0..MaxWrites, changed : BOOLEAN]
NoCall   == [op |-> "none", key |-> CHOOSE k \in Keys : TRUE, ver |-> 0, at |-> "idle"]
Ops      == {"get", "set", "load", "adjust"}
Places   == {"idle", "primary", "failed", "done", "through", "fallback", "write", "writeThrough"}
Absent   == [k \in Keys |-> [ver |-> 0, changed |-> FALSE]]

TypeOK ==
    /\ circuit \in {"closed", "open", "half"}
    /\ failures \in 0..FailureThreshold
    /\ cooled \in BOOLEAN
    /\ prim \in [Keys -> Pattern] /\ fall \in [Keys -> Pattern] /\ disk \in [Keys -> Pattern]
    /\ torn \in BOOLEAN /\ opened \in BOOLEAN
    /\ call \in [Callers -> [op : Ops \cup {"none"}, key : Keys, ver : 0..MaxWrites,
                             at : Places]]
    /\ writes \in 0..MaxWrites /\ others \in 0..MaxCalls /\ restarts \in 0..MaxRestarts
    /\ acked \in [Keys -> 0..MaxWrites]
    /\ solo \subseteq Keys /\ clean \subseteq Keys

Init ==
    /\ circuit = "closed" /\ failures = 0 /\ cooled = FALSE
    /\ prim = Absent /\ fall = Absent /\ disk = Absent /\ torn = FALSE /\ opened = TRUE
    /\ call = [c \in Callers |-> NoCall]
    /\ writes = 0 /\ others = 0 /\ restarts = 0
    /\ acked = [k \in Keys |-> 0] /\ solo = Keys /\ clean = Keys

Setting(k) == {c \in Callers : call[c].op = "set" /\ call[c].key = k}

-----------------------------------------------------------------------------
(* The breaker *)

UsesPrimary == circuit \in {"closed", "half"} \/ cooled

shouldUsePrimary == circuit' = IF UsesPrimary /\ circuit = "open" THEN "half" ELSE circuit

recordFailure ==
    /\ failures' = IF failures < FailureThreshold THEN failures + 1 ELSE failures
    /\ cooled' = FALSE
    /\ circuit' = IF failures' >= FailureThreshold THEN "open" ELSE circuit

\* mutant: a success closes the breaker and keeps the count.
recordSuccessKept == circuit' = "closed" /\ UNCHANGED <<failures, cooled>>

recordSuccess == circuit' = "closed" /\ failures' = 0 /\ UNCHANGED cooled

HalfOpenTimeoutPasses ==
    /\ circuit = "open" /\ ~cooled
    /\ cooled' = TRUE
    /\ UNCHANGED <<circuit, failures, stores, call, writes, others, restarts, ghosts>>

-----------------------------------------------------------------------------
(* Calls *)

\* Set, Get, Load, DecayConfidence and BoostConfidence begin by choosing a store.
\* A Load is of all keys.
Begin(c, op, k) ==
    /\ opened /\ call[c].at = "idle" /\ (op = "load" => k = NoCall.key)
    /\ IF op = "set" THEN writes < MaxWrites /\ writes' = writes + 1 /\ UNCHANGED others
       ELSE others < MaxCalls /\ others' = others + 1 /\ UNCHANGED writes
    /\ shouldUsePrimary
    /\ call' = [call EXCEPT ![c] = [op |-> op, key |-> k,
                                    ver |-> IF op = "set" THEN writes + 1 ELSE 0,
                                    at |-> IF UsesPrimary THEN "primary" ELSE "fallback"]]
    /\ solo' = IF op = "set" /\ Setting(k) # {} THEN solo \ {k} ELSE solo
    /\ clean' = IF UsesPrimary /\ op # "adjust" THEN clean ELSE clean \ {k}
    /\ UNCHANGED <<failures, cooled, stores, restarts, acked>>

\* What a Set or an adjustment leaves of a pattern.
Written(d, p) ==
    IF d.op = "set" THEN [ver |-> d.ver, changed |-> FALSE]
    ELSE [p EXCEPT !.changed = p.ver > 0 \/ @]

Applied(d, store) ==
    IF d.op \in {"set", "adjust"} THEN [store EXCEPT ![d.key] = Written(d, @)] ELSE store

\* The primary answers.  A Get that finds nothing returns and records nothing,
\* whether the pattern is absent or the store could not be reached.
PrimaryAnswers(c) ==
    LET d == call[c] IN
    /\ d.at = "primary"
    /\ prim' = Applied(d, prim)
    /\ \/ /\ d.op # "get" \/ prim[d.key].ver > 0
          /\ call' = [call EXCEPT ![c].at = "done"]
       \/ /\ d.op = "get"
          /\ call' = [call EXCEPT ![c] = NoCall]
    /\ UNCHANGED <<breaker, fall, disk, torn, opened, writes, others, restarts, ghosts>>

\* The primary returns an error, having done its work or not.
PrimaryFails(c) ==
    LET d == call[c] IN
    /\ d.at = "primary" /\ d.op # "get"
    /\ prim' \in {prim, Applied(d, prim)}
    /\ call' = [call EXCEPT ![c].at = "failed"]
    /\ clean' = IF d.op = "load" THEN clean ELSE clean \ {d.key}
    /\ UNCHANGED <<breaker, fall, disk, torn, opened, writes, others, restarts, acked, solo>>

RecordFailure(c) ==
    /\ call[c].at = "failed"
    /\ recordFailure
    /\ call' = [call EXCEPT ![c].at = "fallback"]
    /\ UNCHANGED <<stores, writes, others, restarts, ghosts>>

\* mutant: a Set that succeeded on the primary is not written through.
RecordSuccessUnlessThrough(c) ==
    /\ call[c].at = "done"
    /\ recordSuccess
    /\ call' = [call EXCEPT ![c] = NoCall]
    /\ acked' = [acked EXCEPT ![call[c].key] = IF call[c].op = "set" THEN call[c].ver ELSE @]
    /\ UNCHANGED <<stores, writes, others, restarts, solo, clean>>

RecordSuccess(c) ==
    /\ call[c].at = "done"
    /\ recordSuccess
    /\ call' = [call EXCEPT ![c] = IF @.op = "set" THEN [@ EXCEPT !.at = "through"] ELSE NoCall]
    /\ UNCHANGED <<stores, writes, others, restarts, ghosts>>

-----------------------------------------------------------------------------
(* The JSONFileStore: the fallback of a call that did not succeed on the   *)
(* primary, and the write-through of one that did, whose error is dropped. *)

Saving(c) == call[c].at \in {"write", "writeThrough"}
Unlocked  == \A c \in Callers : ~Saving(c)

FallbackReads(c) ==
    /\ call[c].at = "fallback" /\ call[c].op \in {"get", "load"}
    /\ Unlocked
    /\ call' = [call EXCEPT ![c] = NoCall]
    /\ UNCHANGED <<breaker, stores, writes, others, restarts, ghosts>>

\* mutant: a write is reported as done though it could not be saved.
AckedAnyway(d, ok) == IF d.op = "set" THEN [acked EXCEPT ![d.key] = d.ver] ELSE acked

\* Whether a Set may tell its caller that it is done.
Acked(d, ok) ==
    IF d.op = "set" /\ (ok \/ d.at \in {"through", "writeThrough"})
    THEN [acked EXCEPT ![d.key] = d.ver] ELSE acked

\* The map is changed, and the file opened, which cuts it to nothing.  If it cannot
\* be opened it stays as it is, and so does the change of the map.
FallbackWrites(c) ==
    LET d == call[c] IN
    /\ d.at \in {"fallback", "through"} /\ d.op \in {"set", "adjust"}
    /\ Unlocked
    /\ fall' = Applied(d, fall)
    /\ \/ /\ torn' = TRUE
          /\ call' = [call EXCEPT ![c].at = IF d.at = "through" THEN "writeThrough" ELSE "write"]
          /\ UNCHANGED acked
       \/ /\ call' = [call EXCEPT ![c] = NoCall]
          /\ acked' = Acked(d, FALSE)
          /\ UNCHANGED torn
    /\ UNCHANGED <<breaker, prim, disk, opened, writes, others, restarts, solo, clean>>

\* All patterns are written to the file, or the write fails on the way.
saveToDisk(c) ==
    /\ Saving(c)
    /\ \E ok \in BOOLEAN :
          /\ torn' = ~ok
          /\ disk' = IF ok THEN fall ELSE disk
          /\ acked' = Acked(call[c], ok)
    /\ call' = [call EXCEPT ![c] = NoCall]
    /\ UNCHANGED <<breaker, prim, fall, opened, writes, others, restarts, solo, clean>>

\* A new process opens the stores.  It has what the file had; a torn file is
\* refused, and there is no store.
Restart ==
    /\ restarts < MaxRestarts
    /\ restarts' = restarts + 1
    /\ circuit' = "closed" /\ failures' = 0 /\ cooled' = FALSE
    /\ opened' = ~torn
    /\ fall' = IF torn THEN Absent ELSE disk
    /\ call' = [c \in Callers |-> NoCall]
    /\ clean' = {}
    /\ UNCHANGED <<prim, disk, torn, writes, others, acked, solo>>

Next ==
    \/ HalfOpenTimeoutPasses
    \/ \E c \in Callers :
          \/ \E op \in Ops, k \in Keys : Begin(c, op, k)
          \/ PrimaryAnswers(c)
          \/ PrimaryFails(c)
          \/ RecordFailure(c)
          \/ RecordSuccess(c)
          \/ FallbackReads(c)
          \/ FallbackWrites(c)
          \/ saveToDisk(c)
    \/ Restart

\* A call that was begun goes on.
Progress == \E c \in Callers :
    \/ PrimaryAnswers(c) \/ PrimaryFails(c) \/ RecordFailure(c) \/ RecordSuccess(c)
    \/ FallbackReads(c) \/ FallbackWrites(c) \/ saveToDisk(c)

-----------------------------------------------------------------------------
(* Properties *)

\* The breaker is off exactly when FailureThreshold failures were counted since
\* the last success, whatever calls that chose their store earlier still record.
CircuitMatchesFailures == failures >= FailureThreshold <=> circuit # "closed"

\* A write that Set reported as done is on the primary or in the map of the process,
\* and on the primary or in the file whenever the file can be read, unless another
\* Set of the key ran at the same time.  A failover, a dropped error of the
\* write-through and a restart lose none; only a write of the file that fails half
\* way, or is cut off, may, of all keys, until one succeeds.
AckedIsStored ==
    \A k \in solo :
        /\ opened => prim[k].ver >= acked[k] \/ fall[k].ver >= acked[k]
        /\ ~torn => prim[k].ver >= acked[k] \/ disk[k].ver >= acked[k]

\* The write-through keeps the two stores alike as long as the primary answers.
ThroughKeepsAlike ==
    \A k \in clean \cap solo : Setting(k) = {} => prim[k] = fall[k]

\* Every call of the store returns.
Returned == \A c \in Callers : call[c].at = "idle"

=============================================================================
