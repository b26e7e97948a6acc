--------------------------- MODULE KnowledgeBase ----------------------------
(***************************************************************************)
(* evolver.CapsuleStore (pkg/evolver/store.go) and the export of its files *)
(* to a Git directory by GitKBSync.SyncAll (git_kb_sync.go).  A capsule is *)
(* a file that each save replaces in place, so a save that fails half way  *)
(* leaves a file that no longer parses; listing skips such a file.         *)
(*                                                                         *)
(* Capsules stand for events and genes too, which are stored and exported  *)
(* by the same code.  A version is how often a capsule was saved.          *)
(***************************************************************************)
EXTENDS Integers, FiniteSets

CONSTANTS Stored,     \* IDs
          MaxSaves,   \* bound: saves of one capsule
          MaxBroken,  \* bound: writes that fail half way
          MaxSyncs    \* bound: calls of SyncAll

KnowledgeAssumption ==
    IsFiniteSet(Stored) /\ {MaxSaves, MaxBroken, MaxSyncs} \subseteq Nat

VARIABLES saves,    \* how often each capsule was saved
          disk,     \* the store: a version, 0 for no file, Broken
          kb,       \* the exported files, likewise
          sync,     \* the call of SyncAll
          summary,  \* summary.json: the capsules synced and the capsules counted
          broken, syncs,
          calm      \* history: since the call began nothing was saved or failed

vars == <<saves, disk, kb, sync, summary, broken, syncs, calm>>

Broken == -1

TypeOK ==
    /\ saves \in [Stored -> 0..MaxSaves]
    /\ \A c \in Stored : disk[c] \in -1..saves[c] /\ kb[c] \in -1..saves[c]
    /\ sync.pc \in {"idle", "write"}
    /\ sync.todo \subseteq Stored \X (1..MaxSaves) /\ sync.synced \in 0..Cardinality(Stored)
    /\ summary \in [total : Nat, counted : Nat]
    /\ broken \in 0..MaxBroken /\ syncs \in 0..MaxSyncs

Init ==
    /\ saves = [c \in Stored |-> 0]
    /\ disk = [c \in Stored |-> 0] /\ kb = [c \in Stored |-> 0]
    /\ sync = [pc |-> "idle", todo |-> {}, synced |-> 0]
    /\ summary = [total |-> 0, counted |-> 0]
    /\ broken = 0 /\ syncs = 0 /\ calm = FALSE

----------------------------------------------------------------------------
\* The store, whose lock covers a whole save and a whole listing.

SaveCapsule(c) ==
    /\ saves[c] < MaxSaves
    /\ saves' = [saves EXCEPT ![c] = @ + 1]
    /\ disk' = [disk EXCEPT ![c] = saves[c] + 1]
    /\ calm' = FALSE
    /\ UNCHANGED <<kb, sync, summary, broken, syncs>>

\* The disk is full or the process dies within os.WriteFile.
SaveBreaks(c) ==
    /\ broken < MaxBroken /\ disk[c] # Broken
    /\ broken' = broken + 1
    /\ disk' = [disk EXCEPT ![c] = Broken]
    /\ calm' = FALSE
    /\ UNCHANGED <<saves, kb, sync, summary, syncs>>

\* ListCapsules: what can be read and parsed.
ListCapsules == {<<c, disk[c]>> : c \in {d \in Stored : disk[d] > 0}}

----------------------------------------------------------------------------
\* SyncAll.

SyncBeginsNew == \* mutant: what was exported once is not exported again
    /\ sync.pc = "idle" /\ syncs < MaxSyncs
    /\ syncs' = syncs + 1
    /\ sync' = [pc |-> "write", todo |-> {cv \in ListCapsules : kb[cv[1]] = 0}, synced |-> 0]
    /\ calm' = TRUE
    /\ UNCHANGED <<saves, disk, kb, summary, broken>>

SyncBegins ==
    /\ sync.pc = "idle" /\ syncs < MaxSyncs
    /\ syncs' = syncs + 1
    /\ sync' = [pc |-> "write", todo |-> ListCapsules, synced |-> 0]
    /\ calm' = TRUE
    /\ UNCHANGED <<saves, disk, kb, summary, broken>>

\* writePrettyJSON of one capsule, as it was listed; a failure is logged and
\* not counted.
SyncWrites(c) ==
    /\ sync.pc = "write"
    /\ \E v \in 1..MaxSaves :
        /\ <<c, v>> \in sync.todo
        /\ \/ /\ kb' = [kb EXCEPT ![c] = v]
              /\ sync' = [sync EXCEPT !.todo = @ \ {<<c, v>>}, !.synced = @ + 1]
              /\ UNCHANGED <<broken, calm>>
           \/ /\ broken < MaxBroken /\ broken' = broken + 1
              /\ kb' = [kb EXCEPT ![c] = Broken]
              /\ sync' = [sync EXCEPT !.todo = @ \ {<<c, v>>}]
              /\ calm' = FALSE
    /\ UNCHANGED <<saves, disk, summary, syncs>>

\* writeSummary lists the capsules once more to count them by status.
SyncEnds ==
    /\ sync.pc = "write" /\ sync.todo = {}
    /\ summary' = [total |-> sync.synced, counted |-> Cardinality(ListCapsules)]
    /\ sync' = [sync EXCEPT !.pc = "idle"]
    /\ UNCHANGED <<saves, disk, kb, broken, syncs, calm>>

Progress == SyncEnds \/ \E c \in Stored : SyncWrites(c)

Next ==
    \/ \E c \in Stored : SaveCapsule(c) \/ SaveBreaks(c)
    \/ SyncBegins
    \/ Progress

Spec == Init /\ [][Next]_vars

----------------------------------------------------------------------------
\* Properties.

\* A sync that nothing disturbed leaves the export equal to what the store
\* can read, with a summary that agrees with itself; what the store can no
\* longer read keeps the version that was exported last.
SyncExports ==
    sync.pc = "idle" /\ calm =>
        /\ \A c \in Stored : disk[c] > 0 => kb[c] = disk[c]
        /\ summary.total = summary.counted

Synced == sync.pc = "idle"

=============================================================================
