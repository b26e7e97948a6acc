----------------------------- MODULE FrameHealer -----------------------------
(***************************************************************************)
(* Healing inside frames (pkg/uiauto/frame): the tree of frames that       *)
(* AddFrame builds, and Heal, which takes the browser into a frame, looks  *)
(* for candidates there and takes it back to the top.  The browser is      *)
(* external: entering may fail half-way, and leaving may fail.             *)
(***************************************************************************)
EXTENDS Integers, Sequences, FiniteSets

CONSTANTS Frames,    \* IDs of frames
          Top,       \* the ID of the top-level document
          MaxHeals,  \* bound: calls of Heal
          Scores     \* confidences, in tenths

FrameAssumption ==
    IsFiniteSet(Frames) /\ Top \notin Frames /\ MaxHeals \in Nat /\ Scores \subseteq Nat

VARIABLES parent,   \* of each frame of the tree but the top
          depth,    \* Depth of each frame of the tree
          place,    \* the frames the browser is in, outermost first
          heal,     \* the call of Heal
          heals,
          stuck     \* ghost: did entering or leaving a frame fail?

vars == <<parent, depth, place, heal, heals, stuck>>

Tree    == DOMAIN depth
NoHeal  == [at |-> "idle", frame |-> Top, found |-> <<>>, success |-> FALSE]

\* The selectors from the top to a frame, of a tree that is one.
Path(f) ==
    LET up[n \in 0..Cardinality(Frames)] ==
          [g \in Tree |-> IF g = Top \/ n = 0 THEN <<>> ELSE Append(up[n - 1][parent[g]], g)]
    IN  up[Cardinality(Frames)][f]

TypeOK ==
    /\ Tree \subseteq Frames \cup {Top} /\ Top \in Tree
    /\ DOMAIN parent = Tree \ {Top} /\ \A f \in DOMAIN parent : parent[f] \in Tree
    /\ \A f \in Tree : depth[f] \in 0..Cardinality(Frames)
    /\ heal.at \in {"idle", "enter", "capture", "resolve", "exit"} /\ heal.frame \in Tree
    /\ heals \in 0..MaxHeals /\ stuck \in BOOLEAN

Init ==
    /\ parent = [f \in {} |-> Top]
    /\ depth = [f \in {Top} |-> 0]
    /\ place = <<>>
    /\ heal = NoHeal /\ heals = 0 /\ stuck = FALSE

\* mutant: a frame that is there already is put below another parent.
AddFrameAgain(p, f) ==
    /\ heal.at = "idle" /\ p \in Tree
    /\ parent' = [g \in DOMAIN parent \cup {f} |-> IF g = f THEN p ELSE parent[g]]
    /\ depth' = [g \in Tree \cup {f} |-> IF g = f /\ f \notin Tree THEN depth[p] + 1 ELSE depth[g]]
    /\ UNCHANGED <<place, heal, heals, stuck>>

\* An unknown parent and an ID that is taken are refused.
AddFrame(p, f) ==
    /\ heal.at = "idle"
    /\ p \in Tree /\ f \notin Tree
    /\ parent' = [g \in DOMAIN parent \cup {f} |-> IF g = f THEN p ELSE parent[g]]
    /\ depth' = [g \in Tree \cup {f} |-> IF g = f THEN depth[p] + 1 ELSE depth[g]]
    /\ UNCHANGED <<place, heal, heals, stuck>>

HealBegins(f) ==
    /\ heal.at = "idle" /\ f \in Tree /\ heals < MaxHeals
    /\ heals' = heals + 1
    /\ heal' = [NoHeal EXCEPT !.at = "enter", !.frame = f]
    /\ UNCHANGED <<parent, depth, place, stuck>>

\* The path is entered from wherever the browser is.
EnterFrame ==
    /\ heal.at = "enter"
    /\ place' = place \o Path(heal.frame)
    /\ heal' = [heal EXCEPT !.at = "capture"]
    /\ UNCHANGED <<parent, depth, heals, stuck>>

\* Heal returns the error; nobody takes the browser back.
EnterFrameFails ==
    /\ heal.at = "enter"
    /\ \E n \in 0..Len(Path(heal.frame)) : place' = place \o SubSeq(Path(heal.frame), 1, n)
    /\ heal' = NoHeal
    /\ stuck' = TRUE
    /\ UNCHANGED <<parent, depth, heals>>

CaptureFrameDOM ==
    /\ heal.at = "capture"
    /\ \E ok \in BOOLEAN : heal' = [heal EXCEPT !.at = IF ok THEN "resolve" ELSE "exit"]
    /\ UNCHANGED <<parent, depth, place, heals, stuck>>

\* mutant: the last candidate is taken for the best.
BestLast(found) == found[Len(found)]

\* The candidate of the highest confidence.
Best(found) == CHOOSE b \in {found[n] : n \in DOMAIN found} : \A n \in DOMAIN found : found[n] <= b

\* What the candidates of a resolution may be.
Finds == {<<>>} \cup {<<a>> : a \in Scores} \cup {<<a, b>> : a \in Scores, b \in Scores}

Resolved(found, ok) == [heal EXCEPT !.at = "exit", !.found = found, !.success = ok]

ResolveCandidates ==
    /\ heal.at = "resolve"
    /\ \E found \in Finds :
          heal' = IF found # <<>> /\ Best(found) >= 5 THEN Resolved(found, TRUE)
                  ELSE Resolved(found, FALSE)
    /\ UNCHANGED <<parent, depth, place, heals, stuck>>

\* The deferred ExitToTop, whose error is dropped.
ExitToTop ==
    /\ heal.at = "exit"
    /\ \/ place' = <<>> /\ UNCHANGED stuck
       \/ stuck' = TRUE /\ UNCHANGED place
    /\ heal' = [heal EXCEPT !.at = "idle"]
    /\ UNCHANGED <<parent, depth, heals>>

Next ==
    \/ \E f \in Frames, p \in Frames \cup {Top} : AddFrame(p, f)
    \/ \E f \in Frames \cup {Top} : HealBegins(f)
    \/ EnterFrame \/ EnterFrameFails \/ CaptureFrameDOM \/ ResolveCandidates \/ ExitToTop

Progress == EnterFrame \/ EnterFrameFails \/ CaptureFrameDOM \/ ResolveCandidates \/ ExitToTop

-----------------------------------------------------------------------------
(* Properties *)

\* As long as the browser never failed to enter or to leave a frame, candidates
\* are sought in the frame asked for, and between calls it is at the top.
HealsInItsFrame ==
    ~stuck => /\ heal.at \in {"idle", "enter"} => place = <<>>
              /\ heal.at \in {"capture", "resolve", "exit"} => place = Path(heal.frame)

\* The tree is one: the depth of a frame is the length of its path, whatever
\* the order in which frames were added.
TreeIsSound == \A f \in Tree : Len(Path(f)) = depth[f]

\* A heal succeeds exactly if some candidate is confident enough.
HealIsJustified == heal.success <=> \E n \in DOMAIN heal.found : heal.found[n] >= 5

Returned == heal.at = "idle"

=============================================================================
