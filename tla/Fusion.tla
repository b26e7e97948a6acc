-------------------------------- MODULE Fusion -------------------------------
(***************************************************************************)
(* fusion.Executor (pkg/uiauto/fusion/fusion.go): scenarios that are run   *)
(* one after the other, each grounded first on a screenshot.               *)
(*                                                                         *)
(* capture hands the browser work to a goroutine and waits for it or for   *)
(* the context of the run, whichever comes first, so the goroutine of a    *)
(* run that gave up may still be at work on the shared browser during the  *)
(* next one.  A page is the run whose URL it is, 0 for none.               *)
(***************************************************************************)
EXTENDS Integers, Sequences, FiniteSets

CONSTANTS Scenarios,      \* number of scenarios that are run
          Confidences,    \* of elements, in percent
          Threshold, MaxCandidates,
          MaxElements     \* bound: elements of a parsed screenshot

FusionAssumption ==
    /\ Scenarios \in Nat \ {0} /\ Confidences \subseteq Nat /\ Threshold \in Nat
    /\ MaxCandidates \in Nat \ {0} /\ MaxElements \in Nat

VARIABLES now,       \* the run at work
          at,        \* where it is
          ctx,       \* has the context of each run ended?
          worker,    \* the capture goroutine of each run
          done,      \* its result channel: the page of a screenshot, or one of these two
          browser,   \* the page the shared browser shows
          reason,    \* grounding_reason of the run
          elements,  \* what the parser returned
          ok,        \* Record.OK of each run
          late,      \* ghost: runs whose worker navigated after they had returned
          slipped    \* ghost: runs whose context ended between the check and the navigation

vars == <<now, at, ctx, worker, done, browser, reason, elements, ok, late, slipped>>

Runs    == 1..Scenarios
Element == [interactable : BOOLEAN, conf : Confidences]
Reasons == {"none", "grounded", "capture_failed", "grounding_unavailable", "grounding_empty",
            "grounding_low_confidence"}
Pending == 0
Failed  == -1

TypeOK ==
    /\ now \in Runs /\ at \in {"begin", "wait", "ground", "lane", "over"}
    /\ ctx \in [Runs -> BOOLEAN]
    /\ worker \in [Runs -> {"none", "attach", "attached", "navigate", "loaded", "shoot", "gone"}]
    /\ done \in [Runs -> Runs \cup {Pending, Failed}]
    /\ browser \in 0..Scenarios /\ reason \in Reasons /\ ok \in [Runs -> BOOLEAN]
    /\ \A n \in DOMAIN elements : elements[n] \in Element
    /\ late \subseteq Runs /\ slipped \subseteq Runs

Init ==
    /\ now = 1 /\ at = "begin"
    /\ ctx = [r \in Runs |-> FALSE] /\ worker = [r \in Runs |-> "none"]
    /\ done = [r \in Runs |-> Pending] /\ browser = 0
    /\ reason = "none" /\ elements = <<>> /\ ok = [r \in Runs |-> FALSE]
    /\ late = {} /\ slipped = {}

CtxEnds ==
    /\ at # "over" /\ ~ctx[now]
    /\ ctx' = [ctx EXCEPT ![now] = TRUE]
    /\ slipped' = IF worker[now] = "navigate" THEN slipped \cup {now} ELSE slipped
    /\ UNCHANGED <<now, at, worker, done, browser, reason, elements, ok, late>>

Returned_(r) == r < now \/ (r = now /\ at = "over")

-----------------------------------------------------------------------------
(* The goroutine of capture *)

Leaves(r, result) ==
    /\ worker' = [worker EXCEPT ![r] = "gone"]
    /\ done' = [done EXCEPT ![r] = result]

\* attachAgent, which does not know of the context: it may hang for ever, as may
\* the navigation and the screenshot.
Attach(r) ==
    /\ worker[r] = "attach"
    /\ \/ worker' = [worker EXCEPT ![r] = "attached"] /\ UNCHANGED done
       \/ Leaves(r, Failed)
    /\ UNCHANGED <<now, at, ctx, browser, reason, elements, ok, late, slipped>>

\* mutant: the context is not looked at again after the attach.
CheckCtxNever(r) ==
    /\ worker[r] \in {"attached", "loaded"}
    /\ worker' = [worker EXCEPT ![r] = IF @ = "attached" THEN "navigate" ELSE "shoot"]
    /\ UNCHANGED <<now, at, ctx, done, browser, reason, elements, ok, late, slipped>>

\* The context is looked at after the attach and after the navigation.
CheckCtx(r) ==
    /\ worker[r] \in {"attached", "loaded"}
    /\ IF ctx[r] THEN Leaves(r, Failed)
       ELSE /\ worker' = [worker EXCEPT ![r] = IF @ = "attached" THEN "navigate" ELSE "shoot"]
            /\ UNCHANGED done
    /\ UNCHANGED <<now, at, ctx, browser, reason, elements, ok, late, slipped>>

Navigate(r) ==
    /\ worker[r] = "navigate"
    /\ \/ /\ browser' = r
          /\ worker' = [worker EXCEPT ![r] = "loaded"] /\ UNCHANGED done
       \/ Leaves(r, Failed) /\ UNCHANGED browser
    /\ late' = IF Returned_(r) THEN late \cup {r} ELSE late
    /\ UNCHANGED <<now, at, ctx, reason, elements, ok, slipped>>

CaptureScreenshot(r) ==
    /\ worker[r] = "shoot"
    /\ Leaves(r, browser) \/ Leaves(r, Failed)
    /\ UNCHANGED <<now, at, ctx, browser, reason, elements, ok, late, slipped>>

-----------------------------------------------------------------------------
(* Run *)

BeginCapture ==
    /\ at = "begin"
    /\ at' = "wait"
    /\ worker' = [worker EXCEPT ![now] = "attach"]
    /\ UNCHANGED <<now, ctx, done, browser, reason, elements, ok, late, slipped>>

\* mutant: the result alone is waited for.
CapturedDeaf ==
    /\ at = "wait"
    /\ \/ done[now] \in Runs /\ at' = "ground" /\ UNCHANGED reason
       \/ done[now] = Failed /\ at' = "lane" /\ reason' = "capture_failed"
    /\ UNCHANGED <<now, ctx, worker, done, browser, elements, ok, late, slipped>>

\* The select: a result that is there and a context that has ended may both win.
Captured ==
    /\ at = "wait"
    /\ \/ done[now] \in Runs /\ at' = "ground" /\ UNCHANGED reason
       \/ (done[now] = Failed \/ ctx[now]) /\ at' = "lane" /\ reason' = "capture_failed"
    /\ UNCHANGED <<now, ctx, worker, done, browser, elements, ok, late, slipped>>

Usable(els) == {n \in DOMAIN els : els[n].interactable /\ els[n].conf >= Threshold}

\* mutant: elements nobody can act on count as under-confident.
outcomeLow(els) ==
    IF els = <<>> THEN "grounding_empty"
    ELSE IF Usable(els) = {} THEN "grounding_low_confidence" ELSE "grounded"

outcome(els) ==
    IF \A n \in DOMAIN els : ~els[n].interactable THEN "grounding_empty"
    ELSE IF Usable(els) = {} THEN "grounding_low_confidence" ELSE "grounded"

\* Most confident first, as parsed among equals.
Before(els, a, b) == els[a].conf > els[b].conf \/ (els[a].conf = els[b].conf /\ a < b)
Sorted(els, few) ==
    CHOOSE s \in [1..Cardinality(few) -> few] : \A i, j \in DOMAIN s : i < j => Before(els, s[i], s[j])

\* mutant: the list is cut before it is sorted.
candidatesCutFirst(els) ==
    Sorted(els, {n \in Usable(els) : Cardinality({k \in Usable(els) : k <= n}) <= MaxCandidates})

\* The positions of the usable elements in that order, cut at MaxCandidates.
candidates(els) ==
    LET all == Sorted(els, Usable(els)) IN
    SubSeq(all, 1, IF Len(all) > MaxCandidates THEN MaxCandidates ELSE Len(all))

Ground ==
    /\ at = "ground"
    /\ at' = "lane"
    /\ \/ reason' = "grounding_unavailable" /\ UNCHANGED elements
       \/ \E n \in 0..MaxElements : \E els \in [1..n -> Element] :
             elements' = els /\ reason' = outcome(els)
    /\ UNCHANGED <<now, ctx, worker, done, browser, ok, late, slipped>>

\* The task goes to browser-use, which drives the browser in a session of its
\* own; with an ended context it fails at once.
Lane ==
    /\ at = "lane"
    /\ at' = "over"
    /\ \E good \in BOOLEAN : (good => ~ctx[now]) /\ ok' = [ok EXCEPT ![now] = good]
    /\ UNCHANGED <<now, ctx, worker, done, browser, reason, elements, late, slipped>>

NextScenario ==
    /\ at = "over" /\ now < Scenarios
    /\ now' = now + 1 /\ at' = "begin"
    /\ reason' = "none" /\ elements' = <<>>
    /\ UNCHANGED <<ctx, worker, done, browser, ok, late, slipped>>

Goroutine(r) == Attach(r) \/ CheckCtx(r) \/ Navigate(r) \/ CaptureScreenshot(r)

Next ==
    \/ CtxEnds
    \/ \E r \in Runs : Goroutine(r)
    \/ BeginCapture \/ Captured \/ Ground \/ Lane \/ NextScenario

Spec == Init /\ [][Next]_vars

\* What goes on by itself: not the goroutine, whose calls into the browser have no
\* deadline.  The parser and the lane end with the context at the latest.
Progress == BeginCapture \/ Captured \/ Ground \/ Lane

-----------------------------------------------------------------------------
(* Properties *)

\* The comment in capture: a late attach must never Navigate the shared CDP
\* browser after Run returned.
NeverNavigatesLate == late = {}

Range(f) == {f[x] : x \in DOMAIN f}

\* The reason names what happened, and the hints that go with it are the most
\* confident elements of all one can act on, none of those that were cut being
\* better than one that stayed.
GroundingIsExplained ==
    LET hints == candidates(elements) IN
    /\ at \in {"lane", "over"} => reason # "none"
    /\ reason = "grounded" <=> hints # <<>>
    /\ reason = "grounding_low_confidence" => \E n \in DOMAIN elements : elements[n].interactable
    /\ Len(hints) <= MaxCandidates
    /\ \A n \in Usable(elements) \ Range(hints) : \A h \in Range(hints) :
          elements[h].conf >= elements[n].conf
    /\ \A i, j \in DOMAIN hints : i < j => elements[hints[i]].conf >= elements[hints[j]].conf

\* A late navigation happens only when the context ended just between the check
\* and the navigation, and a run is grounded on the page of another one only
\* after such a navigation.
ScreenIsOfItsPage ==
    /\ late \subseteq slipped
    /\ at = "ground" => done[now] = now \/ late # {}

\* Every run returns, by its context if its capture hangs.
Returned == at = "over"

=============================================================================
