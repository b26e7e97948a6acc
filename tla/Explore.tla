------------------------------ MODULE Explore -------------------------------
(***************************************************************************)
(* uiauto.MemberAgent.ConcurrentExplore and exploreSinglePage              *)
(* (pkg/uiauto/member_agent.go): one goroutine per page, all of them       *)
(* driving the agent's single browser.  A goroutine navigates, and then    *)
(* for each element captures the DOM, asks the smart model for a selector  *)
(* and registers it, healing once if that fails.  Between the navigation   *)
(* and a capture another goroutine may have taken the browser elsewhere,   *)
(* and so may the click by which a heal tries a selector.                  *)
(*                                                                         *)
(* A selector is known by the page whose DOM it was read from.             *)
(***************************************************************************)
EXTENDS Integers, FiniteSets, Sequences

CONSTANTS Pages,           \* the targets, one goroutine each
          Elements,        \* [Pages -> sequence of pattern IDs]
          MostConcurrency, \* bound of ConcurrentExploreConfig.MaxConcurrency
          NoPage,          \* no page yet, no selector
          Elsewhere        \* a page that is no target

Shown  == Pages \cup {Elsewhere}
IDs(p) == {Elements[p][i] : i \in DOMAIN Elements[p]}
AllIDs == UNION {IDs(p) : p \in Pages}

ExploreAssumption ==
    /\ MostConcurrency \in Nat \ {0}
    /\ IsFiniteSet(Pages) /\ NoPage \notin Shown /\ Elsewhere \notin Pages
    /\ \A p \in Pages :
        /\ Elements[p] \in Seq(AllIDs)
        /\ \A i, j \in DOMAIN Elements[p] : Elements[p][i] = Elements[p][j] => i = j
        /\ \A q \in Pages \ {p} : IDs(p) \cap IDs(q) = {}

VARIABLES limit,       \* cfg.MaxConcurrency, 4 by default
          page,        \* the page the browser shows
          registered,  \* per pattern ID: the page its stored selector is from
          done,        \* per page: its context is cancelled or timed out
          explorer,    \* per page: where its goroutine is, and the DOM it holds
          result,      \* per page: its ExploreResult
          stray        \* ghost: per page, at which of its elements a heal left it, 0 for none

vars == <<limit, page, registered, done, explorer, result, stray>>

TypeOK ==
    /\ limit \in 1..MostConcurrency
    /\ page \in Shown \cup {NoPage}
    /\ registered \in [AllIDs -> Shown \cup {NoPage}]
    /\ done \in [Pages -> BOOLEAN]
    /\ explorer \in [Pages ->
          [pc   : {"waiting", "acquired", "element", "discover", "heal",
                   "healing", "retry", "rediscover", "returned"},
           at   : Nat \ {0},
           html : Shown \cup {NoPage}]]
    /\ result \in [Pages ->
          [discovered : Nat, failed : Nat, heals : Nat, error : BOOLEAN]]
    /\ stray \in [Pages -> Nat]

Init ==
    /\ limit \in 1..MostConcurrency
    /\ page = NoPage
    /\ registered \in [AllIDs -> Pages \cup {NoPage}]
    /\ \A p \in Pages : \A e \in IDs(p) : registered[e] \in {p, NoPage}
    /\ done = [p \in Pages |-> FALSE]
    /\ explorer = [p \in Pages |-> [pc |-> "waiting", at |-> 1, html |-> NoPage]]
    /\ result = [p \in Pages |->
                    [discovered |-> 0, failed |-> 0, heals |-> 0, error |-> FALSE]]
    /\ stray = [p \in Pages |-> 0]

----------------------------------------------------------------------------

At(p, pc)   == explorer[p].pc = pc
Element(p)  == Elements[p][explorer[p].at]
Goto(p, pc) == explorer' = [explorer EXCEPT ![p].pc = pc, ![p].html = NoPage]
Holders     == {p \in Pages : ~At(p, "waiting") /\ ~At(p, "returned")}

NextElement(p) ==
    explorer' = [explorer EXCEPT ![p].pc = "element", ![p].at = @ + 1, ![p].html = NoPage]

ReturnError(p) ==
    /\ result' = [result EXCEPT ![p].error = TRUE]
    /\ Goto(p, "returned")

AcquireFreely(p) == \* mutant: the semaphore is one too large
    /\ At(p, "waiting")
    /\ Cardinality(Holders) <= limit
    /\ Goto(p, "acquired")
    /\ UNCHANGED <<limit, page, registered, done, result, stray>>

\* The semaphore; a cancelled goroutine waits for it like any other.
Acquire(p) ==
    /\ At(p, "waiting")
    /\ Cardinality(Holders) < limit
    /\ Goto(p, "acquired")
    /\ UNCHANGED <<limit, page, registered, done, result, stray>>

Navigate(p) ==
    /\ At(p, "acquired") /\ ~done[p]
    /\ page' = p
    /\ Goto(p, "element")
    /\ UNCHANGED <<limit, registered, done, result, stray>>

\* The context has ended, or the navigation failed, perhaps after the load.
NavigateFails(p) ==
    /\ At(p, "acquired")
    /\ page' \in IF done[p] THEN {page} ELSE {page, p}
    /\ ReturnError(p)
    /\ UNCHANGED <<limit, registered, done, stray>>

BreakInPlace(p) == \* mutant: the loop is not left
    /\ At(p, "element") /\ done[p]
    /\ explorer[p].at \in DOMAIN Elements[p]
    /\ result' = [result EXCEPT ![p].error = TRUE]
    /\ UNCHANGED <<limit, page, registered, done, explorer, stray>>

\* The next turn of the loop finds the context ended.
Break(p) ==
    /\ At(p, "element") /\ done[p]
    /\ explorer[p].at \in DOMAIN Elements[p]
    /\ ReturnError(p)
    /\ UNCHANGED <<limit, page, registered, done, stray>>

Return(p) ==
    /\ At(p, "element")
    /\ explorer[p].at \notin DOMAIN Elements[p]
    /\ Goto(p, "returned")
    /\ UNCHANGED <<limit, page, registered, done, result, stray>>

\* CaptureDOM, by DiscoverAndRegister, its retry or Heal: the DOM of the page
\* the browser is on now.
Capture(p, from, to) ==
    /\ At(p, from)
    /\ from = "element" => ~done[p] /\ explorer[p].at \in DOMAIN Elements[p]
    /\ explorer' = [explorer EXCEPT ![p].pc = to, ![p].html = page]
    /\ UNCHANGED <<limit, page, registered, done, result, stray>>

Register(p) == registered' = [registered EXCEPT ![Element(p)] = explorer[p].html]

Discovered(p) ==
    /\ At(p, "discover")
    /\ Register(p)
    /\ result' = [result EXCEPT ![p].discovered = @ + 1]
    /\ NextElement(p)
    /\ UNCHANGED <<limit, page, done, stray>>

\* The capture or the model failed, or the store changed and its save failed.
NotDiscovered(p) ==
    /\ At(p, "discover")
    /\ Register(p) \/ UNCHANGED registered
    /\ result' = [result EXCEPT ![p].failed = @ + 1]
    /\ Goto(p, "heal")
    /\ UNCHANGED <<limit, page, done, stray>>

\* Heal needs a stored pattern.  It tries selectors by clicking on them, by
\* fingerprint, smart model and judge in turn: a click that follows a link, or
\* sends a form, takes the browser elsewhere, whether or not the heal succeeds.
Clicks(p) ==
    /\ At(p, "healing") /\ registered[Element(p)] # NoPage
    /\ page' \in Shown \ {page}
    /\ stray' = [stray EXCEPT ![p] = IF limit = 1 /\ @ = 0 THEN explorer[p].at ELSE @]
    /\ UNCHANGED <<limit, registered, done, explorer, result>>

\* The smart model registers a selector for the DOM that Heal captured, the judge
\* for the one it captures after its click, the other methods none; the store may
\* change and its save fail.
Reregister(p) ==
    registered' \in {registered} \cup
        {[registered EXCEPT ![Element(p)] = q] : q \in {explorer[p].html, page}}

Healed(p) ==
    /\ At(p, "healing")
    /\ registered[Element(p)] # NoPage
    /\ Reregister(p)
    /\ result' = [result EXCEPT ![p].heals = @ + 1]
    /\ Goto(p, "retry")
    /\ UNCHANGED <<limit, page, done, stray>>

NotHealed(p) ==
    /\ At(p, "healing")
    /\ IF registered[Element(p)] = NoPage THEN UNCHANGED registered ELSE Reregister(p)
    /\ result' = [result EXCEPT ![p].heals = @ + 1]
    /\ NextElement(p)
    /\ UNCHANGED <<limit, page, done, stray>>

RediscoveredTwice(p) == \* mutant: the failure is not taken back
    /\ At(p, "rediscover")
    /\ Register(p)
    /\ result' = [result EXCEPT ![p].discovered = @ + 1]
    /\ NextElement(p)
    /\ UNCHANGED <<limit, page, done, stray>>

Rediscovered(p) ==
    /\ At(p, "rediscover")
    /\ Register(p)
    /\ result' = [result EXCEPT ![p].discovered = @ + 1, ![p].failed = @ - 1]
    /\ NextElement(p)
    /\ UNCHANGED <<limit, page, done, stray>>

NotRediscovered(p) ==
    /\ At(p, "rediscover")
    /\ Register(p) \/ UNCHANGED registered
    /\ NextElement(p)
    /\ UNCHANGED <<limit, page, done, result, stray>>

\* The parent context ends, or the timeout of a page that is at work.
EndContext(ps) ==
    /\ done' = [p \in Pages |-> done[p] \/ (p \in ps /\ ~At(p, "returned"))]
    /\ UNCHANGED <<limit, page, registered, explorer, result, stray>>

Step(p) ==
    \/ Acquire(p) \/ Navigate(p) \/ NavigateFails(p)
    \/ Break(p) \/ Return(p)
    \/ Capture(p, "element", "discover") \/ Discovered(p) \/ NotDiscovered(p)
    \/ Capture(p, "heal", "healing") \/ Healed(p) \/ NotHealed(p)
    \/ Capture(p, "retry", "rediscover") \/ Rediscovered(p) \/ NotRediscovered(p)

Next ==
    \/ \E p \in Pages : Step(p) \/ Clicks(p)
    \/ \E ps \in {Pages} \cup {{p} : p \in Holders} : EndContext(ps)

\* Every goroutine goes on; browser and model calls end.
Progress == \E p \in Pages : Step(p)

----------------------------------------------------------------------------
\* Properties.

\* member_agent.go:569 "MemberAgent's browser is shared, so callers serialise
\* via the semaphore": a selector is read from the page its element is on, up
\* to the element whose heal left the page by a click.  With the default limit
\* it does not hold.
SelectorsFromOwnPage ==
    \A p \in Pages : \A i \in DOMAIN Elements[p] :
        stray[p] = 0 \/ i < stray[p] => registered[Elements[p][i]] \in {p, NoPage}

\* With a limit of one the goroutines do serialise: navigation, captures, heals
\* and registrations of a page are not interrupted, and where the heals of one
\* page have left the browser is no matter to the pages after it.
SerialKeepsPages == limit = 1 => SelectorsFromOwnPage

\* The counters of a result agree with the loop and with the store: a page
\* left without an error has every element either discovered or failed, no
\* failure without a heal, and no discovery that is not in the store.
ResultAddsUp ==
    \A p \in Pages :
        LET r == result[p]
        IN  /\ At(p, "returned") /\ ~r.error
                  => r.discovered + r.failed = Len(Elements[p]) /\ r.failed <= r.heals
            /\ r.discovered <= Cardinality({e \in IDs(p) : registered[e] # NoPage})

\* ConcurrentExplore waits for all its goroutines.
Returned == \A p \in Pages : At(p, "returned")

=============================================================================
