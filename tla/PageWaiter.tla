----------------------------- MODULE PageWaiter ------------------------------
(***************************************************************************)
(* Waiting for a page (pkg/uiauto/page_waiter.go): NavigateAndWaitV2,      *)
(* WaitForPageReadyV2 and WaitForSPARouteChange, with the strategies they  *)
(* compose.                                                                *)
(*                                                                         *)
(* The page goes its own way: its document completes, its network falls    *)
(* idle, which fires networkIdle once and is heard only by who listens,    *)
(* its DOM mutates, its target appears and is enabled.  Every command to   *)
(* the browser may fail, and the context may expire at any time.  The DOM  *)
(* is polled; time is counted in polls, StableFor of which must find no    *)
(* mutation.                                                               *)
(***************************************************************************)
EXTENDS Integers, Sequences

CONSTANTS StableFor,     \* polls the DOM must be quiet for
          MaxMutations   \* bound: mutations of the DOM

\* It takes a poll to call the DOM stable.
WaiterAssumption == StableFor \in Nat \ {0} /\ MaxMutations \in Nat

VARIABLES mode,      \* the function called, and its configuration
          at,        \* where the call is
          page,      \* of the page: complete, idle, visible, enabled, moved (a new URL)
          mutations, \* __dom_mutations
          listening, \* is the lifecycle listener subscribed?
          heard,     \* did it get networkIdle?
          expired,   \* has the context expired?
          stable,    \* polls since stableStart
          last,      \* lastMutations
          results,   \* WaitResults
          outcome,   \* what the call returned
          quietFor   \* ghost: polls since the DOM last mutated

vars == <<mode, at, page, mutations, listening, heard, expired, stable, last, results, outcome,
          quietFor>>

Strategies == {"network", "dom", "visible", "enabled"}
Place      == [network |-> 1, dom |-> 2, visible |-> 3, enabled |-> 4]
Result     == [strategy : Strategies, ok : BOOLEAN]

TypeOK ==
    /\ mode \in [call : {"navigate", "ready", "route"}, strategies : SUBSET Strategies,
                 continueOnErr : BOOLEAN]
    /\ at \in {"begin", "navigate", "next", "enable", "check", "subscribe", "idle", "inject",
               "poll", "visible", "appear", "enabled", "url", "returned"}
    /\ page \in [complete : BOOLEAN, idle : BOOLEAN, visible : BOOLEAN, enabled : BOOLEAN,
                 moved : BOOLEAN]
    /\ mutations \in 0..MaxMutations /\ last \in 0..MaxMutations
    /\ {listening, heard, expired} \subseteq BOOLEAN
    /\ stable \in 0..StableFor /\ quietFor \in 0..StableFor
    /\ \A i \in DOMAIN results : results[i] \in Result
    /\ outcome \in {"none", "ok", "error"}

\* The strategies with a target count only if a selector was given.
Modes ==
    {[call |-> c, strategies |-> s, continueOnErr |-> e] :
        c \in {"navigate", "ready"}, e \in BOOLEAN,
        s \in {{"network", "dom"}, {"dom", "visible"}, {"network", "enabled"}}}
    \cup {[call |-> "route", strategies |-> {"dom"}, continueOnErr |-> FALSE]}

\* A page that is to be navigated to has not begun to load.
Init ==
    /\ mode \in Modes
    /\ at = "begin"
    /\ page \in [complete : BOOLEAN, idle : BOOLEAN, visible : {FALSE}, enabled : {FALSE},
                 moved : {FALSE}]
    /\ page.idle => page.complete
    /\ mode.call = "navigate" => ~page.complete
    /\ mutations = 0 /\ last = 0 /\ stable = 0 /\ quietFor = 0
    /\ listening = FALSE /\ heard = FALSE /\ expired = FALSE
    /\ results = <<>> /\ outcome = "none"

wait   == <<mode, at, listening, stable, last, results, outcome>>
events == <<page, mutations, heard, expired, quietFor>>

-----------------------------------------------------------------------------
(* The page *)

Loading == mode.call # "navigate" \/ at \notin {"begin", "navigate"}

Completes ==
    /\ Loading /\ ~page.complete
    /\ page' = [page EXCEPT !.complete = TRUE]
    /\ UNCHANGED <<wait, mutations, heard, expired, quietFor>>

\* networkIdle fires once; waitForNetworkIdleSignal closes its channel.
FallsIdle ==
    /\ page.complete /\ ~page.idle
    /\ page' = [page EXCEPT !.idle = TRUE]
    /\ heard' = listening
    /\ UNCHANGED <<wait, mutations, expired, quietFor>>

Changes ==
    /\ Loading
    /\ \/ ~page.visible /\ page' = [page EXCEPT !.visible = TRUE]
       \/ page.visible /\ ~page.enabled /\ page' = [page EXCEPT !.enabled = TRUE]
       \/ ~page.moved /\ mode.call = "route" /\ page' = [page EXCEPT !.moved = TRUE]
    /\ UNCHANGED <<wait, mutations, heard, expired, quietFor>>

\* Mutations count from the injection of the observer on.
Mutates ==
    /\ at = "poll" /\ mutations < MaxMutations
    /\ mutations' = mutations + 1
    /\ quietFor' = 0
    /\ UNCHANGED <<wait, page, heard, expired>>

Expires ==
    /\ at # "returned" /\ ~expired
    /\ expired' = TRUE
    /\ UNCHANGED <<wait, page, mutations, heard, quietFor>>

-----------------------------------------------------------------------------
(* The call *)

Return(o) == at' = "returned" /\ outcome' = o

\* mutant: the error of a strategy ends the call even with ContinueOnErr.
EndedStrict(s, ok) ==
    /\ results' = Append(results, [strategy |-> s, ok |-> ok])
    /\ IF ok THEN at' = "next" /\ UNCHANGED outcome ELSE Return("error")

\* A strategy ended: its result is kept, and an error ends the call unless
\* ContinueOnErr is set.
Ended(s, ok) ==
    /\ results' = Append(results, [strategy |-> s, ok |-> ok])
    /\ IF ok \/ mode.continueOnErr THEN at' = "next" /\ UNCHANGED outcome ELSE Return("error")

\* mutant: the listener is subscribed once the page is there.
PrepareLate ==
    /\ at = "begin" /\ mode.call = "navigate"
    /\ at' = "navigate"
    /\ UNCHANGED <<mode, events, listening, outcome, stable, last, results>>

\* NavigateAndWait listens before it navigates; PrepareNetworkIdleWait may fail.
Prepare ==
    /\ at = "begin" /\ mode.call = "navigate"
    /\ IF "network" \notin mode.strategies
       THEN at' = "navigate" /\ UNCHANGED <<listening, outcome>>
       ELSE \/ ~expired /\ at' = "navigate" /\ listening' = TRUE /\ UNCHANGED outcome
            \/ Return("error") /\ UNCHANGED listening
    /\ UNCHANGED <<mode, events, stable, last, results>>

Navigate ==
    /\ at = "navigate"
    /\ \/ ~expired /\ at' = "next" /\ UNCHANGED outcome
       \/ Return("error")
    /\ UNCHANGED <<mode, events, listening, stable, last, results>>

\* WaitForPageReady begins with its strategies, WaitForSPARouteChange by
\* waiting for another URL.
Begin ==
    /\ at = "begin" /\ mode.call # "navigate"
    /\ at' = IF mode.call = "route" THEN "url" ELSE "next"
    /\ UNCHANGED <<mode, events, listening, stable, last, results, outcome>>

\* The strategies still to be tried: WaitForPageReady knows only two.
Todo == {s \in mode.strategies :
            /\ mode.call = "ready" => s \in {"network", "dom"}
            /\ \A i \in DOMAIN results : results[i].strategy # s}

NextStrategy ==
    /\ at = "next"
    /\ IF Todo = {} THEN Return("ok")
       ELSE /\ at' = IF "network" \in Todo
                     THEN IF mode.call = "navigate" THEN "idle" ELSE "enable"
                     ELSE IF "dom" \in Todo THEN "inject"
                     ELSE IF "visible" \in Todo THEN "visible" ELSE "appear"
            /\ UNCHANGED outcome
    /\ UNCHANGED <<mode, events, listening, stable, last, results>>

-----------------------------------------------------------------------------
(* WaitForNetworkIdle *)

EnableLifecycleEvents ==
    /\ at = "enable"
    /\ \/ ~expired /\ at' = "check" /\ UNCHANGED <<results, outcome>>
       \/ Ended("network", FALSE)
    /\ UNCHANGED <<mode, events, listening, stable, last>>

\* The pre-check: a complete document without pending resources is taken for
\* idle.  An idle page has none; the check may find none before that, and an
\* error of it is skipped.
PreCheck ==
    /\ at = "check"
    /\ \/ ~expired /\ page.complete /\ Ended("network", TRUE)
       \/ (expired \/ ~page.idle) /\ at' = "subscribe" /\ UNCHANGED <<results, outcome>>
    /\ UNCHANGED <<mode, events, listening, stable, last>>

Subscribe ==
    /\ at = "subscribe"
    /\ listening' = TRUE
    /\ at' = "idle"
    /\ UNCHANGED <<mode, events, stable, last, results, outcome>>

\* The select takes either case that is ready.
AwaitIdle ==
    /\ at = "idle"
    /\ \/ heard /\ Ended("network", TRUE)
       \/ expired /\ Ended("network", FALSE)
    /\ UNCHANGED <<mode, events, listening, stable, last>>

-----------------------------------------------------------------------------
(* WaitForDOMStable and the waits for an element *)

Done(ok) == IF mode.call = "route"
            THEN Return(IF ok THEN "ok" ELSE "error") /\ UNCHANGED results
            ELSE Ended("dom", ok)

Inject ==
    /\ at = "inject"
    /\ \/ /\ ~expired
          /\ at' = "poll" /\ mutations' = 0 /\ last' = 0 /\ stable' = 0 /\ quietFor' = 0
          /\ UNCHANGED <<results, outcome>>
       \/ Done(FALSE) /\ UNCHANGED <<mutations, last, stable, quietFor>>
    /\ UNCHANGED <<mode, page, heard, expired, listening>>

\* mutant: the window goes on when the counter has moved.
MovedGoesOn == last' = mutations /\ stable' = IF stable < StableFor THEN stable + 1 ELSE stable

\* The counter moved: the window begins anew.
Moved == last' = mutations /\ stable' = 0

Poll ==
    /\ at = "poll" /\ ~expired
    /\ quietFor' = IF quietFor < StableFor THEN quietFor + 1 ELSE quietFor
    /\ IF mutations = last
       THEN /\ UNCHANGED last
            /\ stable' = stable + 1
            /\ IF stable + 1 >= StableFor THEN Done(TRUE) ELSE UNCHANGED <<at, results, outcome>>
       ELSE Moved /\ UNCHANGED <<at, results, outcome>>
    /\ UNCHANGED <<mode, page, mutations, heard, expired, listening>>

PollFails ==
    /\ at = "poll"
    /\ stable' = 0
    /\ UNCHANGED <<mode, at, events, listening, last, results, outcome>>

PollExpires ==
    /\ at = "poll" /\ expired
    /\ Done(FALSE)
    /\ UNCHANGED <<mode, events, listening, stable, last>>

WaitForElement ==
    /\ at = "visible"
    /\ \/ page.visible /\ Ended("visible", TRUE)
       \/ expired /\ Ended("visible", FALSE)
    /\ UNCHANGED <<mode, events, listening, stable, last>>

\* mutant: the poll of the property does not look at the context.
WaitForElementEnabledDeaf ==
    /\ \/ at = "appear" /\ page.visible /\ at' = "enabled" /\ UNCHANGED <<results, outcome>>
       \/ at = "enabled" /\ page.enabled /\ Ended("enabled", TRUE)
       \/ at = "appear" /\ expired /\ Ended("enabled", FALSE)
    /\ UNCHANGED <<mode, events, listening, stable, last>>

\* WaitForElementEnabled waits for the element and then polls its property.
WaitForElementEnabled ==
    /\ \/ at = "appear" /\ page.visible /\ at' = "enabled" /\ UNCHANGED <<results, outcome>>
       \/ at = "enabled" /\ page.enabled /\ Ended("enabled", TRUE)
       \/ at \in {"appear", "enabled"} /\ expired /\ Ended("enabled", FALSE)
    /\ UNCHANGED <<mode, events, listening, stable, last>>

WaitForSPARouteChange ==
    /\ at = "url"
    /\ \/ page.moved /\ at' = "inject" /\ UNCHANGED outcome
       \/ expired /\ Return("error")
    /\ UNCHANGED <<mode, events, listening, stable, last, results>>

Goes == \/ Prepare \/ Navigate \/ Begin \/ NextStrategy
        \/ EnableLifecycleEvents \/ PreCheck \/ Subscribe \/ AwaitIdle
        \/ Inject \/ Poll \/ PollFails \/ PollExpires
        \/ WaitForElement \/ WaitForElementEnabled \/ WaitForSPARouteChange

Next == Completes \/ FallsIdle \/ Changes \/ Mutates \/ Expires \/ Goes

\* The call goes on; its context expires, and a poll that finds it expired ends.
Progress == Goes
Timeouts == Expires \/ PollExpires

-----------------------------------------------------------------------------
(* Properties *)

\* A call of several strategies keeps one result for each it tried, in the
\* order of the strategies.  It fails on a strategy only without ContinueOnErr
\* and at once, and it succeeds only after all of its strategies were tried.
ResultsTellTheCall ==
    LET tried(n) == {results[i].strategy : i \in 1..n}
        failed == {i \in DOMAIN results : ~results[i].ok} IN
    mode.call # "route" =>
        /\ \A n \in DOMAIN results :
              LET s == results[n].strategy IN
              /\ s \in mode.strategies
              /\ tried(n - 1) = {r \in mode.strategies : Place[r] < Place[s]}
        /\ ~mode.continueOnErr => failed \subseteq {Len(results)}
        /\ outcome = "ok" => Todo = {} /\ (mode.continueOnErr \/ failed = {})
        /\ outcome = "error" => (results = <<>> \/ (~mode.continueOnErr /\ failed # {}))

\* The DOM is called stable only when no mutation fell into the last StableFor
\* polls, errors of a poll and mutations between two polls included.
StableIsQuiet ==
    /\ at = "poll" /\ mutations = last => quietFor >= stable
    /\ (\E i \in DOMAIN results : results[i].strategy = "dom" /\ results[i].ok)
          => stable >= StableFor /\ quietFor >= StableFor

\* With the listener in place before the navigation no networkIdle is missed.
NavigationHearsIdle ==
    mode.call = "navigate" /\ at = "idle" => (page.idle => heard)

\* The call returns, by its timeout if nothing else.
Returned == at = "returned"

=============================================================================
