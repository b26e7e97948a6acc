--------------------------- MODULE ProviderRouting --------------------------
(***************************************************************************)
(* llm.SemanticRouter (pkg/llm/semantic_router.go) over llm.TieredRouter   *)
(* (pkg/llm/router.go): a request goes to the providers of the model tiers *)
(* its task prefers, and if all of them fail or are resting, to the tiered *)
(* router, which tries every provider once more.  The health of a provider *)
(* is shared by all calls; a provider rests after three failures in a row. *)
(*                                                                         *)
(* A request is made once.  Whether the cooldown of a provider has passed *)
(* is a choice of the environment: cooled.                                 *)
(***************************************************************************)
EXTENDS Integers, Sequences, FiniteSets, Functions

CONSTANTS Requests,       \* calls of CompleteWithTask
          Providers,      \* sequence of names, as given to NewSemanticRouter
          ModelTier,      \* per provider: ModelTierTag
          Capabilities,   \* per provider: the tasks it lists, {} for all
          Rank,           \* per provider: its Tier
          Threshold       \* failures that make a provider rest, 3 in the code

VARIABLES health,    \* per provider: healthy, failCount and the elapsed time
          route,     \* per request: its CompleteWithTask
          counted,   \* metrics: RequestsByTask, RequestsByTier, Fallbacks
          blamed     \* history, per provider: the calls whose failures failCount counts

vars == <<health, route, counted, blamed>>

Names == Range(Providers)

\* Order of ClassifyTask: the first group of words found decides.
Tasks == <<"visual", "discovery", "pattern_replay", "synthesis", "evaluation">>
ClassifyTask(found) ==
    IF found = {} THEN "general"
    ELSE Tasks[CHOOSE i \in 1..Len(Tasks) :
                  Tasks[i] \in found /\ \A j \in 1..i - 1 : Tasks[j] \notin found]

TaskTierMap ==
    [discovery      |-> <<"powerful", "balanced">>,
     pattern_replay |-> <<"fast", "balanced">>,
     visual         |-> <<"vlm", "powerful">>,
     synthesis      |-> <<"powerful", "balanced">>,
     evaluation     |-> <<"balanced", "fast">>,
     general        |-> <<"balanced", "fast", "powerful">>]

CapableOf(p, task) == Capabilities[p] = {} \/ task \in Capabilities[p]

\* The elements of S in the order of key, and in the order given to
\* NewSemanticRouter where keys are equal: one list.
Place(p) == CHOOSE i \in DOMAIN Providers : Providers[i] = p
InOrder(S, key) ==
    {list \in Bijection(1..Cardinality(S), S) :
        \A i, j \in DOMAIN list : i < j =>
            \/ key[list[i]] < key[list[j]]
            \/ key[list[i]] = key[list[j]] /\ Place(list[i]) < Place(list[j])}

\* The capable providers of the preferred tiers, tier after tier.
Candidates(task) ==
    LET turn == [p \in Names |-> {i \in DOMAIN TaskTierMap[task] :
                                   TaskTierMap[task][i] = ModelTier[p]}]
        S    == {p \in Names : turn[p] # {} /\ CapableOf(p, task)}
    IN  InOrder(S, [p \in S |-> CHOOSE i \in turn[p] : TRUE])

\* NewTieredRouter sorts by tier and keeps the order within a tier.
Tiered == InOrder(Names, Rank)

TypeOK ==
    /\ health \in [Names -> [healthy : BOOLEAN, failCount : Nat, cooled : BOOLEAN]]
    /\ route \in [Requests -> [pc : {"out", "semantic", "tiered", "call", "ok", "error"},
                              stage : {"semantic", "tiered"}, todo : Seq(Names)]]
    /\ counted \in [task : Nat, tier : Nat, fallbacks : Nat]
    /\ blamed \in [Names -> SUBSET Requests]

Init ==
    /\ health = [p \in Names |-> [healthy |-> TRUE, failCount |-> 0, cooled |-> FALSE]]
    /\ route = [c \in Requests |-> [pc |-> "out", stage |-> "semantic", todo |-> <<>>]]
    /\ counted = [task |-> 0, tier |-> 0, fallbacks |-> 0]
    /\ blamed = [p \in Names |-> {}]

----------------------------------------------------------------------------
\* Provider health: isAvailable, recordSuccess, recordFailure.

IsAvailable(h) == h.healthy \/ h.cooled
Looked(h)      == IF h.healthy \/ ~h.cooled THEN h
                  ELSE [healthy |-> TRUE, failCount |-> 0, cooled |-> FALSE]
RecordSuccess(h) == [healthy |-> TRUE, failCount |-> 0, cooled |-> h.cooled]

RecordFailureAtTwo(h) == \* mutant: one failure less is enough
    [healthy |-> h.healthy /\ h.failCount + 1 < Threshold - 1,
     failCount |-> h.failCount + 1, cooled |-> FALSE]

RecordFailure(h) ==
    [healthy |-> h.healthy /\ h.failCount + 1 < Threshold,
     failCount |-> h.failCount + 1, cooled |-> FALSE]

----------------------------------------------------------------------------
\* CompleteWithTask.

Asked(c) == Head(route[c].todo)
At(pc, stage, todo) == [pc |-> pc, stage |-> stage, todo |-> todo]

Begin(c) ==
    /\ route[c].pc = "out"
    /\ \E found \in SUBSET Range(Tasks) :
         \E todo \in Candidates(ClassifyTask(found)) :
            route' = [route EXCEPT ![c] = At("semantic", "semantic", todo)]
    /\ counted' = [counted EXCEPT !.task = @ + 1]
    /\ UNCHANGED <<health, blamed>>

\* The next provider is asked if it is available and passed over if not.
Try(c) ==
    /\ route[c].pc \in {"semantic", "tiered"} /\ route[c].todo # <<>>
    /\ LET p == Asked(c)
           h == health[p]
       IN  /\ health' = [health EXCEPT ![p] = Looked(h)]
           /\ blamed' = IF Looked(h) # h THEN [blamed EXCEPT ![p] = {}] ELSE blamed
           /\ route' = [route EXCEPT ![c] =
                 IF IsAvailable(h) THEN At("call", @.stage, @.todo)
                 ELSE At(@.pc, @.stage, Tail(@.todo))]
    /\ UNCHANGED counted

Succeeds(c) ==
    /\ route[c].pc = "call"
    /\ LET p == Asked(c)
       IN  /\ health' = [health EXCEPT ![p] = RecordSuccess(@)]
           /\ blamed' = [blamed EXCEPT ![p] = {}]
    /\ route' = [route EXCEPT ![c] = At("ok", @.stage, <<>>)]
    /\ counted' = IF route[c].stage = "semantic"
                  THEN [counted EXCEPT !.tier = @ + 1] ELSE counted

Fails(c) ==
    /\ route[c].pc = "call"
    /\ LET p == Asked(c)
       IN  /\ health' = [health EXCEPT ![p] = RecordFailure(@)]
           /\ blamed' = [blamed EXCEPT ![p] = @ \cup {c}]
    /\ route' = [route EXCEPT ![c] = At(@.stage, @.stage, Tail(@.todo))]
    /\ UNCHANGED counted

FallBackUncounted(c) == \* mutant: the fallback is not counted
    /\ route[c].pc = "semantic" /\ route[c].todo = <<>>
    /\ \E todo \in Tiered : route' = [route EXCEPT ![c] = At("tiered", "tiered", todo)]
    /\ UNCHANGED <<health, blamed, counted>>

FallBack(c) ==
    /\ route[c].pc = "semantic" /\ route[c].todo = <<>>
    /\ \E todo \in Tiered : route' = [route EXCEPT ![c] = At("tiered", "tiered", todo)]
    /\ counted' = [counted EXCEPT !.fallbacks = @ + 1]
    /\ UNCHANGED <<health, blamed>>

AllFailed(c) ==
    /\ route[c].pc = "tiered" /\ route[c].todo = <<>>
    /\ route' = [route EXCEPT ![c] = At("error", @.stage, <<>>)]
    /\ UNCHANGED <<health, counted, blamed>>

Cooldown(p) ==
    /\ ~health[p].healthy /\ ~health[p].cooled
    /\ health' = [health EXCEPT ![p] = [@ EXCEPT !.cooled = TRUE]]
    /\ UNCHANGED <<route, counted, blamed>>

Progress ==
    \E c \in Requests : Try(c) \/ Succeeds(c) \/ Fails(c) \/ FallBack(c) \/ AllFailed(c)
Next == Progress \/ (\E c \in Requests : Begin(c)) \/ (\E p \in Names : Cooldown(p))

----------------------------------------------------------------------------
\* Properties.

\* A request alone never takes a provider out of service, though the fallback
\* asks a provider again that failed it a moment ago: it takes the failures
\* of two requests.
OneRequestIsNoVerdict ==
    \A p \in Names : ~health[p].healthy => Cardinality(blamed[p]) >= 2

\* The metrics place every request of the router: answered by a tier,
\* fallen back, or still among the candidates.
RoutesAddUp ==
    counted.task = counted.tier + counted.fallbacks
      + Cardinality({c \in Requests : route[c].stage = "semantic"
                                       /\ route[c].pc \in {"semantic", "call"}})

\* A provider that rests is not asked: the calls under way to it were all
\* let through before, so its failures stay below this.
RestingIsSpared ==
    \A p \in Names : health[p].failCount <= Threshold - 1 + Cardinality(Requests)

Returned == \A c \in Requests : route[c].pc \in {"out", "ok", "error"}

=============================================================================
