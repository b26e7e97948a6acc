------------------------------ MODULE LLMClient -----------------------------
(***************************************************************************)
(* One Complete of the clients of pkg/llm: Client (client.go) and          *)
(* BedrockClient (bedrock_client.go) repeat a request that was answered    *)
(* with 429 after a pause, whose length decides nothing; OllamaClient and  *)
(* ClaudeCLIClient ask once.  What comes back is a class of answer, chosen *)
(* outside; each client has its own view of what is an answer.             *)
(***************************************************************************)
EXTENDS Integers, Sequences, FiniteSets

CONSTANTS MaxRetries     \* maxRetries, 3 in the code

VARIABLES kind,          \* which client is asked
          attempt,       \* attempts made
          replies,       \* history: the answers to the attempts
          outcome        \* "idle", "send", "sleep", or what Complete returns

vars == <<kind, attempt, replies, outcome>>

Kinds == {"openai", "bedrock", "ollama", "claude"}
\* ok: a complete answer; plain: text that is not JSON; blank: nothing;
\* large: JSON longer than maxResponseSize; refusal: the CLI's is_error.
\* timeout: the context ended while the command ran.
Bodies  == {"ok", "plain", "blank", "large", "refusal"}
Replies == Bodies \cup {"429", "status", "transport", "timeout"}
Errors  == {"ErrEmptyMessages", "ErrLLMClient", "APIError", "ctx.Err", "ErrLLMTimeout"}

\* What a client can be answered: a command has no HTTP status, and only a
\* command reports its own failure in an answer.
Possible(c) == IF c = "claude" THEN Replies \ {"429", "status", "large"}
               ELSE Replies \ {"refusal", "timeout"}

TypeOK ==
    /\ kind \in Kinds
    /\ attempt \in 0..MaxRetries + 1
    /\ replies \in Seq(Replies) /\ Len(replies) = attempt
    /\ outcome \in {"idle", "send", "sleep", "response"} \cup Errors

Init ==
    /\ kind \in Kinds
    /\ attempt = 0
    /\ replies = <<>>
    /\ outcome = "idle"

\* A request without messages is refused before anything is sent.
Begin ==
    /\ outcome = "idle"
    /\ outcome' \in {"send", "ErrEmptyMessages"}
    /\ UNCHANGED <<kind, attempt, replies>>

\* doRequest reads up to one byte past maxResponseSize and refuses what is
\* longer; what is no JSON fails to decode.
Decoded(r) ==
    CASE r = "ok" -> "response"
      [] r \in {"429", "status"} -> "APIError"
      [] OTHER -> "ErrLLMClient"

\* Ollama does not look at the length: what was cut off fails to decode, so
\* the verdicts are the same.
DecodedOllama(r) ==
    IF r = "ok" THEN "response"
    ELSE IF r \in {"429", "status"} THEN "APIError" ELSE "ErrLLMClient"

\* ClaudeCLIClient.Complete: text that is not JSON is the answer, unless blank.
DecodedCLI(r) ==
    CASE r \in {"ok", "plain"} -> "response"
      [] r = "timeout" -> "ErrLLMTimeout"
      [] OTHER -> "ErrLLMClient"

Retries(c) == c \in {"openai", "bedrock"}

SendForever == \* mutant: the attempts are not counted
    /\ outcome = "send"
    /\ \E r \in Possible(kind) :
        /\ replies' = Append(replies, r)
        /\ attempt' = attempt + 1
        /\ outcome' = CASE kind = "claude" -> DecodedCLI(r)
                        [] kind = "ollama" -> DecodedOllama(r)
                        [] Retries(kind) /\ r = "429" -> "sleep"
                        [] OTHER -> Decoded(r)
    /\ UNCHANGED kind

Send ==
    /\ outcome = "send"
    /\ \E r \in Possible(kind) :
        /\ replies' = Append(replies, r)
        /\ attempt' = attempt + 1
        /\ outcome' = CASE kind = "claude" -> DecodedCLI(r)
                        [] kind = "ollama" -> DecodedOllama(r)
                        [] Retries(kind) /\ r = "429" /\ attempt < MaxRetries -> "sleep"
                        [] OTHER -> Decoded(r)
    /\ UNCHANGED kind

\* The pause before the next attempt passes, or the context ends in it.
Sleep ==
    /\ outcome = "sleep"
    /\ outcome' \in {"send", "ctx.Err"}
    /\ UNCHANGED <<kind, attempt, replies>>

Progress == Send \/ Sleep
Next == Begin \/ Progress

----------------------------------------------------------------------------
\* Properties.

\* A provider that refuses is asked at most MaxRetries + 1 times, and a
\* request is only ever repeated after a 429: a request that may have been
\* carried out is never sent twice.
RepeatedOnlyIfRefused ==
    /\ attempt <= MaxRetries + 1
    /\ \A i \in 1..Len(replies) - 1 : replies[i] = "429"

\* A response is the last answer, whole: nothing cut off, no status error.
ResponseIsLast ==
    outcome = "response" => replies[Len(replies)] \in {"ok", "plain"}

Returned == outcome \notin {"send", "sleep"}

-----------------------------------------------------------------------------
(***************************************************************************)
(* llm.RateLimitedProvider (pkg/llm/rate_limited.go): waitForSlot keeps    *)
(* the times of the requests let through in the last window and lets a     *)
(* caller through if there are fewer than MaxAllowed of them; otherwise it *)
(* sleeps until the earliest leaves the window, and looks again.           *)
(*                                                                         *)
(* Time is counted in ticks.  An iteration runs under the lock.            *)
(***************************************************************************)
CONSTANTS Callers,
          MaxAllowed,   \* RequestsPerMinute + BurstSize, at least 1
          Window,
          MaxTime,      \* bound: ticks
          MaxGrants     \* bound: requests let through

VARIABLES now,
          tokens,       \* r.tokens
          sleeping,     \* per caller: awake, calling, or the time it sleeps until
          grants        \* history: the times of all requests let through

limiterVars == <<now, tokens, sleeping, grants>>

LimiterTypeOK ==
    /\ now \in 0..MaxTime
    /\ tokens \in Seq(0..MaxTime) /\ Len(tokens) <= MaxAllowed
    /\ sleeping \in [Callers -> {-2, -1} \cup 1..MaxTime + Window]
    /\ grants \in Seq(0..MaxTime)

Awake == -1
Out   == -2

LimiterInit ==
    /\ now = 0
    /\ tokens = <<>>
    /\ sleeping = [c \in Callers |-> Out]
    /\ grants = <<>>

\* What is left of the tokens after pruning.  They are in the order of their
\* times, so those that have left the window come first.
Valid(t) == t > now - Window
Live     == SubSeq(tokens, Cardinality({i \in DOMAIN tokens : ~Valid(tokens[i])}) + 1, Len(tokens))

LimiterBegin(c) ==
    /\ sleeping[c] = Out
    /\ Len(grants) + Cardinality({d \in Callers : sleeping[d] # Out}) < MaxGrants
    /\ sleeping' = [sleeping EXCEPT ![c] = Awake]
    /\ UNCHANGED <<now, tokens, grants>>

LookPrunedEarly(c) == \* mutant: a token is dropped one tick too early
    LET gone == {i \in DOMAIN tokens : ~Valid(tokens[i] - 1)}
        live == SubSeq(tokens, Cardinality(gone) + 1, Len(tokens))
    IN  /\ sleeping[c] = Awake
        /\ IF Len(live) < MaxAllowed
           THEN /\ tokens' = Append(live, now)
                /\ grants' = Append(grants, now)
                /\ sleeping' = [sleeping EXCEPT ![c] = Out]
           ELSE /\ tokens' = live
                /\ sleeping' = [sleeping EXCEPT ![c] = Head(live) + Window]
                /\ UNCHANGED grants
        /\ UNCHANGED now

\* An iteration of waitForSlot.  Tokens are in the order of their times, so
\* the first is the earliest.
Look(c) ==
    /\ sleeping[c] = Awake
    /\ IF Len(Live) < MaxAllowed
       THEN /\ tokens' = Append(Live, now)
            /\ grants' = Append(grants, now)
            /\ sleeping' = [sleeping EXCEPT ![c] = Out]
       ELSE /\ tokens' = Live
            /\ sleeping' = [sleeping EXCEPT ![c] = Head(Live) + Window]
            /\ UNCHANGED grants
    /\ UNCHANGED now

Wake(c) ==
    /\ sleeping[c] \in 1..now
    /\ sleeping' = [sleeping EXCEPT ![c] = Awake]
    /\ UNCHANGED <<now, tokens, grants>>

ContextEnds(c) ==
    /\ sleeping[c] > 0
    /\ sleeping' = [sleeping EXCEPT ![c] = Out]
    /\ UNCHANGED <<now, tokens, grants>>

Tick ==
    /\ now < MaxTime
    /\ now' = now + 1
    /\ UNCHANGED <<tokens, sleeping, grants>>

LimiterProgress == (\E c \in Callers : Look(c) \/ Wake(c)) \/ Tick
LimiterNext == LimiterProgress \/ \E c \in Callers : LimiterBegin(c) \/ ContextEnds(c)

----------------------------------------------------------------------------
\* Properties.

\* No window, wherever it begins, sees more than MaxAllowed requests, though
\* callers wake and look in any order.
RateKept ==
    \A t \in 0..MaxTime :
        Cardinality({i \in DOMAIN grants : grants[i] \in t..t + Window - 1}) <= MaxAllowed

=============================================================================
