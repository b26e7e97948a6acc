---------------------------- MODULE MemberAgent -----------------------------
(***************************************************************************)
(* uiauto.MemberAgent.RunTask (pkg/uiauto/member_agent.go): a task is a    *)
(* sequence of actions on targets.  A failed action is healed and tried    *)
(* once more; a circuit breaker per target, shared by all tasks of the     *)
(* agent, skips targets that keep failing.                                 *)
(*                                                                         *)
(* Whether ExecuteAction or Heal succeeds is decided in ModelRouter and    *)
(* SelfHealer; here both outcomes are always possible.                     *)
(***************************************************************************)
EXTENDS Breaker, Sequences

CONSTANTS Tasks,   \* concurrent calls of RunTask
          Targets,
          Plan,    \* [Tasks -> Seq(Targets)], the TargetIDs of the actions
          Rounds   \* bound: how often each task is run

\* The default configuration of a breaker has no window.
MemberAgentAssumption ==
    /\ IsFiniteSet(Tasks)
    /\ WindowSize = 0
    /\ Plan \in [Tasks -> Seq(Targets)]
    /\ \A k \in Tasks : Plan[k] # <<>>
    /\ Rounds \in Nat

VARIABLES breaker,  \* targetCBs; a missing entry is a new breaker
          degraded, \* m.degraded
          task,     \* per task: status, step, pc of the step, and results
          rounds,   \* per task: runs begun, up to Rounds
          failing,  \* history, per target: runs that ended on it since its
                    \* last success or Cooldown
          exhausted \* history: those that did with no heal since that moment

vars == <<breaker, degraded, task, rounds, failing, exhausted>>

\* ActionResults, by what they say: err is followed by the retry's result
\* when the heal succeeded.
ActionResult == {"ok", "skipped", "err", "retry_ok", "retry_err"}

TaskStatus == {"pending", "running", "healing", "completed", "failed"}

TypeOK ==
    /\ breaker \in [Targets -> BreakerState]
    /\ degraded \in BOOLEAN
    /\ task \in [Tasks -> [status  : TaskStatus,
                           step    : Nat \ {0},
                           pc      : {"ask", "execute", "heal", "retry"},
                           results : Seq(ActionResult)]]
    /\ \A k \in Tasks : task[k].step <= Len(Plan[k]) + 1
    /\ rounds \in [Tasks -> 0..Rounds]
    /\ failing \in [Targets -> 0..CounterCap]
    /\ exhausted \in [Targets -> 0..CounterCap]

Fresh(status) == [status |-> status, step |-> 1, pc |-> "ask", results |-> <<>>]

Init ==
    /\ breaker = [t \in Targets |-> NewBreaker]
    /\ degraded = FALSE
    /\ task = [k \in Tasks |-> Fresh("pending")]
    /\ rounds = [k \in Tasks |-> 0]
    /\ failing = [t \in Targets |-> 0]
    /\ exhausted = [t \in Targets |-> 0]

----------------------------------------------------------------------------
\* RunTask.

Over(k) == task[k].status \in {"pending", "completed", "failed"}
Active(k, pc) == ~Over(k) /\ task[k].step <= Len(Plan[k]) /\ task[k].pc = pc
Current(k) == Plan[k][task[k].step]

RunTask(k) ==
    /\ Over(k)
    /\ rounds[k] < Rounds
    /\ rounds' = [rounds EXCEPT ![k] = @ + 1]
    /\ task' = [task EXCEPT ![k] = Fresh("running")]
    /\ UNCHANGED <<breaker, degraded, failing, exhausted>>

Stay(k, pc, status) == [task[k] EXCEPT !.pc = pc, !.status = status]
WithResult(st, r)   == [st EXCEPT !.results = Append(@, r)]
NextStep(st)        == [st EXCEPT !.step = @ + 1, !.pc = "ask", !.status = "running"]
Failed(st)          == [st EXCEPT !.status = "failed"]

SkipInPlace(k) == \* mutant: the loop does not move on
    /\ Active(k, "ask")
    /\ ~Admits(breaker[Current(k)])
    /\ degraded' = TRUE
    /\ UNCHANGED <<breaker, task, rounds, failing, exhausted>>

\* The breaker is asked; an open one skips the action.
Skip(k) ==
    /\ Active(k, "ask")
    /\ ~Admits(breaker[Current(k)])
    /\ degraded' = TRUE
    /\ task' = [task EXCEPT ![k] = NextStep(WithResult(@, "skipped"))]
    /\ UNCHANGED <<breaker, rounds, failing, exhausted>>

Admit(k) ==
    /\ Active(k, "ask")
    /\ Admits(breaker[Current(k)])
    /\ breaker' = [breaker EXCEPT ![Current(k)] = AfterAllow(@)]
    /\ task' = [task EXCEPT ![k].pc = "execute"]
    /\ UNCHANGED <<degraded, rounds, failing, exhausted>>

ActionSucceeds(k) ==
    /\ Active(k, "execute")
    /\ breaker' = [breaker EXCEPT ![Current(k)] = AfterSuccess(@)]
    /\ task' = [task EXCEPT ![k] = NextStep(WithResult(@, "ok"))]
    /\ failing' = [failing EXCEPT ![Current(k)] = 0]
    /\ exhausted' = [exhausted EXCEPT ![Current(k)] = 0]
    /\ UNCHANGED <<degraded, rounds>>

ActionFails(k) ==
    /\ Active(k, "execute")
    /\ task' = [task EXCEPT ![k] = WithResult(Stay(k, "heal", "healing"), "err")]
    /\ UNCHANGED <<breaker, degraded, rounds, failing, exhausted>>

\* The heal counts as a success of the target, before the retry.
HealSucceeds(k) ==
    /\ Active(k, "heal")
    /\ breaker' = [breaker EXCEPT ![Current(k)] = AfterSuccess(@)]
    /\ task' = [task EXCEPT ![k].pc = "retry"]
    /\ exhausted' = [exhausted EXCEPT ![Current(k)] = 0]
    /\ UNCHANGED <<degraded, rounds, failing>>

HealFailsOn(k) == \* mutant: the task goes on with its next action
    /\ Active(k, "heal")
    /\ breaker' = [breaker EXCEPT ![Current(k)] = AfterFailure(@)]
    /\ task' = [task EXCEPT ![k] = NextStep(@)]
    /\ failing' = [failing EXCEPT ![Current(k)] = Bump(@)]
    /\ exhausted' = [exhausted EXCEPT ![Current(k)] = Bump(@)]
    /\ UNCHANGED <<degraded, rounds>>

HealFailsSilently(k) == \* mutant: the breaker does not hear of it
    /\ Active(k, "heal")
    /\ task' = [task EXCEPT ![k] = Failed(@)]
    /\ failing' = [failing EXCEPT ![Current(k)] = Bump(@)]
    /\ exhausted' = [exhausted EXCEPT ![Current(k)] = Bump(@)]
    /\ UNCHANGED <<breaker, degraded, rounds>>

HealFails(k) ==
    /\ Active(k, "heal")
    /\ breaker' = [breaker EXCEPT ![Current(k)] = AfterFailure(@)]
    /\ task' = [task EXCEPT ![k] = Failed(@)]
    /\ failing' = [failing EXCEPT ![Current(k)] = Bump(@)]
    /\ exhausted' = [exhausted EXCEPT ![Current(k)] = Bump(@)]
    /\ UNCHANGED <<degraded, rounds>>

RetrySucceeds(k) ==
    /\ Active(k, "retry")
    /\ task' = [task EXCEPT ![k] = NextStep(WithResult(@, "retry_ok"))]
    /\ failing' = [failing EXCEPT ![Current(k)] = 0]
    /\ UNCHANGED <<breaker, degraded, rounds, exhausted>>

RetryFails(k) ==
    /\ Active(k, "retry")
    /\ breaker' = [breaker EXCEPT ![Current(k)] = AfterFailure(@)]
    /\ task' = [task EXCEPT ![k] = Failed(WithResult(@, "retry_err"))]
    /\ failing' = [failing EXCEPT ![Current(k)] = Bump(@)]
    /\ UNCHANGED <<degraded, rounds, exhausted>>

\* The run also loads the pattern store: Load of module PatternStore.
Complete(k) ==
    /\ ~Over(k)
    /\ task[k].step > Len(Plan[k])
    /\ task' = [task EXCEPT ![k].status = "completed"]
    /\ UNCHANGED <<breaker, degraded, rounds, failing, exhausted>>

Cooldown(t) ==
    /\ ~breaker[t].cooled
    /\ breaker' = [breaker EXCEPT ![t] = AfterCooldown(@)]
    /\ failing' = [failing EXCEPT ![t] = 0]
    /\ exhausted' = [exhausted EXCEPT ![t] = 0]
    /\ UNCHANGED <<degraded, task, rounds>>

TaskStep(k) ==
    \/ Skip(k) \/ Admit(k)
    \/ ActionSucceeds(k) \/ ActionFails(k)
    \/ HealSucceeds(k) \/ HealFails(k)
    \/ RetrySucceeds(k) \/ RetryFails(k)
    \/ Complete(k)

Next ==
    \/ \E k \in Tasks : RunTask(k) \/ TaskStep(k)
    \/ \E t \in Targets : Cooldown(t)

Spec == Init /\ [][Next]_vars

\* A run goes on: actions, heals and retries end.
Progress == \E k \in Tasks : TaskStep(k)

----------------------------------------------------------------------------
\* Properties.

\* A completed task accounts for every action: it succeeded, it was skipped,
\* or its error was repaired by the retry that comes right after it.
CompletedIsAccounted ==
    \A k \in Tasks : task[k].status = "completed" =>
        LET rs == task[k].results
        IN  /\ Cardinality({i \in DOMAIN rs : rs[i] # "err"}) = Len(Plan[k])
            /\ \A i \in DOMAIN rs : rs[i] = "err"
                   => i + 1 \in DOMAIN rs /\ rs[i + 1] = "retry_ok"

\* A target that nothing heals ends at most this many runs before its breaker
\* must cool down, whatever the tasks that share the breaker do meanwhile.
ExhaustedPerCooldown ==
    \A t \in Targets : exhausted[t] <= FailureThreshold - 1 + Cardinality(Tasks)

Returned == \A k \in Tasks : Over(k)

\* member_agent.go:316 "if a target repeatedly fails, it is skipped rather
\* than blocking the entire task": the same bound for runs that fail in any way.
RepeatedlyFailingIsSkipped ==
    \A t \in Targets : failing[t] <= FailureThreshold - 1 + Cardinality(Tasks)

=============================================================================
