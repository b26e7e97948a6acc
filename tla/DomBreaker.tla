----------------------------- MODULE DomBreaker -----------------------------
(***************************************************************************)
(* domheal.CircuitBreaker (pkg/domheal/circuit_breaker.go) as a record,    *)
(* with its methods as operators from the record before a call to the one  *)
(* after it.  Each method holds cb.mu throughout.  Unlike                  *)
(* uiauto.CircuitBreaker one success closes it in any state, and it opens  *)
(* from half-open because the failure count is kept while it is open.      *)
(***************************************************************************)
EXTENDS Integers

CONSTANTS BreakerThreshold,  \* threshold: consecutive failures; 3 in NewModelRouter
          FailureCap         \* bound: where the failure count saturates

ASSUME DomBreakerAssumption ==
    /\ BreakerThreshold \in Nat \ {0}
    /\ FailureCap \in Nat /\ FailureCap >= BreakerThreshold

DomBreakerState ==
    [state    : {"closed", "open", "half-open"},
     failures : 0..FailureCap,
     cooled   : BOOLEAN]         \* cooldown has passed since lastFailureAt

NewDomBreaker == [state |-> "closed", failures |-> 0, cooled |-> TRUE]

DomAdmits(b) == b.state # "open" \/ b.cooled

DomAllow(b) ==
    IF b.state = "open" /\ b.cooled THEN [b EXCEPT !.state = "half-open"] ELSE b

DomSuccess(b) == [b EXCEPT !.failures = 0, !.state = "closed"]

DomFailureTimeless(b) == \* mutant: lastFailureAt is not set
    LET n == IF b.failures < FailureCap THEN b.failures + 1 ELSE FailureCap
    IN  [b EXCEPT !.failures = n,
                  !.state = IF n >= BreakerThreshold THEN "open" ELSE @]

DomFailure(b) ==
    LET n == IF b.failures < FailureCap THEN b.failures + 1 ELSE FailureCap
    IN  [b EXCEPT !.failures = n, !.cooled = FALSE,
                  !.state = IF n >= BreakerThreshold THEN "open" ELSE @]

DomCooldown(b) == [b EXCEPT !.cooled = TRUE]

=============================================================================
