------------------------- MODULE CompletionService --------------------------
(***************************************************************************)
(* What a wrapper of llm.Provider (pkg/llm/client.go) promises of its      *)
(* Complete: the wrapped provider is asked at most once for a request, an  *)
(* answer the caller gets is the one the provider gave, and a caller that  *)
(* is turned away is told so once and for all.  The provider may still be  *)
(* asked after the caller was turned away.                                 *)
(***************************************************************************)
CONSTANT Callers

VARIABLES given,     \* per caller: what the provider answered, or "none"
          returned   \* per caller: "out", "in", "refused" or the answer

Answers == {"resp", "err"}

Init ==
    /\ given = [c \in Callers |-> "none"]
    /\ returned = [c \in Callers |-> "out"]

Ask(c) ==
    /\ returned[c] = "out"
    /\ \E r \in {"in", "refused"} : returned' = [returned EXCEPT ![c] = r]
    /\ UNCHANGED given

Give(c) ==
    /\ given[c] = "none" /\ returned[c] # "out"
    /\ \E a \in Answers : given' = [given EXCEPT ![c] = a]
    /\ UNCHANGED returned

Return(c) ==
    /\ returned[c] = "in"
    /\ \E r \in {"refused", given[c]} \ {"none"} :
          returned' = [returned EXCEPT ![c] = r]
    /\ UNCHANGED given

Next == \E c \in Callers : Ask(c) \/ Give(c) \/ Return(c)

Spec == Init /\ [][Next]_<<given, returned>>

=============================================================================
