----------------------------- MODULE ExecutionOnce -----------------------------
(***************************************************************************)
(* What the execution claim promises, without runs, retries or messages:   *)
(* an ingress decision is taken over by at most one executor, for good,    *)
(* and that executor calls the infrastructure adapter at most once         *)
(* (SECURITY.md, "One execution per ingress decision").                    *)
(***************************************************************************)
EXTENDS Naturals

CONSTANTS Decisions, Executors, None

VARIABLES executor,   \* decision -> who passed the fence, or None
          called      \* decision -> how often the adapter was called for it

Init ==
    /\ executor = [d \in Decisions |-> None]
    /\ called = [d \in Decisions |-> 0]

Fence(d, e) ==
    /\ executor[d] = None
    /\ executor' = [executor EXCEPT ![d] = e]
    /\ UNCHANGED called

Call(d) ==
    /\ executor[d] # None
    /\ called[d] = 0
    /\ called' = [called EXCEPT ![d] = 1]
    /\ UNCHANGED executor

Next == \E d \in Decisions : Call(d) \/ \E e \in Executors : Fence(d, e)

Spec == Init /\ [][Next]_<<executor, called>>
=============================================================================
