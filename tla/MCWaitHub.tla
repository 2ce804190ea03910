----------------------------- MODULE MCWaitHub -----------------------------
(* Small instance of WaitHub for TLC: both tasks belong to one owner. *)
EXTENDS WaitHub

CONSTANT owner

MCOwner == [k \in Tasks |-> owner]

=============================================================================
