----------------------------- MODULE MCWaitTasks -----------------------------
(* An instance of WaitHub with more tasks: k1 and k2 belong to one owner, k3 to another. *)
EXTENDS WaitHub

CONSTANTS k1, k2, k3, owner1, owner2

MCOwner == (k1 :> owner1) @@ (k2 :> owner1) @@ (k3 :> owner2)

=============================================================================
