---------------------------- MODULE MCPromptRoute ----------------------------
(* Small instance of PromptRoute for TLC: two projects of one session each. *)
EXTENDS PromptRoute, TLC

CONSTANTS p1, p2, s1, s2

MCHome == s1 :> p1 @@ s2 :> p2

=============================================================================
