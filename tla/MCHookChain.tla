----------------------------- MODULE MCHookChain -----------------------------
(* HookChain with a function that is also reached through two thunks in a row. *)
EXTENDS HookChain

CONSTANTS f1, f2, i1, i2

MCLead == [a \in {i1, i2} |-> IF a = i1 THEN i2 ELSE f1]
===============================================================================
