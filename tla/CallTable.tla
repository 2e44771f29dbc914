------------------------------- MODULE CallTable -------------------------------
(***************************************************************************)
(* What hooking promises to the callers of a function: a call goes through *)
(* the hooks installed on it, the newest first, and then to the function.  *)
(* HookChain implements it.                                                *)
(***************************************************************************)
EXTENDS Sequences, SequencesExt

CONSTANTS Func, HookFn

VARIABLE hooks  \* hooks[f]: the hooks a call of f goes through

Init == \A f \in Func : hooks[f] = <<>>

Only(f) == \A g \in Func \ {f} : hooks'[g] = hooks[g]

Install(f, h) ==
  /\ Only(f)
  /\ \A g \in Func : ~Contains(hooks[g], h)
  /\ hooks'[f] = <<h>> \o hooks[f]

(* Restoring the bytes a hook replaced cuts off the hooks that came after it too. *)
CutOff(f) ==
  /\ Only(f)
  /\ IsStrictSuffix(hooks'[f], hooks[f])

Next == \E f \in Func : CutOff(f) \/ \E h \in HookFn : Install(f, h)

Spec == Init /\ [][Next]_hooks
===============================================================================
