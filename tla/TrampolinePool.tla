---------------------------- MODULE TrampolinePool ----------------------------
(***************************************************************************)
(* What the trampoline allocator of mhook.c promises to Mhook_SetHook and  *)
(* Mhook_Unhook: a pool that hands every trampoline to one hook at a time, *)
(* takes back only what was never used, and never hands out again what a   *)
(* removed hook has used.  TrampolineList implements it.                   *)
(***************************************************************************)
CONSTANT Block  \* the sets of trampolines that the pool may grow by

VARIABLES
  known,  \* trampolines in memory the allocator has obtained
  free,   \* those that may be handed out
  used,   \* those that were handed out
  live    \* those whose code a hooked function runs through

vars == <<known, free, used, live>>

Init == known = {} /\ free = {} /\ used = {} /\ live = {}

Grow(b) ==
  /\ b \intersect known = {}
  /\ known' = known \union b
  /\ free' = free \union b
  /\ UNCHANGED <<used, live>>

(* A failed allocation may cost the free trampolines, never the used ones. *)
Lose ==
  /\ free' = {}
  /\ UNCHANGED <<known, used, live>>

Take(t) ==
  /\ t \in free
  /\ free' = free \ {t}
  /\ used' = used \union {t}
  /\ UNCHANGED <<known, live>>

Activate(t) ==
  /\ t \in used \ live
  /\ live' = live \union {t}
  /\ UNCHANGED <<known, free, used>>

GiveBack(t) ==
  /\ t \in used \ live
  /\ free' = free \union {t}
  /\ used' = used \ {t}
  /\ UNCHANGED <<known, live>>

Retire(t) ==
  /\ t \in live
  /\ used' = used \ {t}
  /\ live' = live \ {t}
  /\ UNCHANGED <<known, free>>

Next ==
  \/ \E b \in Block : Grow(b)
  \/ Lose
  \/ \E t \in known : Take(t) \/ Activate(t) \/ GiveBack(t) \/ Retire(t)

Spec == Init /\ [][Next]_vars
===============================================================================
