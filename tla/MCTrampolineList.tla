--------------------------- MODULE MCTrampolineList ---------------------------
(* TrampolineList on small instances: a few regions, and functions whose
   windows hold some of them.                                               *)
EXTENDS TrampolineList

CONSTANTS r1, r2, r3, near, far, other

(* near has an IP-relative operand that narrows its window. *)
NestedWindows == [f \in {near, far} |-> IF f = near THEN {r1, r2} ELSE {r1, r2, r3}]

(* Two modules more than 2 GB apart. *)
DistantWindows == [f \in {near, far, other} |-> IF f = other THEN {r3} ELSE {r1, r2}]
===============================================================================
