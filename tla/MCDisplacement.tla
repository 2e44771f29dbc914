---------------------------- MODULE MCDisplacement ----------------------------
(* Displacement with a reach of sixteen bytes: functions at the bottom, on both
   sides of the 2 GB line and above it, hooks near, at the limit and far.   *)
EXTENDS Displacement

MCAddr == 2 .. 47
MCFunc == {3, 15, 16, 30}
MCHook == {2, 3, 16, 17, 44, 45}
MCDisp == -Half .. Half - 1
===============================================================================
