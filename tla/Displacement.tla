----------------------------- MODULE Displacement -----------------------------
(***************************************************************************)
(* The addresses of one Mhook_SetHook (mhook-lib/mhook.c) on x64: how many *)
(* bytes of the function are moved, in which window a trampoline may lie,  *)
(* where a block for it is looked for, and whether the jumps and the       *)
(* relocated displacement fit.  Addresses are integers; the constants are  *)
(* those of the code, or smaller ones in the same proportions.             *)
(*                                                                         *)
(* An instruction that has a 32-bit displacement is at least MHOOK_JMPSIZE *)
(* bytes long, so it is the last one moved and there is at most one.       *)
(***************************************************************************)
EXTENDS Integers

CONSTANTS
  Half,        \* 2^31, the reach of a signed 32-bit displacement
  Reach,       \* 0x7fff0000, what EmitJump and Mhook_SetHook count as near
  Above,       \* 0x7ff80000, the size of the window above the function
  Granularity, \* the allocation granularity, 0x10000
  JmpSize,     \* MHOOK_JMPSIZE, the bytes of a near jump
  LongJmp,     \* 14, the bytes of a far jump
  MaxIns,      \* 15, the bytes of the longest instruction
  StubAt,      \* the offset of codeJumpToHookFunction in a trampoline
  CodeAt,      \* the offset of codeTrampoline
  MaxCode,     \* MHOOKS_MAX_CODE_BYTES, the size of each of them
  Addr,        \* the user addresses; none is below the granularity
  Func, Hook,  \* addresses of functions and of hook functions
  Disp         \* displacements of IP-relative instructions

ASSUME DisplacementAssumption ==
  /\ {Half, Reach, Above, Granularity, JmpSize, LongJmp, MaxIns, StubAt, CodeAt, MaxCode}
       \subseteq Nat
  /\ 0 < JmpSize /\ JmpSize < LongJmp /\ JmpSize <= MaxIns
  /\ 0 < Granularity /\ Reach <= Half /\ Half <= Reach + Granularity
  /\ JmpSize <= StubAt /\ StubAt <= CodeAt /\ CodeAt + JmpSize + Above <= Reach
  /\ 2 * JmpSize + MaxIns - 1 <= MaxCode
  /\ Addr \subseteq Nat /\ \A a \in Addr : a >= Granularity
  /\ Func \subseteq Addr /\ Hook \subseteq Addr
  /\ Disp \subseteq -Half .. Half - 1

VARIABLES
  pc,
  fn, hook,          \* pSystemFunction, pHookFunction after SkipJumps
  len,               \* dwInstructionLength
  nRipCnt, rip, at,  \* how many IP-relative instructions; nDisplacement, offset of the one
  limUp, limDown,    \* nLimitUp, nLimitDown
  probe, loopCount,  \* pbAlloc and loopCount of BlockAlloc
  tried,             \* history: the addresses BlockAlloc has found taken
  tramp,             \* the trampoline, 0 while there is none
  newRip,            \* dwNewDisplacement, before it is cut to 32 bits
  back, patch,       \* bytes of the jump behind the moved code, and of the jump in the function
  stub               \* the function jumps to the reverse trampoline

place == <<fn, hook>>
moved == <<len, nRipCnt, rip, at, limUp, limDown>>
search == <<probe, loopCount, tried>>
code == <<newRip, back, patch, stub>>
vars == <<pc, place, moved, search, tramp, code>>

Init ==
  /\ pc = "disassemble"
  /\ fn \in Func /\ hook \in Hook
  /\ len = 0 /\ nRipCnt = 0 /\ rip = 0 /\ at = 0 /\ limUp = 0 /\ limDown = 0
  /\ probe = 0 /\ loopCount = 0 /\ tried = {}
  /\ tramp = 0
  /\ newRip = 0 /\ back = 0 /\ patch = 0 /\ stub = FALSE

-------------------------------------------------------------------------------
(* DisassembleAndSkip *)

(* Mutant: one instruction too many is moved. *)
MovePastJump(n) ==
  /\ pc = "disassemble" /\ len <= JmpSize
  /\ len' = len + n
  /\ UNCHANGED <<pc, place, nRipCnt, rip, at, limUp, limDown, search, tramp, code>>

Move(n) ==
  /\ pc = "disassemble" /\ len < JmpSize
  /\ len' = len + n
  /\ UNCHANGED <<pc, place, nRipCnt, rip, at, limUp, limDown, search, tramp, code>>

MoveRip(n, d) ==
  /\ pc = "disassemble" /\ len < JmpSize
  /\ fn + len + n + d \in Addr   \* the instruction refers to an address
  /\ nRipCnt' = 1 /\ rip' = d /\ at' = len
  /\ limDown' = IF d + len < limDown THEN d + len ELSE limDown
  /\ limUp' = IF d + len > limUp THEN d + len ELSE limUp
  /\ len' = len + n
  /\ UNCHANGED <<pc, place, search, tramp, code>>

(* A return, a branch, a call or an IP-relative form that is not supported. *)
Stop ==
  /\ pc = "disassemble" /\ len < JmpSize
  /\ pc' = "fail"
  /\ UNCHANGED <<place, moved, search, tramp, code>>

Disassembled ==
  /\ pc = "disassemble" /\ len >= JmpSize
  /\ pc' = "find"
  /\ UNCHANGED <<place, moved, search, tramp, code>>

-------------------------------------------------------------------------------
(* TrampolineAlloc.  No user address is near 2^64, where pUpper is cut off. *)

(* Mutant: the window is not narrowed. *)
LowerWithoutLimit == IF fn < Half THEN 1 ELSE fn - Reach
Lower == IF fn + limUp < Half THEN 1 ELSE fn + limUp - Reach
(* Mutant: the window reaches up as far as down. *)
UpperSymmetric == fn + limDown + Reach
Upper == fn + limDown + Above

InWindow(a) == Lower < a /\ a < Upper

(* FindTrampolineInRange *)
FindFree(t) ==
  /\ pc = "find"
  /\ InWindow(t)
  /\ tramp' = t
  /\ pc' = "emit"
  /\ UNCHANGED <<place, moved, search, code>>

(* BlockAlloc: from the function outwards, on one side and then on the other. *)
Guess == (fn \div Granularity) * Granularity

NoneFree ==
  /\ pc = "find"
  /\ pc' = "spiral"
  /\ probe' = Guess /\ loopCount' = 0 /\ tried' = {}
  /\ UNCHANGED <<place, moved, tramp, code>>

(* Mutant: only downwards. *)
SpiralDown == probe - Granularity

Spiral ==
  probe + Granularity * (loopCount + 1) * (IF loopCount % 2 = 0 THEN -1 ELSE 1)

Taken ==
  /\ pc = "spiral" /\ InWindow(probe)
  /\ probe' = Spiral
  /\ loopCount' = loopCount + 1
  /\ tried' = tried \union {probe}
  /\ UNCHANGED <<pc, place, moved, tramp, code>>

Allocate ==
  /\ pc = "spiral" /\ InWindow(probe) /\ probe \in Addr
  /\ tramp' = probe
  /\ pc' = "emit"
  /\ UNCHANGED <<place, moved, search, code>>

(* The window is left, or VirtualQuery fails. *)
GiveUp ==
  /\ pc = "spiral"
  /\ pc' = "fail"
  /\ UNCHANGED <<place, moved, search, tramp, code>>

-------------------------------------------------------------------------------
Dist(a, b) == IF a > b THEN a - b ELSE b - a

(* The bytes EmitJump writes. *)
EmitJump(from, to) == IF Dist(from + JmpSize, to) <= Reach THEN JmpSize ELSE LongJmp

Emit ==
  /\ pc = "emit"
  /\ back' = EmitJump(tramp + CodeAt + len, fn + len)
  /\ newRip' = IF nRipCnt = 0 THEN 0 ELSE rip - (tramp + CodeAt - fn)
  /\ stub' = (Dist(hook, fn) > Reach)
  /\ patch' = EmitJump(fn, IF stub' THEN tramp + StubAt ELSE hook)
  /\ pc' = "done"
  /\ UNCHANGED <<place, moved, search, tramp>>

Next ==
  \/ \E n \in 1 .. MaxIns : Move(n)
  \/ \E n \in JmpSize .. MaxIns, d \in Disp : MoveRip(n, d)
  \/ Stop
  \/ Disassembled
  \/ \E t \in Addr : FindFree(t)
  \/ NoneFree
  \/ Taken
  \/ Allocate
  \/ GiveUp
  \/ Emit

Spec == Init /\ [][Next]_vars

-------------------------------------------------------------------------------
TypeOK ==
  /\ pc \in {"disassemble", "find", "spiral", "emit", "done", "fail"}
  /\ fn \in Func /\ hook \in Hook
  /\ len \in 0 .. JmpSize + MaxIns - 1
  /\ nRipCnt \in 0 .. 1 /\ rip \in Disp \union {0} /\ at \in 0 .. JmpSize - 1
  /\ limUp \in Nat /\ limDown \in Int /\ limDown <= 0
  /\ probe \in Int /\ loopCount \in Nat /\ tried \in SUBSET Int
  /\ tramp \in Nat
  /\ newRip \in Int
  /\ back \in {0, JmpSize, LongJmp} /\ patch \in {0, JmpSize, LongJmp}
  /\ stub \in BOOLEAN

(* A moved IP-relative instruction still refers to the same address: what
   FixupIPRelativeAddressing subtracts leaves a signed 32-bit number, so that
   the cast to DWORD loses nothing.  TrampolineAlloc narrows the window for it. *)
RipSurvives == pc = "done" /\ nRipCnt = 1 => newRip \in -Half .. Half - 1

(* The trampoline "will always be within +/- 2GB of the API": the jump back from
   it is a near one, so moved code and jump fit in codeTrampoline, and so is the
   jump from the function to the reverse trampoline.                        *)
TrampolineNear ==
  pc = "done" => /\ back = JmpSize /\ len + back <= MaxCode
                 /\ stub => patch = JmpSize

(* BlockAlloc takes memory "as near as possible to the specified function": all
   the blocks that are nearer are taken.                                    *)
NearestBlock ==
  pc = "spiral" => \A a \in Addr :
    a % Granularity = 0 /\ Dist(a, Guess) < Dist(probe, Guess) => a \in tried

(* The jump in the function "will be at most 5 bytes", which is all the room that
   is certain there, also when it leads directly to the hook function.      *)
PatchFits == pc = "done" => patch <= JmpSize
===============================================================================
