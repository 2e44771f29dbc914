------------------------------- MODULE HookChain -------------------------------
(***************************************************************************)
(* What a hooked function runs: the jumps Mhook_SetHook and Mhook_Unhook   *)
(* (mhook-lib/mhook.c) write into functions and trampolines, how SkipJumps *)
(* follows them, and the variables in which the program's hook functions   *)
(* keep the way to the original, its True... pointers.  Each hook function *)
(* is installed once, as in portable.c, safe_ex.c and ice_error.c, so that *)
(* a trampoline, used once too, is named by the hook function it serves.   *)
(* HookEngine makes every call atomic; a failing call changes nothing and  *)
(* is not an action here.                                                  *)
(***************************************************************************)
EXTENDS Integers, Sequences

CONSTANTS
  Func,    \* system functions
  HookFn,  \* hook functions
  Thunk,   \* entries of import jump tables
  Lead,    \* Lead[a]: where the jump at thunk a leads
  NULL

Code == Func \union HookFn           \* what may be overwritten
Stub(t) == <<"stub", t>>             \* codeJumpToHookFunction of trampoline t
Moved(t) == <<"moved", t>>           \* codeTrampoline of trampoline t
Address == Code \union Thunk \union {Stub(h) : h \in HookFn} \union {Moved(h) : h \in HookFn}

(* Every import jump table leads to a function in the end. *)
ASSUME ChainAssumption ==
  /\ Func \intersect HookFn = {} /\ Thunk \intersect Code = {}
  /\ Lead \in [Thunk -> Func \union Thunk]
  /\ \A T \in SUBSET Thunk : T # {} => \E t \in T : Lead[t] \notin T
  /\ \A h \in HookFn : {Stub(h), Moved(h)} \intersect (Code \union Thunk) = {}
  /\ NULL \notin Address

VARIABLES
  jump,       \* jump[c]: where the first bytes of c jump to, NULL for the original bytes
  stub,       \* stub[t]: where codeJumpToHookFunction of t jumps to
  sys, hook,  \* pSystemFunction and pHookFunction of a trampoline
  live,       \* the trampolines in g_pHooks
  true,       \* true[h]: the variable through which h calls the original
  removed     \* hooks whose variable was passed to Mhook_Unhook

vars == <<jump, stub, sys, hook, live, true, removed>>

Init ==
  /\ jump = [c \in Code |-> NULL]
  /\ stub = [t \in HookFn |-> NULL]
  /\ sys = [t \in HookFn |-> NULL] /\ hook = [t \in HookFn |-> NULL]
  /\ live = {}
  /\ true = [h \in HookFn |-> NULL]
  /\ removed = {}

(* One jump; NULL where there is none.  Moved code does not begin with one. *)
Hop(a) ==
  IF a \in Thunk THEN Lead[a]
  ELSE IF a \in Code THEN jump[a]
  ELSE IF a[1] = "stub" THEN stub[a[2]]
  ELSE NULL

SkipJumps(a) ==
  LET skip[b \in Address] == IF Hop(b) = NULL THEN b ELSE skip[Hop(b)]
  IN  skip[a]

-------------------------------------------------------------------------------
Write(h, f, g, jumpTo, stubTo) ==
  /\ jump' = [jump EXCEPT ![f] = jumpTo]
  /\ stub' = [stub EXCEPT ![h] = stubTo]
  /\ sys' = [sys EXCEPT ![h] = f]
  /\ hook' = [hook EXCEPT ![h] = g]
  /\ live' = live \union {h}

(* Mutant: import jump tables are skipped, a jump to a hook is not. *)
SetHookOverwrites(a, h) ==
  /\ true[h] = NULL
  /\ Write(h, IF a \in Thunk THEN Lead[a] ELSE a, SkipJumps(h), SkipJumps(h), NULL)
  /\ true' = [true EXCEPT ![h] = Moved(h)]
  /\ UNCHANGED removed

(* The hook function is near: the function jumps to it directly. *)
SetHook(a, h) ==
  /\ true[h] = NULL
  /\ Write(h, SkipJumps(a), SkipJumps(h), SkipJumps(h), NULL)
  /\ true' = [true EXCEPT ![h] = Moved(h)]
  /\ UNCHANGED removed

(* Mutant: the function jumps to codeTrampoline. *)
SetHookFarToMoved(a, h) ==
  /\ true[h] = NULL
  /\ Write(h, SkipJumps(a), SkipJumps(h), Moved(h), SkipJumps(h))
  /\ true' = [true EXCEPT ![h] = Moved(h)]
  /\ UNCHANGED removed

(* The hook function is far: the function jumps to the reverse trampoline. *)
SetHookFar(a, h) ==
  /\ true[h] = NULL
  /\ Write(h, SkipJumps(a), SkipJumps(h), Stub(h), SkipJumps(h))
  /\ true' = [true EXCEPT ![h] = Moved(h)]
  /\ UNCHANGED removed

(* TrampolineGet looks for the address among the hook functions. *)
Get(a) == {t \in live : hook[t] = a}

(* Mutant: the trampoline is released for the next hook. *)
RestoreAndClear(t) ==
  /\ jump' = [jump EXCEPT ![sys[t]] = NULL]
  /\ live' = live \ {t}
  /\ sys' = [sys EXCEPT ![t] = NULL]
  /\ UNCHANGED <<stub, hook>>

Restore(t) ==
  /\ jump' = [jump EXCEPT ![sys[t]] = NULL]
  /\ live' = live \ {t}
  /\ UNCHANGED <<stub, sys, hook>>

(* Mhook_Unhook of a variable that holds the address of the hook function. *)
UnhookByHook(h) ==
  /\ \E t \in Get(h) : Restore(t)
  /\ UNCHANGED <<true, removed>>

(* Mhook_Unhook of the variable Mhook_SetHook was given: undo_it, jmp_end, safe_end. *)
UnhookVariable(h) ==
  /\ true[h] # NULL /\ h \notin removed
  /\ removed' = removed \union {h}
  /\ IF Get(true[h]) = {}
     THEN UNCHANGED <<jump, stub, sys, hook, live, true>>
     ELSE \E t \in Get(true[h]) :
            /\ Restore(t)
            /\ true' = [true EXCEPT ![h] = sys[t]]

Next ==
  \/ \E a \in Func \union Thunk, h \in HookFn : SetHook(a, h) \/ SetHookFar(a, h)
  \/ \E h \in HookFn : UnhookByHook(h)
  \/ \E h \in HookFn : UnhookVariable(h)

Spec == Init /\ [][Next]_vars

-------------------------------------------------------------------------------
(* The bodies that run when address a is called, in order; every hook function
   calls its original.                                                      *)
Run(a) ==
  LET run[b \in Address] ==
        LET at == SkipJumps(b)
            body == IF at \in Code THEN at ELSE sys[at[2]]
        IN  IF body = NULL THEN <<>>
            ELSE IF body \in Func \/ true[body] = NULL THEN <<body>>
            ELSE <<body>> \o run[true[body]]
  IN  run[a]

Hooks(f) == LET r == Run(f) IN SubSeq(r, 1, Len(r) - 1)

TypeOK ==
  /\ jump \in [Code -> HookFn \union {Stub(t) : t \in HookFn} \union {NULL}]
  /\ stub \in [HookFn -> HookFn \union {NULL}]
  /\ sys \in [HookFn -> Code \union {NULL}] /\ hook \in [HookFn -> HookFn \union {NULL}]
  /\ live \in SUBSET {t \in HookFn : sys[t] # NULL}
  /\ true \in [HookFn -> Code \union {Moved(t) : t \in HookFn} \union {NULL}]
  /\ removed \in SUBSET HookFn

(* A hook function that is running, even one removed meanwhile, reaches the
   function through its variable, and comes by no hook twice: the trampoline of
   a removed hook is left to leak, "ugly, but safe".                        *)
OriginalReached ==
  \A h \in HookFn : true[h] # NULL =>
    LET r == Run(true[h])
    IN  /\ r # <<>> /\ r[Len(r)] \in Func
        /\ \A i, j \in 1 .. Len(r) : r[i] = r[j] => i = j

Table == INSTANCE CallTable WITH hooks <- [f \in Func |-> Hooks(f)]

(* The jumps implement the table of hooks: a new hook runs first and passes on
   to the older ones, whether the function was named directly or through an
   import jump table, near or far.                                          *)
ImplementsCallTable == Table!Spec

(* "Remove the hook": the function no longer runs a hook whose variable was
   passed to Mhook_Unhook.                                                  *)
UnhookRemoves ==
  \A f \in Func : \A i \in 1 .. Len(Hooks(f)) : Hooks(f)[i] \notin removed
===============================================================================
