---------------------------- MODULE TrampolineList ----------------------------
(***************************************************************************)
(* The two linked lists of mhook-lib/mhook.c: g_pHooks, the trampolines in *)
(* use, and g_pFreeList, the ones that wait for a hook.  Both are threaded *)
(* through the same two fields, pPrevTrampoline and pNextTrampoline.       *)
(*                                                                         *)
(* A trampoline is <<r, i>>: the i-th entry of the block that BlockAlloc   *)
(* obtained in the address region r.  Everything here runs inside the      *)
(* critical section g_cs (HookEngine models it), so one call is in         *)
(* progress at a time; pc and the variables after it are its locals.       *)
(*                                                                         *)
(* The variable where is a history variable: it says which list an entry   *)
(* ought to be on and no action reads it.                                  *)
(***************************************************************************)
EXTENDS Integers

CONSTANTS
  Func,      \* functions that get hooked, after SkipJumps
  Region,    \* address regions BlockAlloc may obtain, each one block
  PerBlock,  \* trampolines in a block
  Reach,     \* Reach[f]: the regions between pLower and pUpper of f
  NULL

Node == Region \X (1 .. PerBlock)

Null(S) == S \union {NULL}

ASSUME ListAssumption ==
  /\ PerBlock \in Nat \ {0}
  /\ Reach \in [Func -> SUBSET Region]
  /\ NULL \notin Node
  /\ NULL \notin Func

(* The windows of any two functions are comparable.  This is so on x86, where
   every window is the whole user address space, and on x64 for functions of
   modules loaded close together, whose windows differ only in how much the
   IP-relative operands narrow them.                                        *)
NestedReach ==
  \A f, g \in Func : Reach[f] \subseteq Reach[g] \/ Reach[g] \subseteq Reach[f]

VARIABLES
  gHooks, gFree,  \* g_pHooks and g_pFreeList
  prev, next,     \* pPrevTrampoline and pNextTrampoline of every entry
  sys,            \* pSystemFunction; pHookFunction is set with it and stands for the same f
  taken,          \* regions that hold a block
  jumped,         \* functions whose first bytes are a jump to their hook
  pc, fn, cursor, patched,  \* the call in progress
  where

lists == <<gHooks, gFree, prev, next>>
vars == <<gHooks, gFree, prev, next, sys, taken, jumped, pc, fn, cursor, patched, where>>

InRange(n) == n[1] \in Reach[fn]

Init ==
  /\ gHooks = NULL /\ gFree = NULL
  /\ prev = [n \in Node |-> NULL]
  /\ next = [n \in Node |-> NULL]
  /\ sys = [n \in Node |-> NULL]
  /\ taken = {} /\ jumped = {}
  /\ pc = "idle" /\ fn = NULL /\ cursor = NULL /\ patched = FALSE
  /\ where = [n \in Node |-> "none"]

-------------------------------------------------------------------------------
(* List operations; head is one of the variables gHooks and gFree. *)

ListRemove(head, n) ==
  /\ next' = [m \in Node |-> IF m = n THEN NULL
                             ELSE IF m = prev[n] THEN next[n] ELSE next[m]]
  /\ prev' = [m \in Node |-> IF m = n THEN NULL
                             ELSE IF m = next[n] THEN prev[n] ELSE prev[m]]
  /\ head' = IF head = n THEN next[n] ELSE head

(* Mutant: the old head does not learn of its new predecessor. *)
ListPrependNoBackLink(head, n) ==
  /\ prev' = [prev EXCEPT ![n] = NULL]
  /\ next' = [next EXCEPT ![n] = head]
  /\ head' = n

ListPrepend(head, n) ==
  /\ prev' = [m \in Node |-> IF m = n THEN NULL
                             ELSE IF m = head THEN n ELSE prev[m]]
  /\ next' = [next EXCEPT ![n] = head]
  /\ head' = n

(* Mutant: the last entry keeps pointing past the end of the block. *)
LinkBlockPastEnd(r) ==
  /\ prev' = [n \in Node |->
               IF n[1] # r THEN prev[n]
               ELSE IF n[2] = 1 THEN NULL ELSE <<r, n[2] - 1>>]
  /\ next' = [n \in Node |-> IF n[1] # r THEN next[n] ELSE <<r, n[2] + 1>>]

(* The entries of the new block point down the line, the last one at the old
   head of the free list, whose own pPrevTrampoline is left as it was.      *)
LinkBlock(r) ==
  /\ prev' = [n \in Node |->
               IF n[1] # r THEN prev[n]
               ELSE IF n[2] = 1 THEN NULL ELSE <<r, n[2] - 1>>]
  /\ next' = [n \in Node |->
               IF n[1] # r THEN next[n]
               ELSE IF n[2] = PerBlock THEN gFree ELSE <<r, n[2] + 1>>]

Return ==
  /\ pc' = "idle" /\ fn' = NULL /\ cursor' = NULL /\ patched' = FALSE

-------------------------------------------------------------------------------
(* Mhook_SetHook, from TrampolineAlloc on. *)

StartSetHook(f) ==
  /\ pc = "idle"
  /\ f \notin jumped
  /\ pc' = "find" /\ fn' = f /\ cursor' = gFree
  /\ UNCHANGED <<lists, sys, taken, jumped, patched, where>>

FindNext ==
  /\ pc \in {"find", "again"}
  /\ cursor # NULL
  /\ ~InRange(cursor)
  /\ cursor' = next[cursor]
  /\ UNCHANGED <<lists, sys, taken, jumped, pc, fn, patched, where>>

(* Mutant: the entry is returned without being unlinked. *)
FindHitKeeps ==
  /\ pc \in {"find", "again"}
  /\ cursor # NULL
  /\ InRange(cursor)
  /\ pc' = "found"
  /\ where' = [where EXCEPT ![cursor] = "held"]
  /\ UNCHANGED <<lists, sys, taken, jumped, fn, cursor, patched>>

FindHit ==
  /\ pc \in {"find", "again"}
  /\ cursor # NULL
  /\ InRange(cursor)
  /\ ListRemove(gFree, cursor)
  /\ pc' = "found"
  /\ where' = [where EXCEPT ![cursor] = "held"]
  /\ UNCHANGED <<gHooks, sys, taken, jumped, fn, cursor, patched>>

(* Mutant: the new block replaces the free list instead of leading into it. *)
BlockAllocNoSplice(r) ==
  /\ pc = "find" /\ cursor = NULL
  /\ r \in Reach[fn] \ taken
  /\ prev' = [n \in Node |->
               IF n[1] # r THEN prev[n]
               ELSE IF n[2] = 1 THEN NULL ELSE <<r, n[2] - 1>>]
  /\ next' = [n \in Node |->
               IF n[1] # r THEN next[n]
               ELSE IF n[2] = PerBlock THEN NULL ELSE <<r, n[2] + 1>>]
  /\ gFree' = <<r, 1>>
  /\ taken' = taken \union {r}
  /\ pc' = "again" /\ cursor' = gFree'
  /\ where' = [n \in Node |-> IF n[1] = r THEN "free" ELSE where[n]]
  /\ UNCHANGED <<gHooks, sys, jumped, fn, patched>>

BlockAlloc(r) ==
  /\ pc = "find" /\ cursor = NULL
  /\ r \in Reach[fn] \ taken
  /\ LinkBlock(r)
  /\ gFree' = <<r, 1>>
  /\ taken' = taken \union {r}
  /\ pc' = "again" /\ cursor' = gFree'
  /\ where' = [n \in Node |-> IF n[1] = r THEN "free" ELSE where[n]]
  /\ UNCHANGED <<gHooks, sys, jumped, fn, patched>>

(* No region in the window is free, or VirtualQuery or VirtualAlloc failed:
   the caller assigns the NULL result to g_pFreeList.                       *)
BlockAllocFails ==
  /\ pc = "find" /\ cursor = NULL
  /\ gFree' = NULL
  /\ pc' = "again"
  /\ where' = [n \in Node |-> IF where[n] = "free" THEN "lost" ELSE where[n]]
  /\ UNCHANGED <<gHooks, prev, next, sys, taken, jumped, fn, cursor, patched>>

NoTrampoline ==
  /\ pc = "again" /\ cursor = NULL
  /\ Return
  /\ UNCHANGED <<lists, sys, taken, jumped, where>>

LinkHook ==
  /\ pc = "found"
  /\ ListPrepend(gHooks, cursor)
  /\ pc' = "fill"
  /\ where' = [where EXCEPT ![cursor] = "hooks"]
  /\ UNCHANGED <<gFree, sys, taken, jumped, fn, cursor, patched>>

(* Both VirtualProtect calls succeed: the function is patched. *)
Patch ==
  /\ pc = "fill"
  /\ sys' = [sys EXCEPT ![cursor] = fn]
  /\ jumped' = jumped \union {fn}
  /\ pc' = "test" /\ patched' = TRUE
  /\ UNCHANGED <<lists, taken, fn, cursor, where>>

ProtectFails ==
  /\ pc = "fill"
  /\ pc' = "test"
  /\ UNCHANGED <<lists, sys, taken, jumped, fn, cursor, patched, where>>

(* The test of pTrampoline->pSystemFunction that decides the result. *)
Succeed ==
  /\ pc = "test"
  /\ sys[cursor] # NULL
  /\ Return
  /\ UNCHANGED <<lists, sys, taken, jumped, where>>

(* Mutant: TrampolineFree forgets to take the entry off the list of hooks. *)
DiscardStays ==
  /\ pc = "test"
  /\ sys[cursor] = NULL
  /\ pc' = "discard"
  /\ where' = [where EXCEPT ![cursor] = "held"]
  /\ UNCHANGED <<lists, sys, taken, jumped, fn, cursor, patched>>

(* TrampolineFree(pTrampoline, TRUE): off one list, then onto the other. *)
Discard ==
  /\ pc = "test"
  /\ sys[cursor] = NULL
  /\ ListRemove(gHooks, cursor)
  /\ pc' = "discard"
  /\ where' = [where EXCEPT ![cursor] = "held"]
  /\ UNCHANGED <<gFree, sys, taken, jumped, fn, cursor, patched>>

Recycle ==
  /\ pc = "discard"
  /\ ListPrepend(gFree, cursor)
  /\ Return
  /\ where' = [where EXCEPT ![cursor] = "free"]
  /\ UNCHANGED <<gHooks, sys, taken, jumped>>

-------------------------------------------------------------------------------
(* Mhook_Unhook.  h is the function whose hook *ppHookedFunction names, NULL
   when it names no hook function, as the trampoline addresses do that the
   callers in src hold after Mhook_SetHook.                                 *)

StartUnhook(h) ==
  /\ pc = "idle"
  /\ pc' = "get" /\ fn' = h /\ cursor' = gHooks
  /\ UNCHANGED <<lists, sys, taken, jumped, patched, where>>

GetNext ==
  /\ pc = "get"
  /\ cursor # NULL
  /\ sys[cursor] # fn
  /\ cursor' = next[cursor]
  /\ UNCHANGED <<lists, sys, taken, jumped, pc, fn, patched, where>>

GetHit ==
  /\ pc = "get"
  /\ cursor # NULL
  /\ sys[cursor] = fn
  /\ pc' = "unhook"
  /\ UNCHANGED <<lists, sys, taken, jumped, fn, cursor, patched, where>>

GetMiss ==
  /\ pc = "get"
  /\ cursor = NULL
  /\ Return
  /\ UNCHANGED <<lists, sys, taken, jumped, where>>

(* Mutant: TrampolineFree(pTrampoline, TRUE) for an entry that was in use. *)
UnhookRecycles ==
  /\ pc = "unhook"
  /\ jumped' = jumped \ {sys[cursor]}
  /\ ListRemove(gHooks, cursor)
  /\ where' = [where EXCEPT ![cursor] = "held"]
  /\ pc' = "discard"
  /\ UNCHANGED <<gFree, sys, taken, fn, cursor, patched>>

(* TrampolineFree(pTrampoline, FALSE): the entry is left to leak, because a
   thread may still be executing in it.                                     *)
Unhook ==
  /\ pc = "unhook"
  /\ jumped' = jumped \ {sys[cursor]}
  /\ ListRemove(gHooks, cursor)
  /\ where' = [where EXCEPT ![cursor] = "gone"]
  /\ Return
  /\ UNCHANGED <<gFree, sys, taken>>

(* Mutant: the entry is freed although the function could not be restored. *)
UnhookFreesAnyway ==
  /\ pc = "unhook"
  /\ ListRemove(gHooks, cursor)
  /\ where' = [where EXCEPT ![cursor] = "gone"]
  /\ Return
  /\ UNCHANGED <<gFree, sys, taken, jumped>>

UnhookProtectFails ==
  /\ pc = "unhook"
  /\ Return
  /\ UNCHANGED <<lists, sys, taken, jumped, where>>

-------------------------------------------------------------------------------
(* Inside one call. *)
Step ==
  \/ FindNext
  \/ FindHit
  \/ \E r \in Region : BlockAlloc(r)
  \/ BlockAllocFails
  \/ NoTrampoline
  \/ LinkHook
  \/ Patch
  \/ ProtectFails
  \/ Succeed
  \/ Discard
  \/ Recycle
  \/ GetNext
  \/ GetHit
  \/ GetMiss
  \/ Unhook
  \/ UnhookProtectFails

Next ==
  \/ \E f \in Func : StartSetHook(f)
  \/ \E h \in Null(Func) : StartUnhook(h)
  \/ Step

Spec == Init /\ [][Next]_vars

(* A call that has entered the critical section keeps running. *)
FairSpec == Spec /\ WF_vars(Step)

-------------------------------------------------------------------------------
TypeOK ==
  /\ gHooks \in Null(Node) /\ gFree \in Null(Node)
  /\ prev \in [Node -> Null(Node)] /\ next \in [Node -> Null(Node)]
  /\ sys \in [Node -> Null(Func)]
  /\ taken \in SUBSET Region
  /\ jumped \in SUBSET Func
  /\ pc \in {"idle", "find", "again", "found", "fill", "test", "discard", "get", "unhook"}
  /\ fn \in Null(Func)
  /\ cursor \in Null(Node)
  /\ patched \in BOOLEAN
  /\ where \in [Node -> {"none", "free", "held", "hooks", "lost", "gone"}]
  /\ pc \in {"find", "again", "found", "fill", "test", "discard"} => fn # NULL
  /\ pc \in {"found", "fill", "test", "discard", "unhook"} => cursor # NULL

On(list) == {n \in Node : where[n] = list}

(* n is where the missing back link of LinkBlock may be seen: whoever can use
   m could already have used the entry before it.                           *)
SpliceSafe(n, m) ==
  /\ prev[m] = NULL
  /\ \A f \in Func : m[1] \in Reach[f] => n[1] \in Reach[f]

(* The free list is a list: the head has no predecessor, links stay on the
   list and are unshared, and a back link is missing only where harmless.   *)
FreeLinked ==
  /\ gFree # NULL => gFree \in On("free") /\ prev[gFree] = NULL
  /\ \A n \in On("free") :
       /\ next[n] # NULL =>
            /\ next[n] \in On("free") \ {gFree}
            /\ prev[next[n]] = n \/ SpliceSafe(n, next[n])
       /\ prev[n] # NULL => prev[n] \in On("free") /\ next[prev[n]] = n
  /\ \A m, n \in On("free") : next[m] = next[n] /\ next[m] # NULL => m = n

(* The list of hooks is doubly linked throughout. *)
HooksLinked ==
  /\ gHooks # NULL => gHooks \in On("hooks") /\ prev[gHooks] = NULL
  /\ \A n \in On("hooks") :
       /\ next[n] # NULL => next[n] \in On("hooks") /\ prev[next[n]] = n
       /\ prev[n] # NULL => prev[n] \in On("hooks") /\ next[prev[n]] = n
       /\ prev[n] = NULL => gHooks = n

(* Where the call in progress stands on the list it walks. *)
CursorOK ==
  /\ pc \in {"find", "again"} /\ cursor # NULL =>
       /\ cursor \in On("free")
       /\ \/ cursor = gFree
          \/ \E n \in On("free") : next[n] = cursor /\ ~InRange(n)
  /\ pc = "find" /\ cursor # gFree => ~InRange(gFree)
  /\ pc \in {"found", "discard"} =>
       where[cursor] = "held" /\ prev[cursor] = NULL /\ next[cursor] = NULL
  /\ pc \in {"fill", "test", "unhook"} => cursor \in On("hooks")
  /\ pc = "get" /\ cursor # NULL => cursor \in On("hooks")

(* A trampoline is blank until its function is patched, and the list of hooks
   names every patched function once.                                       *)
Blank(n) ==
  \/ where[n] \in {"none", "free", "held", "lost"}
  \/ pc \in {"fill", "test"} /\ n = cursor /\ ~patched

SysOK ==
  /\ \A n \in Node : (where[n] = "none") = (n[1] \notin taken)
  /\ \A n \in Node : Blank(n) => sys[n] = NULL
  /\ \A n \in On("hooks") : ~Blank(n) => sys[n] \in jumped
  /\ \A f \in jumped : \E n \in On("hooks") : sys[n] = f
  /\ \A m, n \in On("hooks") : sys[m] = sys[n] /\ sys[m] # NULL => m = n
  /\ pc \in {"find", "again", "found", "fill"} => fn \notin jumped
  /\ patched => pc = "test"
  /\ pc = "unhook" => sys[cursor] = fn

(* The inductive invariant: what every call relies on and restores. *)
ListInv == TypeOK /\ FreeLinked /\ HooksLinked /\ CursorOK /\ SysOK

-------------------------------------------------------------------------------
(* mhook.c says of the link fields that they hold the neighbours "in the free
   list" or "in use", according to where the entry is.  So a walk started at
   g_pFreeList meets only entries no hook uses, and one started at g_pHooks
   only entries in use: FindTrampolineInRange never hands out a trampoline
   whose code some hooked function still runs through.                      *)
WalksOwnList ==
  cursor # NULL =>
    /\ pc \in {"find", "again"} => where[cursor] = "free"
    /\ pc = "get" => where[cursor] = "hooks"

(* Mhook_SetHook decides by pTrampoline->pSystemFunction, a field that entries
   keep when they are recycled, whether it patched the function in this call:
   the field is set at the test exactly when both VirtualProtect calls and
   the patch succeeded.                                                     *)
HonestResult == pc = "test" => (sys[cursor] # NULL) = patched

(* The functions whose first bytes are a jump are those that exactly one entry
   of the list of hooks remembers, so no patched function is ever without the
   copy of its original code, whatever calls failed on the way.             *)
TableMatchesCode ==
  /\ \A f \in jumped : \E n \in On("hooks") : sys[n] = f
  /\ \A m, n \in On("hooks") :
       sys[n] # NULL => sys[n] \in jumped /\ (sys[m] = sys[n] => m = n)

(* No walk goes round in circles: every call that holds the critical section
   returns and leaves it.                                                   *)
CallsReturn == pc # "idle" ~> pc = "idle"
-------------------------------------------------------------------------------
(* A walk along link that starts at head never leaves S. *)
Leads(link, head, S) ==
  /\ head # NULL => head \in S
  /\ \A n \in S : link[n] # NULL => link[n] \in S

(* The entries met on the way from head along pNextTrampoline. *)
Chain(head) ==
  {n \in Node : \A S \in SUBSET Node : Leads(next, head, S) => n \in S}

Pool == INSTANCE TrampolinePool WITH
  Block <- {{r} \X (1 .. PerBlock) : r \in Region},
  known <- taken \X (1 .. PerBlock),
  free  <- Chain(gFree),
  used  <- Chain(gHooks) \union (IF pc \in {"found", "discard"} THEN {cursor} ELSE {}),
  live  <- {n \in Chain(gHooks) : sys[n] # NULL}

(* The linked lists implement the pool: following the pointers of the two
   lists, every step of FindTrampolineInRange, BlockAlloc and TrampolineFree
   hands out, takes back, retires or loses the entries the pool allows it to,
   and only a trampoline that never held a function's code comes back.      *)
ImplementsPool == Pool!Spec
===============================================================================
