------------------------------ MODULE HookEngine ------------------------------
(***************************************************************************)
(* The threads of a process around Mhook_SetHook and Mhook_Unhook of       *)
(* mhook-lib/mhook.c: the lazily initialised critical section g_cs, the    *)
(* suspension of all other threads while the first bytes of a function are *)
(* overwritten, and their resumption.  Which trampoline is used, and what  *)
(* is in it, is the matter of TrampolineList, Displacement and HookChain.  *)
(*                                                                         *)
(* Callers are threads that hook; workers run the functions being hooked,  *)
(* use the heap, start and exit.  A thread moves only while its suspend    *)
(* count is zero.  The C heap has one lock, which malloc and free take.    *)
(*                                                                         *)
(* loose is a history variable: the threads that SuspendOtherThreads, in   *)
(* the call in progress, did not bring to a stop outside the code, for one *)
(* of the reasons its comments give.                                       *)
(***************************************************************************)
EXTENDS Integers

CONSTANTS
  Caller,        \* threads that call Mhook_SetHook and Mhook_Unhook
  main,          \* the caller that runs DllMain
  Worker,        \* the other threads
  Func,          \* functions that get hooked
  MaxTries,      \* 3 in SuspendOneThread
  MaxCalls,      \* bound: calls a caller makes
  DllMainHooks,  \* DllMain itself sets the first hook (Portable or SafeEx in the ini file)
  NONE

Thread == Caller \union Worker

ASSUME EngineAssumption ==
  /\ main \in Caller
  /\ Caller \intersect Worker = {}
  /\ MaxTries \in Nat
  /\ MaxCalls \in Nat
  /\ DllMainHooks \in BOOLEAN
  /\ NONE \notin Thread
  /\ NONE \notin Func

VARIABLES
  inited,    \* g_bVarsInitialized
  owner,     \* owner of g_cs, NONE when it is free
  buf,       \* g_hThreadHandles is allocated
  handles,   \* the threads in g_hThreadHandles
  code,      \* code[f]: the first bytes of f
  locked,     \* main holds the loader lock: it is inside DllMain
  pc, op, target, calls,      \* per caller: the call it makes
  snap, cur, tries,           \* per caller: locals of SuspendOtherThreads
  alive, exited,   \* threads that exist, and those that are gone
  ip, scount,      \* the function a thread is in the first bytes of; its suspend count
  heap,            \* the thread that holds the heap lock
  loose

cs == <<inited, owner>>
table == <<buf, handles>>
call == <<op, target, calls>>
local == <<snap, cur, tries>>
thread == <<alive, exited, ip, scount, heap>>
vars == <<cs, table, code, locked, pc, call, local, thread, loose>>

Init ==
  /\ inited = FALSE /\ owner = NONE
  /\ buf = FALSE /\ handles = {}
  /\ code = [f \in Func |-> "original"]
  /\ locked = TRUE
  /\ pc = [c \in Caller |-> "idle"]
  /\ op = [c \in Caller |-> "set"]
  /\ target = [c \in Caller |-> NONE]
  /\ calls = [c \in Caller |-> 0]
  /\ snap = [c \in Caller |-> {}]
  /\ cur = [c \in Caller |-> NONE]
  /\ tries = [c \in Caller |-> 0]
  /\ alive \in {Caller \union W : W \in SUBSET Worker}
  /\ exited = {}
  /\ ip = [w \in Worker |-> NONE]
  /\ scount = [t \in Thread |-> 0]
  /\ heap = NONE
  /\ loose = {}

Runs(t) == t \in alive /\ scount[t] = 0

(* ResumeThread leaves a thread alone that is not suspended. *)
Resumed(t) == IF scount[t] > 0 THEN [scount EXCEPT ![t] = @ - 1] ELSE scount

Goto(c, from, to) ==
  /\ pc[c] = from
  /\ Runs(c)
  /\ pc' = [pc EXCEPT ![c] = to]

-------------------------------------------------------------------------------
(* DllMain runs under the loader lock: the threads it creates start after it
   has returned.  main is in it when the module begins, and may be in it again
   when the library is unloaded.                                            *)
LeaveDllMain ==
  /\ locked
  /\ pc[main] = "idle"
  /\ DllMainHooks => inited
  /\ locked' = FALSE
  /\ UNCHANGED <<cs, table, code, pc, call, local, thread, loose>>

EnterDllMain ==
  /\ ~locked
  /\ pc[main] = "idle" /\ Runs(main)
  /\ locked' = TRUE
  /\ UNCHANGED <<cs, table, code, pc, call, local, thread, loose>>

Call(c, o, f) ==
  /\ c = main \/ ~locked
  /\ calls[c] < MaxCalls
  /\ Goto(c, "idle", "check")
  /\ op' = [op EXCEPT ![c] = o]
  /\ target' = [target EXCEPT ![c] = f]
  /\ calls' = [calls EXCEPT ![c] = @ + 1]
  /\ UNCHANGED <<cs, table, code, locked, local, thread, loose>>

(* EnterCritSec *)
CheckInit(c) ==
  /\ Goto(c, "check", IF inited THEN "enter" ELSE "init")
  /\ UNCHANGED <<cs, table, code, locked, call, local, thread, loose>>

InitCritSec(c) ==
  /\ Goto(c, "init", "mark")
  /\ owner' = NONE
  /\ UNCHANGED <<inited, table, code, locked, call, local, thread, loose>>

MarkInit(c) ==
  /\ Goto(c, "mark", "enter")
  /\ inited' = TRUE
  /\ UNCHANGED <<owner, table, code, locked, call, local, thread, loose>>

(* Mutant: the lock is taken without waiting for it. *)
EnterCritSecNoWait(c) ==
  /\ Goto(c, "enter", "begin")
  /\ owner' = c
  /\ UNCHANGED <<inited, table, code, locked, call, local, thread, loose>>

EnterCritSec(c) ==
  /\ owner = NONE
  /\ Goto(c, "enter", "begin")
  /\ owner' = c
  /\ UNCHANGED <<inited, table, code, locked, call, local, thread, loose>>

LeaveCritSec(c) ==
  /\ Goto(c, "leave", "idle")
  /\ owner' = NONE
  /\ loose' = {}
  /\ target' = [target EXCEPT ![c] = NONE]
  /\ UNCHANGED <<inited, table, code, locked, op, calls, local, thread>>

(* The disassembly finds room for the jump; TrampolineGet finds the hook. *)
Accept(c) ==
  /\ Goto(c, "begin", "snapshot")
  /\ code[target[c]] = IF op[c] = "set" THEN "original" ELSE "jump"
  /\ UNCHANGED <<cs, table, code, locked, call, local, thread, loose>>

Reject(c) ==
  /\ Goto(c, "begin", "leave")
  /\ UNCHANGED <<cs, table, code, locked, call, local, thread, loose>>

-------------------------------------------------------------------------------
(* SuspendOtherThreads.  Its callers ignore the result: without a snapshot, a
   buffer or other threads they go on to overwrite the code all the same.   *)

(* It looks up the toolhelp functions first, which takes the loader lock. *)
Lookup(c) == c = main \/ ~locked

TakeSnapshot(c) ==
  /\ Lookup(c)
  /\ alive # {c}
  /\ Goto(c, "snapshot", "malloc")
  /\ snap' = [snap EXCEPT ![c] = alive \ {c}]
  /\ loose' = {}
  /\ UNCHANGED <<cs, table, code, locked, call, cur, tries, thread>>

NoSnapshot(c) ==
  /\ Lookup(c)
  /\ Goto(c, "snapshot", "change")
  /\ loose' = alive \ {c}
  /\ UNCHANGED <<cs, table, code, locked, call, local, thread>>

Malloc(c) ==
  /\ heap = NONE
  /\ Goto(c, "malloc", "visit")
  /\ buf' = TRUE /\ handles' = {}
  /\ UNCHANGED <<cs, code, locked, call, local, thread, loose>>

MallocFails(c) ==
  /\ heap = NONE
  /\ Goto(c, "malloc", "change")
  /\ loose' = loose \union (alive \ {c})
  /\ snap' = [snap EXCEPT ![c] = {}]
  /\ UNCHANGED <<cs, table, code, locked, call, cur, tries, thread>>

Visited(c) ==
  /\ snap[c] = {}
  /\ Goto(c, "visit", "change")
  /\ UNCHANGED <<cs, table, code, locked, call, local, thread, loose>>

(* SuspendOneThread: OpenThread or SuspendThread fails, as they do for a
   thread that has exited.                                                  *)
SuspendFails(c, t) ==
  /\ t \in snap[c]
  /\ Goto(c, "visit", "visit")
  /\ snap' = [snap EXCEPT ![c] = @ \ {t}]
  /\ loose' = loose \union {t}
  /\ UNCHANGED <<cs, table, code, locked, call, cur, tries, thread>>

Suspend(c, t) ==
  /\ t \in snap[c] \intersect alive
  /\ Goto(c, "visit", "look")
  /\ scount' = [scount EXCEPT ![t] = @ + 1]
  /\ cur' = [cur EXCEPT ![c] = t]
  /\ tries' = [tries EXCEPT ![c] = 0]
  /\ UNCHANGED <<cs, table, code, locked, call, snap, alive, exited, ip, heap, loose>>

Inside(t, f) == t \in Worker /\ ip[t] = f

Record(c) ==
  /\ Goto(c, "look", "visit")
  /\ handles' = handles \union {cur[c]}
  /\ snap' = [snap EXCEPT ![c] = @ \ {cur[c]}]
  /\ cur' = [cur EXCEPT ![c] = NONE]
  /\ UNCHANGED <<cs, buf, code, locked, call, tries, thread>>

Outside(c) ==
  /\ cur[c] \in alive
  /\ ~Inside(cur[c], target[c])
  /\ Record(c)
  /\ UNCHANGED loose

(* GetThreadContext fails: the loop ends with the handle in hand. *)
NoContext(c) ==
  /\ Record(c)
  /\ loose' = loose \union {cur[c]}

LetGo(c, to) ==
  /\ cur[c] \in alive
  /\ Inside(cur[c], target[c])
  /\ Goto(c, "look", to)
  /\ scount' = Resumed(cur[c])

(* Mutant: one try too many. *)
CollideOnceMore(c) ==
  /\ tries[c] <= MaxTries
  /\ LetGo(c, "sleep")
  /\ UNCHANGED <<cs, table, code, locked, call, local, alive, exited, ip, heap, loose>>

Collide(c) ==
  /\ tries[c] < MaxTries
  /\ LetGo(c, "sleep")
  /\ UNCHANGED <<cs, table, code, locked, call, local, alive, exited, ip, heap, loose>>

(* Mutant: the thread is looked at again while it runs. *)
LookAgainRunning(c) ==
  /\ Goto(c, "sleep", "look")
  /\ tries' = [tries EXCEPT ![c] = @ + 1]
  /\ UNCHANGED <<cs, table, code, locked, call, snap, cur, thread, loose>>

(* The result is ignored: the loop looks at a thread that may well be running. *)
SuspendAgain(c) ==
  /\ Goto(c, "sleep", "look")
  /\ tries' = [tries EXCEPT ![c] = @ + 1]
  /\ \/ /\ cur[c] \in alive
        /\ scount' = [scount EXCEPT ![cur[c]] = @ + 1]
        /\ loose' = loose \ {cur[c]}
     \/ /\ loose' = loose \union {cur[c]}
        /\ UNCHANGED scount
  /\ UNCHANGED <<cs, table, code, locked, call, snap, cur, alive, exited, ip, heap>>

(* Mutant: the thread is given up without being resumed. *)
GiveUpSuspended(c) ==
  /\ tries[c] = MaxTries
  /\ cur[c] \in alive
  /\ Inside(cur[c], target[c])
  /\ Goto(c, "look", "visit")
  /\ snap' = [snap EXCEPT ![c] = @ \ {cur[c]}]
  /\ cur' = [cur EXCEPT ![c] = NONE]
  /\ loose' = loose \union {cur[c]}
  /\ UNCHANGED <<cs, table, code, locked, call, tries, thread>>

GiveUp(c) ==
  /\ tries[c] = MaxTries
  /\ LetGo(c, "visit")
  /\ snap' = [snap EXCEPT ![c] = @ \ {cur[c]}]
  /\ cur' = [cur EXCEPT ![c] = NONE]
  /\ loose' = loose \union {cur[c]}
  /\ UNCHANGED <<cs, table, code, locked, call, tries, alive, exited, ip, heap>>

-------------------------------------------------------------------------------
(* No trampoline, or VirtualProtect fails. *)
ChangeFails(c) ==
  /\ Goto(c, "change", "resume")
  /\ UNCHANGED <<cs, table, code, locked, call, local, thread, loose>>

(* The bytes are not written at once: EmitJump stores the opcode, then the
   distance, and Mhook_Unhook stores byte after byte.                       *)
StartWrite(c) ==
  /\ Goto(c, "change", "write")
  /\ code' = [code EXCEPT ![target[c]] = "torn"]
  /\ UNCHANGED <<cs, table, locked, call, local, thread, loose>>

EndWrite(c) ==
  /\ Goto(c, "write", "resume")
  /\ code' = [code EXCEPT ![target[c]] = IF op[c] = "set" THEN "jump" ELSE "original"]
  /\ UNCHANGED <<cs, table, locked, call, local, thread, loose>>

(* Mutant: the buffer is freed before the threads are resumed. *)
ResumeAfterFree(c, t) ==
  /\ t \in handles
  /\ heap = NONE
  /\ Goto(c, "resume", "resume")
  /\ handles' = handles \ {t}
  /\ scount' = Resumed(t)
  /\ UNCHANGED <<cs, buf, code, locked, call, local, alive, exited, ip, heap, loose>>

(* ResumeOtherThreads *)
Resume(c, t) ==
  /\ t \in handles
  /\ Goto(c, "resume", "resume")
  /\ handles' = handles \ {t}
  /\ scount' = Resumed(t)
  /\ UNCHANGED <<cs, buf, code, locked, call, local, alive, exited, ip, heap, loose>>

Free(c) ==
  /\ handles = {}
  /\ buf => heap = NONE
  /\ Goto(c, "resume", "leave")
  /\ buf' = FALSE
  /\ UNCHANGED <<cs, handles, code, locked, call, local, thread, loose>>

-------------------------------------------------------------------------------
(* The other threads. *)

EnterCode(w, f) ==
  /\ Runs(w) /\ ip[w] = NONE
  /\ ip' = [ip EXCEPT ![w] = f]
  /\ UNCHANGED <<cs, table, code, locked, pc, call, local, alive, exited, scount, heap, loose>>

LeaveCode(w) ==
  /\ Runs(w) /\ ip[w] # NONE
  /\ ip' = [ip EXCEPT ![w] = NONE]
  /\ UNCHANGED <<cs, table, code, locked, pc, call, local, alive, exited, scount, heap, loose>>

LockHeap(w) ==
  /\ Runs(w) /\ heap = NONE
  /\ heap' = w
  /\ UNCHANGED <<cs, table, code, locked, pc, call, local, alive, exited, ip, scount, loose>>

UnlockHeap(w) ==
  /\ Runs(w) /\ heap = w
  /\ heap' = NONE
  /\ UNCHANGED <<cs, table, code, locked, pc, call, local, alive, exited, ip, scount, loose>>

(* A thread created after the snapshot was taken is not in it. *)
Spawn(w) ==
  /\ w \notin alive \union exited
  /\ alive' = alive \union {w}
  /\ loose' = IF owner = NONE THEN loose ELSE loose \union {w}
  /\ UNCHANGED <<cs, table, code, locked, pc, call, local, exited, ip, scount, heap>>

Exit(w) ==
  /\ Runs(w) /\ ip[w] = NONE /\ heap # w
  /\ alive' = alive \ {w}
  /\ exited' = exited \union {w}
  /\ UNCHANGED <<cs, table, code, locked, pc, call, local, ip, scount, heap, loose>>

-------------------------------------------------------------------------------
Step(c) ==
  \/ CheckInit(c)
  \/ InitCritSec(c)
  \/ MarkInit(c)
  \/ EnterCritSec(c)
  \/ LeaveCritSec(c)
  \/ Accept(c)
  \/ Reject(c)
  \/ TakeSnapshot(c)
  \/ NoSnapshot(c)
  \/ Malloc(c)
  \/ MallocFails(c)
  \/ Visited(c)
  \/ \E t \in Thread : SuspendFails(c, t)
  \/ \E t \in Thread : Suspend(c, t)
  \/ Outside(c)
  \/ NoContext(c)
  \/ Collide(c)
  \/ SuspendAgain(c)
  \/ GiveUp(c)
  \/ ChangeFails(c)
  \/ StartWrite(c)
  \/ EndWrite(c)
  \/ \E t \in Thread : Resume(c, t)
  \/ Free(c)

Others(w) ==
  \/ \E f \in Func : EnterCode(w, f)
  \/ LeaveCode(w)
  \/ LockHeap(w)
  \/ UnlockHeap(w)
  \/ Spawn(w)
  \/ Exit(w)

Next ==
  \/ LeaveDllMain
  \/ EnterDllMain
  \/ \E c \in Caller, o \in {"set", "unset"}, f \in Func : Call(c, o, f)
  \/ \E c \in Caller : Step(c)
  \/ \E w \in Worker : Others(w)

Spec == Init /\ [][Next]_vars

(* A ready thread is scheduled, a free critical section or heap lock goes to a
   thread that waits for it, nobody keeps the heap lock for ever, and DllMain returns. *)
FairSpec ==
  /\ Spec
  /\ WF_vars(LeaveDllMain)
  /\ \A c \in Caller : SF_vars(Step(c))
  /\ \A w \in Worker : WF_vars(UnlockHeap(w))

-------------------------------------------------------------------------------
TypeOK ==
  /\ inited \in BOOLEAN /\ owner \in Caller \union {NONE}
  /\ buf \in BOOLEAN /\ handles \in SUBSET Thread
  /\ code \in [Func -> {"original", "torn", "jump"}]
  /\ locked \in BOOLEAN
  /\ pc \in [Caller -> {"idle", "check", "init", "mark", "enter", "begin", "snapshot",
                        "malloc", "visit", "look", "sleep", "change", "write",
                        "resume", "leave"}]
  /\ op \in [Caller -> {"set", "unset"}]
  /\ target \in [Caller -> Func \union {NONE}]
  /\ calls \in [Caller -> 0 .. MaxCalls]
  /\ snap \in [Caller -> SUBSET Thread]
  /\ cur \in [Caller -> Thread \union {NONE}]
  /\ tries \in [Caller -> 0 .. MaxTries]
  /\ alive \in SUBSET Thread /\ exited \in SUBSET Worker
  /\ ip \in [Worker -> Func \union {NONE}]
  /\ scount \in [Thread -> {0, 1}]
  /\ heap \in Worker \union {NONE}
  /\ loose \in SUBSET Thread

InCritSec(c) ==
  pc[c] \in {"begin", "snapshot", "malloc", "visit", "look", "sleep", "change",
            "write", "resume", "leave"}

(* "ensure thread-safety", says Mhook_SetHook before EnterCritSec: at most one
   thread is between EnterCritSec and LeaveCritSec.  The list of trampolines
   and the array of thread handles are global and rely on it.               *)
MutualExclusion == \A c, d \in Caller : InCritSec(c) /\ InCritSec(d) => c = d

(* While the first bytes of a function are being overwritten, every other
   thread is suspended outside them, except for those SuspendOtherThreads
   cannot stop: created after the snapshot, not to be opened or suspended (in
   the last retry too, whose result is ignored), without a readable context,
   or colliding every time.                                                 *)
OnlyAdmittedEscape ==
  \A c \in Caller : pc[c] \in {"change", "write"} =>
    \A t \in alive \ {c} : t \notin loose => scount[t] > 0 /\ ~Inside(t, target[c])

(* Outside Mhook_SetHook and Mhook_Unhook no thread is left suspended by them,
   whichever calls failed and however often a thread collided.              *)
NoneLeftSuspended ==
  (\A c \in Caller : ~InCritSec(c)) => \A t \in Thread : scount[t] = 0

(* The one way to wait for ever: the library is unloaded, so main waits for
   g_cs inside DllMain, while the thread that has it waits for the loader lock. *)
LoaderDeadlock ==
  /\ locked /\ pc[main] = "enter"
  /\ owner \in Caller \ {main}
  /\ pc[owner] = "snapshot"

(* Every call of Mhook_SetHook or Mhook_Unhook returns, that one case apart:
   the engine never waits for the heap while it keeps the thread suspended
   that holds it, and callers do not wait for each other.                   *)
CallsReturn ==
  \A c \in Caller : pc[c] # "idle" ~> pc[c] = "idle" \/ LoaderDeadlock
===============================================================================
