-------------------------- MODULE HookEngine_proofs --------------------------
(* Proofs about HookEngine, for any set of callers, of other threads and of
   functions, and any number of calls and retries.  The theorems take for
   granted that the first call is made while no other thread can make
   one, which is what EnterCritSec needs.                                    *)
EXTENDS HookEngine, TLAPS

(* TypeOK but for the bounds of scount and tries, which need more than types. *)
BaseType ==
  /\ inited \in BOOLEAN /\ owner \in Caller \union {NONE}
  /\ buf \in BOOLEAN /\ handles \in SUBSET Thread
  /\ code \in [Func -> {"original", "torn", "jump"}]
  /\ locked \in BOOLEAN
  /\ pc \in [Caller -> {"idle", "check", "init", "mark", "enter", "begin", "snapshot",
                        "malloc", "visit", "look", "sleep", "change", "write",
                        "resume", "leave"}]
  /\ op \in [Caller -> {"set", "unset"}]
  /\ target \in [Caller -> Func \union {NONE}]
  /\ calls \in [Caller -> 0 .. MaxCalls]
  /\ snap \in [Caller -> SUBSET Thread]
  /\ cur \in [Caller -> Thread \union {NONE}]
  /\ tries \in [Caller -> 0 .. MaxTries]
  /\ alive \in SUBSET Thread /\ exited \in SUBSET Worker
  /\ ip \in [Worker -> Func \union {NONE}]
  /\ scount \in [Thread -> Int]
  /\ heap \in Worker \union {NONE}
  /\ loose \in SUBSET Thread

(* Until g_cs is initialised only main is in the library, and only at its door;
   afterwards nobody initialises it again.                                  *)
Starting ==
  /\ ~inited => /\ locked /\ owner = NONE
                /\ pc[main] \in {"idle", "check", "init", "mark"}
                /\ \A c \in Caller \ {main} : pc[c] = "idle"
  /\ inited => \A c \in Caller : pc[c] \notin {"init", "mark"}

Owning == \A c \in Caller : InCritSec(c) => owner = c

Suspending == {"visit", "look", "sleep"}

(* Where the thread handles are: nobody has any before the threads are visited,
   and the threads still to be visited have none.                           *)
Holding ==
  /\ handles # {} => \E c \in Caller :
                       pc[c] \in Suspending \union {"change", "write", "resume"}
  /\ \A c \in Caller :
       /\ pc[c] \in Suspending => snap[c] \intersect handles = {}
       /\ pc[c] \in Suspending \union {"malloc"} => snap[c] \subseteq alive \union exited
       /\ pc[c] \in {"look", "sleep"} => cur[c] \in snap[c]
       /\ pc[c] = "sleep" => tries[c] < MaxTries

(* Who is suspended: the threads whose handle is kept or in hand. *)
Held(t) == t \in handles \/ \E c \in Caller : pc[c] = "look" /\ cur[c] = t

Counting ==
  /\ \A t \in Thread : scount[t] \in {0, 1} /\ (scount[t] = 1 => Held(t))
  /\ \A c \in Caller : pc[c] = "look" /\ cur[c] \in alive => scount[cur[c]] = 1 \/ cur[c] \in loose

Stopped(c, t) == t \in handles /\ scount[t] > 0 /\ ~Inside(t, target[c])

(* Every other thread is stopped, still to be visited, or known to be loose. *)
Escaping ==
  \A c \in Caller :
    /\ pc[c] \in Suspending \union {"malloc"} =>
         \A t \in alive \ {c} : t \in loose \/ t \in snap[c] \/ Stopped(c, t)
    /\ pc[c] \in {"change", "write"} =>
         \A t \in alive \ {c} : t \in loose \/ Stopped(c, t)

EngineInv == BaseType /\ Starting /\ Owning /\ Holding /\ Counting /\ Escaping

(* The constants name different things. *)
LEMMA Distinct == NONE \notin Caller /\ NONE \notin Worker /\ main \in Caller
BY EngineAssumption DEF Thread

(* Every step keeps the types and the owner of the critical section. *)
LEMMA BaseStep == BaseType /\ Holding /\ [Next]_vars => BaseType'
<1> SUFFICES ASSUME BaseType, Holding, [Next]_vars PROVE BaseType'
  OBVIOUS
<1> USE EngineAssumption DEF BaseType, Thread, cs, table, call, local, thread, Goto
<1>1. CASE LeaveDllMain \/ EnterDllMain
  BY <1>1 DEF LeaveDllMain, EnterDllMain
<1>2. ASSUME NEW c \in Caller, NEW o \in {"set", "unset"}, NEW f \in Func, Call(c, o, f)
      PROVE BaseType'
  BY <1>2 DEF Call
<1>3. ASSUME NEW c \in Caller, Step(c) PROVE BaseType'
  <2>1. CASE CheckInit(c) \/ InitCritSec(c) \/ MarkInit(c) \/ EnterCritSec(c) \/ LeaveCritSec(c)
    <3>1. CASE CheckInit(c)
      BY <3>1 DEF CheckInit
    <3>2. CASE InitCritSec(c) \/ MarkInit(c)
      BY <3>2 DEF InitCritSec, MarkInit
    <3>3. CASE EnterCritSec(c)
      BY <3>3 DEF EnterCritSec
    <3>4. CASE LeaveCritSec(c)
      BY <3>4 DEF LeaveCritSec
    <3>. QED BY <2>1, <3>1, <3>2, <3>3, <3>4
  <2>2. CASE Accept(c) \/ Reject(c)
    <3>1. CASE Accept(c)
      BY <3>1 DEF Accept
    <3>2. CASE Reject(c)
      BY <3>2 DEF Reject
    <3>. QED BY <2>2, <3>1, <3>2
  <2>11. CASE TakeSnapshot(c) \/ NoSnapshot(c)
    <3>1. CASE TakeSnapshot(c)
      BY <3>1 DEF TakeSnapshot
    <3>2. CASE NoSnapshot(c)
      BY <3>2 DEF NoSnapshot
    <3>. QED BY <2>11, <3>1, <3>2
  <2>3. CASE Malloc(c) \/ MallocFails(c) \/ Visited(c)
    <3>1. CASE Malloc(c)
      BY <3>1 DEF Malloc
    <3>2. CASE MallocFails(c)
      BY <3>2 DEF MallocFails
    <3>3. CASE Visited(c)
      BY <3>3 DEF Visited
    <3>. QED BY <2>3, <3>1, <3>2, <3>3
  <2>4. ASSUME NEW t \in Thread, SuspendFails(c, t) \/ Suspend(c, t) PROVE BaseType'
    <3>1. CASE SuspendFails(c, t)
      BY <3>1 DEF SuspendFails
    <3>2. CASE Suspend(c, t)
      <4>1. scount' \in [Thread -> Int]
        BY <3>2 DEF Suspend
      <4>. QED BY <3>2, <4>1 DEF Suspend
    <3>. QED BY <2>4, <3>1, <3>2
  <2>5. CASE Outside(c) \/ NoContext(c)
    <3>1. Record(c) /\ loose' \in {loose, loose \union {cur[c]}}
      BY <2>5 DEF Outside, NoContext
    <3>2. cur[c] \in Thread
      BY <3>1 DEF Record, Holding, Suspending
    <3>. QED BY <3>1, <3>2 DEF Record
  <2>6. CASE Collide(c)
    BY <2>6 DEF Collide, LetGo, Resumed
  <2>7. CASE SuspendAgain(c)
    <3>1. tries[c] + 1 \in 0 .. MaxTries
      BY <2>7 DEF SuspendAgain, Holding, Suspending
    <3>2. scount' \in [Thread -> Int]
      BY <2>7 DEF SuspendAgain
    <3>3. cur[c] \in Thread
      BY <2>7 DEF SuspendAgain, Holding, Suspending
    <3>4. loose' \in SUBSET Thread
      BY <2>7, <3>3 DEF SuspendAgain
    <3>. QED BY <2>7, <3>1, <3>2, <3>4 DEF SuspendAgain
  <2>8. CASE GiveUp(c)
    BY <2>8 DEF GiveUp, LetGo, Resumed
  <2>9. CASE ChangeFails(c) \/ StartWrite(c) \/ EndWrite(c) \/ Free(c)
    <3>1. CASE ChangeFails(c)
      BY <3>1 DEF ChangeFails
    <3>2. CASE StartWrite(c)
      BY <3>2 DEF StartWrite
    <3>3. CASE EndWrite(c)
      BY <3>3 DEF EndWrite
    <3>4. CASE Free(c)
      BY <3>4 DEF Free
    <3>. QED BY <2>9, <3>1, <3>2, <3>3, <3>4
  <2>10. ASSUME NEW t \in Thread, Resume(c, t) PROVE BaseType'
    BY <2>10 DEF Resume, Resumed
  <2>. HIDE DEF BaseType, Thread, Goto, cs, table, call, local, thread
  <2>. QED BY <1>3, <2>1, <2>2, <2>3, <2>4, <2>5, <2>6, <2>7, <2>8, <2>9, <2>10, <2>11 DEF Step
<1>4. ASSUME NEW w \in Worker, Others(w) PROVE BaseType'
  BY <1>4 DEF Others, EnterCode, LeaveCode, LockHeap, UnlockHeap, Spawn, Exit
<1>5. CASE UNCHANGED vars
  BY <1>5 DEF vars
<1>. HIDE DEF BaseType, Thread, Goto, cs, table, call, local, thread
<1>. QED BY <1>1, <1>2, <1>3, <1>4, <1>5 DEF Next

(* The steps between EnterCritSec and LeaveCritSec. *)
Inner(c) ==
  \/ Accept(c) \/ Reject(c) \/ TakeSnapshot(c) \/ NoSnapshot(c)
  \/ Malloc(c) \/ MallocFails(c) \/ Visited(c)
  \/ \E t \in Thread : SuspendFails(c, t) \/ Suspend(c, t)
  \/ Outside(c) \/ NoContext(c) \/ Collide(c) \/ SuspendAgain(c) \/ GiveUp(c)
  \/ ChangeFails(c) \/ StartWrite(c) \/ EndWrite(c)
  \/ (\E t \in Thread : Resume(c, t)) \/ Free(c)

CritPc == {"begin", "snapshot", "malloc", "visit", "look", "sleep", "change", "write",
           "resume", "leave"}

(* None of them touches the critical section, and they stay inside it. *)
LEMMA InnerFrame ==
  \A c \in Caller : BaseType /\ Inner(c) =>
    /\ UNCHANGED <<inited, owner, locked>>
    /\ pc[c] \in CritPc
    /\ \E p \in CritPc : pc' = [pc EXCEPT ![c] = p]
<1> SUFFICES ASSUME NEW c \in Caller, BaseType, Inner(c)
             PROVE /\ UNCHANGED <<inited, owner, locked>>
                   /\ pc[c] \in CritPc
                   /\ \E p \in CritPc : pc' = [pc EXCEPT ![c] = p]
  OBVIOUS
<1>1. UNCHANGED <<inited, owner, locked>>
  BY DEF Inner, Accept, Reject, TakeSnapshot, NoSnapshot, Malloc, MallocFails, Visited, SuspendFails,
     Suspend, Outside, NoContext, Record, Collide, SuspendAgain, GiveUp, LetGo,
     ChangeFails, StartWrite, EndWrite, Resume, Free, cs
<1>2. \E p, q \in CritPc : Goto(c, p, q)
  BY DEF Inner, Accept, Reject, TakeSnapshot, NoSnapshot, Malloc, MallocFails, Visited, SuspendFails,
     Suspend, Outside, NoContext, Record, Collide, SuspendAgain, GiveUp, LetGo,
     ChangeFails, StartWrite, EndWrite, Resume, Free, CritPc
<1>. QED BY <1>1, <1>2 DEF Goto

(* Only CheckInit, InitCritSec and MarkInit move a caller about the door, and
   only main is there before g_cs is initialised.                           *)
LEMMA StartingStep == DllMainHooks /\ BaseType /\ Starting /\ [Next]_vars => Starting'
<1> SUFFICES ASSUME DllMainHooks, BaseType, Starting, [Next]_vars PROVE Starting'
  OBVIOUS
<1> USE Distinct DEF BaseType, Starting, cs, table, call, local, thread, Goto
<1>1. CASE LeaveDllMain \/ EnterDllMain
  BY <1>1 DEF LeaveDllMain, EnterDllMain
<1>2. ASSUME NEW c \in Caller, NEW o \in {"set", "unset"}, NEW f \in Func, Call(c, o, f)
      PROVE Starting'
  BY <1>2 DEF Call
<1>3. ASSUME NEW c \in Caller, Step(c) PROVE Starting'
  <2>1. CASE CheckInit(c)
    BY <2>1 DEF CheckInit
  <2>2. CASE InitCritSec(c)
    BY <2>2 DEF InitCritSec
  <2>3. CASE MarkInit(c)
    BY <2>3 DEF MarkInit
  <2>4. CASE EnterCritSec(c)
    BY <2>4 DEF EnterCritSec
  <2>5. CASE LeaveCritSec(c)
    BY <2>5 DEF LeaveCritSec
  <2>6. ASSUME Inner(c) PROVE Starting'
    BY <2>6, InnerFrame DEF CritPc
  <2>. HIDE DEF BaseType, Starting, Goto, cs, table, call, local, thread
  <2>. QED BY <1>3, <2>1, <2>2, <2>3, <2>4, <2>5, <2>6 DEF Step, Inner
<1>4. ASSUME NEW w \in Worker, Others(w) PROVE Starting'
  BY <1>4 DEF Others, EnterCode, LeaveCode, LockHeap, UnlockHeap, Spawn, Exit
<1>5. CASE UNCHANGED vars
  BY <1>5 DEF vars
<1>. HIDE DEF BaseType, Starting, Goto, cs, table, call, local, thread
<1>. QED BY <1>1, <1>2, <1>3, <1>4, <1>5 DEF Next

(* Every step keeps what the owner's locals say of the suspended threads. *)
LEMMA OwningStep ==
  BaseType /\ Starting /\ Owning /\ [Next]_vars => Owning'
<1> SUFFICES ASSUME BaseType, Starting, Owning, [Next]_vars PROVE Owning'
  OBVIOUS
<1> USE Distinct DEF BaseType, Owning, InCritSec, cs, table, call, local, thread, Goto
<1>1. CASE LeaveDllMain \/ EnterDllMain
  BY <1>1 DEF LeaveDllMain, EnterDllMain
<1>2. ASSUME NEW c \in Caller, NEW o \in {"set", "unset"}, NEW f \in Func, Call(c, o, f)
      PROVE Owning'
  BY <1>2 DEF Call
<1>3. ASSUME NEW c \in Caller, Step(c) PROVE Owning'
  <2>1. CASE CheckInit(c)
    BY <2>1 DEF CheckInit
  <2>2. CASE InitCritSec(c)
    BY <2>2 DEF InitCritSec, Starting
  <2>3. CASE MarkInit(c)
    BY <2>3 DEF MarkInit
  <2>4. CASE EnterCritSec(c)
    BY <2>4 DEF EnterCritSec
  <2>5. CASE LeaveCritSec(c)
    BY <2>5 DEF LeaveCritSec
  <2>6. ASSUME Inner(c) PROVE Owning'
    BY <2>6, InnerFrame DEF CritPc
  <2>. HIDE DEF BaseType, Owning, InCritSec, Goto, cs, table, call, local, thread
  <2>. QED BY <1>3, <2>1, <2>2, <2>3, <2>4, <2>5, <2>6 DEF Step, Inner
<1>4. ASSUME NEW w \in Worker, Others(w) PROVE Owning'
  BY <1>4 DEF Others, EnterCode, LeaveCode, LockHeap, UnlockHeap, Spawn, Exit
<1>5. CASE UNCHANGED vars
  BY <1>5 DEF vars
<1>. HIDE DEF BaseType, Owning, InCritSec, Goto, cs, table, call, local, thread
<1>. QED BY <1>1, <1>2, <1>3, <1>4, <1>5 DEF Next

(* Two callers are never both inside. *)
LEMMA Alone ==
  BaseType /\ Owning => \A c, d \in Caller : c # d /\ pc[c] \in CritPc => pc[d] \notin CritPc
BY DEF Owning, InCritSec, CritPc

(* A call has handles only between the visit of the threads and their resumption. *)
LEMMA HoldingStep ==
  BaseType /\ Starting /\ Owning /\ Holding /\ [Next]_vars => Holding'
<1> SUFFICES ASSUME BaseType, Starting, Owning, Holding, [Next]_vars PROVE Holding'
  OBVIOUS
<1> USE Distinct, Alone DEF BaseType, Holding, Suspending, CritPc, cs, table, call, local, thread, Goto
<1>1. CASE LeaveDllMain \/ EnterDllMain
  BY <1>1 DEF LeaveDllMain, EnterDllMain
<1>2. ASSUME NEW c \in Caller, NEW o \in {"set", "unset"}, NEW f \in Func, Call(c, o, f)
      PROVE Holding'
  BY <1>2 DEF Call
<1>3. ASSUME NEW c \in Caller, Step(c) PROVE Holding'
  <2>1. CASE CheckInit(c) \/ InitCritSec(c) \/ MarkInit(c)
    BY <2>1 DEF CheckInit, InitCritSec, MarkInit
  <2>2. CASE EnterCritSec(c)
    BY <2>2 DEF EnterCritSec
  <2>3. CASE LeaveCritSec(c)
    BY <2>3 DEF LeaveCritSec
  <2>4. CASE Accept(c) \/ Reject(c)
    BY <2>4 DEF Accept, Reject
  <2>5. CASE TakeSnapshot(c)
    BY <2>5 DEF TakeSnapshot
  <2>6. CASE NoSnapshot(c)
    BY <2>6 DEF NoSnapshot
  <2>7. CASE Malloc(c)
    BY <2>7 DEF Malloc
  <2>8. CASE MallocFails(c)
    BY <2>8 DEF MallocFails
  <2>9. CASE Visited(c)
    BY <2>9 DEF Visited
  <2>10. ASSUME NEW t \in Thread, SuspendFails(c, t) PROVE Holding'
    BY <2>10 DEF SuspendFails
  <2>11. ASSUME NEW t \in Thread, Suspend(c, t) PROVE Holding'
    BY <2>11 DEF Suspend
  <2>12. CASE Outside(c)
    BY <2>12 DEF Outside, Record
  <2>13. CASE NoContext(c)
    BY <2>13 DEF NoContext, Record
  <2>14. CASE Collide(c)
    BY <2>14 DEF Collide, LetGo, Resumed
  <2>15. CASE SuspendAgain(c)
    BY <2>15 DEF SuspendAgain
  <2>16. CASE GiveUp(c)
    BY <2>16 DEF GiveUp, LetGo, Resumed
  <2>17. CASE ChangeFails(c)
    BY <2>17 DEF ChangeFails
  <2>18. CASE StartWrite(c)
    BY <2>18 DEF StartWrite
  <2>19. CASE EndWrite(c)
    BY <2>19 DEF EndWrite
  <2>20. ASSUME NEW t \in Thread, Resume(c, t) PROVE Holding'
    BY <2>20 DEF Resume, Resumed
  <2>21. CASE Free(c)
    BY <2>21 DEF Free
  <2>. HIDE DEF BaseType, Holding, Suspending, CritPc, Goto, cs, table, call, local, thread
  <2>. QED BY <1>3, <2>1, <2>2, <2>3, <2>4, <2>5, <2>6, <2>7, <2>8, <2>9, <2>10, <2>11, <2>12, <2>13, <2>14, <2>15, <2>16, <2>17, <2>18, <2>19, <2>20, <2>21 DEF Step
<1>4. ASSUME NEW w \in Worker, Others(w) PROVE Holding'
  <2>1. ASSUME NEW f \in Func, EnterCode(w, f) PROVE Holding'
    BY <2>1 DEF EnterCode, Runs
  <2>2. CASE LeaveCode(w)
    BY <2>2 DEF LeaveCode, Runs
  <2>3. CASE LockHeap(w) \/ UnlockHeap(w)
    BY <2>3 DEF LockHeap, UnlockHeap
  <2>4. CASE Spawn(w)
    BY <2>4 DEF Spawn
  <2>5. CASE Exit(w)
    BY <2>5 DEF Exit, Runs
  <2>. HIDE DEF BaseType, Holding, Suspending, CritPc, cs, table, call, local, thread
  <2>. QED BY <1>4, <2>1, <2>2, <2>3, <2>4, <2>5 DEF Others
<1>5. CASE UNCHANGED vars
  BY <1>5 DEF vars
<1>. HIDE DEF BaseType, Holding, Suspending, CritPc, Goto, cs, table, call, local, thread
<1>. QED BY <1>1, <1>2, <1>3, <1>4, <1>5 DEF Next

(* Only the thread in hand is suspended or resumed, once each. *)
LEMMA CountingStep ==
  BaseType /\ Owning /\ Holding /\ Counting /\ [Next]_vars => Counting'
<1> SUFFICES ASSUME BaseType, Owning, Holding, Counting, [Next]_vars PROVE Counting'
  OBVIOUS
<1> USE Distinct, Alone DEF BaseType, Counting, Held, Holding, Suspending, CritPc, cs, table, call, local, thread, Goto
<1>1. CASE LeaveDllMain \/ EnterDllMain
  BY <1>1 DEF LeaveDllMain, EnterDllMain
<1>2. ASSUME NEW c \in Caller, NEW o \in {"set", "unset"}, NEW f \in Func, Call(c, o, f)
      PROVE Counting'
  BY <1>2 DEF Call
<1>3. ASSUME NEW c \in Caller, Step(c) PROVE Counting'
  <2>1. CASE CheckInit(c) \/ InitCritSec(c) \/ MarkInit(c)
    BY <2>1 DEF CheckInit, InitCritSec, MarkInit
  <2>2. CASE EnterCritSec(c)
    BY <2>2 DEF EnterCritSec
  <2>3. CASE LeaveCritSec(c)
    BY <2>3 DEF LeaveCritSec
  <2>4. CASE Accept(c) \/ Reject(c)
    BY <2>4 DEF Accept, Reject
  <2>5. CASE TakeSnapshot(c)
    BY <2>5 DEF TakeSnapshot
  <2>6. CASE NoSnapshot(c)
    BY <2>6 DEF NoSnapshot
  <2>7. CASE Malloc(c)
    BY <2>7 DEF Malloc
  <2>8. CASE MallocFails(c)
    BY <2>8 DEF MallocFails
  <2>9. CASE Visited(c)
    BY <2>9 DEF Visited
  <2>10. ASSUME NEW t \in Thread, SuspendFails(c, t) PROVE Counting'
    BY <2>10 DEF SuspendFails
  <2>11. ASSUME NEW t \in Thread, Suspend(c, t) PROVE Counting'
    BY <2>11 DEF Suspend
  <2>12. CASE Outside(c)
    BY <2>12 DEF Outside, Record
  <2>13. CASE NoContext(c)
    BY <2>13 DEF NoContext, Record
  <2>14. CASE Collide(c)
    BY <2>14 DEF Collide, LetGo, Resumed
  <2>15. CASE SuspendAgain(c)
    BY <2>15 DEF SuspendAgain
  <2>16. CASE GiveUp(c)
    BY <2>16 DEF GiveUp, LetGo, Resumed
  <2>17. CASE ChangeFails(c)
    BY <2>17 DEF ChangeFails
  <2>18. CASE StartWrite(c)
    BY <2>18 DEF StartWrite
  <2>19. CASE EndWrite(c)
    BY <2>19 DEF EndWrite
  <2>20. ASSUME NEW t \in Thread, Resume(c, t) PROVE Counting'
    BY <2>20 DEF Resume, Resumed
  <2>21. CASE Free(c)
    BY <2>21 DEF Free
  <2>. HIDE DEF BaseType, Counting, Held, Holding, Suspending, CritPc, Goto, cs, table, call, local, thread
  <2>. QED BY <1>3, <2>1, <2>2, <2>3, <2>4, <2>5, <2>6, <2>7, <2>8, <2>9, <2>10, <2>11, <2>12, <2>13, <2>14, <2>15, <2>16, <2>17, <2>18, <2>19, <2>20, <2>21 DEF Step
<1>4. ASSUME NEW w \in Worker, Others(w) PROVE Counting'
  <2>1. ASSUME NEW f \in Func, EnterCode(w, f) PROVE Counting'
    BY <2>1 DEF EnterCode, Runs
  <2>2. CASE LeaveCode(w)
    BY <2>2 DEF LeaveCode, Runs
  <2>3. CASE LockHeap(w) \/ UnlockHeap(w)
    BY <2>3 DEF LockHeap, UnlockHeap
  <2>4. CASE Spawn(w)
    BY <2>4 DEF Spawn
  <2>5. CASE Exit(w)
    BY <2>5 DEF Exit, Runs
  <2>. HIDE DEF BaseType, Counting, Held, Holding, Suspending, CritPc, cs, table, call, local, thread
  <2>. QED BY <1>4, <2>1, <2>2, <2>3, <2>4, <2>5 DEF Others
<1>5. CASE UNCHANGED vars
  BY <1>5 DEF vars
<1>. HIDE DEF BaseType, Counting, Held, Holding, Suspending, CritPc, Goto, cs, table, call, local, thread
<1>. QED BY <1>1, <1>2, <1>3, <1>4, <1>5 DEF Next

(* A thread leaves the list of those to be visited stopped or loose; a stopped
   thread does not move, and a new one is loose.                            *)
LEMMA EscapingStep ==
  BaseType /\ Owning /\ Holding /\ Counting /\ Escaping /\ [Next]_vars => Escaping'
<1> SUFFICES ASSUME BaseType, Owning, Holding, Counting, Escaping, [Next]_vars PROVE Escaping'
  OBVIOUS
<1> USE Distinct, Alone DEF BaseType, Escaping, Stopped, Inside, Holding, Counting, Suspending, CritPc, cs, table, call, local, thread, Goto
<1>1. CASE LeaveDllMain \/ EnterDllMain
  BY <1>1 DEF LeaveDllMain, EnterDllMain
<1>2. ASSUME NEW c \in Caller, NEW o \in {"set", "unset"}, NEW f \in Func, Call(c, o, f)
      PROVE Escaping'
  BY <1>2 DEF Call
<1>3. ASSUME NEW c \in Caller, Step(c) PROVE Escaping'
  <2>1. CASE CheckInit(c) \/ InitCritSec(c) \/ MarkInit(c)
    BY <2>1 DEF CheckInit, InitCritSec, MarkInit
  <2>2. CASE EnterCritSec(c)
    BY <2>2 DEF EnterCritSec
  <2>3. CASE LeaveCritSec(c)
    BY <2>3 DEF LeaveCritSec
  <2>4. CASE Accept(c) \/ Reject(c)
    BY <2>4 DEF Accept, Reject
  <2>5. CASE TakeSnapshot(c)
    BY <2>5 DEF TakeSnapshot
  <2>6. CASE NoSnapshot(c)
    BY <2>6 DEF NoSnapshot
  <2>7. CASE Malloc(c)
    BY <2>7 DEF Malloc
  <2>8. CASE MallocFails(c)
    BY <2>8 DEF MallocFails
  <2>9. CASE Visited(c)
    BY <2>9 DEF Visited
  <2>10. ASSUME NEW t \in Thread, SuspendFails(c, t) PROVE Escaping'
    BY <2>10 DEF SuspendFails
  <2>11. ASSUME NEW t \in Thread, Suspend(c, t) PROVE Escaping'
    BY <2>11 DEF Suspend
  <2>12. CASE Outside(c)
    BY <2>12 DEF Outside, Record
  <2>13. CASE NoContext(c)
    BY <2>13 DEF NoContext, Record
  <2>14. CASE Collide(c)
    BY <2>14 DEF Collide, LetGo, Resumed
  <2>15. CASE SuspendAgain(c)
    BY <2>15 DEF SuspendAgain
  <2>16. CASE GiveUp(c)
    BY <2>16 DEF GiveUp, LetGo, Resumed
  <2>17. CASE ChangeFails(c)
    BY <2>17 DEF ChangeFails
  <2>18. CASE StartWrite(c)
    BY <2>18 DEF StartWrite
  <2>19. CASE EndWrite(c)
    BY <2>19 DEF EndWrite
  <2>20. ASSUME NEW t \in Thread, Resume(c, t) PROVE Escaping'
    BY <2>20 DEF Resume, Resumed
  <2>21. CASE Free(c)
    BY <2>21 DEF Free
  <2>. HIDE DEF BaseType, Escaping, Stopped, Inside, Holding, Counting, Suspending, CritPc, Goto, cs, table, call, local, thread
  <2>. QED BY <1>3, <2>1, <2>2, <2>3, <2>4, <2>5, <2>6, <2>7, <2>8, <2>9, <2>10, <2>11, <2>12, <2>13, <2>14, <2>15, <2>16, <2>17, <2>18, <2>19, <2>20, <2>21 DEF Step
<1>4. ASSUME NEW w \in Worker, Others(w) PROVE Escaping'
  <2>1. ASSUME NEW f \in Func, EnterCode(w, f) PROVE Escaping'
    BY <2>1 DEF EnterCode, Runs
  <2>2. CASE LeaveCode(w)
    BY <2>2 DEF LeaveCode, Runs
  <2>3. CASE LockHeap(w) \/ UnlockHeap(w)
    BY <2>3 DEF LockHeap, UnlockHeap
  <2>4. CASE Spawn(w)
    <3>1. \A c \in Caller : pc[c] \in CritPc => owner # NONE
      BY DEF Owning, InCritSec
    <3>2. (\E c \in Caller : pc[c] \in CritPc) => loose' = loose \union {w}
      BY <2>4, <3>1 DEF Spawn
    <3>3. alive' = alive \union {w} /\ (loose' = loose \/ loose' = loose \union {w})
          /\ UNCHANGED <<pc, snap, handles, scount, ip, target>>
      BY <2>4 DEF Spawn
    <3>. QED BY <3>2, <3>3
  <2>5. CASE Exit(w)
    BY <2>5 DEF Exit, Runs
  <2>. HIDE DEF BaseType, Escaping, Stopped, Inside, Holding, Counting, Suspending, CritPc, cs, table, call, local, thread
  <2>. QED BY <1>4, <2>1, <2>2, <2>3, <2>4, <2>5 DEF Others
<1>5. CASE UNCHANGED vars
  BY <1>5 DEF vars
<1>. HIDE DEF BaseType, Escaping, Stopped, Inside, Holding, Counting, Suspending, CritPc, Goto, cs, table, call, local, thread
<1>. QED BY <1>1, <1>2, <1>3, <1>4, <1>5 DEF Next

(* The structure of the suspension of threads, from which the rest follows. *)
THEOREM InvCorrect == DllMainHooks => (Spec => []EngineInv)
<1> SUFFICES ASSUME DllMainHooks PROVE Spec => []EngineInv
  OBVIOUS
<1>1. Init => EngineInv
  <2> SUFFICES ASSUME Init PROVE EngineInv
    OBVIOUS
  <2>1. BaseType
    <3>1. alive \in SUBSET Thread
      BY DEF Init, Thread
    <3>2. 0 \in 0 .. MaxCalls /\ 0 \in 0 .. MaxTries
      BY EngineAssumption
    <3>3. /\ exited \in SUBSET Worker /\ loose \in SUBSET Thread /\ handles \in SUBSET Thread
          /\ heap = NONE /\ owner = NONE /\ inited = FALSE /\ buf = FALSE /\ locked = TRUE
          /\ ip = [w \in Worker |-> NONE]
          /\ scount = [t \in Thread |-> 0]
      BY DEF Init
    <3>4. /\ code = [f \in Func |-> "original"]
          /\ pc = [c \in Caller |-> "idle"] /\ op = [c \in Caller |-> "set"]
          /\ target = [c \in Caller |-> NONE] /\ calls = [c \in Caller |-> 0]
          /\ snap = [c \in Caller |-> {}] /\ cur = [c \in Caller |-> NONE]
          /\ tries = [c \in Caller |-> 0]
      BY DEF Init
    <3>. HIDE DEF Thread, Init
    <3>5. snap \in [Caller -> SUBSET Thread]
      <4>1. {} \in SUBSET Thread
        OBVIOUS
      <4>. QED BY <3>4, <4>1
    <3>6. calls \in [Caller -> 0 .. MaxCalls] /\ tries \in [Caller -> 0 .. MaxTries]
      BY <3>2, <3>4
    <3>7. ip \in [Worker -> Func \union {NONE}] /\ scount \in [Thread -> Int]
      BY <3>3
    <3>8. /\ code \in [Func -> {"original", "torn", "jump"}]
          /\ op \in [Caller -> {"set", "unset"}]
          /\ target \in [Caller -> Func \union {NONE}]
          /\ cur \in [Caller -> Thread \union {NONE}]
      BY <3>4
    <3>9. pc \in [Caller -> {"idle", "check", "init", "mark", "enter", "begin", "snapshot",
                             "malloc", "visit", "look", "sleep", "change", "write",
                             "resume", "leave"}]
      BY <3>4
    <3>. QED BY <3>1, <3>3, <3>5, <3>6, <3>7, <3>8, <3>9 DEF BaseType
  <2>2. Starting /\ Owning
    BY Distinct DEF Init, Starting, Owning, InCritSec
  <2>3. Holding /\ Counting /\ Escaping
    BY DEF Init, Holding, Suspending, Counting, Held, Escaping
  <2>. QED BY <2>1, <2>2, <2>3 DEF EngineInv
<1>2. EngineInv /\ [Next]_vars => EngineInv'
  BY BaseStep, StartingStep, OwningStep, HoldingStep, CountingStep, EscapingStep DEF EngineInv
<1>. QED BY <1>1, <1>2, PTL DEF Spec

(* The state keeps its types; no thread is suspended twice over, and
   SuspendOneThread tries no more often than it should.                     *)
THEOREM EngineTypeCorrect == DllMainHooks => (Spec => []TypeOK)
<1> SUFFICES ASSUME DllMainHooks PROVE Spec => []TypeOK
  OBVIOUS
<1>1. EngineInv => TypeOK
  BY DEF EngineInv, BaseType, Counting, TypeOK
<1>. QED BY <1>1, InvCorrect, PTL

(* Mhook_SetHook and Mhook_Unhook exclude each other once the first call was
   made by a thread alone.                                                  *)
THEOREM CallsExclude == DllMainHooks => (Spec => []MutualExclusion)
<1> SUFFICES ASSUME DllMainHooks PROVE Spec => []MutualExclusion
  OBVIOUS
<1>1. EngineInv => MutualExclusion
  BY DEF EngineInv, Owning, MutualExclusion
<1>. QED BY <1>1, InvCorrect, PTL

(* The bytes of a function are overwritten while every thread that did not
   escape for an admitted reason is suspended outside them.                 *)
THEOREM OverwriteIsQuiet == DllMainHooks => (Spec => []OnlyAdmittedEscape)
<1> SUFFICES ASSUME DllMainHooks PROVE Spec => []OnlyAdmittedEscape
  OBVIOUS
<1>1. EngineInv => OnlyAdmittedEscape
  BY DEF EngineInv, Escaping, Stopped, OnlyAdmittedEscape
<1>. QED BY <1>1, InvCorrect, PTL

(* A call resumes every thread it suspended before it leaves, whatever failed. *)
THEOREM EverybodyResumed == DllMainHooks => (Spec => []NoneLeftSuspended)
<1> SUFFICES ASSUME DllMainHooks PROVE Spec => []NoneLeftSuspended
  OBVIOUS
<1>1. ASSUME EngineInv, \A c \in Caller : ~InCritSec(c)
      PROVE  \A t \in Thread : scount[t] = 0
  <2>1. handles = {}
    BY <1>1 DEF EngineInv, Holding, Suspending, InCritSec
  <2>2. \A t \in Thread : ~Held(t)
    BY <1>1, <2>1 DEF Held, InCritSec
  <2>. QED BY <1>1, <2>2 DEF EngineInv, Counting
<1>2. EngineInv => NoneLeftSuspended
  BY <1>1 DEF NoneLeftSuspended
<1>. QED BY <1>2, InvCorrect, PTL
===============================================================================
