----------------------------- MODULE Threads_proofs -----------------------------
(* Proofs about the threads that need no other component: ProxyTree, for any
   identifiers, however they are used again, and any size of the table of
   handles; BossKey, for any windows, any combination of keys and any number of
   presses; and UserJs, for any preferences, any number of runs and edits and
   any step at which a run may fail or end.                                   *)
EXTENDS ProxyTree, BossKey, UserJs, SequenceTheorems, FiniteSetTheorems, TLAPS

(* The proxy and its descendants: the calls of search_process, which share h_num, keep the
   table within its bounds and without a gap, and hold the handles of the lineage only.    *)

Todo == {t \in SUBSET Pid : Cardinality(t) < Slots}
Frame == [of : Pid, listed : BOOLEAN, todo : Todo]

(* The handles are the first hNum, but that of the proxy is stored without h_num, which  *)
(* counts it from the beginning. *)
ProxyInv ==
  /\ ProxyTypeOK
  /\ \A i \in Slot : i >= hNum => gHandle[i] = 0
  /\ \A i \in Slot : 1 <= i /\ i < hNum => gHandle[i] # 0
  /\ hNum > 1 => gHandle[0] # 0
  /\ proxy \in {"asleep", "searching"} => gHandle[0] # 0
  /\ proxy \in {"off", "started", "creating"} => hNum = 1 /\ \A i \in Slot : gHandle[i] = 0

(* A call that has not looked at the processes yet *)
LEMMA CalledType == ASSUME NEW p \in Pid PROVE Called(p) \in Frame
<1>1. Cardinality({}) = 0 /\ Slots \in Nat /\ Slots >= 2
  BY FS_EmptySet, ProxyAssumption
<1>2. {} \in Todo
  BY <1>1 DEF Todo
<1>. QED BY <1>2 DEF Called, Frame

(* The invariant holds before do_it. *)
LEMMA ProxyInitOK == ProxyInit => ProxyInv
<1> SUFFICES ASSUME ProxyInit PROVE ProxyInv
  OBVIOUS
<1>1. Slots \in Nat /\ Slots >= 2 /\ Namesakes \subseteq Pid /\ Pid \subseteq Nat \ {0}
  BY ProxyAssumption
<1>2. frames \in Seq(Frame)
  BY EmptySeq DEF ProxyInit
<1>3. used \in [Pid -> Nat]
  BY DEF ProxyInit
<1>4. /\ proxy = "off" /\ hNum = 1 /\ lineage = {} /\ before = {} /\ missed = FALSE
      /\ gHandle = [i \in Slot |-> 0] /\ parent = [p \in Pid |-> 0] /\ alive \subseteq Namesakes
  BY DEF ProxyInit
<1>5. ProxyTypeOK
  <2>1. gHandle \in [Slot -> Pid \union {0}] /\ parent \in [Pid -> Pid \union {0}]
    BY <1>4
  <2>2. hNum \in 1..Slots /\ alive \subseteq Pid /\ lineage \subseteq Pid /\ before \subseteq Pid
    BY <1>1, <1>4
  <2>3. frames \in Seq([of : Pid, listed : BOOLEAN, todo : {t \in SUBSET Pid : Cardinality(t) < Slots}])
    BY <1>2 DEF Frame, Todo
  <2>4. missed \in BOOLEAN
    BY <1>4
  <2>. QED BY <1>3, <1>4, <2>1, <2>2, <2>3, <2>4 DEF ProxyTypeOK
<1>6. hNum = 1 /\ \A i \in Slot : gHandle[i] = 0
  BY DEF ProxyInit
<1>. QED BY <1>4, <1>5, <1>6 DEF ProxyInv, Slot

(* What the invariant tells of a state, without the sequence of calls *)
LEMMA Known ==
  ASSUME ProxyInv
  PROVE  /\ Slots \in Nat /\ Slots >= 2 /\ hNum \in 1..Slots /\ 0 \in Slot
         /\ gHandle \in [Slot -> Pid \union {0}] /\ frames \in Seq(Frame)
         /\ alive \subseteq Pid /\ lineage \subseteq Pid /\ before \subseteq Pid
         /\ parent \in [Pid -> Pid \union {0}] /\ used \in [Pid -> Nat]
         /\ Pid \subseteq Nat \ {0} /\ IsFiniteSet(Pid)
BY ProxyAssumption DEF ProxyInv, ProxyTypeOK, Slot, Frame, Todo

-------------------------------------------------------------------------------
(* The processes of the system: the table is not touched. *)

(* A new process leaves the types alone. *)
LEMMA BornOK ==
  ASSUME ProxyInv, NEW p \in Pid \union {0}, NEW q \in Pid, Born(p, q)
  PROVE  alive' \subseteq Pid /\ parent' \in [Pid -> Pid \union {0}] /\ used' \in [Pid -> Nat]
BY Known DEF Born

(* A process starts another. *)
LEMMA SpawnOK == ProxyInv /\ Spawn => ProxyInv'
<1> SUFFICES ASSUME ProxyInv, Spawn PROVE ProxyInv'
  OBVIOUS
<1>1. PICK p \in alive \union {0}, q \in Pid \ Namesakes :
        /\ Born(p, q)
        /\ lineage' = IF p \in lineage THEN lineage \union {q} ELSE lineage \ {q}
  BY DEF Spawn
<1>2. UNCHANGED <<proxy, frames, hNum, gHandle, before, missed>>
  BY DEF Spawn, thread
<1>3. alive' \subseteq Pid /\ parent' \in [Pid -> Pid \union {0}] /\ used' \in [Pid -> Nat]
  BY <1>1, BornOK, Known
<1>4. lineage' \subseteq Pid
  BY <1>1, Known
<1>5. ProxyTypeOK'
  BY <1>2, <1>3, <1>4 DEF ProxyInv, ProxyTypeOK
<1>. QED BY <1>2, <1>5 DEF ProxyInv

(* A process ends. *)
LEMMA ExitOK == ProxyInv /\ Exit => ProxyInv'
<1> SUFFICES ASSUME ProxyInv, Exit PROVE ProxyInv'
  OBVIOUS
<1>1. UNCHANGED <<proxy, frames, hNum, gHandle, parent, used, lineage, before, missed>>
  BY DEF Exit, thread
<1>2. alive' \subseteq Pid
  BY Known DEF Exit
<1>3. ProxyTypeOK'
  BY <1>1, <1>2 DEF ProxyInv, ProxyTypeOK
<1>. QED BY <1>1, <1>3 DEF ProxyInv

-------------------------------------------------------------------------------
(* run_process: only Launch stores a handle, in the first entry. *)

(* do_it starts the thread. *)
LEMMA StartThreadOK == ProxyInv /\ StartThread => ProxyInv'
BY DEF ProxyInv, ProxyTypeOK, StartThread, processes

(* run_process looks whether the program is to be started. *)
LEMMA DecideOK == ProxyInv /\ Decide => ProxyInv'
BY DEF ProxyInv, ProxyTypeOK, Decide, processes

(* CreateProcessW fails. *)
LEMMA LaunchFailsOK == ProxyInv /\ LaunchFails => ProxyInv'
BY DEF ProxyInv, ProxyTypeOK, LaunchFails, processes

(* The first entry of the table is filled. *)
LEMMA LaunchOK == ProxyInv /\ Launch => ProxyInv'
<1> SUFFICES ASSUME ProxyInv, Launch PROVE ProxyInv'
  OBVIOUS
<1>1. PICK q \in Namesakes :
        Born(0, q) /\ gHandle' = [gHandle EXCEPT ![0] = q] /\ lineage' = {q}
  BY DEF Launch
<1>2. q \in Pid /\ q # 0
  BY <1>1, Known, ProxyAssumption
<1>3. alive' \subseteq Pid /\ parent' \in [Pid -> Pid \union {0}] /\ used' \in [Pid -> Nat]
  BY <1>1, <1>2, BornOK
<1>4. UNCHANGED <<frames, hNum, before, missed>> /\ proxy = "creating" /\ proxy' = "asleep"
  BY DEF Launch
<1>5. hNum = 1 /\ \A i \in Slot : gHandle[i] = 0
  BY <1>4 DEF ProxyInv
<1>6. gHandle' \in [Slot -> Pid \union {0}] /\ gHandle'[0] # 0
      /\ \A i \in Slot : i # 0 => gHandle'[i] = 0
  BY <1>1, <1>2, <1>5, Known
<1>7. ProxyTypeOK'
  BY <1>1, <1>2, <1>3, <1>4, <1>6 DEF ProxyInv, ProxyTypeOK
<1>8. /\ \A i \in Slot : i >= hNum' => gHandle'[i] = 0
      /\ \A i \in Slot : ~(1 <= i /\ i < hNum')
  BY <1>4, <1>5, <1>6 DEF Slot
<1>. QED BY <1>4, <1>5, <1>6, <1>7, <1>8 DEF ProxyInv

(* The search begins with the proxy. *)
LEMMA AwakeOK == ProxyInv /\ Awake => ProxyInv'
<1> SUFFICES ASSUME ProxyInv, Awake PROVE ProxyInv'
  OBVIOUS
<1>1. proxy = "asleep" /\ proxy' = "searching" /\ frames' = <<Called(gHandle[0])>>
      /\ before' = lineage \intersect alive
      /\ UNCHANGED <<hNum, gHandle, alive, parent, used, lineage, missed>>
  BY DEF Awake, processes
<1>2. gHandle[0] \in Pid
  BY <1>1, Known DEF ProxyInv
<1>3. frames' \in Seq(Frame)
  BY <1>1, <1>2, CalledType
<1>4. before' \subseteq Pid
  BY <1>1, Known
<1>5. ProxyTypeOK'
  BY <1>1, <1>3, <1>4 DEF ProxyInv, ProxyTypeOK, Frame, Todo
<1>. QED BY <1>1, <1>5 DEF ProxyInv

-------------------------------------------------------------------------------
(* search_process *)

(* A step of the search that changes no more than its calls and what it missed *)
LEMMA Searching ==
  ASSUME ProxyInv, frames' \in Seq(Frame), missed' \in BOOLEAN,
         UNCHANGED <<proxy, hNum, gHandle, processes, before>>
  PROVE  ProxyInv'
<1>1. ProxyTypeOK'
  BY DEF ProxyInv, ProxyTypeOK, processes, Frame, Todo
<1>. QED BY <1>1 DEF ProxyInv, processes

(* The innermost call becomes another, or is over. *)
LEMMA InnermostBecomes ==
  ASSUME NEW s \in Seq(Frame), s # <<>>, NEW f \in Frame
  PROVE  [s EXCEPT ![1] = f] \in Seq(Frame) /\ Tail(s) \in Seq(Frame) /\ s[1] \in Frame
<1>1. 1 \in 1..Len(s)
  BY EmptySeq
<1>2. s[1] \in Frame
  BY <1>1, ElementOfSeq
<1>. QED BY <1>1, <1>2

(* The children that chi_pid has room for are listed. *)
LEMMA SnapshotOK == ProxyInv /\ Snapshot => ProxyInv'
<1> SUFFICES ASSUME ProxyInv, Snapshot PROVE ProxyInv'
  OBVIOUS
<1>1. PICK kids \in SUBSET Children(frames[1].of) :
        /\ Cardinality(kids) < Slots
        /\ frames' = [frames EXCEPT ![1].listed = TRUE, ![1].todo = kids]
        /\ missed' = (missed \/ kids # Children(frames[1].of))
  BY DEF Snapshot
<1>2. frames \in Seq(Frame) /\ frames # <<>> /\ UNCHANGED <<proxy, hNum, gHandle, processes, before>>
  BY Known DEF Snapshot
<1>3. kids \in Todo
  BY <1>1, Known DEF Children, Todo
<1> DEFINE f == [frames[1] EXCEPT !.listed = TRUE, !.todo = kids]
<1>4. frames[1] \in Frame
  BY <1>2, InnermostBecomes, EmptySeq, ElementOfSeq
<1>5. f \in Frame
  BY <1>3, <1>4 DEF Frame
<1>6. frames' = [frames EXCEPT ![1] = f]
  BY <1>1
<1>7. frames' \in Seq(Frame)
  BY <1>2, <1>5, <1>6, InnermostBecomes
<1>8. missed' \in BOOLEAN
  BY <1>1 DEF ProxyInv, ProxyTypeOK
<1>. QED BY <1>2, <1>7, <1>8, Searching

(* A call of search_process without a snapshot returns. *)
LEMMA SnapshotFailsOK == ProxyInv /\ SnapshotFails => ProxyInv'
<1> SUFFICES ASSUME ProxyInv, SnapshotFails PROVE ProxyInv'
  OBVIOUS
<1>1. frames' = Tail(frames) /\ missed' = TRUE /\ UNCHANGED <<proxy, hNum, gHandle, processes, before>>
      /\ frames \in Seq(Frame) /\ frames # <<>>
  BY Known DEF SnapshotFails
<1>2. frames' \in Seq(Frame)
  BY <1>1
<1>. QED BY <1>1, <1>2, Searching

(* A call of search_process returns. *)
LEMMA ReturnOK == ProxyInv /\ Return => ProxyInv'
<1> SUFFICES ASSUME ProxyInv, Return PROVE ProxyInv'
  OBVIOUS
<1>1. frames' = Tail(frames) /\ UNCHANGED <<proxy, hNum, gHandle, processes, before, missed>>
      /\ frames \in Seq(Frame) /\ frames # <<>>
  BY Known DEF Return
<1>2. frames' \in Seq(Frame)
  BY <1>1
<1>3. missed' \in BOOLEAN
  BY <1>1 DEF ProxyInv, ProxyTypeOK
<1>. QED BY <1>1, <1>2, <1>3, Searching

(* run_process is through. *)
LEMMA SearchOverOK == ProxyInv /\ SearchOver => ProxyInv'
BY DEF ProxyInv, ProxyTypeOK, SearchOver, processes

(* The next entry of the table is filled, while there is one. *)
LEMMA OpenChildOK == ProxyInv /\ OpenChild => ProxyInv'
<1> SUFFICES ASSUME ProxyInv, OpenChild PROVE ProxyInv'
  OBVIOUS
<1>1. frames \in Seq(Frame) /\ frames # <<>> /\ hNum < Slots /\ proxy = "searching"
      /\ UNCHANGED <<proxy, processes, before, missed>>
  BY Known DEF OpenChild
<1>2. PICK q \in frames[1].todo :
        LET rest == [frames EXCEPT ![1].todo = @ \ {q}] IN
        IF q \in alive \ Guarded
        THEN /\ gHandle' = [gHandle EXCEPT ![hNum] = q]
             /\ hNum' = hNum + 1
             /\ frames' = <<Called(q)>> \o rest
        ELSE frames' = rest /\ UNCHANGED <<hNum, gHandle>>
  BY DEF OpenChild
<1> DEFINE f == [frames[1] EXCEPT !.todo = @ \ {q}]
           rest == [frames EXCEPT ![1] = f]
<1>3. frames[1] \in Frame
  BY <1>1, InnermostBecomes, EmptySeq, ElementOfSeq
<1>4. q \in Pid /\ q # 0
  BY <1>2, <1>3, Known DEF Frame, Todo
<1>5. f \in Frame
  <2>1. frames[1].todo \in Todo /\ IsFiniteSet(frames[1].todo)
    BY <1>3, Known, FS_Subset DEF Frame, Todo
  <2>2. Cardinality(frames[1].todo \ {q}) = Cardinality(frames[1].todo) - 1
        /\ Cardinality(frames[1].todo) \in Nat
    BY <1>2, <2>1, FS_RemoveElement, FS_CardinalityType
  <2>3. frames[1].todo \ {q} \in Todo
    BY <2>1, <2>2, Known DEF Todo
  <2>. QED BY <1>3, <2>3 DEF Frame
<1>6. rest \in Seq(Frame)
  BY <1>1, <1>5, InnermostBecomes
<1>7. CASE q \in alive \ Guarded
  <2>1. gHandle' = [gHandle EXCEPT ![hNum] = q] /\ hNum' = hNum + 1
        /\ frames' = <<Called(q)>> \o rest
    BY <1>2, <1>7
  <2>2. frames' \in Seq(Frame)
    <3>1. <<Called(q)>> \in Seq(Frame)
      BY <1>4, CalledType
    <3> HIDE DEF rest
    <3>. QED BY <1>6, <2>1, <3>1, ConcatProperties
  <2>3. hNum \in 1..Slots /\ Slots \in Nat /\ hNum \in Slot /\ gHandle \in [Slot -> Pid \union {0}]
    BY <1>1, Known DEF Slot
  <2>4. hNum' \in 1..Slots /\ gHandle' \in [Slot -> Pid \union {0}]
    BY <1>1, <1>4, <2>1, <2>3
  <2>5. gHandle'[hNum] = q /\ \A i \in Slot : i # hNum => gHandle'[i] = gHandle[i]
    BY <2>1, <2>3
  <2>6. gHandle[0] # 0
    BY <1>1 DEF ProxyInv
  <2>7. gHandle'[0] # 0
    BY <1>4, <2>3, <2>5, <2>6, Known
  <2>8. ProxyTypeOK'
    BY <1>1, <2>2, <2>4 DEF ProxyInv, ProxyTypeOK, Frame, Todo, processes
  <2>9. \A i \in Slot : i >= hNum' => gHandle'[i] = 0
    BY <2>1, <2>3, <2>5 DEF ProxyInv, Slot
  <2>10. \A i \in Slot : 1 <= i /\ i < hNum' => gHandle'[i] # 0
    BY <1>4, <2>1, <2>3, <2>5 DEF ProxyInv, Slot
  <2>. QED BY <1>1, <2>7, <2>8, <2>9, <2>10 DEF ProxyInv
<1>8. CASE q \notin alive \ Guarded
  <2>1. frames' = rest /\ UNCHANGED <<hNum, gHandle>>
    BY <1>2, <1>8
  <2>2. missed' \in BOOLEAN
    BY <1>1 DEF ProxyInv, ProxyTypeOK
  <2> HIDE DEF rest
  <2>. QED BY <1>1, <1>6, <2>1, <2>2, Searching
<1>. QED BY <1>7, <1>8

-------------------------------------------------------------------------------
(* undo_it leaves an empty table. *)
LEMMA UndoOK == ProxyInv /\ Undo => ProxyInv'
<1> SUFFICES ASSUME ProxyInv, Undo PROVE ProxyInv'
  OBVIOUS
<1>1. hNum' = 1 /\ gHandle' = [i \in Slot |-> 0] /\ proxy' = "undone" /\ frames' = <<>>
      /\ lineage' = {} /\ before' = {} /\ missed' = FALSE /\ UNCHANGED <<parent, used>>
  BY DEF Undo
<1>2. alive' \subseteq Pid
  BY Known DEF Undo
<1>3. frames' \in Seq(Frame)
  BY <1>1, EmptySeq
<1>4. hNum' \in 1..Slots /\ gHandle' \in [Slot -> Pid \union {0}] /\ \A i \in Slot : gHandle'[i] = 0
  BY <1>1, Known
<1>5. ProxyTypeOK'
  BY <1>1, <1>2, <1>3, <1>4 DEF ProxyInv, ProxyTypeOK, Frame, Todo
<1>. QED BY <1>1, <1>4, <1>5 DEF ProxyInv, Slot

-------------------------------------------------------------------------------
(* The inductive invariant: the handles are the first h_num, or none. *)
THEOREM ProxyCorrect == ProxySpec => []ProxyInv
<1>1. ProxyInv /\ [ProxyNext]_proxyVars => ProxyInv'
  <2> SUFFICES ASSUME ProxyInv, [ProxyNext]_proxyVars PROVE ProxyInv'
    OBVIOUS
  <2>1. CASE UNCHANGED proxyVars
    BY <2>1 DEF proxyVars, ProxyInv, ProxyTypeOK
  <2>2. CASE RunProcess
    BY <2>2, DecideOK, AwakeOK, SnapshotOK, SnapshotFailsOK, OpenChildOK, ReturnOK, SearchOverOK
       DEF RunProcess
  <2>3. CASE Creates
    BY <2>3, LaunchOK, LaunchFailsOK DEF Creates
  <2>. QED BY <2>1, <2>2, <2>3, StartThreadOK, SpawnOK, ExitOK, UndoOK DEF ProxyNext
<1>. QED BY <1>1, ProxyInitOK, PTL DEF ProxySpec

(* The type invariant: h_num stays within the table of handles, and no call has more      *)
(* children than chi_pid has room for. *)
THEOREM ProxyTypeCorrect == ProxySpec => []ProxyTypeOK
<1>1. ProxyInv => ProxyTypeOK
  BY DEF ProxyInv
<1>. QED BY <1>1, ProxyCorrect, PTL

(* However deep the search goes, the table of handles has no gap, so undo_it, which stops  *)
(* at the first empty entry, comes to every handle. *)
THEOREM HandlesReached == ProxySpec => []HandleTable
<1>1. ProxyInv => HandleTable
  <2> SUFFICES ASSUME ProxyInv PROVE HandleTable
    OBVIOUS
  <2>1. ASSUME NEW i \in Slot PROVE gHandle[i] # 0 <=> i \in Reached
    <3>1. CASE gHandle[i] = 0
      BY <3>1 DEF Reached, Slot
    <3>2. CASE gHandle[i] # 0
      <4>1. i < hNum /\ i \in Nat /\ hNum \in Nat
        BY <3>2, Known DEF ProxyInv, Slot
      <4>2. ASSUME NEW j \in 0..i PROVE gHandle[j] # 0
        <5>1. j \in Slot /\ j \in Nat /\ j <= i
          BY <4>1, Known DEF Slot
        <5>2. CASE j = 0
          BY <3>2, <4>1, <5>2 DEF ProxyInv
        <5>3. CASE j # 0
          BY <4>1, <5>1, <5>3 DEF ProxyInv
        <5>. QED BY <5>2, <5>3
      <4>. QED BY <3>2, <4>2 DEF Reached
    <3>. QED BY <3>1, <3>2
  <2>. QED BY <2>1 DEF HandleTable, ProxyInv
<1>. QED BY <1>1, ProxyCorrect, PTL
-------------------------------------------------------------------------------
(* Which processes have a handle *)

(* The identifiers from which p's goes up, if the parents are par *)
Ascent(par, p) ==
  {q \in Pid : \A S \in SUBSET Pid : p \in S /\ (\A r \in S : par[r] \in S \union {0}) => q \in S}

(* None of them was used before. *)
Clean(p) == \A q \in Ancestry(p) : used[q] <= 1

(* All of them are there, too, and can be opened. *)
Within(p) == \A q \in Ancestry(p) : q \in alive \ Guarded /\ used[q] <= 1

Calling == 1 .. Len(frames)

(* What the identifiers tell of a process while they are used once: the lineage is passed on
   to the children, it goes back to the proxy, and no line of parents is endless.          *)
LineageInv ==
  /\ \A p \in Pid : used[p] = 0 => /\ p \notin alive \union lineage \union before \union Held
                                   /\ \A q \in Pid : parent[q] # p
  /\ \A p, q \in Pid : parent[q] = p /\ used[p] <= 1 /\ p \in lineage => q \in lineage
  /\ \A q \in lineage : \/ q = gHandle[0]
                        \/ parent[q] # 0 /\ (used[parent[q]] <= 1 => parent[q] \in lineage)
  /\ \A T \in SUBSET {p \in Pid : used[p] <= 1} : T # {} => \E t \in T : parent[t] \notin T
  /\ gHandle[0] # 0 => parent[gHandle[0]] = 0 /\ gHandle[0] \in lineage

(* A process has one handle, and it is one of the lineage; one that is still to be opened
   has none, and it is a child of the one the call is about; there is one call about it,
   and when it has a handle the call about its parent has listed it.                    *)
HandlesInv ==
  /\ \A p \in Held : Clean(p) => p \in lineage
  /\ \A p \in Pid, i, j \in Slot : Clean(p) /\ gHandle[i] = p /\ gHandle[j] = p => i = j
  /\ \A k \in Calling : frames[k].of \in Held /\ (~frames[k].listed => frames[k].todo = {})
  /\ \A k \in Calling : \A q \in frames[k].todo :
       used[q] # 0 /\ (Clean(q) => parent[q] = frames[k].of /\ q \notin Held)
  /\ \A p \in Pid, k, l \in Calling : Clean(p) /\ frames[k].of = p /\ frames[l].of = p => k = l
  /\ \A p \in Pid, i \in Slot : i # 0 /\ gHandle[i] = p /\ Clean(p) =>
       parent[p] \in Held /\ \A k \in Calling : frames[k].of = parent[p] => frames[k].listed

(* What the search has not found yet it is going to find. *)
SearchInv ==
  /\ proxy # "searching" => frames = <<>>
  /\ proxy = "asleep" => hNum = 1
  /\ proxy \in {"off", "started", "creating", "asleep"} => before = {}
  /\ \A p \in before : Within(p) => p = gHandle[0] \/ parent[p] \in before
  /\ ~missed /\ hNum < Slots => \A p \in before :
       Within(p) /\ parent[p] \in Held =>
         \/ p \in Held
         \/ \E k \in Calling : frames[k].of = parent[p] /\ (~frames[k].listed \/ p \in frames[k].todo)

TreeInv == ProxyInv /\ LineageInv /\ HandlesInv /\ SearchInv

(* The line of p holds p, and with each its parent, and is the least such set. *)
LEMMA LineIs ==
  ASSUME NEW par \in [Pid -> Pid \union {0}], NEW p \in Pid
  PROVE  /\ p \in Ascent(par, p) /\ Ascent(par, p) \subseteq Pid
         /\ \A q \in Ascent(par, p) : par[q] \in Ascent(par, p) \union {0}
         /\ \A S \in SUBSET Pid :
              p \in S /\ (\A r \in S : par[r] \in S \union {0}) => Ascent(par, p) \subseteq S
<1>1. ASSUME NEW q \in Ascent(par, p) PROVE par[q] \in Ascent(par, p) \union {0}
  <2>1. q \in Pid
    BY DEF Ascent
  <2>2. ASSUME NEW S \in SUBSET Pid, p \in S, \A r \in S : par[r] \in S \union {0}
        PROVE  par[q] \in S \union {0}
    <3>1. q \in S
      BY <2>2 DEF Ascent
    <3>. QED BY <2>2, <3>1
  <2>. QED BY <2>1, <2>2 DEF Ascent
<1>. QED BY <1>1 DEF Ascent

(* The line of a parent is part of the line of its child. *)
LEMMA LineUp ==
  ASSUME NEW par \in [Pid -> Pid \union {0}], NEW p \in Pid, NEW q \in Ascent(par, p)
  PROVE  q \in Pid /\ Ascent(par, q) \subseteq Ascent(par, p)
BY LineIs

LEMMA CleanUp ==
  ASSUME parent \in [Pid -> Pid \union {0}], NEW p \in Pid
  PROVE  /\ Clean(p) => used[p] <= 1 /\ (parent[p] # 0 => Clean(parent[p]))
         /\ Within(p) => p \in alive \ Guarded /\ (parent[p] # 0 => Within(parent[p])) /\ Clean(p)
<1>1. \A q \in Pid : Ancestry(q) = Ascent(parent, q)
  BY DEF Ancestry, Ascent
<1>2. p \in Ancestry(p) /\ (parent[p] # 0 => parent[p] \in Pid /\ parent[p] \in Ancestry(p))
  BY <1>1, LineIs
<1>3. parent[p] # 0 => Ancestry(parent[p]) \subseteq Ancestry(p)
  BY <1>1, <1>2, LineUp
<1>. QED BY <1>2, <1>3 DEF Clean, Within

(* The changes of a process that is born *)
LEMMA BornSo ==
  ASSUME ProxyInv, NEW p \in alive \union {0}, NEW q \in Pid, Born(p, q)
  PROVE  /\ q \notin alive /\ q \notin Held /\ p # q /\ p \in Pid \union {0}
         /\ alive' = alive \union {q}
         /\ parent' \in [Pid -> Pid \union {0}] /\ parent'[q] = p
         /\ used' \in [Pid -> Nat] /\ used'[q] = used[q] + 1
         /\ \A r \in Pid : r # q => parent'[r] = parent[r] /\ used'[r] = used[r]
<1>1. q # 0
  BY Known
<1>. QED BY <1>1, Known DEF Born

(* A birth does not make a line of parents one used once: an identifier that is used for the
   first time is nobody's parent.                                                         *)
LEMMA BornKeepsLines ==
  ASSUME ProxyInv, LineageInv, NEW p \in alive \union {0}, NEW q \in Pid, Born(p, q),
         NEW r \in Pid, used[r] # 0
  PROVE  /\ Clean(r)' => Clean(r) /\ r # q
         /\ Within(r)' => Within(r) /\ r # q
<1>1. parent \in [Pid -> Pid \union {0}] /\ used \in [Pid -> Nat] /\ Pid \subseteq Nat \ {0}
  BY Known
<1>2. Ancestry(r) = Ascent(parent, r) /\ Ancestry(r)' = Ascent(parent', r)
  BY DEF Ancestry, Ascent
<1>3. ASSUME \A a \in Ancestry(r)' : used'[a] <= 1
      PROVE  q \notin Ancestry(r)' /\ Ancestry(r) \subseteq Ancestry(r)'
  <2> DEFINE S == Ancestry(r)' \ {q}
  <2>1. /\ r \in Ancestry(r)' /\ Ancestry(r)' \subseteq Pid
        /\ \A a \in Ancestry(r)' : parent'[a] \in Ancestry(r)' \union {0}
        /\ \A T \in SUBSET Pid :
             r \in T /\ (\A a \in T : parent'[a] \in T \union {0}) => Ancestry(r)' \subseteq T
    BY <1>2, BornSo, LineIs
  <2>2. q \notin Ancestry(r)'
    <3> SUFFICES ASSUME q \in Ancestry(r)' PROVE FALSE
      OBVIOUS
    <3>1. used[q] = 0
      BY <1>1, <1>3, BornSo
    <3>2. r # q /\ \A a \in Pid : parent[a] # q
      BY <3>1 DEF LineageInv
    <3>3. \A a \in S : parent'[a] \in S \union {0}
      BY <1>1, <2>1, <3>2, BornSo
    <3>4. S \in SUBSET Pid /\ r \in S
      BY <2>1, <3>2
    <3> HIDE DEF S
    <3>5. Ancestry(r)' \subseteq S
      BY <2>1, <3>3, <3>4
    <3>. QED BY <3>5 DEF S
  <2>3. \A a \in Ancestry(r)' : parent[a] \in Ancestry(r)' \union {0}
    BY <2>1, <2>2, BornSo
  <2>4. Ascent(parent, r) \subseteq Ancestry(r)'
    BY <1>1, <2>1, <2>3, LineIs
  <2>. QED BY <1>2, <2>2, <2>4
<1>4. r \in Ancestry(r)' /\ Ancestry(r)' \subseteq Pid
  BY <1>2, BornSo, LineIs
<1>5. ASSUME Clean(r)' PROVE Clean(r) /\ r # q
  <2>1. \A a \in Ancestry(r)' : used'[a] <= 1
    BY <1>5 DEF Clean
  <2>. QED BY <1>3, <1>4, <2>1, BornSo DEF Clean
<1>6. ASSUME Within(r)' PROVE Within(r) /\ r # q
  <2>1. \A a \in Ancestry(r)' : a \in alive' \ Guarded /\ used'[a] <= 1
    BY <1>6 DEF Within
  <2>. QED BY <1>3, <1>4, <2>1, BornSo DEF Within
<1>. QED BY <1>5, <1>6

-------------------------------------------------------------------------------
(* The processes come and go. *)

(* A process that is born takes the lineage of its parent. *)
LEMMA SpawnTree == TreeInv /\ Spawn => LineageInv' /\ HandlesInv' /\ SearchInv'
<1> SUFFICES ASSUME TreeInv, Spawn PROVE LineageInv' /\ HandlesInv' /\ SearchInv'
  OBVIOUS
<1>1. ProxyInv /\ LineageInv /\ HandlesInv /\ SearchInv
  BY DEF TreeInv
<1>2. PICK p \in alive \union {0}, q \in Pid :
        /\ Born(p, q)
        /\ lineage' = IF p \in lineage THEN lineage \union {q} ELSE lineage \ {q}
  BY DEF Spawn
<1>3. UNCHANGED <<proxy, frames, hNum, gHandle, before, missed>> /\ Held' = Held
  BY DEF Spawn, thread, Held
<1>4. /\ q \notin alive /\ q \notin Held /\ p # q /\ p \in Pid \union {0}
      /\ alive' = alive \union {q} /\ parent'[q] = p /\ used'[q] = used[q] + 1
      /\ \A r \in Pid : r # q => parent'[r] = parent[r] /\ used'[r] = used[r]
  BY <1>1, <1>2, BornSo
<1>5. /\ used \in [Pid -> Nat] /\ parent \in [Pid -> Pid \union {0}] /\ Pid \subseteq Nat \ {0}
      /\ lineage \subseteq Pid /\ before \subseteq Pid /\ alive \subseteq Pid /\ 0 \in Slot
      /\ gHandle \in [Slot -> Pid \union {0}]
  BY <1>1, Known
<1>6. LineageInv'
  <2>1. ASSUME NEW r \in Pid, used'[r] = 0
        PROVE  /\ r \notin alive' \union lineage' \union before' \union Held'
               /\ \A s \in Pid : parent'[s] # r
    <3>1. r # q /\ used[r] = 0
      BY <1>4, <1>5, <2>1
    <3>2. r \notin alive \union lineage \union before \union Held /\ \A s \in Pid : parent[s] # r
      BY <1>1, <3>1 DEF LineageInv
    <3>3. r # p
      BY <1>2, <1>5, <3>2
    <3>. QED BY <1>2, <1>3, <1>4, <3>1, <3>2, <3>3
  <2>2. ASSUME NEW r \in Pid, NEW s \in Pid, parent'[s] = r, used'[r] <= 1, r \in lineage'
        PROVE  s \in lineage'
    <3>1. CASE s = q
      BY <1>2, <1>4, <2>2, <3>1
    <3>2. CASE s # q
      <4>1. parent[s] = r
        BY <1>4, <2>2, <3>2
      <4>2. r # q
        <5> SUFFICES ASSUME r = q PROVE FALSE
          OBVIOUS
        <5>1. used[q] = 0
          BY <1>4, <1>5, <2>2
        <5>. QED BY <1>1, <4>1, <5>1 DEF LineageInv
      <4>3. s \in lineage
        BY <1>1, <1>2, <1>4, <2>2, <4>1, <4>2 DEF LineageInv
      <4>. QED BY <1>2, <3>2, <4>3
    <3>. QED BY <3>1, <3>2
  <2>3. ASSUME NEW s \in lineage', s # gHandle'[0]
        PROVE  parent'[s] # 0 /\ (used'[parent'[s]] <= 1 => parent'[s] \in lineage')
    <3>1. CASE s = q
      <4>1. p \in lineage
        BY <1>2, <2>3, <3>1
      <4>. QED BY <1>2, <1>4, <1>5, <3>1, <4>1
    <3>2. CASE s # q
      <4>1. s \in lineage /\ s \in Pid /\ parent'[s] = parent[s] /\ s # gHandle[0]
        BY <1>2, <1>3, <1>4, <1>5, <2>3, <3>2
      <4>2. parent[s] \in Pid /\ (used[parent[s]] <= 1 => parent[s] \in lineage)
        BY <1>1, <1>5, <4>1 DEF LineageInv
      <4>3. parent[s] = q => used[q] # 0
        BY <1>1, <4>1 DEF LineageInv
      <4>4. parent[s] = q => ~(used'[q] <= 1)
        BY <1>4, <1>5, <4>3
      <4>. QED BY <1>2, <1>4, <1>5, <4>1, <4>2, <4>4
    <3>. QED BY <3>1, <3>2
  <2>4. ASSUME NEW T \in SUBSET {r \in Pid : used'[r] <= 1}, T # {}
        PROVE  \E t \in T : parent'[t] \notin T
    <3> DEFINE U == T \ {q}
    <3>1. U \in SUBSET {r \in Pid : used[r] <= 1}
      BY <1>4
    <3>2. q \in T => \A s \in Pid : parent[s] # q
      <4> SUFFICES ASSUME q \in T PROVE \A s \in Pid : parent[s] # q
        OBVIOUS
      <4>1. used[q] = 0
        BY <1>4, <1>5
      <4>. QED BY <1>1, <4>1 DEF LineageInv
    <3>3. CASE U = {}
      <4>1. q \in T /\ \A t \in T : t = q
        BY <2>4, <3>3
      <4>. QED BY <1>4, <4>1
    <3>4. CASE U # {}
      <4> HIDE DEF U
      <4>1. PICK t \in U : parent[t] \notin U
        BY <1>1, <3>1, <3>4 DEF LineageInv
      <4>2. t \in T /\ t # q /\ t \in Pid
        BY <4>1 DEF U
      <4>3. parent'[t] \notin T
        BY <1>4, <3>2, <4>1, <4>2 DEF U
      <4>. QED BY <4>2, <4>3
    <3>. QED BY <3>3, <3>4
  <2>5. ASSUME gHandle'[0] # 0 PROVE parent'[gHandle'[0]] = 0 /\ gHandle'[0] \in lineage'
    <3>1. gHandle[0] \in Held /\ gHandle[0] \in Pid
      BY <1>3, <1>5, <2>5 DEF Held
    <3>. QED BY <1>1, <1>2, <1>3, <1>4, <2>5, <3>1 DEF LineageInv
  <2>. QED BY <2>1, <2>2, <2>3, <2>4, <2>5 DEF LineageInv
<1>7. \A r \in Pid : used[r] # 0 => /\ Clean(r)' => Clean(r) /\ r # q
                                    /\ Within(r)' => Within(r) /\ r # q
  BY <1>1, <1>2, BornKeepsLines
<1>8. /\ \A r \in Held : r \in Pid /\ used[r] # 0
      /\ \A r \in before : r \in Pid /\ used[r] # 0
      /\ \A k \in Calling : frames[k].of \in Held
      /\ \A k \in Calling : \A r \in frames[k].todo : r \in Pid /\ used[r] # 0
  <2>1. \A r \in Held : r \in Pid
    BY <1>5 DEF Held
  <2>2. \A k \in Calling : frames[k] \in Frame
    BY <1>1, Known, ElementOfSeq DEF Calling
  <2>3. \A k \in Calling : frames[k].of \in Held
    BY <1>1 DEF HandlesInv
  <2>4. \A k \in Calling : \A r \in frames[k].todo : r \in Pid /\ used[r] # 0
    BY <1>1, <2>2 DEF HandlesInv, Frame, Todo
  <2>. QED BY <1>1, <1>5, <2>1, <2>3, <2>4 DEF LineageInv
<1>9. HandlesInv'
  <2>1. \A r \in Held' : Clean(r)' => r \in lineage'
    BY <1>1, <1>2, <1>3, <1>7, <1>8 DEF HandlesInv
  <2>2. ASSUME NEW r \in Pid, NEW i \in Slot, NEW j \in Slot, Clean(r)', gHandle'[i] = r, gHandle'[j] = r
        PROVE  i = j
    <3>1. r \in Held
      BY <1>3, <1>5, <2>2 DEF Held
    <3>. QED BY <1>1, <1>3, <1>7, <1>8, <2>2, <3>1 DEF HandlesInv
  <2>3. \A k \in Calling' :
          frames'[k].of \in Held' /\ (~frames'[k].listed => frames'[k].todo = {})
    BY <1>1, <1>3 DEF HandlesInv, Calling
  <2>4. ASSUME NEW k \in Calling', NEW r \in frames'[k].todo
        PROVE  used'[r] # 0 /\ (Clean(r)' => parent'[r] = frames'[k].of /\ r \notin Held')
    <3>1. k \in Calling /\ r \in frames[k].todo /\ r \in Pid /\ used[r] # 0
      BY <1>3, <1>8, <2>4 DEF Calling
    <3>2. used'[r] # 0
      <4>1. used[r] \in Nat
        BY <1>5, <3>1
      <4>2. used[r] + 1 # 0
        BY <4>1
      <4>. QED BY <1>4, <3>1, <4>2
    <3>. QED BY <1>1, <1>3, <1>4, <1>7, <3>1, <3>2 DEF HandlesInv
  <2>5. ASSUME NEW r \in Pid, NEW k \in Calling', NEW l \in Calling',
               Clean(r)', frames'[k].of = r, frames'[l].of = r
        PROVE  k = l
    <3>1. k \in Calling /\ l \in Calling /\ frames[k].of = r /\ frames[l].of = r
      BY <1>3, <2>5 DEF Calling
    <3>2. Clean(r)
      BY <1>7, <1>8, <2>5, <3>1
    <3>. QED BY <1>1, <3>1, <3>2 DEF HandlesInv
  <2>6. ASSUME NEW r \in Pid, NEW i \in Slot, i # 0, gHandle'[i] = r, Clean(r)'
        PROVE  parent'[r] \in Held' /\ \A k \in Calling' : frames'[k].of = parent'[r] => frames'[k].listed
    <3>1. r \in Held /\ gHandle[i] = r
      BY <1>3, <1>5, <2>6 DEF Held
    <3>2. Clean(r) /\ r # q
      BY <1>7, <1>8, <2>6, <3>1
    <3>3. parent[r] \in Held /\ \A k \in Calling : frames[k].of = parent[r] => frames[k].listed
      BY <1>1, <2>6, <3>1, <3>2 DEF HandlesInv
    <3>. QED BY <1>3, <1>4, <3>2, <3>3 DEF Calling
  <2>. QED BY <2>1, <2>2, <2>3, <2>4, <2>5, <2>6 DEF HandlesInv
<1>10. SearchInv'
  <2>1. ASSUME NEW r \in before', Within(r)' PROVE Within(r) /\ r # q /\ parent'[r] = parent[r]
    BY <1>3, <1>4, <1>7, <1>8, <2>1
  <2>2. ASSUME NEW r \in before', Within(r)' PROVE r = gHandle'[0] \/ parent'[r] \in before'
    BY <1>1, <1>3, <2>1, <2>2 DEF SearchInv
  <2>3. ASSUME ~missed', hNum' < Slots, NEW r \in before', Within(r)', parent'[r] \in Held'
        PROVE  \/ r \in Held'
               \/ \E k \in Calling' : /\ frames'[k].of = parent'[r]
                                      /\ ~frames'[k].listed \/ r \in frames'[k].todo
    BY <1>1, <1>3, <2>1, <2>3 DEF SearchInv, Calling
  <2>. QED BY <1>1, <1>3, <2>2, <2>3 DEF SearchInv
<1>. QED BY <1>6, <1>9, <1>10

(* What the lines of parents tell changes with births only. *)
LEMMA LinesSame ==
  ASSUME UNCHANGED <<parent, used>>
  PROVE  \A p \in Pid : /\ Clean(p)' <=> Clean(p)
                        /\ alive' \subseteq alive /\ Within(p)' => Within(p)
BY DEF Clean, Within, Ancestry

(* Where neither identifiers nor handles change *)
LEMMA LineageSame ==
  ASSUME LineageInv, UNCHANGED <<parent, used, lineage, gHandle>>, alive' \subseteq alive,
         before' \subseteq before \union (lineage \intersect alive)
  PROVE  LineageInv' /\ Held' = Held
<1>1. Held' = Held
  BY DEF Held
<1>2. \A p \in Pid : used'[p] = 0 => /\ p \notin alive' \union lineage' \union before' \union Held'
                                     /\ \A q \in Pid : parent'[q] # p
  BY <1>1 DEF LineageInv
<1>. QED BY <1>1, <1>2 DEF LineageInv

(* A process ends. *)
LEMMA ExitTree == TreeInv /\ Exit => LineageInv' /\ HandlesInv' /\ SearchInv'
<1> SUFFICES ASSUME TreeInv, Exit PROVE LineageInv' /\ HandlesInv' /\ SearchInv'
  OBVIOUS
<1>1. ProxyInv /\ LineageInv /\ HandlesInv /\ SearchInv /\ before \subseteq Pid /\ Pid \subseteq Nat \ {0}
  BY Known DEF TreeInv
<1>2. UNCHANGED <<proxy, frames, hNum, gHandle, parent, used, lineage, before, missed>>
      /\ alive' \subseteq alive
  BY DEF Exit, thread
<1>3. LineageInv' /\ Held' = Held /\ Calling' = Calling
  BY <1>1, <1>2, LineageSame DEF Calling
<1>4. \A p \in Pid : (Clean(p)' <=> Clean(p)) /\ (Within(p)' => Within(p))
  BY <1>2, LinesSame
<1>5. \A k \in Calling : \A r \in frames[k].todo : r \in Pid
  <2>1. \A k \in Calling : frames[k] \in Frame
    BY <1>1, Known, ElementOfSeq DEF Calling
  <2>. QED BY <2>1 DEF Frame, Todo
<1>6. \A r \in Held : r \in Pid
  BY <1>1, Known DEF Held
<1>7. HandlesInv'
  BY <1>1, <1>2, <1>3, <1>4, <1>5, <1>6 DEF HandlesInv
<1>8. SearchInv'
  BY <1>1, <1>2, <1>3, <1>4 DEF SearchInv
<1>. QED BY <1>3, <1>7, <1>8

-------------------------------------------------------------------------------
(* run_process *)

(* The steps before the search leave the processes and the table alone, but Launch. *)
LEMMA BeforeSearch ==
  ASSUME TreeInv, frames = <<>>, proxy' # "searching", proxy' # "asleep",
         UNCHANGED <<frames, hNum, gHandle, processes, before, missed>>,
         proxy' = "over" \/ before = {}
  PROVE  LineageInv' /\ HandlesInv' /\ SearchInv'
<1>1. ProxyInv /\ LineageInv /\ HandlesInv /\ SearchInv /\ before \subseteq Pid
      /\ UNCHANGED <<alive, parent, used, lineage>>
  BY Known DEF TreeInv, processes
<1>2. LineageInv' /\ Held' = Held /\ Calling' = Calling
  BY <1>1, LineageSame DEF Calling
<1>3. \A p \in Pid : (Clean(p)' <=> Clean(p)) /\ (Within(p)' => Within(p))
  BY <1>1, LinesSame
<1>4. Calling = {}
  BY DEF Calling
<1>5. \A r \in Held : r \in Pid
  BY <1>1, Known DEF Held
<1>6. HandlesInv'
  BY <1>1, <1>2, <1>3, <1>4, <1>5 DEF HandlesInv
<1>7. SearchInv'
  BY <1>1, <1>2, <1>3 DEF SearchInv
<1>. QED BY <1>2, <1>6, <1>7

LEMMA QuietTree ==
  TreeInv /\ (StartThread \/ Decide \/ LaunchFails \/ SearchOver)
    => LineageInv' /\ HandlesInv' /\ SearchInv'
<1> SUFFICES ASSUME TreeInv, StartThread \/ Decide \/ LaunchFails \/ SearchOver
             PROVE  LineageInv' /\ HandlesInv' /\ SearchInv'
  OBVIOUS
<1>1. SearchInv
  BY DEF TreeInv
<1>2. StartThread \/ Decide \/ LaunchFails => frames = <<>> /\ before = {}
  BY <1>1 DEF SearchInv, StartThread, Decide, LaunchFails
<1>3. SearchOver => frames = <<>> /\ proxy' = "over"
  BY DEF SearchOver
<1>4. /\ proxy' # "searching" /\ proxy' # "asleep"
      /\ UNCHANGED <<frames, hNum, gHandle, processes, before, missed>>
  BY DEF StartThread, Decide, LaunchFails, SearchOver
<1>. QED BY <1>2, <1>3, <1>4, BeforeSearch

(* The proxy is a child of none of the processes there are, and nobody is its child. *)
LEMMA LaunchTree == TreeInv /\ Launch => LineageInv' /\ HandlesInv' /\ SearchInv'
<1> SUFFICES ASSUME TreeInv, Launch PROVE LineageInv' /\ HandlesInv' /\ SearchInv'
  OBVIOUS
<1>1. ProxyInv /\ LineageInv /\ HandlesInv /\ SearchInv
  BY DEF TreeInv
<1>2. PICK q \in Namesakes : Born(0, q) /\ gHandle' = [gHandle EXCEPT ![0] = q] /\ lineage' = {q}
  BY DEF Launch
<1>3. /\ UNCHANGED <<frames, hNum, before, missed>> /\ proxy = "creating" /\ proxy' = "asleep"
      /\ q \in Pid /\ q # 0
  BY Known, ProxyAssumption, <1>1 DEF Launch
<1>4. hNum = 1 /\ (\A i \in Slot : gHandle[i] = 0) /\ before = {} /\ frames = <<>>
  BY <1>1, <1>3 DEF ProxyInv, SearchInv
<1>5. /\ q \notin alive /\ alive' = alive \union {q} /\ parent'[q] = 0 /\ used'[q] = used[q] + 1
      /\ \A r \in Pid : r # q => parent'[r] = parent[r] /\ used'[r] = used[r]
  BY <1>1, <1>2, <1>3, BornSo
<1>6. /\ used \in [Pid -> Nat] /\ parent \in [Pid -> Pid \union {0}] /\ Pid \subseteq Nat \ {0}
      /\ gHandle \in [Slot -> Pid \union {0}] /\ 0 \in Slot
  BY <1>1, Known
<1>7. gHandle'[0] = q /\ (\A i \in Slot : i # 0 => gHandle'[i] = 0) /\ Held' = {q}
  BY <1>2, <1>3, <1>4, <1>6 DEF Held
<1>8. LineageInv'
  <2>1. ASSUME NEW r \in Pid, used'[r] = 0
        PROVE  /\ r \notin alive' \union lineage' \union before' \union Held'
               /\ \A s \in Pid : parent'[s] # r
    <3>1. r # q /\ used[r] = 0
      BY <1>3, <1>5, <1>6, <2>1
    <3>2. r \notin alive /\ \A s \in Pid : parent[s] # r
      BY <1>1, <3>1 DEF LineageInv
    <3>3. r # 0
      BY <1>6
    <3>. QED BY <1>2, <1>3, <1>4, <1>5, <1>7, <3>1, <3>2, <3>3
  <2>2. ASSUME NEW s \in Pid, parent'[s] = q, used'[q] <= 1 PROVE FALSE
    <3>1. s # q /\ parent[s] = q /\ used[q] = 0
      BY <1>3, <1>5, <1>6, <2>2
    <3>. QED BY <1>1, <1>3, <3>1 DEF LineageInv
  <2>3. ASSUME NEW T \in SUBSET {r \in Pid : used'[r] <= 1}, T # {}
        PROVE  \E t \in T : parent'[t] \notin T
    <3>1. CASE q \in T
      <4>1. 0 \notin T
        BY <1>6
      <4>. QED BY <1>5, <3>1, <4>1
    <3>2. CASE q \notin T
      <4>1. T \in SUBSET {r \in Pid : used[r] <= 1}
        BY <1>5, <3>2
      <4>2. PICK t \in T : parent[t] \notin T
        BY <1>1, <2>3, <4>1 DEF LineageInv
      <4>. QED BY <1>5, <3>2, <4>2
    <3>. QED BY <3>1, <3>2
  <2>4. \A r \in Pid, s \in Pid : parent'[s] = r /\ used'[r] <= 1 /\ r \in lineage' => s \in lineage'
    BY <1>2, <2>2
  <2>5. \A s \in lineage' : s = gHandle'[0]
    BY <1>2, <1>7
  <2>6. gHandle'[0] # 0 => parent'[gHandle'[0]] = 0 /\ gHandle'[0] \in lineage'
    BY <1>2, <1>5, <1>7
  <2>. QED BY <2>1, <2>3, <2>4, <2>5, <2>6 DEF LineageInv
<1>9. HandlesInv'
  <2>1. Calling' = {}
    BY <1>3, <1>4 DEF Calling
  <2>2. \A i \in Slot, p \in Pid : gHandle'[i] = p => i = 0
    BY <1>6, <1>7
  <2>3. \A p \in Held' : p \in lineage'
    BY <1>2, <1>7
  <2>. QED BY <2>1, <2>2, <2>3 DEF HandlesInv
<1>10. SearchInv'
  BY <1>3, <1>4 DEF SearchInv
<1>. QED BY <1>8, <1>9, <1>10

(* The search begins with the proxy, which has a handle, and nothing else has. *)
LEMMA AwakeTree == TreeInv /\ Awake => LineageInv' /\ HandlesInv' /\ SearchInv'
<1> SUFFICES ASSUME TreeInv, Awake PROVE LineageInv' /\ HandlesInv' /\ SearchInv'
  OBVIOUS
<1>1. ProxyInv /\ LineageInv /\ HandlesInv /\ SearchInv /\ Pid \subseteq Nat \ {0} /\ Slots \in Nat
      /\ gHandle \in [Slot -> Pid \union {0}] /\ 0 \in Slot /\ lineage \subseteq Pid
      /\ parent \in [Pid -> Pid \union {0}]
  BY Known DEF TreeInv
<1>2. /\ proxy = "asleep" /\ proxy' = "searching" /\ frames' = <<Called(gHandle[0])>>
      /\ before' = lineage \intersect alive
      /\ UNCHANGED <<hNum, gHandle, alive, parent, used, lineage, missed>>
  BY DEF Awake, processes
<1>3. /\ hNum = 1 /\ gHandle[0] # 0 /\ gHandle[0] \in Pid /\ frames = <<>> /\ before = {}
      /\ \A i \in Slot : i # 0 => gHandle[i] = 0
  BY <1>1, <1>2 DEF ProxyInv, SearchInv, Slot
<1>4. LineageInv' /\ Held' = Held
  BY <1>1, <1>2, <1>3, LineageSame
<1>5. Calling' = {1} /\ frames'[1].of = gHandle[0] /\ ~frames'[1].listed /\ frames'[1].todo = {}
  BY <1>2 DEF Calling, Called
<1>6. Held = {gHandle[0]}
  BY <1>1, <1>3 DEF Held
<1>7. \A p \in Pid : (Clean(p)' <=> Clean(p)) /\ (Within(p)' => Within(p))
  BY <1>2, LinesSame
<1>8. HandlesInv'
  <2>1. \A p \in Held' : Clean(p)' => p \in lineage'
    BY <1>1, <1>2, <1>3, <1>4, <1>6, <1>7 DEF HandlesInv
  <2>2. \A i \in Slot : gHandle'[i] # 0 => i = 0
    BY <1>2, <1>3
  <2>3. \A p \in Pid : p # 0
    BY <1>1
  <2>. QED BY <1>4, <1>5, <1>6, <2>1, <2>2, <2>3 DEF HandlesInv
<1>9. SearchInv'
  <2>1. ASSUME NEW p \in before', Within(p)' PROVE p = gHandle'[0] \/ parent'[p] \in before'
    <3>1. p \in lineage /\ p \in Pid /\ Within(p)
      BY <1>1, <1>2, <1>7, <2>1
    <3>2. CASE p = gHandle[0]
      BY <1>2, <3>2
    <3>3. CASE p # gHandle[0]
      <4>1. parent[p] # 0 /\ (used[parent[p]] <= 1 => parent[p] \in lineage)
        BY <1>1, <3>1, <3>3 DEF LineageInv
      <4>2. parent[p] \in Pid /\ Within(parent[p])
        BY <1>1, <3>1, <4>1, CleanUp
      <4>3. parent[p] \in alive /\ used[parent[p]] <= 1
        BY <1>1, <4>2, CleanUp
      <4>. QED BY <1>2, <4>1, <4>3
    <3>. QED BY <3>2, <3>3
  <2>2. \A p \in Pid : parent'[p] \in Held' => frames'[1].of = parent'[p] /\ 1 \in Calling'
    BY <1>2, <1>4, <1>5, <1>6
  <2>. QED BY <1>1, <1>2, <1>3, <1>5, <2>1, <2>2 DEF SearchInv
<1>. QED BY <1>4, <1>8, <1>9

-------------------------------------------------------------------------------
(* search_process *)

(* The calls of search_process that are under way *)
LEMMA CallsNow ==
  ASSUME ProxyInv, frames # <<>>
  PROVE  /\ frames \in Seq(Frame) /\ Len(frames) \in Nat \ {0} /\ 1 \in Calling
         /\ \A k \in Calling : frames[k] \in Frame /\ frames[k].of \in Pid /\ frames[k].todo \subseteq Pid
         /\ Len(Tail(frames)) = Len(frames) - 1
         /\ \A k \in 1 .. Len(frames) - 1 : Tail(frames)[k] = frames[k + 1] /\ k + 1 \in Calling
<1>1. frames \in Seq(Frame) /\ Len(frames) \in Nat \ {0}
  BY Known, EmptySeq
<1>2. \A k \in Calling : frames[k] \in Frame
  BY <1>1, ElementOfSeq DEF Calling
<1>3. Len(Tail(frames)) = Len(frames) - 1 /\ \A k \in 1 .. Len(frames) - 1 : Tail(frames)[k] = frames[k + 1]
  BY <1>1, HeadTailProperties
<1>4. \A k \in Calling : frames[k].of \in Pid /\ frames[k].todo \subseteq Pid
  BY <1>2 DEF Frame, Todo
<1>5. 1 \in Calling /\ \A k \in 1 .. Len(frames) - 1 : k + 1 \in Calling
  BY <1>1 DEF Calling
<1>. QED BY <1>1, <1>2, <1>3, <1>4, <1>5

(* A call returns: what is left to it is nothing that is still to be found. *)
LEMMA ReturnTree == TreeInv /\ (Return \/ SnapshotFails) => LineageInv' /\ HandlesInv' /\ SearchInv'
<1> SUFFICES ASSUME TreeInv, Return \/ SnapshotFails PROVE LineageInv' /\ HandlesInv' /\ SearchInv'
  OBVIOUS
<1>1. ProxyInv /\ LineageInv /\ HandlesInv /\ SearchInv /\ before \subseteq Pid /\ Slots \in Nat
      /\ hNum \in 1 .. Slots
  BY Known DEF TreeInv
<1>2. /\ proxy = "searching" /\ frames # <<>> /\ frames' = Tail(frames)
      /\ UNCHANGED <<proxy, hNum, gHandle, alive, parent, used, lineage, before>>
      /\ \/ /\ frames[1].listed /\ (frames[1].todo = {} \/ hNum = Slots) /\ missed' = missed
         \/ missed' = TRUE
  BY DEF Return, SnapshotFails, processes
<1>3. LineageInv' /\ Held' = Held
  BY <1>1, <1>2, LineageSame
<1>4. \A p \in Pid : (Clean(p)' <=> Clean(p)) /\ (Within(p)' => Within(p))
  BY <1>2, LinesSame
<1>5. /\ Calling' = 1 .. Len(frames) - 1 /\ Len(frames) \in Nat \ {0}
      /\ \A k \in Calling' : /\ frames'[k] = frames[k + 1] /\ k + 1 \in Calling
                             /\ frames'[k].of \in Pid /\ frames'[k].todo \subseteq Pid
  BY <1>1, <1>2, CallsNow DEF Calling
<1>6. HandlesInv'
  <2>1. \A p \in Held : p \in Pid
    BY <1>1, Known DEF Held
  <2>2. \A p \in Held' : Clean(p)' => p \in lineage'
    BY <1>1, <1>2, <1>3, <1>4, <2>1 DEF HandlesInv
  <2>3. \A p \in Pid, i, j \in Slot : Clean(p)' /\ gHandle'[i] = p /\ gHandle'[j] = p => i = j
    BY <1>1, <1>2, <1>4 DEF HandlesInv
  <2>4. \A k \in Calling' : frames'[k].of \in Held' /\ (~frames'[k].listed => frames'[k].todo = {})
    BY <1>1, <1>3, <1>5 DEF HandlesInv
  <2>5. \A k \in Calling' : \A q \in frames'[k].todo :
          used'[q] # 0 /\ (Clean(q)' => parent'[q] = frames'[k].of /\ q \notin Held')
    BY <1>1, <1>2, <1>3, <1>4, <1>5 DEF HandlesInv
  <2>6. ASSUME NEW p \in Pid, NEW k \in Calling', NEW l \in Calling',
               Clean(p)', frames'[k].of = p, frames'[l].of = p
        PROVE  k = l
    <3>1. /\ Clean(p) /\ k + 1 \in Calling /\ l + 1 \in Calling
          /\ frames[k + 1].of = p /\ frames[l + 1].of = p
      BY <1>4, <1>5, <2>6
    <3>2. k + 1 = l + 1
      BY <1>1, <3>1 DEF HandlesInv
    <3>. QED BY <1>5, <3>2
  <2>7. \A p \in Pid, i \in Slot : i # 0 /\ gHandle'[i] = p /\ Clean(p)' =>
          parent'[p] \in Held' /\ \A k \in Calling' : frames'[k].of = parent'[p] => frames'[k].listed
    BY <1>1, <1>2, <1>3, <1>4, <1>5 DEF HandlesInv
  <2>. QED BY <2>2, <2>3, <2>4, <2>5, <2>6, <2>7 DEF HandlesInv
<1>7. ASSUME ~missed', hNum' < Slots, NEW p \in before',
             Within(p)', parent'[p] \in Held', p \notin Held'
      PROVE  \E k \in Calling' : frames'[k].of = parent'[p] /\ (~frames'[k].listed \/ p \in frames'[k].todo)
  <2>1. ~missed /\ hNum < Slots /\ frames[1].listed /\ frames[1].todo = {}
    BY <1>1, <1>2, <1>7
  <2>2. p \in before /\ p \in Pid /\ Within(p) /\ parent[p] \in Held /\ p \notin Held
    BY <1>1, <1>2, <1>3, <1>4, <1>7
  <2>3. PICK k \in Calling : frames[k].of = parent[p] /\ (~frames[k].listed \/ p \in frames[k].todo)
    BY <1>1, <2>1, <2>2 DEF SearchInv
  <2>4. k # 1 /\ k \in 1 .. Len(frames)
    BY <2>1, <2>3 DEF Calling
  <2>5. k - 1 \in Calling' /\ (k - 1) + 1 = k
    BY <1>5, <2>4
  <2>6. frames'[k - 1] = frames[k]
    BY <1>5, <2>5
  <2>. QED BY <1>2, <2>3, <2>5, <2>6
<1>8. SearchInv'
  <2>1. \A p \in before' : Within(p)' => p = gHandle'[0] \/ parent'[p] \in before'
    BY <1>1, <1>2, <1>4 DEF SearchInv
  <2>. QED BY <1>1, <1>2, <1>7, <2>1 DEF SearchInv
<1>. QED BY <1>3, <1>6, <1>8

(* A call lists the children there are: none of them that is used once has a handle yet. *)
LEMMA SnapshotTree == TreeInv /\ Snapshot => LineageInv' /\ HandlesInv' /\ SearchInv'
<1> SUFFICES ASSUME TreeInv, Snapshot PROVE LineageInv' /\ HandlesInv' /\ SearchInv'
  OBVIOUS
<1>1. ProxyInv /\ LineageInv /\ HandlesInv /\ SearchInv /\ before \subseteq Pid /\ alive \subseteq Pid
      /\ parent \in [Pid -> Pid \union {0}] /\ gHandle \in [Slot -> Pid \union {0}] /\ 0 \in Slot
      /\ Pid \subseteq Nat \ {0}
  BY Known DEF TreeInv
<1>2. PICK kids \in SUBSET Children(frames[1].of) :
        /\ frames' = [frames EXCEPT ![1].listed = TRUE, ![1].todo = kids]
        /\ missed' = (missed \/ kids # Children(frames[1].of))
  BY DEF Snapshot
<1>3. /\ proxy = "searching" /\ frames # <<>> /\ ~frames[1].listed
      /\ UNCHANGED <<proxy, hNum, gHandle, alive, parent, used, lineage, before>>
  BY DEF Snapshot, processes
<1>4. LineageInv' /\ Held' = Held
  BY <1>1, <1>3, LineageSame
<1>5. \A p \in Pid : (Clean(p)' <=> Clean(p)) /\ (Within(p)' => Within(p))
  BY <1>3, LinesSame
<1>6. /\ Calling' = Calling /\ 1 \in Calling
      /\ \A k \in Calling : frames[k].of \in Pid /\ frames[k].todo \subseteq Pid
      /\ \A k \in Calling : k # 1 => frames'[k] = frames[k]
      /\ frames'[1].of = frames[1].of /\ frames'[1].listed /\ frames'[1].todo = kids
  <2>1. frames \in Seq(Frame) /\ frames[1] \in Frame /\ 1 \in 1 .. Len(frames)
    BY <1>1, <1>3, CallsNow DEF Calling
  <2>2. Len(frames') = Len(frames)
    BY <1>2, <2>1
  <2>3. \A k \in 1 .. Len(frames) : k # 1 => frames'[k] = frames[k]
    BY <1>2, <2>1
  <2>4. frames'[1].of = frames[1].of /\ frames'[1].listed /\ frames'[1].todo = kids
    BY <1>2, <2>1 DEF Frame
  <2>. QED BY <1>1, <1>3, <2>2, <2>3, <2>4, CallsNow DEF Calling
<1>7. \A q \in kids : q \in alive /\ q \in Pid /\ parent[q] = frames[1].of /\ used[q] # 0
  BY <1>1, <1>2 DEF Children, LineageInv
<1>8. ASSUME NEW q \in kids, Clean(q) PROVE q \notin Held
  <2> SUFFICES ASSUME q \in Held PROVE FALSE
    OBVIOUS
  <2>1. PICK i \in Slot : gHandle[i] = q
    BY DEF Held
  <2>2. q \in Pid /\ parent[q] = frames[1].of /\ frames[1].of \in Pid
    BY <1>6, <1>7
  <2>3. i # 0
    BY <1>1, <2>1, <2>2 DEF LineageInv
  <2>4. frames[1].listed
    BY <1>1, <1>6, <1>8, <2>1, <2>2, <2>3 DEF HandlesInv
  <2>. QED BY <1>3, <2>4
<1>9. HandlesInv'
  <2>1. \A p \in Held : p \in Pid
    BY <1>1 DEF Held
  <2>2. \A p \in Held' : Clean(p)' => p \in lineage'
    BY <1>1, <1>3, <1>4, <1>5, <2>1 DEF HandlesInv
  <2>3. \A p \in Pid, i, j \in Slot : Clean(p)' /\ gHandle'[i] = p /\ gHandle'[j] = p => i = j
    BY <1>1, <1>3, <1>5 DEF HandlesInv
  <2>4. \A k \in Calling' : frames'[k].of \in Held' /\ (~frames'[k].listed => frames'[k].todo = {})
    BY <1>1, <1>4, <1>6 DEF HandlesInv
  <2>5. ASSUME NEW k \in Calling', NEW q \in frames'[k].todo
        PROVE  used'[q] # 0 /\ (Clean(q)' => parent'[q] = frames'[k].of /\ q \notin Held')
    <3>1. CASE k = 1
      BY <1>3, <1>4, <1>5, <1>6, <1>7, <1>8, <2>5, <3>1
    <3>2. CASE k # 1
      BY <1>1, <1>3, <1>4, <1>5, <1>6, <2>5, <3>2 DEF HandlesInv
    <3>. QED BY <3>1, <3>2
  <2>6. \A k \in Calling' : frames'[k].of = frames[k].of /\ (frames[k].listed => frames'[k].listed)
    BY <1>6
  <2>7. \A p \in Pid, k, l \in Calling' : Clean(p)' /\ frames'[k].of = p /\ frames'[l].of = p => k = l
    <3>1. \A p \in Pid, k, l \in Calling : Clean(p) /\ frames[k].of = p /\ frames[l].of = p => k = l
      BY <1>1 DEF HandlesInv
    <3>2. Calling' = Calling /\ \A p \in Pid : Clean(p)' <=> Clean(p)
      BY <1>5, <1>6
    <3>. QED BY <2>6, <3>1, <3>2
  <2>8. \A p \in Pid, i \in Slot : i # 0 /\ gHandle'[i] = p /\ Clean(p)' =>
          parent'[p] \in Held' /\ \A k \in Calling' : frames'[k].of = parent'[p] => frames'[k].listed
    BY <1>1, <1>3, <1>4, <1>5, <1>6, <2>6 DEF HandlesInv
  <2>. QED BY <2>2, <2>3, <2>4, <2>5, <2>7, <2>8 DEF HandlesInv
<1>10. ASSUME ~missed', hNum' < Slots, NEW p \in before',
             Within(p)', parent'[p] \in Held', p \notin Held'
       PROVE  \E k \in Calling' : frames'[k].of = parent'[p] /\ (~frames'[k].listed \/ p \in frames'[k].todo)
  <2>1. ~missed /\ hNum < Slots /\ kids = Children(frames[1].of)
    BY <1>2, <1>3, <1>10
  <2>2. p \in before /\ p \in Pid /\ Within(p) /\ parent[p] \in Held /\ p \notin Held
    BY <1>1, <1>3, <1>4, <1>5, <1>10
  <2>3. PICK k \in Calling : frames[k].of = parent[p] /\ (~frames[k].listed \/ p \in frames[k].todo)
    BY <1>1, <2>1, <2>2 DEF SearchInv
  <2>4. CASE k = 1
    <3>1. p \in alive
      BY <1>1, <2>2, CleanUp
    <3>2. p \in kids
      BY <2>1, <2>3, <2>4, <3>1 DEF Children
    <3>. QED BY <1>3, <1>6, <2>3, <2>4, <3>2
  <2>5. CASE k # 1
    BY <1>3, <1>6, <2>3, <2>5
  <2>. QED BY <2>4, <2>5
<1>11. SearchInv'
  <2>1. \A p \in before' : Within(p)' => p = gHandle'[0] \/ parent'[p] \in before'
    BY <1>1, <1>3, <1>5 DEF SearchInv
  <2>. QED BY <1>1, <1>3, <1>10, <2>1 DEF SearchInv
<1>. QED BY <1>4, <1>9, <1>11

(* When the innermost call becomes another, the calls that wait stay what they were. *)
LEMMA OthersWait ==
  ASSUME NEW s \in Seq(Frame), s # <<>>, NEW f \in Frame, NEW r, r = [s EXCEPT ![1] = f]
  PROVE  /\ r \in Seq(Frame) /\ Len(r) = Len(s) /\ r[1] = f
         /\ \A k \in 1 .. Len(s) : k # 1 => r[k] = s[k]
<1>1. 1 \in 1..Len(s) /\ Len(s) \in Nat
  BY EmptySeq, LenProperties
<1>2. DOMAIN s = 1..Len(s) /\ DOMAIN r = 1..Len(s)
  BY LenProperties
<1>3. r \in Seq(Frame)
  BY InnermostBecomes
<1>4. DOMAIN r = 1..Len(r) /\ Len(r) \in Nat
  BY <1>3, LenProperties
<1>5. Len(r) = Len(s)
  BY <1>1, <1>2, <1>4
<1>6. r[1] = f /\ \A k \in 1 .. Len(s) : k # 1 => r[k] = s[k]
  BY <1>1, <1>2
<1>. QED BY <1>3, <1>5, <1>6

(* A child gets its handle and a call of its own, or cannot be opened. *)
LEMMA OpenChildTree == TreeInv /\ OpenChild => LineageInv' /\ HandlesInv' /\ SearchInv'
<1> SUFFICES ASSUME TreeInv, OpenChild PROVE LineageInv' /\ HandlesInv' /\ SearchInv'
  OBVIOUS
<1>1. ProxyInv /\ LineageInv /\ HandlesInv /\ SearchInv /\ before \subseteq Pid /\ 0 \in Slot
      /\ parent \in [Pid -> Pid \union {0}] /\ gHandle \in [Slot -> Pid \union {0}]
      /\ Pid \subseteq Nat \ {0} /\ Slots \in Nat /\ hNum \in 1 .. Slots /\ used \in [Pid -> Nat]
  BY Known DEF TreeInv
<1>2. /\ proxy = "searching" /\ frames # <<>> /\ frames[1].listed /\ hNum < Slots
      /\ UNCHANGED <<proxy, alive, parent, used, lineage, before, missed>>
  BY DEF OpenChild, processes
<1> DEFINE rest(q) == [frames EXCEPT ![1].todo = @ \ {q}]
<1>3. PICK q \in frames[1].todo :
        IF q \in alive \ Guarded
        THEN /\ gHandle' = [gHandle EXCEPT ![hNum] = q]
             /\ hNum' = hNum + 1
             /\ frames' = <<Called(q)>> \o rest(q)
        ELSE frames' = rest(q) /\ UNCHANGED <<hNum, gHandle>>
  BY DEF OpenChild
<1>4. /\ frames \in Seq(Frame) /\ Len(frames) \in Nat \ {0} /\ 1 \in Calling /\ q \in Pid
      /\ \A k \in Calling : frames[k] \in Frame /\ frames[k].of \in Pid /\ frames[k].todo \subseteq Pid
  BY <1>1, <1>2, <1>3, CallsNow
<1> DEFINE s == rest(q)
<1>5. /\ s \in Seq(Frame) /\ Len(s) = Len(frames)
      /\ \A k \in Calling : k # 1 => s[k] = frames[k]
      /\ s[1].of = frames[1].of /\ s[1].listed /\ s[1].todo = frames[1].todo \ {q}
  <2> DEFINE f == [frames[1] EXCEPT !.todo = @ \ {q}]
  <2>1. frames[1] \in Frame /\ 1 \in 1 .. Len(frames)
    BY <1>4 DEF Calling
  <2>2. frames[1].todo \in Todo /\ IsFiniteSet(frames[1].todo)
    BY <1>1, <2>1, Known, FS_Subset DEF Frame, Todo
  <2>3. Cardinality(frames[1].todo \ {q}) = Cardinality(frames[1].todo) - 1
        /\ Cardinality(frames[1].todo) \in Nat
    BY <1>3, <2>2, FS_RemoveElement, FS_CardinalityType
  <2>4. frames[1].todo \ {q} \in Todo
    BY <1>1, <2>2, <2>3 DEF Todo
  <2>5. f \in Frame /\ f.of = frames[1].of /\ f.listed /\ f.todo = frames[1].todo \ {q}
    BY <1>2, <2>1, <2>4 DEF Frame
  <2> HIDE DEF f
  <2>6. s = [frames EXCEPT ![1] = f]
    BY DEF f
  <2> HIDE DEF s
  <2>7. s \in Seq(Frame) /\ Len(s) = Len(frames) /\ s[1] = f
        /\ \A k \in 1 .. Len(frames) : k # 1 => s[k] = frames[k]
    BY <1>2, <1>4, <2>5, <2>6, OthersWait
  <2>. QED BY <2>5, <2>7 DEF Calling
<1> HIDE DEF s
<1>6. \A p \in Pid : (Clean(p)' <=> Clean(p)) /\ (Within(p)' => Within(p))
  BY <1>2, LinesSame
<1>7. \A p \in Held : p \in Pid
  BY <1>1 DEF Held
<1>8. /\ used[q] # 0
      /\ Clean(q) => parent[q] = frames[1].of /\ q \notin Held
  BY <1>1, <1>3, <1>4 DEF HandlesInv
<1>9. \A k \in Calling : s[k].of = frames[k].of /\ (s[k].listed <=> frames[k].listed)
                         /\ s[k].todo \subseteq frames[k].todo
  BY <1>2, <1>5
<1>10. CASE q \notin alive \ Guarded
  <2>1. frames' = s /\ UNCHANGED <<hNum, gHandle>> /\ Calling' = Calling
    BY <1>3, <1>5, <1>10 DEF s, Calling
  <2>2. LineageInv' /\ Held' = Held
    BY <1>1, <1>2, <2>1, LineageSame
  <2>3. HandlesInv'
    <3>1. \A p \in Held' : Clean(p)' => p \in lineage'
      BY <1>1, <1>2, <1>6, <1>7, <2>2 DEF HandlesInv
    <3>2. \A p \in Pid, i, j \in Slot : Clean(p)' /\ gHandle'[i] = p /\ gHandle'[j] = p => i = j
      <4>1. \A p \in Pid, i, j \in Slot : Clean(p) /\ gHandle[i] = p /\ gHandle[j] = p => i = j
        BY <1>1 DEF HandlesInv
      <4>. QED BY <1>6, <2>1, <4>1
    <3>3. \A k \in Calling' : frames'[k].of \in Held' /\ (~frames'[k].listed => frames'[k].todo = {})
      BY <1>1, <1>9, <2>1, <2>2 DEF HandlesInv
    <3>4. ASSUME NEW k \in Calling', NEW p \in frames'[k].todo
          PROVE  used'[p] # 0 /\ (Clean(p)' => parent'[p] = frames'[k].of /\ p \notin Held')
      <4>1. k \in Calling /\ p \in frames[k].todo /\ p \in Pid /\ frames'[k].of = frames[k].of
        BY <1>4, <1>9, <2>1, <3>4
      <4>. QED BY <1>1, <1>2, <1>6, <2>2, <4>1 DEF HandlesInv
    <3>5. \A p \in Pid, k, l \in Calling' : Clean(p)' /\ frames'[k].of = p /\ frames'[l].of = p => k = l
      <4>1. \A p \in Pid, k, l \in Calling : Clean(p) /\ frames[k].of = p /\ frames[l].of = p => k = l
        BY <1>1 DEF HandlesInv
      <4>. QED BY <1>6, <1>9, <2>1, <4>1
    <3>6. \A p \in Pid, i \in Slot : i # 0 /\ gHandle'[i] = p /\ Clean(p)' =>
            parent'[p] \in Held' /\ \A k \in Calling' : frames'[k].of = parent'[p] => frames'[k].listed
      <4>1. \A p \in Pid, i \in Slot : i # 0 /\ gHandle[i] = p /\ Clean(p) =>
              parent[p] \in Held /\ \A k \in Calling : frames[k].of = parent[p] => frames[k].listed
        BY <1>1 DEF HandlesInv
      <4>. QED BY <1>2, <1>6, <1>9, <2>1, <2>2, <4>1
    <3>. QED BY <3>1, <3>2, <3>3, <3>4, <3>5, <3>6 DEF HandlesInv
  <2>4. ASSUME ~missed', hNum' < Slots, NEW p \in before',
             Within(p)', parent'[p] \in Held', p \notin Held'
        PROVE  \E k \in Calling' : frames'[k].of = parent'[p] /\ (~frames'[k].listed \/ p \in frames'[k].todo)
    <3>1. p \in before /\ p \in Pid /\ Within(p) /\ parent[p] \in Held /\ p \notin Held /\ ~missed
      BY <1>1, <1>2, <1>6, <2>2, <2>4
    <3>2. PICK k \in Calling : frames[k].of = parent[p] /\ (~frames[k].listed \/ p \in frames[k].todo)
      BY <1>1, <1>2, <3>1 DEF SearchInv
    <3>3. p # q
      BY <1>1, <1>10, <3>1, CleanUp
    <3>4. p \in frames[k].todo => p \in s[k].todo
      BY <1>5, <3>2, <3>3
    <3>. QED BY <1>2, <1>9, <2>1, <3>2, <3>4
  <2>5. SearchInv'
    <3>1. \A p \in before' : Within(p)' => p = gHandle'[0] \/ parent'[p] \in before'
      BY <1>1, <1>2, <1>6, <2>1 DEF SearchInv
    <3>. QED BY <1>1, <1>2, <2>1, <2>4, <3>1 DEF SearchInv
  <2>. QED BY <2>2, <2>3, <2>5
<1>11. CASE q \in alive \ Guarded
  <2>1. gHandle' = [gHandle EXCEPT ![hNum] = q] /\ hNum' = hNum + 1 /\ frames' = <<Called(q)>> \o s
    BY <1>3, <1>11 DEF s
  <2>2. /\ hNum \in Slot /\ hNum # 0 /\ gHandle[hNum] = 0 /\ gHandle'[hNum] = q
        /\ \A i \in Slot : i # hNum => gHandle'[i] = gHandle[i]
    BY <1>1, <1>2, <2>1 DEF Slot, ProxyInv
  <2>3. Held' = Held \union {q}
    <3>1. \A i \in Slot : gHandle'[i] = IF i = hNum THEN q ELSE gHandle[i]
      BY <2>2
    <3>2. q # 0
      BY <1>1, <1>4
    <3>3. Held' \subseteq Held \union {q}
      BY <3>1 DEF Held
    <3>4. q \in Held'
      BY <2>2, <3>2 DEF Held
    <3>5. Held \subseteq Held'
      BY <2>2, <3>1 DEF Held
    <3>. QED BY <3>3, <3>4, <3>5
  <2>4. /\ Calling' = 1 .. Len(frames) + 1
        /\ frames'[1].of = q /\ ~frames'[1].listed /\ frames'[1].todo = {}
        /\ \A k \in Calling' : k # 1 => frames'[k] = s[k - 1] /\ k - 1 \in Calling
        /\ \A k \in Calling : k + 1 \in Calling' /\ frames'[k + 1] = s[k]
    <3>1. <<Called(q)>> \in Seq(Frame) /\ Len(<<Called(q)>>) = 1 /\ <<Called(q)>>[1] = Called(q)
      BY <1>1, <1>4, CalledType
    <3>2. /\ Len(<<Called(q)>> \o s) = 1 + Len(s)
          /\ \A k \in 1 .. 1 + Len(s) :
               (<<Called(q)>> \o s)[k] = IF k <= 1 THEN Called(q) ELSE s[k - 1]
      BY <1>5, <3>1, ConcatProperties
    <3>3. Calling' = 1 .. Len(frames) + 1
      BY <1>4, <1>5, <2>1, <3>2 DEF Calling
    <3>4. \A k \in Calling' : frames'[k] = IF k = 1 THEN Called(q) ELSE s[k - 1]
      BY <1>4, <1>5, <2>1, <3>2, <3>3
    <3>5. 1 \in Calling' /\ \A k \in Calling' : k # 1 => k - 1 \in Calling
      BY <1>4, <3>3 DEF Calling
    <3>6. \A k \in Calling : k + 1 \in Calling' /\ k + 1 # 1 /\ (k + 1) - 1 = k
      BY <1>4, <3>3 DEF Calling
    <3>7. Called(q).of = q /\ ~Called(q).listed /\ Called(q).todo = {}
      BY DEF Called
    <3>8. frames'[1] = Called(q) /\ \A k \in Calling' : k # 1 => frames'[k] = s[k - 1]
      BY <3>4, <3>5
    <3>9. \A k \in Calling : frames'[k + 1] = s[k]
      BY <3>6, <3>8
    <3>. QED BY <3>3, <3>5, <3>6, <3>7, <3>8, <3>9
  <2>5. gHandle'[0] = gHandle[0] /\ gHandle[0] # 0
    BY <1>1, <1>2, <2>2 DEF ProxyInv
  <2>6. LineageInv'
    <3>1. ASSUME NEW p \in Pid, used'[p] = 0
          PROVE  /\ p \notin alive' \union lineage' \union before' \union Held'
                 /\ \A r \in Pid : parent'[r] # p
      BY <1>1, <1>2, <1>8, <2>3, <3>1 DEF LineageInv
    <3>. QED BY <1>1, <1>2, <2>5, <3>1 DEF LineageInv
  <2>7. ASSUME Clean(q)
        PROVE  /\ q \notin Held /\ parent[q] = frames[1].of /\ frames[1].of \in Held
               /\ parent[q] \in Pid /\ Clean(parent[q]) /\ q \in lineage
    <3>1. q \notin Held /\ parent[q] = frames[1].of /\ frames[1].of \in Held
      BY <1>1, <1>4, <1>8, <2>7 DEF HandlesInv
    <3>2. parent[q] \in Pid /\ parent[q] # 0
      BY <1>1, <1>4, <3>1
    <3>3. Clean(parent[q]) /\ used[parent[q]] <= 1
      BY <1>1, <1>4, <2>7, <3>2, CleanUp
    <3>4. parent[q] \in lineage
      BY <1>1, <3>1, <3>3 DEF HandlesInv
    <3>5. q \in lineage
      BY <1>1, <1>4, <3>2, <3>3, <3>4 DEF LineageInv
    <3>. QED BY <3>1, <3>2, <3>3, <3>5
  <2>8. HandlesInv'
    <3>1. \A p \in Held' : Clean(p)' => p \in lineage'
      BY <1>1, <1>2, <1>4, <1>6, <1>7, <2>3, <2>7 DEF HandlesInv
    <3>2. ASSUME NEW p \in Pid, NEW i \in Slot, NEW j \in Slot,
                 Clean(p)', gHandle'[i] = p, gHandle'[j] = p
          PROVE  i = j
      <4>1. Clean(p) /\ p # 0
        BY <1>1, <1>6, <3>2
      <4>2. CASE p = q
        <5>1. \A l \in Slot : l # hNum => gHandle[l] # q
          BY <1>1, <1>4, <2>7, <4>1, <4>2 DEF Held
        <5>. QED BY <2>2, <3>2, <4>2, <5>1
      <4>3. CASE p # q
        <5>1. gHandle[i] = p /\ gHandle[j] = p
          BY <2>2, <3>2, <4>3
        <5>. QED BY <1>1, <4>1, <5>1 DEF HandlesInv
      <4>. QED BY <4>2, <4>3
    <3>3. ASSUME NEW k \in Calling'
          PROVE  frames'[k].of \in Held' /\ (~frames'[k].listed => frames'[k].todo = {})
      <4>1. CASE k = 1
        BY <2>3, <2>4, <4>1
      <4>2. CASE k # 1
        <5>1. PICK l \in Calling : frames'[k] = s[l]
          BY <2>4, <4>2
        <5>2. frames[l].of \in Held /\ (~frames[l].listed => frames[l].todo = {})
          BY <1>1 DEF HandlesInv
        <5>. QED BY <1>9, <2>3, <5>1, <5>2
      <4>. QED BY <4>1, <4>2
    <3>4. ASSUME NEW k \in Calling', NEW p \in frames'[k].todo
          PROVE  used'[p] # 0 /\ (Clean(p)' => parent'[p] = frames'[k].of /\ p \notin Held')
      <4>1. k # 1
        BY <2>4, <3>4
      <4>2. PICK l \in Calling : l = k - 1 /\ frames'[k] = s[l]
        BY <2>4, <4>1
      <4>3. p \in frames[l].todo /\ p \in Pid /\ frames'[k].of = frames[l].of /\ used[p] # 0
        BY <1>1, <1>4, <1>9, <3>4, <4>2 DEF HandlesInv
      <4>4. ASSUME Clean(p) PROVE parent[p] = frames[l].of /\ p \notin Held /\ p # q
        <5>1. parent[p] = frames[l].of /\ p \notin Held
          BY <1>1, <4>3, <4>4 DEF HandlesInv
        <5>2. ASSUME p = q PROVE FALSE
          <6>1. frames[l].of = parent[q] /\ frames[1].of = parent[q] /\ Clean(parent[q])
                /\ parent[q] \in Pid
            BY <2>7, <4>4, <5>1, <5>2
          <6>2. l = 1
            BY <1>1, <1>4, <6>1 DEF HandlesInv
          <6>3. p \in frames[1].todo \ {q}
            BY <1>5, <3>4, <4>2, <6>2
          <6>. QED BY <5>2, <6>3
        <5>. QED BY <5>1, <5>2
      <4>. QED BY <1>2, <1>6, <2>3, <4>3, <4>4
    <3>5. ASSUME NEW p \in Pid, NEW k \in Calling', NEW l \in Calling',
                 Clean(p)', frames'[k].of = p, frames'[l].of = p
          PROVE  k = l
      <4>1. Clean(p)
        BY <1>6, <3>5
      <4>2. \A m \in Calling' : m # 1 => frames'[m].of = frames[m - 1].of /\ m - 1 \in Calling
        BY <1>9, <2>4
      <4>3. \A m \in Calling' : m # 1 => frames'[m].of \in Held
        BY <1>1, <4>2 DEF HandlesInv
      <4>4. CASE p = q
        BY <2>7, <3>5, <4>1, <4>3, <4>4
      <4>5. CASE p # q
        <5>1. k # 1 /\ l # 1
          BY <2>4, <3>5, <4>5
        <5>2. k - 1 \in Calling /\ l - 1 \in Calling /\ frames[k - 1].of = p /\ frames[l - 1].of = p
          BY <3>5, <4>2, <5>1
        <5>3. k - 1 = l - 1
          BY <1>1, <4>1, <5>2 DEF HandlesInv
        <5>. QED BY <1>4, <2>4, <5>3
      <4>. QED BY <4>4, <4>5
    <3>6. ASSUME NEW p \in Pid, NEW i \in Slot, i # 0, gHandle'[i] = p, Clean(p)'
          PROVE  parent'[p] \in Held' /\ \A k \in Calling' : frames'[k].of = parent'[p] => frames'[k].listed
      <4>1. Clean(p)
        BY <1>6, <3>6
      <4>2. parent[p] \in Held /\ \A k \in Calling : frames[k].of = parent[p] => frames[k].listed
        <5>1. CASE p = q
          <6>1. parent[q] = frames[1].of /\ parent[q] \in Held /\ Clean(parent[q]) /\ parent[q] \in Pid
            BY <2>7, <4>1, <5>1
          <6>2. \A k \in Calling : frames[k].of = parent[q] => k = 1
            <7>1. PICK r \in Pid : r = parent[q]
              BY <6>1
            <7>2. Clean(r) /\ frames[1].of = r
              BY <6>1, <7>1
            <7>3. \A k, l \in Calling : Clean(r) /\ frames[k].of = r /\ frames[l].of = r => k = l
              BY <1>1 DEF HandlesInv
            <7>. QED BY <1>4, <7>1, <7>2, <7>3
          <6>. QED BY <1>2, <5>1, <6>1, <6>2
        <5>2. CASE p # q
          <6>1. gHandle[i] = p
            BY <2>2, <3>6, <5>2
          <6>. QED BY <1>1, <3>6, <4>1, <6>1 DEF HandlesInv
        <5>. QED BY <5>1, <5>2
      <4>3. parent[p] # q
        <5> SUFFICES ASSUME parent[p] = q PROVE FALSE
          OBVIOUS
        <5>1. parent[p] # 0
          BY <1>1, <1>4
        <5>2. Clean(q)
          BY <1>1, <4>1, <5>1, CleanUp
        <5>. QED BY <2>7, <4>2, <5>2
      <4>4. ASSUME NEW k \in Calling', frames'[k].of = parent[p]
            PROVE  frames'[k].listed
        <5>1. k # 1
          BY <2>4, <4>3, <4>4
        <5>2. PICK l \in Calling : frames'[k] = s[l]
          BY <2>4, <5>1
        <5>3. frames[l].of = parent[p] /\ (s[l].listed <=> frames[l].listed)
          BY <1>9, <4>4, <5>2
        <5>. QED BY <4>2, <5>2, <5>3
      <4>5. parent'[p] = parent[p]
        BY <1>2
      <4>6. parent'[p] \in Held'
        BY <2>3, <4>2, <4>5
      <4>. QED BY <4>4, <4>5, <4>6
    <3>. QED BY <3>1, <3>2, <3>3, <3>4, <3>5, <3>6 DEF HandlesInv
  <2>9. ASSUME ~missed', hNum' < Slots, NEW p \in before',
             Within(p)', parent'[p] \in Held', p \notin Held'
        PROVE  \E k \in Calling' : frames'[k].of = parent'[p] /\ (~frames'[k].listed \/ p \in frames'[k].todo)
    <3>1. p \in before /\ p \in Pid /\ Within(p) /\ p \notin Held /\ p # q /\ ~missed /\ hNum < Slots
      BY <1>1, <1>2, <1>6, <2>1, <2>3, <2>9
    <3>2. CASE parent[p] = q
      <4>1. 1 \in Calling' /\ parent'[p] = q
        BY <1>2, <1>4, <2>4, <3>2
      <4>. QED BY <2>4, <4>1
    <3>3. CASE parent[p] # q
      <4>1. parent[p] \in Held
        BY <1>2, <2>3, <2>9, <3>3
      <4>2. PICK k \in Calling : frames[k].of = parent[p] /\ (~frames[k].listed \/ p \in frames[k].todo)
        BY <1>1, <3>1, <4>1 DEF SearchInv
      <4>3. p \in frames[k].todo => p \in s[k].todo
        BY <1>5, <3>1, <4>2
      <4>4. /\ k + 1 \in Calling' /\ frames'[k + 1].of = parent'[p]
            /\ ~frames'[k + 1].listed \/ p \in frames'[k + 1].todo
        BY <1>2, <1>9, <2>4, <4>2, <4>3
      <4>. QED BY <4>4
    <3>. QED BY <3>2, <3>3
  <2>10. SearchInv'
    <3>1. \A p \in before' : Within(p)' => p = gHandle'[0] \/ parent'[p] \in before'
      BY <1>1, <1>2, <1>6, <2>5 DEF SearchInv
    <3>. QED BY <1>1, <1>2, <2>9, <3>1 DEF SearchInv
  <2>. QED BY <2>6, <2>8, <2>10
<1>. QED BY <1>10, <1>11

-------------------------------------------------------------------------------
(* undo_it leaves no handle and nothing to be found. *)
LEMMA UndoTree == TreeInv /\ Undo => LineageInv' /\ HandlesInv' /\ SearchInv'
<1> SUFFICES ASSUME TreeInv, Undo PROVE LineageInv' /\ HandlesInv' /\ SearchInv'
  OBVIOUS
<1>1. LineageInv /\ 0 \in Slot /\ Pid \subseteq Nat \ {0}
  BY Known DEF TreeInv
<1>2. hNum' = 1 /\ gHandle' = [i \in Slot |-> 0] /\ proxy' = "undone" /\ frames' = <<>>
      /\ lineage' = {} /\ before' = {} /\ alive' \subseteq alive /\ UNCHANGED <<parent, used>>
  BY DEF Undo
<1>3. Held' = {} /\ Calling' = {} /\ gHandle'[0] = 0
  BY <1>1, <1>2 DEF Held, Calling
<1>4. LineageInv'
  <2>1. \A p \in Pid : used'[p] = 0 => /\ p \notin alive' \union lineage' \union before' \union Held'
                                       /\ \A q \in Pid : parent'[q] # p
    BY <1>1, <1>2, <1>3 DEF LineageInv
  <2>. QED BY <1>1, <1>2, <1>3, <2>1 DEF LineageInv
<1>5. HandlesInv'
  BY <1>1, <1>2, <1>3 DEF HandlesInv
<1>6. SearchInv'
  BY <1>2 DEF SearchInv
<1>. QED BY <1>4, <1>5, <1>6

LEMMA TreeInitOK == ProxyInit => TreeInv
<1> SUFFICES ASSUME ProxyInit PROVE TreeInv
  OBVIOUS
<1>1. ProxyInv /\ 0 \in Slot /\ Pid \subseteq Nat \ {0}
  BY ProxyInitOK, Known
<1>2. Held = {} /\ Calling = {} /\ gHandle[0] = 0
  BY <1>1 DEF ProxyInit, Held, Calling
<1>3. LineageInv
  <2>1. /\ \A p \in Pid : used[p] = 0 => p \notin alive
        /\ \A p \in Pid : parent[p] = 0
        /\ lineage = {} /\ before = {}
    BY DEF ProxyInit
  <2>. QED BY <1>1, <1>2, <2>1 DEF LineageInv
<1>4. HandlesInv
  BY <1>1, <1>2 DEF ProxyInit, HandlesInv
<1>5. SearchInv
  BY DEF ProxyInit, SearchInv
<1>. QED BY <1>1, <1>3, <1>4, <1>5 DEF TreeInv

THEOREM TreeCorrect == ProxySpec => []TreeInv
<1>1. TreeInv /\ ProxyInv' /\ [ProxyNext]_proxyVars => TreeInv'
  <2> SUFFICES ASSUME TreeInv, ProxyInv', [ProxyNext]_proxyVars
               PROVE  LineageInv' /\ HandlesInv' /\ SearchInv'
    BY DEF TreeInv
  <2>1. CASE UNCHANGED proxyVars
    BY <2>1 DEF proxyVars, TreeInv, LineageInv, HandlesInv, SearchInv, Clean, Within, Ancestry,
                Held, Calling
  <2>2. CASE RunProcess
    BY <2>2, QuietTree, AwakeTree, SnapshotTree, ReturnTree, OpenChildTree DEF RunProcess
  <2>3. CASE Creates
    BY <2>3, LaunchTree, QuietTree DEF Creates
  <2>. QED BY <2>1, <2>2, <2>3, QuietTree, SpawnTree, ExitTree, UndoTree DEF ProxyNext
<1>. QED BY <1>1, TreeInitOK, ProxyCorrect, PTL DEF ProxySpec

(* undo_it ends no process but those the program has started, whatever identifiers the
   system gives out meanwhile, unless one of them or of those they come from was used before. *)
THEOREM OnlyOwnEnded == ProxySpec => []EndsOnlyOwn
<1>1. TreeInv => EndsOnlyOwn
  <2> SUFFICES ASSUME TreeInv, NEW p \in Held
               PROVE  \/ /\ p \in lineage
                         /\ \A i, j \in Slot : gHandle[i] = p /\ gHandle[j] = p => i = j
                      \/ \E q \in Ancestry(p) : used[q] > 1
    BY DEF EndsOnlyOwn
  <2>1. ProxyInv /\ HandlesInv /\ p \in Pid /\ used \in [Pid -> Nat]
    BY Known DEF TreeInv, Held
  <2>2. CASE Clean(p)
    BY <2>1, <2>2 DEF HandlesInv
  <2>3. CASE ~Clean(p)
    <3>1. PICK q \in Ancestry(p) : ~(used[q] <= 1)
      BY <2>3 DEF Clean
    <3>2. used[q] \in Nat
      BY <2>1 DEF Ancestry
    <3>. QED BY <3>1, <3>2
  <2>. QED BY <2>2, <2>3
<1>. QED BY <1>1, TreeCorrect, PTL

(* When the search is over, everything of the lineage that was there when it began and
   still is, with its line of parents, has its handle, if nothing ran out of room.     *)
THEOREM SearchFindsAll == ProxySpec => []AllFound
<1>1. TreeInv => AllFound
  <2> SUFFICES ASSUME TreeInv, proxy = "over", NEW p \in before, p \notin Held, ~missed, hNum # Slots
               PROVE  \E q \in Ancestry(p) : q \notin alive \/ q \in Guarded \/ used[q] > 1
    BY DEF AllFound
  <2> SUFFICES ASSUME Within(p) PROVE FALSE
    <3>1. ASSUME NEW q \in Ancestry(p) PROVE used[q] \in Nat
      BY Known DEF TreeInv, Ancestry
    <3>. QED BY <3>1 DEF Within
  <2>1. ProxyInv /\ LineageInv /\ SearchInv /\ before \subseteq Pid /\ Slots \in Nat /\ hNum < Slots
        /\ parent \in [Pid -> Pid \union {0}] /\ gHandle \in [Slot -> Pid \union {0}] /\ 0 \in Slot
        /\ Pid \subseteq Nat \ {0}
    BY Known DEF TreeInv
  <2>2. frames = <<>> /\ Calling = {}
    BY <2>1 DEF SearchInv, Calling
  <2> DEFINE T == {q \in before : Within(q) /\ q \notin Held}
  <2>3. ASSUME NEW q \in T PROVE parent[q] \in T /\ used[q] <= 1
    <3>1. q \in before /\ Within(q) /\ q \notin Held /\ q \in Pid
      BY <2>1
    <3>2. q # gHandle[0]
      BY <2>1, <3>1 DEF Held
    <3>3. parent[q] \in before /\ parent[q] \in Pid /\ parent[q] # 0
      BY <2>1, <3>1, <3>2 DEF SearchInv
    <3>4. Within(parent[q]) /\ used[q] <= 1
      BY <2>1, <3>1, <3>3, CleanUp
    <3>5. parent[q] \notin Held
      BY <2>1, <2>2, <3>1 DEF SearchInv
    <3>. QED BY <3>3, <3>4, <3>5
  <2>4. T \in SUBSET {q \in Pid : used[q] <= 1} /\ p \in T
    BY <2>1, <2>3
  <2> HIDE DEF T
  <2>. QED BY <2>1, <2>3, <2>4 DEF LineageInv
<1>. QED BY <1>1, TreeCorrect, PTL

-------------------------------------------------------------------------------
(* The boss key: each press turns the windows of the browser over once. *)

(* The rounds that have begun are odd in number. *)
Odd == (pressed - queue) % 2 = 1

(* Window w is as an odd number of rounds leaves it, if o holds, or an even number. *)
Turned(w, o) == (w \in visible) = IF w \in Mozilla /\ o THEN w \notin atFirst ELSE w \in atFirst

BossInv ==
  /\ BossTypeOK
  /\ boss \in {"off", "waiting", "over"} => pressed = 0 /\ queue = 0
  /\ boss = "ready" => \A w \in there \ touched : Turned(w, Odd)
  /\ boss = "turning" =>
       \A w \in there \ touched : IF w \in left THEN Turned(w, ~Odd) ELSE Turned(w, Odd)

(* What set_hotkey makes of any value of Hotkey: a set of modifiers and a key. *)
LEMMA SetHotkeyType ==
  ASSUME NEW k \in Hotkeys
  PROVE  SetHotkey(k) \in [mod : 0..15, vk : Nat]
<1> DEFINE three == Len(k) = 3 /\ k[1] \in Modkey /\ k[2] \in Modkey /\ k[3] \notin Modkey
           two == Len(k) = 2 /\ k[1] \in Modkey /\ k[2] > 47
           sum == IF k[1] = k[2] THEN k[1] ELSE k[1] + k[2]
<1>1. k \in Seq(Nat) /\ Len(k) <= 3
  BY BossKeyAssumption
<1>2. SetHotkey(k) = IF three THEN [mod |-> sum, vk |-> k[3]]
                     ELSE IF two THEN [mod |-> k[1], vk |-> k[2]]
                     ELSE [mod |-> MOD_CONTROL + MOD_SHIFT, vk |-> 192]
  BY DEF SetHotkey
<1>3. three => sum \in 0..15 /\ k[3] \in Nat
  <2>1. SUFFICES ASSUME three PROVE sum \in 0..15 /\ k[3] \in Nat
    OBVIOUS
  <2>2. k[1] \in {1, 2, 4, 8} /\ k[2] \in {1, 2, 4, 8}
    BY <2>1 DEF Modkey, MOD_ALT, MOD_CONTROL, MOD_SHIFT, MOD_WIN
  <2>3. sum \in 0..15
    <3> HIDE DEF three
    <3>. QED BY <2>2
  <2>4. Len(k) = 3
    BY <2>1
  <2>5. k[3] \in Nat
    <3> HIDE DEF three, two, sum
    <3>. QED BY <1>1, <2>4, ElementOfSeq
  <2>. QED BY <2>3, <2>5
<1>4. two => k[1] \in 0..15 /\ k[2] \in Nat
  <2>1. SUFFICES ASSUME two PROVE k[1] \in 0..15 /\ k[2] \in Nat
    OBVIOUS
  <2>2. k[1] \in {1, 2, 4, 8}
    BY <2>1 DEF Modkey, MOD_ALT, MOD_CONTROL, MOD_SHIFT, MOD_WIN
  <2>. QED BY <1>1, <2>1, <2>2
<1>5. MOD_CONTROL + MOD_SHIFT \in 0..15
  BY DEF MOD_CONTROL, MOD_SHIFT
<1> HIDE DEF three, two, sum
<1>. QED BY <1>2, <1>3, <1>4, <1>5

(* The invariant of the boss key holds before do_it. *)
LEMMA BossInitOK == BossInit => BossInv
<1> SUFFICES ASSUME BossInit PROVE BossInv
  OBVIOUS
<1>1. key \in [mod : 0..15, vk : Nat]
  BY DEF BossInit
<1>2. Presses \in Nat
  BY BossKeyAssumption
<1>. QED BY <1>1, <1>2 DEF BossInit, BossInv, BossTypeOK

-------------------------------------------------------------------------------
(* The thread reads its key. *)
LEMMA StartBossKeyOK == BossInv /\ StartBossKey => BossInv'
<1> SUFFICES ASSUME BossInv, StartBossKey PROVE BossInv'
  OBVIOUS
<1>1. key' \in [mod : 0..15, vk : Nat]
  BY SetHotkeyType DEF StartBossKey, BossInv, BossTypeOK
<1>. QED BY <1>1 DEF StartBossKey, BossInv, BossTypeOK

(* The hot key is registered, and the windows are as they were at first. *)
LEMMA RegisterOK == BossInv /\ Register => BossInv'
<1> SUFFICES ASSUME BossInv, Register PROVE BossInv'
  OBVIOUS
<1>1. pressed = 0 /\ queue = 0 /\ pressed' = 0 /\ queue' = 0 /\ boss' = "ready"
  BY DEF Register, BossInv
<1>2. ~Odd'
  BY <1>1 DEF Odd
<1>3. \A w \in there' \ touched' : Turned(w, Odd)'
  BY <1>2 DEF Register, Turned
<1>4. BossTypeOK'
  BY DEF Register, BossInv, BossTypeOK
<1>. QED BY <1>1, <1>3, <1>4 DEF BossInv

(* There is no hot key. *)
LEMMA NoHotkeyOK == BossInv /\ NoHotkey => BossInv'
BY DEF BossInv, NoHotkey, BossTypeOK

(* A hot key is queued. *)
LEMMA PressOK == BossInv /\ Press => BossInv'
<1> SUFFICES ASSUME BossInv, Press PROVE BossInv'
  OBVIOUS
<1>1. UNCHANGED <<boss, hotkey, key, there, visible, left, atFirst, touched>>
      /\ queue' = queue + 1 /\ pressed' = pressed + 1 /\ boss \in {"ready", "turning"}
  BY DEF Press
<1>2. queue \in Nat /\ pressed \in Nat /\ Presses \in Nat
  BY BossKeyAssumption DEF BossInv, BossTypeOK
<1>3. Odd' = Odd
  <2>1. pressed' - queue' = pressed - queue
    BY <1>1, <1>2
  <2>. QED BY <2>1 DEF Odd
<1>4. BossTypeOK'
  BY <1>1, <1>2 DEF Press, BossInv, BossTypeOK
<1>5. \A w : (Turned(w, Odd)' = Turned(w, Odd)) /\ (Turned(w, ~Odd)' = Turned(w, ~Odd))
  BY <1>1, <1>3 DEF Turned
<1>. QED BY <1>1, <1>4, <1>5 DEF BossInv

(* A round begins, and no window has been turned over in it. *)
LEMMA GetMessageOK == BossInv /\ GetMessage => BossInv'
<1> SUFFICES ASSUME BossInv, GetMessage PROVE BossInv'
  OBVIOUS
<1>1. UNCHANGED <<hotkey, key, there, visible, pressed, atFirst, touched>>
      /\ queue' = queue - 1 /\ queue > 0 /\ boss = "ready" /\ boss' = "turning" /\ left' = there
  BY DEF GetMessage
<1>2. queue \in Nat /\ pressed \in Nat /\ queue <= pressed
  BY BossKeyAssumption DEF BossInv, BossTypeOK
<1>3. Odd' = ~Odd
  <2>1. pressed' - queue' = (pressed - queue) + 1 /\ pressed - queue \in Nat
    BY <1>1, <1>2
  <2>. QED BY <2>1 DEF Odd
<1>4. BossTypeOK'
  BY <1>1, <1>2 DEF BossInv, BossTypeOK
<1>5. \A w \in there \ touched : Turned(w, Odd)
  BY <1>1 DEF BossInv
<1>6. \A w \in there' \ touched' : w \in left' /\ Turned(w, ~Odd)'
  BY <1>1, <1>3, <1>5 DEF Turned
<1>. QED BY <1>1, <1>4, <1>6 DEF BossInv

(* One window is turned over or left alone, and is behind the round then. *)
LEMMA FindChwndOK == BossInv /\ FindChwnd => BossInv'
<1> SUFFICES ASSUME BossInv, FindChwnd PROVE BossInv'
  OBVIOUS
<1>1. PICK v \in left \intersect there :
        /\ left' = left \ {v}
        /\ visible' = CASE v \notin Mozilla -> visible
                        [] v \in Mozilla \intersect visible -> visible \ {v}
                        [] OTHER -> visible \union {v}
  BY DEF FindChwnd
<1>2. UNCHANGED <<boss, hotkey, key, there, queue, pressed, atFirst, touched>> /\ boss = "turning"
  BY DEF FindChwnd
<1>3. Odd' = Odd
  BY <1>2 DEF Odd
<1>4. visible \subseteq there /\ v \in there
  BY <1>1 DEF BossInv, BossTypeOK
<1>5. /\ v \in Mozilla => ((v \in visible') <=> (v \notin visible))
      /\ v \notin Mozilla => ((v \in visible') <=> (v \in visible))
      /\ \A w : w # v => ((w \in visible') <=> (w \in visible))
      /\ visible' \subseteq there
  <2>1. CASE v \notin Mozilla
    BY <1>1, <1>4, <2>1
  <2>2. CASE v \in Mozilla \intersect visible
    BY <1>1, <1>4, <2>2
  <2>3. CASE v \in Mozilla /\ v \notin visible
    BY <1>1, <1>4, <2>3
  <2>. QED BY <2>1, <2>2, <2>3
<1>6. BossTypeOK'
  BY <1>1, <1>2, <1>5 DEF BossInv, BossTypeOK
<1>7. ASSUME NEW w \in there \ touched
      PROVE  IF w \in left' THEN Turned(w, ~Odd)' ELSE Turned(w, Odd)'
  <2>1. IF w \in left THEN Turned(w, ~Odd) ELSE Turned(w, Odd)
    BY <1>2 DEF BossInv
  <2>2. CASE w = v
    <3>1. Turned(w, ~Odd) /\ w \notin left'
      BY <1>1, <2>1, <2>2
    <3>2. Turned(w, Odd)'
      BY <1>2, <1>3, <1>5, <2>2, <3>1 DEF Turned
    <3>. QED BY <3>1, <3>2
  <2>3. CASE w # v
    <3>1. (w \in left') <=> (w \in left)
      BY <1>1, <2>3
    <3>2. (Turned(w, Odd)' <=> Turned(w, Odd)) /\ (Turned(w, ~Odd)' <=> Turned(w, ~Odd))
      BY <1>2, <1>3, <1>5, <2>3 DEF Turned
    <3>. QED BY <2>1, <3>1, <3>2
  <2>. QED BY <2>2, <2>3
<1>. QED BY <1>2, <1>6, <1>7 DEF BossInv

(* A round ends: all windows are behind it. *)
LEMMA EnumEndsOK == BossInv /\ EnumEnds => BossInv'
<1> SUFFICES ASSUME BossInv, EnumEnds PROVE BossInv'
  OBVIOUS
<1>1. UNCHANGED <<hotkey, key, there, visible, queue, pressed, atFirst, touched>>
      /\ boss = "turning" /\ boss' = "ready" /\ left' = {} /\ left \intersect there = {}
  BY DEF EnumEnds
<1>2. Odd' = Odd
  BY <1>1 DEF Odd
<1>3. \A w \in there \ touched : Turned(w, Odd)
  BY <1>1 DEF BossInv
<1>4. \A w \in there' \ touched' : Turned(w, Odd)'
  BY <1>1, <1>2, <1>3 DEF Turned
<1>5. BossTypeOK'
  BY <1>1 DEF BossInv, BossTypeOK
<1>. QED BY <1>1, <1>4, <1>5 DEF BossInv

(* A window the programs touch is no longer spoken of. *)
LEMMA ChangeWindowOK == BossInv /\ ChangeWindow => BossInv'
<1> SUFFICES ASSUME BossInv, ChangeWindow PROVE BossInv'
  OBVIOUS
<1>1. PICK v \in Window \ touched :
        /\ touched' = touched \union {v}
        /\ \/ v \notin there /\ there' = there \union {v} /\ visible' \in {visible, visible \union {v}}
           \/ v \in there /\ there' = there \ {v} /\ visible' = visible \ {v}
           \/ v \in there /\ there' = there /\ visible' = (visible \union {v}) \ (visible \intersect {v})
  BY DEF ChangeWindow
<1>2. UNCHANGED <<boss, hotkey, key, queue, left, pressed, atFirst>> /\ boss \notin {"off", "over"}
  BY DEF ChangeWindow
<1>3. Odd' = Odd
  BY <1>2 DEF Odd
<1>4. visible \subseteq there /\ there \subseteq Window
  BY DEF BossInv, BossTypeOK
<1>5. visible' \subseteq there' /\ there' \subseteq Window
  BY <1>1, <1>4
<1>6. BossTypeOK'
  BY <1>1, <1>2, <1>5 DEF BossInv, BossTypeOK
<1>7. \A w \in there' \ touched' : w \in there \ touched /\ ((w \in visible') <=> (w \in visible))
  BY <1>1
<1>8. \A w \in there' \ touched' :
        (Turned(w, Odd)' <=> Turned(w, Odd)) /\ (Turned(w, ~Odd)' <=> Turned(w, ~Odd))
  BY <1>2, <1>3, <1>7 DEF Turned
<1>. QED BY <1>2, <1>6, <1>7, <1>8 DEF BossInv

(* The thread is gone. *)
LEMMA EndBossKeyOK == BossInv /\ EndBossKey => BossInv'
<1>1. Presses \in Nat
  BY BossKeyAssumption
<1>. QED BY <1>1 DEF BossInv, EndBossKey, BossTypeOK

-------------------------------------------------------------------------------
(* The inductive invariant: before a round all windows that only the boss key touched     *)
(* are as the rounds so far left them, and during one those it has yet to come to are as   *)
(* the rounds before left them. *)
THEOREM BossKeyCorrect == BossSpec => []BossInv
<1>1. BossInv /\ [BossNext]_bossVars => BossInv'
  <2> SUFFICES ASSUME BossInv, [BossNext]_bossVars PROVE BossInv'
    OBVIOUS
  <2>1. CASE UNCHANGED bossVars
    BY <2>1 DEF bossVars, BossInv, BossTypeOK, Turned, Odd
  <2>2. CASE BossStep
    BY <2>2, RegisterOK, NoHotkeyOK, GetMessageOK, FindChwndOK, EnumEndsOK DEF BossStep
  <2>. QED BY <2>1, <2>2, StartBossKeyOK, PressOK, ChangeWindowOK, EndBossKeyOK DEF BossNext
<1>. QED BY <1>1, BossInitOK, PTL DEF BossSpec

(* The type invariant: set_hotkey makes a key and modifiers of every value, and no more    *)
(* messages are in the queue than the hot key was pressed. *)
THEOREM BossTypeCorrect == BossSpec => []BossTypeOK
<1>1. BossInv => BossTypeOK
  BY DEF BossInv
<1>. QED BY <1>1, BossKeyCorrect, PTL

(* Each press of the hot key turns the windows of the browser over once, and no other. *)
THEOREM TurnedCorrect == BossSpec => []TurnedOncePerPress
<1>1. BossInv => TurnedOncePerPress
  BY DEF BossInv, TurnedOncePerPress, Turned, Odd
<1>. QED BY <1>1, BossKeyCorrect, PTL

-------------------------------------------------------------------------------
(* user.js: what the user has in the file is in every copy that may replace it. *)

(* Each of the lines of the user's that are kept is in the file. *)
Has(file) == \A line \in mine : Keep(line) => line \in ToSet(file)

(* Each line that is kept among the first n lines of user.js is in the copy. *)
Copied(n) == \A i \in 1..n : Keep(user[i]) => \E j \in 1..out : tmp[j] = user[i]

UserInv ==
  /\ UserTypeOK /\ KeepsOthers
  /\ job \in {"off", "gone"} => Has(user)
  /\ job \in {"open", "copy", "append", "move"} => old = user
  /\ job = "open" => ~flaw /\ pos = 0 /\ out = 0
  /\ job = "copy" => held /\ out <= Len(tmp) /\ (~flaw => Copied(pos))
  /\ job \in {"append", "move"} /\ ~held /\ ~flaw => Has(tmp)

(* What the type invariant says, by names *)
LEMMA UserKnown ==
  ASSUME UserTypeOK
  PROVE  /\ user \in Seq(Line) /\ tmp \in Seq(Line) /\ old \in Seq(Line)
         /\ Runs \in Nat /\ Edits \in Nat /\ run \in 0..Runs /\ path \in Null..Runs
         /\ mine \subseteq {line \in Typed : line.name \in Others}
         /\ Typed \subseteq Line /\ Remains \subseteq Line
         /\ Len(user) \in Nat /\ DOMAIN user = 1..Len(user)
         /\ pos \in Nat /\ out \in Nat /\ pos \in 0..Len(old) /\ out \in 0..pos
         /\ held \in BOOLEAN /\ clean \in BOOLEAN /\ flaw \in BOOLEAN
<1>1. user \in Seq(Line) /\ tmp \in Seq(Line) /\ old \in Seq(Line)
  BY DEF UserTypeOK
<1>2. Len(user) \in Nat /\ DOMAIN user = 1..Len(user) /\ Len(old) \in Nat
  BY <1>1, LenProperties
<1>. QED BY <1>1, <1>2, UserJsAssumption DEF UserTypeOK

(* The managed preferences by name. *)
LEMMA ManagedNames == ToSet(Managed) = {"path", "version", "url"}
BY DEF ToSet, Managed

(* Files put together line by line *)
LEMMA ThreeLines ==
  ASSUME NEW a \in Line, NEW b \in Line, NEW c \in Line
  PROVE  LET e == <<a>> \o <<>> \o <<b, c>> IN
         e \in Seq(Line) /\ Len(e) = 3 /\ e[1] = a /\ e[2] = b /\ e[3] = c
<1>1. /\ <<a>> \in Seq(Line) /\ Len(<<a>>) = 1 /\ <<a>>[1] = a
      /\ <<b, c>> \in Seq(Line) /\ Len(<<b, c>>) = 2 /\ <<b, c>>[1] = b /\ <<b, c>>[2] = c
      /\ <<a>> \o <<>> = <<a>>
  OBVIOUS
<1>2. PICK s, t : s = <<a>> /\ t = <<b, c>>
  OBVIOUS
<1>3. /\ s \o t \in Seq(Line) /\ Len(s \o t) = Len(s) + Len(t)
      /\ \A i \in 1..Len(s) + Len(t) : (s \o t)[i] = IF i <= Len(s) THEN s[i] ELSE t[i - Len(s)]
  BY <1>1, <1>2, ConcatProperties
<1>. QED BY <1>1, <1>2, <1>3

LEMMA FourLines ==
  ASSUME NEW a \in Line, NEW r \in Line, NEW b \in Line, NEW c \in Line
  PROVE  LET e == <<a>> \o <<r>> \o <<b, c>> IN
         e \in Seq(Line) /\ Len(e) = 4 /\ e[1] = a /\ e[2] = r /\ e[3] = b /\ e[4] = c
<1>1. /\ <<a>> \in Seq(Line) /\ Len(<<a>>) = 1 /\ <<a>>[1] = a
      /\ <<r>> \in Seq(Line) /\ Len(<<r>>) = 1 /\ <<r>>[1] = r
      /\ <<b, c>> \in Seq(Line) /\ Len(<<b, c>>) = 2 /\ <<b, c>>[1] = b /\ <<b, c>>[2] = c
  OBVIOUS
<1>2. PICK s, t, u : s = <<a>> /\ t = <<r>> /\ u = <<b, c>>
  OBVIOUS
<1>3. /\ s \o t \in Seq(Line) /\ Len(s \o t) = 2 /\ (s \o t)[1] = a /\ (s \o t)[2] = r
  <2>1. /\ s \o t \in Seq(Line) /\ Len(s \o t) = Len(s) + Len(t)
        /\ \A i \in 1..Len(s) + Len(t) : (s \o t)[i] = IF i <= Len(s) THEN s[i] ELSE t[i - Len(s)]
    BY <1>1, <1>2, ConcatProperties
  <2>. QED BY <1>1, <1>2, <2>1
<1>4. PICK v : v = s \o t
  OBVIOUS
<1>5. /\ v \o u \in Seq(Line) /\ Len(v \o u) = Len(v) + Len(u)
      /\ \A i \in 1..Len(v) + Len(u) : (v \o u)[i] = IF i <= Len(v) THEN v[i] ELSE u[i - Len(v)]
  BY <1>1, <1>2, <1>3, <1>4, ConcatProperties
<1>. QED BY <1>1, <1>2, <1>3, <1>4, <1>5

(* The managed preferences are lines. *)
LEMMA EntryType ==
  ASSUME UserTypeOK, NEW p \in Null..Runs
  PROVE  /\ Entry("path", p) \in Line /\ Entry("version", p) \in Line /\ Entry("url", p) \in Line
         /\ \A n : Entry(n, p).name = n
<1>1. \A n \in ToSet(Managed) : Entry(n, p) \in Line
  <2>1. Runs \in Nat
    BY UserKnown
  <2>2. p \in Fixed..Runs /\ Fixed \in Fixed..Runs
    BY <2>1 DEF Null, Fixed
  <2>. QED BY <2>2 DEF Entry, Line
<1>. QED BY <1>1, ManagedNames DEF Entry

(* What is appended: three lines, and perhaps the rest of the path in between. *)
LEMMA AppendedIs ==
  ASSUME UserTypeOK, NEW p \in Null..Runs, NEW rest \in Pieces, NEW e, e = Appended(p, rest)
  PROVE  /\ e \in Seq(Line)
         /\ \/ /\ Len(e) = 3 /\ e[1] = Entry("path", p)
               /\ e[2] = Entry("version", p) /\ e[3] = Entry("url", p)
            \/ /\ Len(e) = 4 /\ e[1] = Entry("path", p) /\ e[2].name = "none"
               /\ e[3] = Entry("version", p) /\ e[4] = Entry("url", p)
<1>1. CASE rest = <<>>
  <2>1. e = <<Entry("path", p)>> \o <<>> \o <<Entry("version", p), Entry("url", p)>>
    BY <1>1, Zenon DEF Appended
  <2>. QED BY <2>1, EntryType, ThreeLines
<1>2. CASE rest # <<>>
  <2>1. PICK r \in Remains : rest = <<r>>
    BY <1>2 DEF Pieces
  <2>2. e = <<Entry("path", p)>> \o <<r>> \o <<Entry("version", p), Entry("url", p)>>
    BY <2>1, Zenon DEF Appended
  <2>3. r \in Line /\ r.name = "none"
    BY UserJsAssumption
  <2>. QED BY <2>2, <2>3, EntryType, FourLines
<1>. QED BY <1>1, <1>2

LEMMA AppendedType ==
  ASSUME UserTypeOK, NEW p \in Null..Runs, NEW rest \in Pieces
  PROVE  /\ Appended(p, rest) \in Seq(Line) /\ Len(Appended(p, rest)) \in {3, 4}
         /\ DOMAIN Appended(p, rest) = 1..Len(Appended(p, rest))
<1>1. PICK e : e = Appended(p, rest)
  OBVIOUS
<1>2. e \in Seq(Line) /\ Len(e) \in {3, 4}
  BY <1>1, AppendedIs
<1>3. DOMAIN e = 1..Len(e)
  BY <1>2, LenProperties
<1>. QED BY <1>1, <1>2, <1>3

(* The lines of two files are those of the one put behind the other. *)
LEMMA LinesOfLonger ==
  ASSUME NEW s \in Seq(Line), NEW t \in Seq(Line)
  PROVE  /\ s \o t \in Seq(Line)
         /\ ToSet(s) \subseteq ToSet(s \o t) /\ ToSet(t) \subseteq ToSet(s \o t)
<1>1. /\ s \o t \in Seq(Line) /\ Len(s \o t) = Len(s) + Len(t)
      /\ \A i \in 1..Len(s) + Len(t) : (s \o t)[i] = IF i <= Len(s) THEN s[i] ELSE t[i - Len(s)]
  BY ConcatProperties
<1>2. /\ Len(s) \in Nat /\ Len(t) \in Nat /\ DOMAIN s = 1..Len(s) /\ DOMAIN t = 1..Len(t)
      /\ DOMAIN (s \o t) = 1..Len(s \o t)
  BY <1>1, LenProperties
<1>3. ASSUME NEW i \in DOMAIN s PROVE s[i] \in ToSet(s \o t)
  <2>1. i \in DOMAIN (s \o t) /\ (s \o t)[i] = s[i]
    BY <1>1, <1>2
  <2>. QED BY <2>1 DEF ToSet
<1>4. ASSUME NEW i \in DOMAIN t PROVE t[i] \in ToSet(s \o t)
  <2>1. Len(s) + i \in DOMAIN (s \o t) /\ (s \o t)[Len(s) + i] = t[i]
    BY <1>1, <1>2
  <2>. QED BY <2>1 DEF ToSet
<1>. QED BY <1>1, <1>3, <1>4 DEF ToSet

(* One line is written behind those that are; of the others something may stay. *)
LEMMA WriteOK ==
  ASSUME UserTypeOK, out <= Len(tmp), NEW x \in Line, Write(x)
  PROVE  /\ tmp' \in Seq(Line) /\ out' = out + 1 /\ Len(tmp') >= out + 1 /\ tmp'[out + 1] = x
         /\ \A j \in 1..out : tmp'[j] = tmp[j]
         /\ out = Len(tmp) => Len(tmp') = Len(tmp) + 1
<1>1. /\ tmp \in Seq(Line) /\ Len(tmp) \in Nat /\ out \in Nat
      /\ \A i \in 1..Len(tmp) : tmp[i] \in Line
  BY UserKnown, LenProperties, ElementOfSeq
<1>2. CASE out = Len(tmp) /\ tmp' = Append(tmp, x)
  BY <1>1, <1>2, AppendProperties DEF Write
<1>3. CASE \E piece \in Pieces, k \in out + 2..Len(tmp) + 1 :
             tmp' = SubSeq(tmp, 1, out) \o <<x>> \o piece \o SubSeq(tmp, k, Len(tmp))
  <2>1. PICK piece \in Pieces, k \in out + 2..Len(tmp) + 1 :
          tmp' = SubSeq(tmp, 1, out) \o <<x>> \o piece \o SubSeq(tmp, k, Len(tmp))
    BY <1>3
  <2>2. PICK a, c : a = SubSeq(tmp, 1, out) /\ c = SubSeq(tmp, k, Len(tmp))
    OBVIOUS
  <2>3. a \in Seq(Line) /\ Len(a) = out /\ \A i \in 1..out : a[i] = tmp[i]
    <3>1. \A i \in 1..out : tmp[i] \in Line
      BY <1>1
    <3>2. /\ a \in Seq(Line) /\ Len(a) = (IF 1 <= out THEN out - 1 + 1 ELSE 0)
          /\ \A i \in 1..out - 1 + 1 : a[i] = tmp[1 + i - 1]
      BY <1>1, <2>2, <3>1, SubSeqProperties
    <3>3. Len(a) = out /\ \A i \in 1..out : i \in 1..out - 1 + 1 /\ 1 + i - 1 = i
      BY <1>1, <3>2
    <3>4. ASSUME NEW i \in 1..out PROVE a[i] = tmp[i]
      BY <3>2, <3>3
    <3>. QED BY <3>2, <3>3, <3>4
  <2>4. c \in Seq(Line)
    <3>1. \A i \in k..Len(tmp) : tmp[i] \in Line
      BY <1>1
    <3>. QED BY <1>1, <2>2, <3>1, SubSeqProperties
  <2>5. piece \in Seq(Line)
    <3>1. CASE piece = <<>>
      BY <3>1, EmptySeq
    <3>2. CASE piece # <<>>
      <4>1. PICK r \in Remains : piece = <<r>>
        BY <3>2 DEF Pieces
      <4>. QED BY <4>1, UserKnown
    <3>. QED BY <3>1, <3>2
  <2> DEFINE b == a \o <<x>>
             d == b \o piece
  <2>6. /\ b \in Seq(Line) /\ Len(b) = out + 1
        /\ b[out + 1] = x /\ \A j \in 1..out : b[j] = tmp[j]
    <3>1. <<x>> \in Seq(Line) /\ Len(<<x>>) = 1 /\ <<x>>[1] = x
      OBVIOUS
    <3>2. /\ b \in Seq(Line) /\ Len(b) = Len(a) + Len(<<x>>)
          /\ \A i \in 1..Len(a) + Len(<<x>>) : b[i] = IF i <= Len(a) THEN a[i] ELSE <<x>>[i - Len(a)]
      BY <2>3, <3>1, ConcatProperties
    <3> HIDE DEF b
    <3>. QED BY <1>1, <2>3, <3>1, <3>2
  <2> HIDE DEF b
  <2>7. /\ d \in Seq(Line) /\ Len(d) >= out + 1 /\ Len(d) \in Nat
        /\ \A j \in 1..out + 1 : d[j] = b[j]
    <3>1. /\ b \o piece \in Seq(Line) /\ Len(b \o piece) = Len(b) + Len(piece)
          /\ \A i \in 1..Len(b) + Len(piece) :
               (b \o piece)[i] = IF i <= Len(b) THEN b[i] ELSE piece[i - Len(b)]
          /\ Len(piece) \in Nat
      BY <2>5, <2>6, ConcatProperties, LenProperties
    <3>. QED BY <1>1, <2>6, <3>1
  <2> HIDE DEF d
  <2>8. /\ d \o c \in Seq(Line) /\ Len(d \o c) >= out + 1
        /\ \A j \in 1..out + 1 : (d \o c)[j] = d[j]
    <3>1. /\ d \o c \in Seq(Line) /\ Len(d \o c) = Len(d) + Len(c)
          /\ \A i \in 1..Len(d) + Len(c) : (d \o c)[i] = IF i <= Len(d) THEN d[i] ELSE c[i - Len(d)]
          /\ Len(c) \in Nat
      BY <2>4, <2>7, ConcatProperties, LenProperties
    <3>. QED BY <1>1, <2>7, <3>1
  <2>9. tmp' = d \o c
    BY <2>1, <2>2 DEF b, d
  <2>10. out # Len(tmp)
    BY <1>1
  <2>11. out + 1 \in 1..out + 1 /\ \A j \in 1..out : j \in 1..out + 1
    BY <1>1
  <2>12. out' = out + 1
    BY DEF Write
  <2>. QED BY <2>6, <2>7, <2>8, <2>9, <2>10, <2>11, <2>12
<1>. QED BY <1>2, <1>3 DEF Write

(* A line is taken out of a file: the others stay. *)
LEMMA RemoveAtOK ==
  ASSUME NEW s \in Seq(Line), NEW k \in DOMAIN s
  PROVE  RemoveAt(s, k) \in Seq(Line) /\ ToSet(s) \ {s[k]} \subseteq ToSet(RemoveAt(s, k))
<1> DEFINE a == SubSeq(s, 1, k - 1)
           c == SubSeq(s, k + 1, Len(s))
<1>1. Len(s) \in Nat /\ k \in 1..Len(s) /\ DOMAIN s = 1..Len(s) /\ \A i \in 1..Len(s) : s[i] \in Line
  BY LenProperties, ElementOfSeq
<1>2. a \in Seq(Line) /\ Len(a) = k - 1 /\ \A i \in 1..k - 1 : a[i] = s[i]
  <2>1. \A i \in 1..k - 1 : s[i] \in Line
    BY <1>1
  <2>2. /\ a \in Seq(Line) /\ Len(a) = (IF 1 <= k - 1 THEN k - 1 - 1 + 1 ELSE 0)
        /\ \A i \in 1..k - 1 - 1 + 1 : a[i] = s[1 + i - 1]
    BY <1>1, <2>1, SubSeqProperties
  <2>. QED BY <1>1, <2>2
<1>3. c \in Seq(Line) /\ Len(c) = Len(s) - k /\ \A i \in 1..Len(s) - k : c[i] = s[k + i]
  <2>1. \A i \in k + 1..Len(s) : s[i] \in Line
    BY <1>1
  <2>2. /\ c \in Seq(Line) /\ Len(c) = (IF k + 1 <= Len(s) THEN Len(s) - (k + 1) + 1 ELSE 0)
        /\ \A i \in 1..Len(s) - (k + 1) + 1 : c[i] = s[k + 1 + i - 1]
    BY <1>1, <2>1, SubSeqProperties
  <2> HIDE DEF c
  <2>3. Len(c) = Len(s) - k
    BY <1>1, <2>2
  <2>4. ASSUME NEW i \in 1..Len(s) - k PROVE c[i] = s[k + i]
    <3>1. i \in 1..Len(s) - (k + 1) + 1 /\ k + 1 + i - 1 = k + i
      BY <1>1
    <3>. QED BY <2>2, <3>1
  <2>. QED BY <2>2, <2>3, <2>4
<1>4. /\ a \o c \in Seq(Line) /\ Len(a \o c) = Len(a) + Len(c)
      /\ \A i \in 1..Len(a) + Len(c) : (a \o c)[i] = IF i <= Len(a) THEN a[i] ELSE c[i - Len(a)]
      /\ DOMAIN (a \o c) = 1..Len(a \o c)
  <2> HIDE DEF a, c
  <2>. QED BY <1>2, <1>3, ConcatProperties, LenProperties
<1>5. ASSUME NEW i \in DOMAIN s, s[i] # s[k] PROVE s[i] \in ToSet(a \o c)
  <2> HIDE DEF a, c
  <2>1. CASE i < k
    <3>1. i \in DOMAIN (a \o c) /\ (a \o c)[i] = s[i]
      BY <1>1, <1>2, <1>3, <1>4, <2>1
    <3>. QED BY <3>1 DEF ToSet
  <2>2. CASE i > k
    <3>1. i - 1 \in DOMAIN (a \o c) /\ (a \o c)[i - 1] = c[i - k] /\ c[i - k] = s[k + (i - k)]
      BY <1>1, <1>2, <1>3, <1>4, <2>2
    <3>2. (a \o c)[i - 1] = s[i]
      BY <1>1, <3>1
    <3>. QED BY <3>1, <3>2 DEF ToSet
  <2>3. i < k \/ i > k
    BY <1>1, <1>5
  <2>. QED BY <2>1, <2>2, <2>3
<1>6. RemoveAt(s, k) = a \o c
  BY DEF RemoveAt
<1> HIDE DEF a, c
<1>. QED BY <1>4, <1>5, <1>6 DEF ToSet

-------------------------------------------------------------------------------
(* The invariant of the rewriting holds at first. *)
LEMMA UserInitOK == UserInit => UserInv
<1> SUFFICES ASSUME UserInit PROVE UserInv
  OBVIOUS
<1>1. user = <<>> /\ tmp = <<>> /\ old = <<>> /\ Len(old) = 0 /\ Runs \in Nat /\ Edits \in Nat
  BY UserJsAssumption DEF UserInit
<1>2. /\ job = "off" /\ pos = 0 /\ out = 0 /\ held = FALSE /\ run = 0 /\ edit = 0
      /\ clean = TRUE /\ flaw = FALSE /\ mine = {}
  BY DEF UserInit
<1>3. user \in Seq(Line) /\ tmp \in Seq(Line) /\ old \in Seq(Line)
  BY <1>1, EmptySeq
<1>4. {held, clean, flaw} \subseteq BOOLEAN
  BY <1>2
<1>5. path \in Null..Runs
  BY <1>1 DEF UserInit, Null, Own
<1>6. UserTypeOK
  BY <1>1, <1>2, <1>3, <1>4, <1>5 DEF UserTypeOK
<1>. QED BY <1>6 DEF UserInit, UserInv, KeepsOthers, Has

(* The user edits the file. *)
LEMMA EditUserJsOK == UserInv /\ EditUserJs => UserInv'
<1> SUFFICES ASSUME UserInv, EditUserJs PROVE UserInv'
  OBVIOUS
<1>1. UserTypeOK /\ Has(user) /\ job \in {"off", "gone"}
  BY DEF UserInv, EditUserJs
<1>2. /\ UNCHANGED <<job, tmp, pos, out, held, run, path, old, clean, flaw>>
      /\ edit' = edit + 1 /\ edit < Edits
  BY DEF EditUserJs
<1>3. SUFFICES /\ user' \in Seq(Line) /\ mine' \subseteq {line \in Typed : line.name \in Others}
               /\ \A line \in mine' : Keep(line) => line \in ToSet(user')
  <2>1. edit' \in 0..Edits
    <3>1. edit \in 0..Edits /\ Edits \in Nat
      BY <1>1, UserJsAssumption DEF UserTypeOK
    <3>. QED BY <1>2, <3>1
  <2>2. ASSUME user' \in Seq(Line), mine' \subseteq {line \in Typed : line.name \in Others}
        PROVE  UserTypeOK'
    BY <1>1, <1>2, <2>1, <2>2 DEF UserTypeOK
  <2>3. (\A line \in mine' : Keep(line) => line \in ToSet(user')) => KeepsOthers' /\ Has(user)'
    BY DEF KeepsOthers, Has
  <2>. QED BY <1>1, <1>2, <1>3, <2>2, <2>3 DEF UserInv
<1>4. ASSUME NEW x \in Typed, user' = user \o <<x>> \/ user' = <<x>> \o user,
             mine' = IF x.name \in Others
                     THEN {m \in mine : m.name # x.name} \union {x} ELSE mine
      PROVE  /\ user' \in Seq(Line) /\ mine' \subseteq {line \in Typed : line.name \in Others}
             /\ \A line \in mine' : Keep(line) => line \in ToSet(user')
  <2>1. <<x>> \in Seq(Line) /\ x \in ToSet(<<x>>)
    <3>1. x \in Line
      BY <1>1, UserKnown
    <3>2. 1 \in DOMAIN <<x>> /\ <<x>>[1] = x
      OBVIOUS
    <3>. QED BY <3>1, <3>2 DEF ToSet
  <2>2. user' \in Seq(Line) /\ ToSet(user) \subseteq ToSet(user') /\ ToSet(<<x>>) \subseteq ToSet(user')
    BY <1>1, <1>4, <2>1, UserKnown, LinesOfLonger
  <2>3. mine' \subseteq mine \union {x} /\ (x.name \notin Others => mine' = mine)
    BY <1>4
  <2>4. mine' \subseteq {line \in Typed : line.name \in Others}
    BY <1>1, <1>4, <2>3, UserKnown
  <2>. QED BY <1>1, <2>1, <2>2, <2>3, <2>4 DEF Has
<1>5. ASSUME NEW i \in DOMAIN user, user' = RemoveAt(user, i), mine' = mine \ {user[i]}
      PROVE  /\ user' \in Seq(Line) /\ mine' \subseteq {line \in Typed : line.name \in Others}
             /\ \A line \in mine' : Keep(line) => line \in ToSet(user')
  <2>1. user' \in Seq(Line) /\ ToSet(user) \ {user[i]} \subseteq ToSet(user')
    BY <1>1, <1>5, UserKnown, RemoveAtOK
  <2>. QED BY <1>1, <1>5, <2>1, UserKnown DEF Has
<1>. QED BY <1>4, <1>5 DEF EditUserJs

(* A run begins, whatever the one before left. *)
LEMMA StartCheckOK == UserInv /\ StartCheck => UserInv'
<1> SUFFICES ASSUME UserInv, StartCheck PROVE UserInv'
  OBVIOUS
<1>1. UserTypeOK /\ Has(user)
  BY DEF UserInv, StartCheck
<1>2. /\ job' = "open" /\ run' = run + 1 /\ run < Runs /\ pos' = 0 /\ out' = 0 /\ held' = FALSE
      /\ path' = Own
      /\ old' = user /\ clean' \in BOOLEAN /\ flaw' = FALSE /\ UNCHANGED <<user, tmp, edit, mine>>
  BY DEF StartCheck
<1>3. run' \in 0..Runs /\ pos' \in 0..Len(old') /\ out' \in 0..pos' /\ path' \in Null..Runs
  <2>1. run \in 0..Runs /\ Runs \in Nat /\ Len(user) \in Nat
    BY <1>1, UserKnown
  <2>. QED BY <1>2, <2>1 DEF Own, Null
<1>4. UserTypeOK'
  BY <1>1, <1>2, <1>3 DEF UserTypeOK
<1>5. KeepsOthers'
  BY <1>1, <1>2 DEF KeepsOthers, Has
<1>. QED BY <1>1, <1>2, <1>4, <1>5 DEF UserInv

(* Steps that change neither file: what is known of them stays. *)
LEMMA FilesStay ==
  ASSUME UserInv, UNCHANGED <<user, tmp, pos, out, run, path, edit, mine, old, clean>>,
         job \in {"open", "copy", "append", "move"},
         job' \in {"copy", "append", "done"}, held' \in BOOLEAN, flaw' \in BOOLEAN, flaw => flaw',
         job' = "copy" => held' /\ out <= Len(tmp) /\ (~flaw' => Copied(pos)'),
         job' = "append" /\ ~held' /\ ~flaw' => Has(tmp)
  PROVE  UserInv'
<1>1. UserTypeOK'
  BY DEF UserInv, UserTypeOK
<1>. QED BY <1>1 DEF UserInv, KeepsOthers, Has

(* There is nothing to rewrite. *)
LEMMA NothingToDoOK == UserInv /\ NothingToDo => UserInv'
BY FilesStay DEF NothingToDo, UserInv, UserTypeOK

(* user.js is opened. *)
LEMMA OpenPrefsFileOK == UserInv /\ OpenPrefsFile => UserInv'
<1> SUFFICES ASSUME UserInv, OpenPrefsFile PROVE UserInv'
  OBVIOUS
<1>1. /\ job = "open" /\ job' = "copy" /\ held' = TRUE /\ UserTypeOK
      /\ UNCHANGED <<user, tmp, pos, out, run, path, edit, mine, old, clean, flaw>>
  BY DEF OpenPrefsFile, UserInv
<1>2. pos = 0 /\ out = 0 /\ flaw \in BOOLEAN
  BY <1>1, UserKnown DEF UserInv
<1>3. out <= Len(tmp) /\ Copied(pos)'
  BY <1>1, <1>2, UserKnown, LenProperties DEF Copied
<1>. QED BY <1>1, <1>2, <1>3, FilesStay

(* user.js cannot be opened. *)
LEMMA OpenFailsOK == UserInv /\ OpenFails => UserInv'
<1> SUFFICES ASSUME UserInv, OpenFails PROVE UserInv'
  OBVIOUS
<1>1. /\ job = "open" /\ job' = "append" /\ flaw' = (user # <<>>)
      /\ UNCHANGED <<user, tmp, pos, out, held, run, path, edit, mine, old, clean>>
  BY DEF OpenFails
<1>2. UserTypeOK /\ ~flaw /\ Has(user)
  BY <1>1 DEF UserInv, KeepsOthers, Has
<1>3. ~flaw' => Has(tmp)
  <2>1. SUFFICES ASSUME ~flaw' PROVE \A line \in mine : ~Keep(line)
    BY DEF Has
  <2>2. user = <<>>
    BY <1>1, <2>1
  <2>3. ToSet(user) = {}
    BY <2>2 DEF ToSet
  <2>. QED BY <1>2, <2>3 DEF Has
<1>4. flaw' \in BOOLEAN /\ held' \in BOOLEAN
  BY <1>1, <1>2, UserKnown
<1>. QED BY <1>1, <1>2, <1>3, <1>4, FilesStay

(* The copy cannot be opened, and the stream of user.js stays open. *)
LEMMA NoCopyOK == UserInv /\ NoCopy => UserInv'
<1> SUFFICES ASSUME UserInv, NoCopy PROVE UserInv'
  OBVIOUS
<1>1. /\ job = "copy" /\ job' = "append" /\ held /\ UserTypeOK
      /\ UNCHANGED <<user, tmp, pos, out, held, run, path, edit, mine, old, clean, flaw>>
  BY DEF NoCopy, UserInv
<1>. QED BY <1>1, UserKnown, FilesStay

(* All lines are through: the copy has the user's. *)
LEMMA CopyEndsOK == UserInv /\ CopyEnds => UserInv'
<1> SUFFICES ASSUME UserInv, CopyEnds PROVE UserInv'
  OBVIOUS
<1>1. /\ job = "copy" /\ job' = "append" /\ held' = FALSE /\ pos = Len(user)
      /\ UNCHANGED <<user, tmp, pos, out, run, path, edit, mine, old, clean, flaw>>
  BY DEF CopyEnds
<1>2. UserTypeOK /\ out <= Len(tmp) /\ (~flaw => Copied(Len(user)))
  BY <1>1 DEF UserInv
<1>3. ASSUME ~flaw PROVE Has(tmp)
  <2>1. SUFFICES ASSUME NEW line \in mine, Keep(line) PROVE line \in ToSet(tmp)
    BY DEF Has
  <2>2. line \in ToSet(user)
    BY <1>3, <2>1 DEF UserInv, KeepsOthers
  <2>3. PICK i \in DOMAIN user : user[i] = line
    BY <2>2 DEF ToSet
  <2>4. PICK j \in 1..out : tmp[j] = line
    BY <1>2, <1>3, <2>1, <2>3, UserKnown DEF Copied
  <2>5. j \in DOMAIN tmp
    BY <1>2, UserKnown, LenProperties
  <2>. QED BY <2>4, <2>5 DEF ToSet
<1>. QED BY <1>1, <1>2, <1>3, UserKnown, FilesStay

(* The copy cannot be opened for appending. *)
LEMMA AppendFailsOK == UserInv /\ AppendFails => UserInv'
BY FilesStay DEF AppendFails, UserInv, UserTypeOK

(* The copy stays where it is. *)
LEMMA MoveFailsOK == UserInv /\ MoveFails => UserInv'
BY FilesStay DEF MoveFails, UserInv, UserTypeOK

(* One more line of user.js is through: it is in the copy, is not kept, or could not be   *)
(* written. *)
LEMMA CopyLineOK == UserInv /\ CopyLine => UserInv'
<1> SUFFICES ASSUME UserInv, CopyLine PROVE UserInv'
  OBVIOUS
<1> DEFINE x == user[pos + 1]
<1>1. /\ job = "copy" /\ pos < Len(user) /\ pos' = pos + 1
      /\ UNCHANGED <<job, user, held, run, path, edit, mine, old, clean>>
  BY DEF CopyLine
<1>2. /\ UserTypeOK /\ old = user /\ held /\ out <= Len(tmp) /\ (~flaw => Copied(pos))
      /\ KeepsOthers
  BY <1>1 DEF UserInv
<1>3. /\ user \in Seq(Line) /\ tmp \in Seq(Line) /\ pos \in Nat /\ out \in Nat /\ out <= pos
      /\ Len(user) \in Nat /\ DOMAIN user = 1..Len(user) /\ flaw \in BOOLEAN
  BY <1>2, UserKnown
<1>4. x \in Line
  BY <1>1, <1>3, ElementOfSeq
<1>5. SUFFICES /\ tmp' \in Seq(Line) /\ out' \in 0..pos' /\ flaw' \in BOOLEAN /\ (flaw => flaw')
               /\ out' <= Len(tmp') /\ (~flaw' => Copied(pos)')
  <2>1. pos' \in 0..Len(old')
    BY <1>1, <1>2, <1>3
  <2>2. ASSUME tmp' \in Seq(Line), out' \in 0..pos', flaw' \in BOOLEAN PROVE UserTypeOK'
    BY <1>1, <1>2, <2>1, <2>2 DEF UserTypeOK
  <2>. QED BY <1>1, <1>2, <2>2 DEF UserInv, KeepsOthers
<1>6. CASE Keep(x) /\ Write(x) /\ flaw' = flaw
  <2>1. /\ tmp' \in Seq(Line) /\ out' = out + 1 /\ Len(tmp') >= out + 1 /\ tmp'[out + 1] = x
        /\ \A j \in 1..out : tmp'[j] = tmp[j]
    <3> HIDE DEF x
    <3>. QED BY <1>2, <1>4, <1>6, WriteOK
  <2>2. ASSUME ~flaw, NEW i \in 1..pos', Keep(user'[i])
        PROVE  \E j \in 1..out' : tmp'[j] = user'[i]
    <3>1. CASE i = pos + 1
      <4>1. out + 1 \in 1..out' /\ tmp'[out + 1] = user'[i]
        BY <1>1, <1>3, <1>6, <2>1, <3>1
      <4>. QED BY <4>1
    <3>2. CASE i # pos + 1
      <4>1. i \in 1..pos /\ user'[i] = user[i]
        BY <1>1, <1>3, <3>2
      <4>2. PICK j \in 1..out : tmp[j] = user[i]
        BY <1>2, <2>2, <4>1 DEF Copied
      <4>3. j \in 1..out' /\ tmp'[j] = tmp[j]
        BY <1>3, <1>6, <2>1
      <4>. QED BY <4>1, <4>2, <4>3
    <3>. QED BY <3>1, <3>2
  <2>3. ~flaw' => Copied(pos)'
    BY <1>6, <2>2 DEF Copied
  <2>4. out' \in 0..pos' /\ out' <= Len(tmp')
    <3>1. Len(tmp') \in Nat
      BY <2>1, LenProperties
    <3>. QED BY <1>1, <1>3, <1>6, <2>1, <3>1
  <2>. QED BY <1>3, <1>6, <2>1, <2>3, <2>4
<1>7. CASE flaw' = TRUE /\ UNCHANGED <<tmp, out>>
  BY <1>1, <1>2, <1>3, <1>7
<1>8. CASE ~Keep(x) /\ UNCHANGED <<tmp, out, flaw>>
  <2>2. ASSUME ~flaw, NEW i \in 1..pos', Keep(user'[i])
        PROVE  \E j \in 1..out' : tmp'[j] = user'[i]
    <3>1. user'[i] = user[i] /\ i # pos + 1
      BY <1>1, <1>8, <2>2
    <3>2. i \in 1..pos
      BY <1>1, <1>3, <3>1
    <3>. QED BY <1>2, <1>8, <2>2, <3>1, <3>2 DEF Copied
  <2>3. ~flaw' => Copied(pos)'
    BY <1>8, <2>2 DEF Copied
  <2>. QED BY <1>1, <1>2, <1>3, <1>8, <2>3
<1>. QED BY <1>6, <1>7, <1>8 DEF CopyLine

(* What is appended leaves the copy's other lines alone. *)
LEMMA AppendManagedOK == UserInv /\ AppendManaged => UserInv'
<1> SUFFICES ASSUME UserInv, AppendManaged PROVE UserInv'
  OBVIOUS
<1>1. PICK rest \in Pieces : \E n \in 0..Len(Appended(path', rest)) :
        /\ tmp' = tmp \o SubSeq(Appended(path', rest), 1, n)
        /\ flaw' = (flaw \/ n < Len(Appended(path', rest)))
  BY DEF AppendManaged, Pieces
<1>2. /\ job = "append" /\ job' = "move" /\ UserTypeOK /\ old = user /\ path' \in {run, Null}
      /\ UNCHANGED <<user, pos, out, held, run, edit, mine, old, clean>>
  BY DEF AppendManaged, UserInv
<1>3. tmp \in Seq(Line) /\ run \in 0..Runs /\ Runs \in Nat /\ flaw \in BOOLEAN
  BY <1>2, UserKnown
<1>4. path' \in Null..Runs
  BY <1>2, <1>3 DEF Null
<1>5. PICK t : t = Appended(path', rest) /\ t \in Seq(Line) /\ Len(t) \in {3, 4}
  BY <1>2, <1>4, AppendedType
<1>6. PICK n \in 0..Len(t) : tmp' = tmp \o SubSeq(t, 1, n) /\ flaw' = (flaw \/ n < Len(t))
  BY <1>1, <1>5
<1>7. tmp' \in Seq(Line) /\ ToSet(tmp) \subseteq ToSet(tmp')
  <2>1. \A i \in 1..n : t[i] \in Line
    BY <1>5, <1>6, ElementOfSeq
  <2>2. SubSeq(t, 1, n) \in Seq(Line)
    BY <1>5, <2>1, SubSeqProperties
  <2>. QED BY <1>3, <1>6, <2>2, LinesOfLonger
<1>8. flaw' \in BOOLEAN /\ (flaw => flaw')
  BY <1>3, <1>6
<1>9. UserTypeOK'
  BY <1>2, <1>4, <1>7, <1>8 DEF UserTypeOK
<1>10. ~held' /\ ~flaw' => Has(tmp)'
  BY <1>2, <1>7, <1>8 DEF UserInv, Has
<1>11. KeepsOthers'
  BY <1>2, <1>8 DEF UserInv, KeepsOthers
<1>. QED BY <1>2, <1>9, <1>10, <1>11 DEF UserInv

(* The copy, whole or flawed, replaces the file. *)
LEMMA MoveOK == UserInv /\ Move => UserInv'
<1> SUFFICES ASSUME UserInv, Move PROVE UserInv'
  OBVIOUS
<1>1. /\ job = "move" /\ ~held /\ job' = "moved" /\ user' = tmp /\ tmp' = <<>> /\ UserTypeOK
      /\ UNCHANGED <<pos, out, held, run, path, edit, mine, old, clean, flaw>>
  BY DEF Move, UserInv
<1>2. ~flaw => Has(tmp)
  BY <1>1 DEF UserInv
<1>3. user' \in Seq(Line) /\ tmp' \in Seq(Line)
  BY <1>1, UserKnown, EmptySeq
<1>4. UserTypeOK'
  BY <1>1, <1>3 DEF UserTypeOK
<1>5. KeepsOthers'
  BY <1>1, <1>2 DEF KeepsOthers, Has
<1>. QED BY <1>1, <1>4, <1>5 DEF UserInv

(* The process ends at any step. *)
LEMMA EndUserJsOK == UserInv /\ EndUserJs => UserInv'
<1> SUFFICES ASSUME UserInv, EndUserJs PROVE UserInv'
  OBVIOUS
<1>1. /\ job' = "gone" /\ pos' = 0 /\ out' = 0 /\ held' = FALSE /\ path' = Own /\ old' = <<>>
      /\ clean' = TRUE /\ flaw' = FALSE /\ UserTypeOK /\ KeepsOthers
      /\ mine' = IF flaw THEN mine \intersect ToSet(user) ELSE mine
      /\ UNCHANGED <<user, tmp, run, edit>>
  BY DEF EndUserJs, UserInv
<1>2. /\ mine' \subseteq {line \in Typed : line.name \in Others}
      /\ \A line \in mine' : Keep(line) => line \in ToSet(user')
  BY <1>1, UserKnown DEF KeepsOthers
<1>3. old' \in Seq(Line) /\ pos' \in 0..Len(old') /\ out' \in 0..pos' /\ path' \in Null..Runs
  BY <1>1, UserKnown DEF Own, Null
<1>4. {held', clean', flaw'} \subseteq BOOLEAN
  BY <1>1
<1>5. UserTypeOK'
  BY <1>1, <1>2, <1>3, <1>4 DEF UserTypeOK
<1>6. KeepsOthers' /\ Has(user)'
  BY <1>2 DEF KeepsOthers, Has
<1>. QED BY <1>1, <1>5, <1>6 DEF UserInv

-------------------------------------------------------------------------------
(* The inductive invariant: the lines of user.js that are through are in the copy, and a  *)
(* copy that may replace it has all of the user's preferences. *)
THEOREM UserCorrect == UserSpec => []UserInv
<1>1. UserInv /\ [UserNext]_userVars => UserInv'
  <2> SUFFICES ASSUME UserInv, [UserNext]_userVars PROVE UserInv'
    OBVIOUS
  <2>1. CASE UNCHANGED userVars
    BY <2>1 DEF userVars, UserInv, UserTypeOK, KeepsOthers, Has, Copied
  <2>2. CASE CheckStep
    BY <2>2, NothingToDoOK, OpenPrefsFileOK, OpenFailsOK, NoCopyOK, CopyLineOK, CopyEndsOK,
       AppendManagedOK, AppendFailsOK, MoveOK, MoveFailsOK DEF CheckStep
  <2>. QED BY <2>1, <2>2, EditUserJsOK, StartCheckOK, EndUserJsOK DEF UserNext
<1>. QED BY <1>1, UserInitOK, PTL DEF UserSpec

(* No run loses a line of the user's which is kept, wherever it ends and whatever copy an *)
(* earlier one left behind, but one whose write failed or that could not read the file;      *)
(* lines that begin with a space or have a managed name in them are not kept. *)
THEOREM UserJsKept == UserSpec => []KeepsOthers
<1>1. UserInv => KeepsOthers
  BY DEF UserInv
<1>. QED BY <1>1, UserCorrect, PTL

(* The type invariant: the thread reads and writes no lines but those there are. *)
THEOREM UserTypeCorrect == UserSpec => []UserTypeOK
<1>1. UserInv => UserTypeOK
  BY DEF UserInv
<1>. QED BY <1>1, UserCorrect, PTL
-------------------------------------------------------------------------------
(* user.js: what a run that begins without a copy makes of it, line by line. *)

(* f has the lines of s, without those that are left out, among the first n of them, and k
   more.                                                                                 *)
Shaped(f, s, n, k) ==
  /\ Len(f) = CopyPlace(s, n) + k
  /\ \A i \in 1..n : Keep(s[i]) => f[CopyPlace(s, i)] = s[i]

(* The last lines of f are those of e. *)
EndsWith(f, e) == Len(f) >= Len(e) /\ \A i \in 1..Len(e) : f[Len(f) - Len(e) + i] = e[i]

(* They are the managed preferences, the path being p, and, if nothing else is in f, what *)
(* is before them are the lines of s that are kept. *)
HasEnd(f, s, p, whole) ==
  \E rest \in Pieces :
    /\ EndsWith(f, Appended(p, rest))
    /\ whole => Shaped(f, s, Len(s), Len(Appended(p, rest)))

CopyInv ==
  /\ UserInv
  /\ job = "open" => ~held /\ (clean => tmp = <<>>)
  /\ \A s, f, n : s = old /\ f = tmp /\ n = pos /\ job = "copy" /\ clean /\ ~flaw =>
       out = Len(f) /\ Shaped(f, s, n, 0)
  /\ \A s, f : s = old /\ f = tmp /\ job = "append" /\ ~held /\ clean /\ ~flaw =>
       Shaped(f, s, Len(s), 0)
  /\ job \in {"move", "moved"} => path \in {run, Null}
  /\ \A s, f, p : s = old /\ f = tmp /\ p = path /\ job = "move" /\ ~flaw =>
       HasEnd(f, s, p, clean /\ ~held)
  /\ \A s, f, p : s = old /\ f = user /\ p = path /\ job = "moved" /\ ~flaw =>
       HasEnd(f, s, p, clean)

(* The place of a line counts the lines before it that are kept, and itself. *)
LEMMA Places ==
  ASSUME NEW s, NEW i \in Nat
  PROVE  /\ CopyPlace(s, i) \in Nat /\ CopyPlace(s, 0) = 0
         /\ CopyPlace(s, i + 1) = CopyPlace(s, i) + (IF Keep(s[i + 1]) THEN 1 ELSE 0)
<1> DEFINE K(n) == {k \in 1..n : Keep(s[k])}
<1>1. IsFiniteSet(K(i))
  <2>1. IsFiniteSet(1..i) /\ K(i) \in SUBSET (1..i)
    BY FS_Interval
  <2>. QED BY <2>1, FS_Subset
<1>2. K(0) = {}
  OBVIOUS
<1>3. K(i + 1) = IF Keep(s[i + 1]) THEN K(i) \union {i + 1} ELSE K(i)
  OBVIOUS
<1>4. i + 1 \notin K(i)
  OBVIOUS
<1>5. \A n : CopyPlace(s, n) = Cardinality(K(n))
  BY DEF CopyPlace
<1> HIDE DEF K
<1>6. Cardinality(K(i)) \in Nat /\ Cardinality(K(i) \union {i + 1}) = Cardinality(K(i)) + 1
  BY <1>1, <1>4, FS_CardinalityType, FS_AddElement
<1>7. CopyPlace(s, 0) = 0
  BY <1>2, <1>5, FS_EmptySet
<1>. QED BY <1>3, <1>5, <1>6, <1>7

(* Lines that come earlier do not have later places. *)
LEMMA PlacesGrow ==
  ASSUME NEW s, NEW i \in Nat, NEW j \in Nat, i <= j
  PROVE  CopyPlace(s, i) <= CopyPlace(s, j) /\ (i # 0 /\ Keep(s[i]) => 1 <= CopyPlace(s, i))
<1> DEFINE K(n) == {k \in 1..n : Keep(s[k])}
<1>1. IsFiniteSet(K(i)) /\ IsFiniteSet(K(j)) /\ K(i) \in SUBSET K(j)
  <2>1. IsFiniteSet(1..j) /\ K(j) \in SUBSET (1..j)
    BY FS_Interval
  <2>2. K(i) \in SUBSET K(j)
    OBVIOUS
  <2>. QED BY <2>1, <2>2, FS_Subset
<1>2. ASSUME i # 0, Keep(s[i]) PROVE i \in K(i)
  BY <1>2
<1>3. CopyPlace(s, i) = Cardinality(K(i)) /\ CopyPlace(s, j) = Cardinality(K(j))
  BY DEF CopyPlace
<1> HIDE DEF K
<1>4. Cardinality(K(i)) <= Cardinality(K(j)) /\ Cardinality(K(i)) \in Nat
  BY <1>1, FS_Subset, FS_CardinalityType
<1>5. Cardinality(K(i)) = 0 => K(i) = {}
  BY <1>1, FS_EmptySet
<1>. QED BY <1>2, <1>3, <1>4, <1>5

(* More lines behind leave the shape of those there are. *)
LEMMA ShapeGrows ==
  ASSUME NEW s \in Seq(Line), NEW f \in Seq(Line), NEW t \in Seq(Line), Shaped(f, s, Len(s), 0)
  PROVE  Shaped(f \o t, s, Len(s), Len(t))
<1>1. /\ Len(f \o t) = Len(f) + Len(t)
      /\ \A i \in 1..Len(f) + Len(t) : (f \o t)[i] = IF i <= Len(f) THEN f[i] ELSE t[i - Len(f)]
  BY ConcatProperties
<1>2. Len(s) \in Nat /\ Len(f) \in Nat /\ Len(t) \in Nat /\ Len(f) = CopyPlace(s, Len(s))
  BY LenProperties, Places DEF Shaped
<1>3. ASSUME NEW i \in 1..Len(s), Keep(s[i]) PROVE (f \o t)[CopyPlace(s, i)] = s[i]
  <2>1. CopyPlace(s, i) \in Nat /\ 1 <= CopyPlace(s, i) /\ CopyPlace(s, i) <= Len(f)
    BY <1>2, <1>3, Places, PlacesGrow
  <2>2. f[CopyPlace(s, i)] = s[i]
    BY <1>3 DEF Shaped
  <2>. QED BY <1>1, <1>2, <2>1, <2>2
<1>. QED BY <1>1, <1>2, <1>3 DEF Shaped

(* One more line is written. *)
LEMMA ShapeNext ==
  ASSUME NEW s \in Seq(Line), NEW f \in Seq(Line), NEW g \in Seq(Line), NEW n \in Nat, n < Len(s),
         Shaped(f, s, n, 0), Keep(s[n + 1]),
         g[Len(f) + 1] = s[n + 1], \A j \in 1..Len(f) : g[j] = f[j], Len(g) = Len(f) + 1
  PROVE  Len(g) = Len(f) + 1 /\ Shaped(g, s, n + 1, 0)
<1>1. Len(f) \in Nat /\ Len(s) \in Nat /\ s[n + 1] \in Line
  BY LenProperties, ElementOfSeq
<1>2. g[Len(f) + 1] = s[n + 1] /\ (\A j \in 1..Len(f) : g[j] = f[j]) /\ Len(g) = Len(f) + 1
  OBVIOUS
<1>4. Len(f) = CopyPlace(s, n) /\ CopyPlace(s, n + 1) = CopyPlace(s, n) + 1
  BY <1>1, Places DEF Shaped
<1>5. ASSUME NEW i \in 1..n + 1, Keep(s[i]) PROVE g[CopyPlace(s, i)] = s[i]
  <2>1. CASE i = n + 1
    BY <1>2, <1>4, <2>1
  <2>2. CASE i # n + 1
    <3>1. i \in 1..n
      BY <2>2
    <3>2. f[CopyPlace(s, i)] = s[i]
      BY <1>5, <3>1 DEF Shaped
    <3>3. CopyPlace(s, i) \in Nat /\ 1 <= CopyPlace(s, i) /\ CopyPlace(s, i) <= Len(f)
      BY <1>4, <1>5, <3>1, Places, PlacesGrow
    <3>. QED BY <1>1, <1>2, <3>2, <3>3
  <2>. QED BY <2>1, <2>2
<1>. QED BY <1>1, <1>2, <1>4, <1>5 DEF Shaped

(* A line that is left out has no place. *)
LEMMA ShapeSkips ==
  ASSUME NEW s \in Seq(Line), NEW f \in Seq(Line), NEW n \in Nat, n < Len(s),
         Shaped(f, s, n, 0), ~Keep(s[n + 1])
  PROVE  Shaped(f, s, n + 1, 0)
<1>1. CopyPlace(s, n + 1) = CopyPlace(s, n) /\ CopyPlace(s, n) \in Nat
  BY Places
<1>2. \A i \in 1..n + 1 : Keep(s[i]) => i \in 1..n
  OBVIOUS
<1>. QED BY <1>1, <1>2 DEF Shaped

(* Steps at which no copy is being made or replaces the file leave the invariant. *)
LEMMA CopyNone ==
  ASSUME UserInv', job' \in {"off", "done", "gone"}
  PROVE  CopyInv'
BY DEF CopyInv

(* A run begins. *)
LEMMA StartCheckCopy == ASSUME UserInv', StartCheck PROVE CopyInv'
BY DEF StartCheck, CopyInv

(* user.js is opened, and nothing is copied yet. *)
LEMMA OpenPrefsFileCopy == ASSUME CopyInv, UserInv', OpenPrefsFile PROVE CopyInv'
<1>1. /\ job = "open" /\ job' = "copy" /\ UNCHANGED <<tmp, pos, out, run, old, clean, flaw>>
      /\ UserInv /\ pos = 0 /\ out = 0 /\ (clean => tmp = <<>>)
  BY DEF OpenPrefsFile, CopyInv, UserInv
<1>2. \A s, f : f = <<>> => Len(f) = 0 /\ Shaped(f, s, 0, 0)
  BY Places DEF Shaped
<1>3. \A s, f, n : s = old' /\ f = tmp' /\ n = pos' /\ clean' => out' = Len(f) /\ Shaped(f, s, n, 0)
  BY <1>1, <1>2
<1>. QED BY <1>1, <1>3 DEF CopyInv

(* A user.js that is not there is copied at once. *)
LEMMA OpenFailsCopy == ASSUME CopyInv, UserInv', OpenFails PROVE CopyInv'
<1>1. /\ job = "open" /\ job' = "append" /\ UNCHANGED <<user, tmp, pos, out, run, old, clean>>
      /\ flaw' = (user # <<>>) /\ UserInv /\ old = user /\ (clean => tmp = <<>>)
  BY DEF OpenFails, CopyInv, UserInv
<1>2. \A s, f : s = <<>> /\ f = <<>> => Shaped(f, s, Len(s), 0)
  BY Places DEF Shaped
<1>3. \A s, f : s = old' /\ f = tmp' /\ clean' /\ ~flaw' => Shaped(f, s, Len(s), 0)
  BY <1>1, <1>2
<1>. QED BY <1>1, <1>3 DEF CopyInv

(* What cannot be copied keeps the stream open. *)
LEMMA NoCopyCopy == ASSUME CopyInv, UserInv', NoCopy PROVE CopyInv'
<1>1. job' = "append" /\ held'
  BY DEF NoCopy, CopyInv, UserInv
<1>. QED BY <1>1 DEF CopyInv

(* One more line is through. *)
LEMMA CopyLineCopy == ASSUME CopyInv, UserInv', CopyLine PROVE CopyInv'
<1>1. /\ job = "copy" /\ job' = "copy" /\ pos < Len(user) /\ pos' = pos + 1
      /\ UNCHANGED <<user, run, path, old, clean>> /\ UserInv /\ old = user /\ UserTypeOK
  BY DEF CopyLine, CopyInv, UserInv
<1>2. old \in Seq(Line) /\ tmp \in Seq(Line) /\ tmp' \in Seq(Line) /\ pos \in Nat /\ flaw \in BOOLEAN
  BY <1>1, UserKnown DEF UserInv, UserTypeOK
<1>3. ASSUME NEW s, NEW f, NEW g, NEW n, s = old, f = tmp, g = tmp', n = pos, clean, ~flaw'
      PROVE  out' = Len(g) /\ Shaped(g, s, n + 1, 0)
  <2>1. /\ s \in Seq(Line) /\ f \in Seq(Line) /\ g \in Seq(Line) /\ n \in Nat /\ n < Len(s)
    BY <1>1, <1>2, <1>3
  <2>2. /\ ~flaw
        /\ \/ Keep(s[n + 1]) /\ Write(s[n + 1])
           \/ ~Keep(s[n + 1]) /\ g = f /\ out' = out
    BY <1>1, <1>2, <1>3 DEF CopyLine
  <2>3. out = Len(f) /\ Shaped(f, s, n, 0)
    BY <1>1, <1>3, <2>2 DEF CopyInv
  <2>4. CASE Keep(s[n + 1])
    <3>1. s[n + 1] \in Line
      BY <2>1, ElementOfSeq
    <3>2. PICK x \in Line : x = s[n + 1] /\ Write(x)
      BY <2>2, <2>4, <3>1
    <3>3. out <= Len(tmp) /\ out = Len(tmp) /\ Len(tmp) \in Nat
      BY <1>2, <1>3, <2>3, LenProperties
    <3>4. /\ out' = out + 1 /\ tmp'[out + 1] = x /\ (\A j \in 1..out : tmp'[j] = tmp[j])
          /\ Len(tmp') = Len(tmp) + 1
      BY <1>1, <3>2, <3>3, WriteOK
    <3>5. /\ out' = Len(g) /\ g[Len(f) + 1] = s[n + 1] /\ (\A j \in 1..Len(f) : g[j] = f[j])
          /\ Len(g) = Len(f) + 1
      BY <1>3, <3>2, <3>3, <3>4
    <3>. QED BY <2>1, <2>3, <2>4, <3>5, ShapeNext
  <2>5. CASE ~Keep(s[n + 1])
    BY <2>1, <2>2, <2>3, <2>5, ShapeSkips
  <2>. QED BY <2>4, <2>5
<1>4. \A s, f, n : s = old' /\ f = tmp' /\ n = pos' /\ job' = "copy" /\ clean' /\ ~flaw' =>
        out' = Len(f) /\ Shaped(f, s, n, 0)
  BY <1>1, <1>3
<1>. QED BY <1>1, <1>4 DEF CopyInv

(* All lines are through. *)
LEMMA CopyEndsCopy == ASSUME CopyInv, UserInv', CopyEnds PROVE CopyInv'
<1>1. /\ job = "copy" /\ job' = "append" /\ pos = Len(user) /\ UserInv /\ old = user
      /\ UNCHANGED <<user, tmp, pos, old, clean, flaw>>
  BY DEF CopyEnds, CopyInv, UserInv
<1>2. \A s, f : s = old /\ f = tmp /\ clean /\ ~flaw => Shaped(f, s, Len(s), 0)
  BY <1>1 DEF CopyInv
<1>. QED BY <1>1, <1>2 DEF CopyInv

(* The managed preferences stand behind the others, each in a line of its own. *)
LEMMA AppendManagedCopy == ASSUME CopyInv, UserInv', AppendManaged PROVE CopyInv'
<1>1. /\ job = "append" /\ job' = "move" /\ UNCHANGED <<user, held, run, old, clean>>
      /\ UserInv /\ UserTypeOK /\ UserTypeOK' /\ path' \in {run, Null}
  BY DEF AppendManaged, CopyInv, UserInv
<1>2. /\ old \in Seq(Line) /\ tmp \in Seq(Line) /\ tmp' \in Seq(Line)
      /\ path' \in Null..Runs /\ flaw \in BOOLEAN
  BY <1>1, UserKnown DEF UserTypeOK
<1>3. ASSUME ~flaw'
      PROVE  \A s, f, p : s = old /\ f = tmp' /\ p = path' => HasEnd(f, s, p, clean /\ ~held)
  <2>1. PICK rest \in Pieces : \E n \in 0..Len(Appended(path', rest)) :
          /\ tmp' = tmp \o SubSeq(Appended(path', rest), 1, n)
          /\ flaw' = (flaw \/ n < Len(Appended(path', rest)))
    BY DEF AppendManaged, Pieces
  <2>2. PICK t : t = Appended(path', rest) /\ t \in Seq(Line) /\ Len(t) \in {3, 4}
    BY <1>1, <1>2, AppendedType
  <2>3. ~flaw /\ tmp' = tmp \o t
    <3>1. PICK n \in 0..Len(t) : tmp' = tmp \o SubSeq(t, 1, n) /\ flaw' = (flaw \/ n < Len(t))
      BY <2>1, <2>2
    <3>2. ~flaw /\ ~(n < Len(t))
      BY <1>3, <3>1, Zenon
    <3>3. SubSeq(t, 1, Len(t)) = t /\ n = Len(t)
      BY <2>2, <3>1, <3>2
    <3>. QED BY <3>1, <3>2, <3>3
  <2>4. ASSUME NEW s, NEW f, NEW g, NEW p, s = old, f = tmp, g = tmp', p = path'
        PROVE  HasEnd(g, s, p, clean /\ ~held)
    <3>1. f \in Seq(Line) /\ s \in Seq(Line) /\ g = f \o t /\ t = Appended(p, rest)
      BY <1>2, <2>2, <2>3, <2>4
    <3>2. /\ Len(f) \in Nat /\ Len(g) = Len(f) + Len(t)
          /\ \A i \in 1..Len(f) + Len(t) : g[i] = IF i <= Len(f) THEN f[i] ELSE t[i - Len(f)]
      BY <2>2, <3>1, ConcatProperties, LenProperties
    <3>3. EndsWith(g, t)
      BY <2>2, <3>2 DEF EndsWith
    <3>4. clean /\ ~held => Shaped(f, s, Len(s), 0)
      BY <1>1, <2>3, <2>4 DEF CopyInv
    <3>5. clean /\ ~held => Shaped(g, s, Len(s), Len(t))
      BY <2>2, <3>1, <3>4, ShapeGrows
    <3>. QED BY <3>1, <3>3, <3>5 DEF HasEnd
  <2>. QED BY <2>4
<1>4. \A s, f, p : s = old' /\ f = tmp' /\ p = path' /\ job' = "move" /\ ~flaw' =>
        HasEnd(f, s, p, clean' /\ ~held')
  BY <1>1, <1>3
<1>. QED BY <1>1, <1>4 DEF CopyInv

(* The copy becomes the file. *)
LEMMA MoveCopy == ASSUME CopyInv, UserInv', Move PROVE CopyInv'
<1>1. /\ job = "move" /\ ~held /\ job' = "moved" /\ user' = tmp
      /\ UNCHANGED <<run, path, old, clean, flaw>>
  BY DEF Move
<1>2. \A s, f, p : s = old /\ f = tmp /\ p = path /\ ~flaw => HasEnd(f, s, p, clean /\ ~held)
  BY <1>1 DEF CopyInv
<1>3. path' \in {run', Null}
  BY <1>1 DEF CopyInv
<1>4. \A s, f, p : s = old' /\ f = user' /\ p = path' /\ ~flaw' => HasEnd(f, s, p, clean')
  BY <1>1, <1>2 DEF HasEnd
<1>. QED BY <1>1, <1>3, <1>4 DEF CopyInv

(* Of a file that ends with the managed preferences, the last lines count. *)
LEMMA LastLines ==
  ASSUME UserTypeOK, NEW f \in Seq(Line), NEW p \in Null..Runs, NEW rest \in Pieces,
         EndsWith(f, Appended(p, rest)), NEW n \in ToSet(Managed)
  PROVE  \E i \in DOMAIN f :
           f[i] = Entry(n, p) /\ \A j \in DOMAIN f : f[j].name = n => j <= i
<1>1. PICK e : e = Appended(p, rest) /\ Len(e) \in {3, 4} /\ EndsWith(f, e)
  BY AppendedType
<1>2. Len(f) \in Nat /\ DOMAIN f = 1..Len(f) /\ Len(f) >= Len(e)
  BY <1>1, LenProperties DEF EndsWith
<1>3. PICK k \in 1..Len(e) : e[k] = Entry(n, p) /\ \A l \in 1..Len(e) : l # k => e[l].name # n
  <2>1. n \in {"path", "version", "url"} /\ \A m : Entry(m, p).name = m
    BY ManagedNames, EntryType
  <2>2. CASE /\ Len(e) = 3 /\ e[1] = Entry("path", p)
             /\ e[2] = Entry("version", p) /\ e[3] = Entry("url", p)
    <3>1. e[1] = Entry("path", p) /\ e[2] = Entry("version", p) /\ e[3] = Entry("url", p)
      BY <2>2
    <3>2. e[1].name = "path" /\ e[2].name = "version" /\ e[3].name = "url"
      BY <2>1, <3>1
    <3>3. CASE n = "path"
      BY <2>2, <3>1, <3>2, <3>3
    <3>4. CASE n = "version"
      BY <2>2, <3>1, <3>2, <3>4
    <3>5. CASE n = "url"
      BY <2>2, <3>1, <3>2, <3>5
    <3>. QED BY <2>1, <3>3, <3>4, <3>5
  <2>3. CASE /\ Len(e) = 4 /\ e[1] = Entry("path", p) /\ e[2].name = "none"
             /\ e[3] = Entry("version", p) /\ e[4] = Entry("url", p)
    <3>1. /\ e[1] = Entry("path", p) /\ e[2].name = "none"
          /\ e[3] = Entry("version", p) /\ e[4] = Entry("url", p)
      BY <2>3
    <3>2. e[1].name = "path" /\ e[3].name = "version" /\ e[4].name = "url"
      BY <2>1, <3>1
    <3>3. CASE n = "path"
      BY <2>3, <3>1, <3>2, <3>3
    <3>4. CASE n = "version"
      BY <2>3, <3>1, <3>2, <3>4
    <3>5. CASE n = "url"
      BY <2>3, <3>1, <3>2, <3>5
    <3>. QED BY <2>1, <3>3, <3>4, <3>5
  <2>. QED BY <1>1, <2>2, <2>3, AppendedIs
<1>4. \A l \in 1..Len(e) : f[Len(f) - Len(e) + l] = e[l]
  BY <1>1 DEF EndsWith
<1>5. ASSUME NEW j \in DOMAIN f, f[j].name = n PROVE j <= Len(f) - Len(e) + k
  <2>1. SUFFICES ASSUME j > Len(f) - Len(e) + k PROVE FALSE
    BY <1>1, <1>2
  <2>2. PICK l \in 1..Len(e) : j = Len(f) - Len(e) + l /\ l # k
    <3>1. /\ j - (Len(f) - Len(e)) \in 1..Len(e) /\ j = Len(f) - Len(e) + (j - (Len(f) - Len(e)))
          /\ j - (Len(f) - Len(e)) # k
      BY <1>1, <1>2, <2>1
    <3>. QED BY <3>1
  <2>. QED BY <1>3, <1>4, <1>5, <2>2
<1>6. Len(f) - Len(e) + k \in DOMAIN f
  BY <1>1, <1>2
<1>. QED BY <1>3, <1>4, <1>5, <1>6

-------------------------------------------------------------------------------
(* The inductive invariant: what was read so far is in the copy, line by line, if the run *)
(* found none and no write failed. *)
THEOREM CopyCorrect == UserSpec => []CopyInv
<1>1. UserInit => UserInv
  BY UserInitOK
<1>2. UserInit /\ UserInv => CopyInv
  BY DEF UserInit, CopyInv
<1>3. CopyInv /\ UserInv' /\ [UserNext]_userVars => CopyInv'
  <2> SUFFICES ASSUME CopyInv, UserInv', [UserNext]_userVars PROVE CopyInv'
    OBVIOUS
  <2>1. CASE UNCHANGED userVars
    BY <2>1 DEF userVars, CopyInv
  <2>2. CASE EditUserJs
    <3>1. job' \in {"off", "gone"}
      BY <2>2 DEF EditUserJs
    <3>. QED BY <3>1, CopyNone
  <2>3. CASE NothingToDo \/ AppendFails \/ MoveFails \/ EndUserJs
    <3>1. job' \in {"done", "gone"}
      BY <2>3 DEF NothingToDo, AppendFails, MoveFails, EndUserJs
    <3>. QED BY <3>1, CopyNone
  <2>. QED BY <2>1, <2>2, <2>3, StartCheckCopy, OpenPrefsFileCopy, OpenFailsCopy, NoCopyCopy,
              CopyLineCopy, CopyEndsCopy, AppendManagedCopy, MoveCopy DEF UserNext, CheckStep
<1>. QED BY <1>1, <1>2, <1>3, UserCorrect, PTL DEF UserSpec

(* Where the copy has replaced the file, the managed preferences have the values the      *)
(* thread has for them, the path the present one or "(null)", and without a copy from an     *)
(* earlier run the file has each of the lines that are kept, in their order, and these; a    *)
(* run whose write failed excepted. *)
THEOREM FileRewritten == UserSpec => []Rewritten
<1>1. CopyInv => Rewritten
  <2> SUFFICES ASSUME CopyInv, job = "moved", ~flaw
               PROVE  /\ path \in {run, Null}
                      /\ \A n \in ToSet(Managed) :
                           \E i \in DOMAIN user :
                             /\ user[i] = Entry(n, path)
                             /\ \A j \in DOMAIN user : user[j].name = n => j <= i
                      /\ clean =>
                           \E rest \in Pieces :
                             LET kept == CopyPlace(old, Len(old))
                                 lines == Appended(path, rest)
                             IN
                             /\ Len(user) = kept + Len(lines)
                             /\ \A i \in DOMAIN old : Keep(old[i]) => user[CopyPlace(old, i)] = old[i]
                             /\ \A i \in DOMAIN lines : user[kept + i] = lines[i]
    <3>1. \A n \in ToSet(Managed), i \in DOMAIN user : user[i] = Entry(n, path) => user[i].name = n
      BY DEF Entry
    <3>. QED BY <3>1 DEF Rewritten
  <2>1. user \in Seq(Line) /\ old \in Seq(Line) /\ path \in Null..Runs /\ UserTypeOK
    BY UserKnown DEF CopyInv, UserInv
  <2>2. PICK f, s, p : f = user /\ s = old /\ p = path
    OBVIOUS
  <2>3. f \in Seq(Line) /\ s \in Seq(Line) /\ HasEnd(f, s, p, clean) /\ path \in {run, Null}
    BY <2>1, <2>2 DEF CopyInv
  <2>4. PICK rest \in Pieces :
          EndsWith(f, Appended(p, rest)) /\ (clean => Shaped(f, s, Len(s), Len(Appended(p, rest))))
    BY <2>3 DEF HasEnd
  <2>5. PICK e : /\ e = Appended(p, rest) /\ Len(e) \in {3, 4} /\ DOMAIN e = 1..Len(e)
                 /\ EndsWith(f, e) /\ (clean => Shaped(f, s, Len(s), Len(e)))
    BY <2>1, <2>2, <2>4, AppendedType
  <2>6. ASSUME NEW n \in ToSet(Managed)
        PROVE  \E i \in DOMAIN f : f[i] = Entry(n, p) /\ \A j \in DOMAIN f : f[j].name = n => j <= i
    BY <2>1, <2>2, <2>3, <2>4, LastLines
  <2>7. ASSUME clean
        PROVE  /\ Len(f) = CopyPlace(s, Len(s)) + Len(e)
               /\ \A i \in DOMAIN s : Keep(s[i]) => f[CopyPlace(s, i)] = s[i]
               /\ \A i \in DOMAIN e : f[CopyPlace(s, Len(s)) + i] = e[i]
    <3>1. /\ Shaped(f, s, Len(s), Len(e)) /\ DOMAIN s = 1..Len(s) /\ Len(s) \in Nat
          /\ CopyPlace(s, Len(s)) \in Nat
      BY <2>3, <2>5, <2>7, LenProperties, Places
    <3>2. Len(f) = CopyPlace(s, Len(s)) + Len(e)
      BY <3>1 DEF Shaped
    <3>3. Len(f) - Len(e) = CopyPlace(s, Len(s))
      BY <2>5, <3>1, <3>2
    <3>. QED BY <2>5, <3>1, <3>2, <3>3 DEF Shaped, EndsWith
  <2>. QED BY <2>2, <2>3, <2>5, <2>6, <2>7
<1>. QED BY <1>1, CopyCorrect, PTL
===============================================================================
