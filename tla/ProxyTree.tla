------------------------------- MODULE ProxyTree -------------------------------
(***************************************************************************)
(* The program started beside the browser (inipara.c, run_process), the    *)
(* search for its descendants (search_process) and the end of them all     *)
(* (portable.c, undo_it), while processes start and end on their own.      *)
(*                                                                         *)
(* A process is known by its identifier, and an identifier may be used     *)
(* again once the process is gone and nobody has a handle of it.  0 is no  *)
(* handle in g_handle, and as a parent a process that plays no role.       *)
(***************************************************************************)
EXTENDS Integers, Sequences, FiniteSets

CONSTANTS
  Pid,        \* identifiers of processes
  Slots,      \* PROCESS_NUM
  Guarded,    \* those OpenProcess may not open
  Namesakes,  \* those whose program is the one ExPath names
  Reused      \* bound: the identifiers that are used a second time, the others once

ASSUME ProxyAssumption ==
  /\ Pid \subseteq Nat \ {0} /\ IsFiniteSet(Pid) /\ Guarded \subseteq Pid /\ Namesakes \subseteq Pid
  /\ Reused \subseteq Pid /\ Slots \in Nat /\ Slots >= 2

VARIABLES
  proxy,      \* where the thread of run_process is
  frames,     \* the calls of search_process, the innermost first
  hNum,       \* h_num
  gHandle,    \* g_handle, the identifiers of the processes it has handles of
  alive,      \* the processes there are
  parent,     \* th32ParentProcessID, kept when the parent is gone
  used,       \* how often each identifier was used
  lineage,    \* (history) the processes run_process started, directly or not
  before,     \* (history) those of them that were there when the search began
  missed      \* (history) a snapshot failed or had more children than chi_pid has room for

proxyVars == <<proxy, frames, hNum, gHandle, alive, parent, used, lineage, before, missed>>
thread == <<proxy, frames, hNum, gHandle>>
processes == <<alive, parent, used, lineage>>

Slot == 0 .. Slots - 1

(* The handles undo_it comes to: it stops at the first empty entry. *)
Reached == {i \in Slot : \A j \in 0..i : gHandle[j] # 0}

Held == {gHandle[i] : i \in Slot} \ {0}

ProxyInit ==
  /\ proxy = "off" /\ frames = <<>> /\ hNum = 1
  /\ gHandle = [i \in Slot |-> 0]
  /\ alive \in SUBSET Namesakes
  /\ parent = [p \in Pid |-> 0] /\ used = [p \in Pid |-> IF p \in alive THEN 1 ELSE 0]
  /\ lineage = {} /\ before = {} /\ missed = FALSE

-------------------------------------------------------------------------------
(* The processes of the system *)

(* Process p starts q. *)
Born(p, q) ==
  /\ q \in Pid \ (alive \union Held) /\ used[q] < IF q \in Reused THEN 2 ELSE 1
  /\ alive' = alive \union {q}
  /\ parent' = [parent EXCEPT ![q] = p]
  /\ used' = [used EXCEPT ![q] = @ + 1]

Spawn ==
  \E p \in alive \union {0}, q \in Pid \ Namesakes :
    /\ Born(p, q)
    /\ lineage' = IF p \in lineage THEN lineage \union {q} ELSE lineage \ {q}
    /\ UNCHANGED <<thread, before, missed>>

(* bound: those that cannot be opened stay *)
Exit ==
  \E p \in alive \ Guarded :
    /\ alive' = alive \ {p}
    /\ UNCHANGED <<thread, parent, used, lineage, before, missed>>

-------------------------------------------------------------------------------
(* run_process *)

StartThread ==
  /\ proxy = "off"
  /\ proxy' = "started"
  /\ UNCHANGED <<frames, hNum, gHandle, processes, before, missed>>

(* ExPath may be missing, the command line may tell of a pre-start, and the last error   *)
(* of the thread may be ERROR_ALREADY_EXISTS.  Else search_process(wcmd, 0) looks whether  *)
(* the program runs, and finds nothing when its snapshot fails. *)
Decide ==
  /\ proxy = "started"
  /\ proxy' \in {"over", "creating"}
  /\ UNCHANGED <<frames, hNum, gHandle, processes, before, missed>>

LaunchFails ==
  /\ proxy = "creating"
  /\ proxy' = "over"
  /\ UNCHANGED <<frames, hNum, gHandle, processes, before, missed>>

Launch ==
  /\ proxy = "creating"
  /\ \E q \in Namesakes :
       /\ Born(0, q)
       /\ gHandle' = [gHandle EXCEPT ![0] = q]
       /\ lineage' = {q}
  /\ proxy' = "asleep"
  /\ UNCHANGED <<frames, hNum, before, missed>>

(* A call of search_process; todo is chi_pid as far as the loop has not come. *)
Called(p) == [of |-> p, listed |-> FALSE, todo |-> {}]

Awake ==
  /\ proxy = "asleep"
  /\ proxy' = "searching"
  /\ frames' = <<Called(gHandle[0])>>
  /\ before' = lineage \intersect alive
  /\ UNCHANGED <<hNum, gHandle, processes, missed>>

-------------------------------------------------------------------------------
(* search_process *)

(* Mutant: the processes started by the same parent count too. *)
Relatives(p) == {q \in alive : parent[q] \in {p, parent[p]}}

Children(p) == {q \in alive : parent[q] = p}

(* Mutant: the table of children has no limit. *)
SnapshotOfAll ==
  /\ proxy = "searching" /\ frames # <<>> /\ ~frames[1].listed
  /\ frames' = [frames EXCEPT ![1].listed = TRUE, ![1].todo = Children(frames[1].of)]
  /\ UNCHANGED <<proxy, hNum, gHandle, processes, before, missed>>

(* The children in the order of the snapshot, until chi_pid is full *)
Snapshot ==
  /\ proxy = "searching" /\ frames # <<>> /\ ~frames[1].listed
  /\ \E kids \in SUBSET Children(frames[1].of) :
       /\ kids = Children(frames[1].of) \/ Cardinality(kids) = Slots - 1
       /\ Cardinality(kids) < Slots
       /\ frames' = [frames EXCEPT ![1].listed = TRUE, ![1].todo = kids]
       /\ missed' = (missed \/ kids # Children(frames[1].of))
  /\ UNCHANGED <<proxy, hNum, gHandle, processes, before>>

SnapshotFails ==
  /\ proxy = "searching" /\ frames # <<>> /\ ~frames[1].listed
  /\ frames' = Tail(frames) /\ missed' = TRUE
  /\ UNCHANGED <<proxy, hNum, gHandle, processes, before>>

(* Mutant: an entry of the table is used up by a process that cannot be opened, too. *)
OpenChildOrNot ==
  /\ proxy = "searching" /\ frames # <<>> /\ frames[1].listed /\ hNum < Slots
  /\ \E q \in frames[1].todo :
       LET rest == [frames EXCEPT ![1].todo = @ \ {q}] IN
       /\ hNum' = hNum + 1
       /\ IF q \in alive \ Guarded
          THEN gHandle' = [gHandle EXCEPT ![hNum] = q] /\ frames' = <<Called(q)>> \o rest
          ELSE frames' = rest /\ UNCHANGED gHandle
  /\ UNCHANGED <<proxy, processes, before, missed>>

(* Mutant: a process that cannot be opened is tried again. *)
OpenChildAgain ==
  /\ proxy = "searching" /\ frames # <<>> /\ frames[1].listed /\ hNum < Slots
  /\ \E q \in frames[1].todo :
       IF q \in alive \ Guarded
       THEN /\ gHandle' = [gHandle EXCEPT ![hNum] = q]
            /\ hNum' = hNum + 1
            /\ frames' = <<Called(q)>> \o [frames EXCEPT ![1].todo = @ \ {q}]
       ELSE UNCHANGED <<hNum, gHandle, frames>>
  /\ UNCHANGED <<proxy, processes, before, missed>>

(* Mutant: the children of a child are not searched for. *)
OpenChildAlone ==
  /\ proxy = "searching" /\ frames # <<>> /\ frames[1].listed /\ hNum < Slots
  /\ \E q \in frames[1].todo :
       /\ IF q \in alive \ Guarded
          THEN gHandle' = [gHandle EXCEPT ![hNum] = q] /\ hNum' = hNum + 1
          ELSE UNCHANGED <<hNum, gHandle>>
       /\ frames' = [frames EXCEPT ![1].todo = @ \ {q}]
  /\ UNCHANGED <<proxy, processes, before, missed>>

OpenChild ==
  /\ proxy = "searching" /\ frames # <<>> /\ frames[1].listed /\ hNum < Slots
  /\ \E q \in frames[1].todo :
       LET rest == [frames EXCEPT ![1].todo = @ \ {q}] IN
       IF q \in alive \ Guarded
       THEN /\ gHandle' = [gHandle EXCEPT ![hNum] = q]
            /\ hNum' = hNum + 1
            /\ frames' = <<Called(q)>> \o rest
       ELSE frames' = rest /\ UNCHANGED <<hNum, gHandle>>
  /\ UNCHANGED <<proxy, processes, before, missed>>

(* The loop ends: the children are through or the table is full. *)
Return ==
  /\ proxy = "searching" /\ frames # <<>> /\ frames[1].listed
  /\ frames[1].todo = {} \/ hNum = Slots
  /\ frames' = Tail(frames)
  /\ UNCHANGED <<proxy, hNum, gHandle, processes, before, missed>>

SearchOver ==
  /\ proxy = "searching" /\ frames = <<>>
  /\ proxy' = "over"
  /\ UNCHANGED <<frames, hNum, gHandle, processes, before, missed>>

-------------------------------------------------------------------------------
(* undo_it ends the processes it has handles of.  It is called when the process ends: its *)
(* other threads are gone by then, wherever they were, and its variables go with it.       *)
Undo ==
  /\ proxy # "undone" /\ proxy' = "undone"
  /\ alive' = alive \ {gHandle[i] : i \in Reached}
  /\ frames' = <<>> /\ hNum' = 1 /\ gHandle' = [i \in Slot |-> 0]
  /\ lineage' = {} /\ before' = {} /\ missed' = FALSE
  /\ UNCHANGED <<parent, used>>

Creates == Launch \/ LaunchFails

RunProcess ==
  Decide \/ Awake \/ Snapshot \/ SnapshotFails \/ OpenChild \/ Return \/ SearchOver

ProxyNext == StartThread \/ Creates \/ RunProcess \/ Spawn \/ Exit \/ Undo

ProxySpec == ProxyInit /\ [][ProxyNext]_proxyVars

-------------------------------------------------------------------------------
(* The type invariant. *)
ProxyTypeOK ==
  /\ proxy \in {"off", "started", "creating", "asleep", "searching", "over", "undone"}
  /\ frames \in Seq([of : Pid, listed : BOOLEAN, todo : {t \in SUBSET Pid : Cardinality(t) < Slots}])
  /\ hNum \in 1..Slots /\ gHandle \in [Slot -> Pid \union {0}]
  /\ alive \subseteq Pid /\ lineage \subseteq Pid /\ before \subseteq Pid
  /\ parent \in [Pid -> Pid \union {0}] /\ used \in [Pid -> Nat] /\ missed \in BOOLEAN

(* h_num is static and shared by the calls that search_process makes of itself, and it   *)
(* is read before the handle is stored: still the table never overflows, and undo_it,      *)
(* which stops at the first empty entry, comes to every handle. *)
HandleTable ==
  /\ \A i \in Slot : gHandle[i] # 0 <=> (i \in Reached)
  /\ \A i \in Slot : i >= hNum => gHandle[i] = 0

(* The identifiers from which p's goes up to the proxy's: what every set holds that holds *)
(* p and, of each of its members, the parent *)
Ancestry(p) ==
  {q \in Pid : \A S \in SUBSET Pid : p \in S /\ (\A r \in S : parent[r] \in S \union {0}) => q \in S}

(* undo_it ends no process but the proxy and those it started, directly or not, and has  *)
(* one handle of each, though search_process goes by identifiers: unless one of a process   *)
(* or of those it comes from was used before. *)
EndsOnlyOwn ==
  \A p \in Held :
    \/ p \in lineage /\ \A i, j \in Slot : gHandle[i] = p /\ gHandle[j] = p => i = j
    \/ \E q \in Ancestry(p) : used[q] > 1

(* What was there when the search began and still is, with its line of parents, is in    *)
(* the table when the search is over, if the tables had room, the snapshots were made and  *)
(* all of the line can be opened. *)
AllFound ==
  proxy = "over" =>
    \A p \in before :
      \/ p \in Held \/ missed
      \/ hNum = Slots
      \/ \E q \in Ancestry(p) : q \notin alive \/ q \in Guarded \/ used[q] > 1

(* The search comes to an end, whatever processes come and go meanwhile and however       *)
(* identifiers are used again. *)
SearchEnds == (proxy = "searching") ~> (proxy # "searching")
===============================================================================
