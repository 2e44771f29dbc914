----------------------------- MODULE SharedStartup -----------------------------
(***************************************************************************)
(* The start of every process that loads the DLL (portable.c: DllMain,     *)
(* do_it, init_global_env) and what the processes share: the section .shrd *)
(* with RunOnce, RunPart, appdata_path and localdata_path.  Windows gives  *)
(* it the value zero when its first process comes and keeps it until the   *)
(* last one has gone.  No lock protects it.                                *)
(*                                                                         *)
(* A path is its form and the number of times its directory name, AppData  *)
(* or LocalAppData, was appended to it.                                    *)
(***************************************************************************)
EXTENDS Integers

CONSTANTS
  Proc,      \* processes of the program
  Together,  \* others may start while the first process is still in DllMain
  MaxRuns    \* bound: how often the parts that run once may run

ASSUME StartupAssumption == Together \in BOOLEAN /\ MaxRuns \in Nat \ {0}

VARIABLES
  portable, tmpKey,      \* the ini file: form of PortableDataPath, TmpDataPath present
  RunOnce, RunPart,
  appdata, localdata,    \* appdata_path and localdata_path
  pc,                    \* of the thread in DllMain
  envRuns, partRuns      \* history: runs of either part while the section exists

ini == <<portable, tmpKey>>
section == <<RunOnce, RunPart, appdata, localdata, envRuns, partRuns>>
vars == <<ini, section, pc>>

Empty == [form |-> "empty", dirs |-> 0]

Init ==
  /\ portable \in {"none", "relative", "absolute"} /\ tmpKey \in BOOLEAN
  /\ RunOnce = FALSE /\ RunPart = FALSE
  /\ appdata = Empty /\ localdata = Empty
  /\ pc = [p \in Proc |-> "off"]
  /\ envRuns = 0 /\ partRuns = 0

Goto(p, from, to) ==
  /\ pc[p] = from
  /\ pc' = [pc EXCEPT ![p] = to]

-------------------------------------------------------------------------------
(* The program's children are started by a process that has come out of DllMain. *)
Attach(p) ==
  /\ \/ Together
     \/ \A q \in Proc : pc[q] = "off"
     \/ \E q \in Proc : pc[q] = "running"
  /\ Goto(p, "off", "test")
  /\ UNCHANGED <<ini, section>>

(* Mutant: the result of read_appkey is ignored. *)
ReadIgnoresResult(p) ==
  /\ Goto(p, "test", IF appdata.form = "absolute" THEN "env" ELSE "read")
  /\ UNCHANGED <<ini, section>>

(* Mutant: the path is read by every process. *)
ReadAlways(p) ==
  /\ Goto(p, "test", IF portable = "none" THEN "part" ELSE "read")
  /\ UNCHANGED <<ini, section>>

(* do_it: the path is read unless it is complete already; without one in the ini
   file init_portable is not called.                                        *)
TestPath(p) ==
  /\ Goto(p, "test", IF appdata.form = "absolute" THEN "env"
                     ELSE IF portable = "none" THEN "part" ELSE "read")
  /\ UNCHANGED <<ini, section>>

ReadPath(p) ==
  /\ Goto(p, "read", "env")
  /\ appdata' = [form |-> portable, dirs |-> 0]
  /\ UNCHANGED <<ini, RunOnce, RunPart, localdata, envRuns, partRuns>>

(* init_global_env *)
TestOnce(p) ==
  /\ envRuns < MaxRuns
  /\ Goto(p, "env", IF RunOnce THEN "part" ELSE "combine")
  /\ envRuns' = IF RunOnce THEN envRuns ELSE envRuns + 1
  /\ UNCHANGED <<ini, RunOnce, RunPart, appdata, localdata, partRuns>>

Combine(p) ==
  /\ Goto(p, "combine", "local")
  /\ appdata' = [appdata EXCEPT !.form = "absolute"]
  /\ UNCHANGED <<ini, RunOnce, RunPart, localdata, envRuns, partRuns>>

SetLocal(p) ==
  /\ Goto(p, "local", "appendApp")
  /\ localdata' = IF tmpKey THEN [form |-> "absolute", dirs |-> 0] ELSE appdata
  /\ UNCHANGED <<ini, RunOnce, RunPart, appdata, envRuns, partRuns>>

AppendApp(p) ==
  /\ Goto(p, "appendApp", "appendLocal")
  /\ appdata' = [appdata EXCEPT !.dirs = @ + 1]
  /\ UNCHANGED <<ini, RunOnce, RunPart, localdata, envRuns, partRuns>>

AppendLocal(p) ==
  /\ Goto(p, "appendLocal", "once")
  /\ localdata' = [localdata EXCEPT !.dirs = @ + 1]
  /\ UNCHANGED <<ini, RunOnce, RunPart, appdata, envRuns, partRuns>>

SetOnce(p) ==
  /\ Goto(p, "once", "part")
  /\ RunOnce' = TRUE
  /\ UNCHANGED <<ini, RunPart, appdata, localdata, envRuns, partRuns>>

(* do_it, after the hooks are set: the threads of the first process. *)
TestPart(p) ==
  /\ Goto(p, "part", IF RunPart THEN "running" ELSE "threads")
  /\ UNCHANGED <<ini, section>>

StartThreads(p) ==
  /\ partRuns < MaxRuns
  /\ Goto(p, "threads", "mark")
  /\ partRuns' = partRuns + 1
  /\ UNCHANGED <<ini, RunOnce, RunPart, appdata, localdata, envRuns>>

(* Mutant: the flag is never set. *)
SetPartNever(p) ==
  /\ Goto(p, "mark", "running")
  /\ UNCHANGED <<ini, section>>

SetPart(p) ==
  /\ Goto(p, "mark", "running")
  /\ RunPart' = TRUE
  /\ UNCHANGED <<ini, RunOnce, appdata, localdata, envRuns, partRuns>>

-------------------------------------------------------------------------------
(* A process ends, or is killed at any point. *)
Leave(p) ==
  /\ pc[p] # "off"
  /\ \E q \in Proc \ {p} : pc[q] # "off"
  /\ pc' = [pc EXCEPT ![p] = "off"]
  /\ UNCHANGED <<ini, section>>

(* The last one takes the section with it; the ini file may be edited then. *)
LeaveLast(p) ==
  /\ pc[p] # "off"
  /\ \A q \in Proc \ {p} : pc[q] = "off"
  /\ pc' = [pc EXCEPT ![p] = "off"]
  /\ portable' \in {"none", "relative", "absolute"} /\ tmpKey' \in BOOLEAN
  /\ RunOnce' = FALSE /\ RunPart' = FALSE
  /\ appdata' = Empty /\ localdata' = Empty
  /\ envRuns' = 0 /\ partRuns' = 0

DllMain(p) ==
  \/ Attach(p)
  \/ TestPath(p) \/ ReadPath(p)
  \/ TestOnce(p) \/ Combine(p) \/ SetLocal(p)
  \/ AppendApp(p) \/ AppendLocal(p) \/ SetOnce(p)
  \/ TestPart(p) \/ StartThreads(p) \/ SetPart(p)

Next == \E p \in Proc : DllMain(p) \/ Leave(p) \/ LeaveLast(p)

Spec == Init /\ [][Next]_vars

-------------------------------------------------------------------------------
Path == [form : {"empty", "relative", "absolute"}, dirs : Nat]

TypeOK ==
  /\ portable \in {"none", "relative", "absolute"} /\ tmpKey \in BOOLEAN
  /\ RunOnce \in BOOLEAN /\ RunPart \in BOOLEAN
  /\ appdata \in Path /\ localdata \in Path
  /\ pc \in [Proc -> {"off", "test", "read", "env", "combine", "local", "appendApp",
                      "appendLocal", "once", "part", "threads", "mark", "running"}]
  /\ envRuns \in 0 .. MaxRuns /\ partRuns \in 0 .. MaxRuns

(* "Ensure that it runs only once", says the comment on the shared section: while
   the section exists the paths are completed once, and one process starts the
   threads that go with the first process.                                  *)
OnlyOnce == envRuns <= 1 /\ partRuns <= 1

Done == [form |-> "absolute", dirs |-> 1]

(* A process that has come through init_global_env redirects to the complete
   paths, whichever process completed them, and they stay complete while others
   start, end or are killed half-way.                                       *)
PathsComplete ==
  \A p \in Proc : portable # "none" /\ pc[p] \in {"part", "threads", "mark", "running"} =>
    appdata = Done /\ localdata = Done
===============================================================================
