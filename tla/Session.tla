-------------------------------- MODULE Session --------------------------------
(***************************************************************************)
(* What the DLL does in one process besides the redirection of folders:    *)
(* do_it installs the hooks of safe_ex.c and starts the threads that the   *)
(* ini file asks for, and undo_it is called when the process ends and the  *)
(* other threads are already gone.  The components share nothing but the   *)
(* process, with one exception: the program run_process starts comes to    *)
(* life through the hook of process creation, like every other.            *)
(***************************************************************************)
EXTENDS ProxyTree, UserJs, BossKey, Policy

CONSTANTS
  FeatureSets,   \* what the ini file may ask for: sets of "ProxyExe", "GmpPath", "Bosskey", "SafeEx"
  RunProcessId,  \* the caller that is the thread of run_process
  ExPath         \* the file it starts

ASSUME SessionAssumption == RunProcessId \in Caller /\ ExPath \in Prog \ Module

VARIABLES
  features,      \* what the ini file asks for
  session        \* "off", "running" between do_it and undo_it, "ended"

sessionVars == <<features, session>>
vars == <<sessionVars, proxyVars, userVars, bossVars, policyVars>>

(* What belongs to a feature that is not asked for has one state. *)
SessionInit ==
  /\ features \in FeatureSets /\ session = "off"
  /\ ProxyInit /\ UserInit /\ BossInit /\ PolicyInit
  /\ "ProxyExe" \notin features => alive = {}
  /\ "Bosskey" \notin features => there = {} /\ hotkey = <<>>
  /\ "SafeEx" \notin features => ~section /\ version = CHOOSE v \in Versions : TRUE

(* do_it runs under the loader lock: the threads it creates begin when it is through. *)
DoIt ==
  /\ session = "off" /\ session' = "running"
  /\ IF "ProxyExe" \in features THEN StartThread ELSE UNCHANGED proxyVars
  /\ IF "GmpPath" \in features THEN StartCheck ELSE UNCHANGED userVars
  /\ IF "Bosskey" \in features THEN StartBossKey ELSE UNCHANGED bossVars
  /\ IF "SafeEx" \in features THEN StartPolicy ELSE UNCHANGED policyVars
  /\ UNCHANGED features

(* undo_it; a process that is killed leaves the same files behind, but its descendants. *)
UndoIt ==
  /\ session = "running" /\ session' = "ended"
  /\ IF "ProxyExe" \in features THEN Undo ELSE UNCHANGED proxyVars
  /\ IF "GmpPath" \in features THEN EndUserJs ELSE UNCHANGED userVars
  /\ IF "Bosskey" \in features /\ boss # "over" THEN EndBossKey ELSE UNCHANGED bossVars
  /\ IF "SafeEx" \in features THEN EndPolicy ELSE UNCHANGED policyVars
  /\ UNCHANGED features

(* The next process: followed where only user.js is left of this one. *)
Restart ==
  /\ session = "ended" /\ features = {"GmpPath"} /\ run < Runs
  /\ session' = "off"
  /\ UNCHANGED <<features, proxyVars, userVars, bossVars, policyVars>>

-------------------------------------------------------------------------------
(* run_process calls CreateProcessW and comes into the hook ... *)
ProxyAsks ==
  /\ proxy = "creating"
  /\ AskProcess(RunProcessId, ExPath, FALSE)
  /\ UNCHANGED <<sessionVars, proxyVars, userVars, bossVars>>

(* ... which returns with a process, still held back until then, or without one. *)
ProxyReturns ==
  /\ proxy = "creating"
  /\ IF call[RunProcessId].born THEN Launch ELSE LaunchFails
  /\ GoOn(RunProcessId)
  /\ UNCHANGED <<sessionVars, userVars, bossVars>>

(* The other steps of run_process; without the hooks CreateProcessW is the system's. *)
ProxyStep ==
  /\ session = "running" /\ "ProxyExe" \in features
  /\ RunProcess \/ ("SafeEx" \notin features /\ Creates)
  /\ UNCHANGED <<sessionVars, userVars, bossVars, policyVars>>

(* The processes of the system come and go.  This is followed where the hooks are not and *)
(* while run_process sleeps and searches: its other steps read nothing of the processes     *)
(* but whether the program runs. *)
Processes ==
  /\ features = {"ProxyExe"} /\ proxy \in {"asleep", "searching"}
  /\ Spawn \/ Exit
  /\ UNCHANGED <<sessionVars, userVars, bossVars, policyVars>>

UserJsStep ==
  /\ CheckStep
  /\ UNCHANGED <<sessionVars, proxyVars, bossVars, policyVars>>

User ==
  /\ features = {"GmpPath"} /\ session = "off" /\ EditUserJs
  /\ UNCHANGED <<sessionVars, proxyVars, bossVars, policyVars>>

BossKeyStep ==
  /\ BossStep
  /\ UNCHANGED <<sessionVars, proxyVars, userVars, policyVars>>

Desktop ==
  /\ Press \/ ChangeWindow
  /\ UNCHANGED <<sessionVars, proxyVars, userVars, policyVars>>

(* The other threads.  Where none is run_process they are alike, and the first to call is *)
(* taken for the others; beside run_process they ask for modules: all they share is the    *)
(* list. *)
BrowserAsks ==
  /\ \E c \in Caller :
       IF "ProxyExe" \in features
       THEN c # RunProcessId /\ \E p \in Module : AskModule(c, p)
       ELSE (c = RunProcessId => calls > 0) /\ (Asks(c) \/ ResumeOwn(c))
  /\ UNCHANGED <<sessionVars, proxyVars, userVars, bossVars>>

BrowserReturns ==
  /\ \E c \in Caller : (c = RunProcessId => "ProxyExe" \notin features) /\ Forget(c)
  /\ UNCHANGED <<sessionVars, proxyVars, userVars, bossVars>>

HookStep(c) ==
  /\ policy = "on" /\ call[c].at \notin {"idle", "back", "gone"}
  /\ Works(c)
  /\ UNCHANGED <<sessionVars, proxyVars, userVars, bossVars>>

ChildStep ==
  /\ \E c \in Caller : RemoteEnds(c)
  /\ UNCHANGED <<sessionVars, proxyVars, userVars, bossVars>>

Next ==
  \/ DoIt \/ UndoIt \/ Restart
  \/ ProxyAsks \/ ProxyReturns \/ ProxyStep \/ Processes
  \/ UserJsStep \/ User
  \/ BossKeyStep \/ Desktop
  \/ BrowserAsks \/ BrowserReturns \/ (\E c \in Caller : HookStep(c)) \/ ChildStep

(* The system lets every thread of the process run. *)
Spec ==
  /\ SessionInit /\ [][Next]_vars
  /\ WF_vars(ProxyStep)
  /\ \A c \in Caller : WF_vars(HookStep(c))

-------------------------------------------------------------------------------
SessionTypeOK ==
  /\ features \in FeatureSets /\ session \in {"off", "running", "ended"}
  /\ ProxyTypeOK /\ UserTypeOK /\ BossTypeOK /\ PolicyTypeOK
===============================================================================
