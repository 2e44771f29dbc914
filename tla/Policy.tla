--------------------------------- MODULE Policy ---------------------------------
(***************************************************************************)
(* Which programs the browser may start and which modules it may load      *)
(* (safe_ex.c): threads of the browser come into the hooks of process      *)
(* creation and of LoadLibraryExW, ask in_whitelist, which fills its       *)
(* static list when the first of them comes, and have the DLL put into the *)
(* programs that are not trusted (inject.c), which must be held back until *)
(* it is there and run afterwards.                                         *)
(*                                                                         *)
(* Nothing locks the list: an entry has a text, writing one is a beginning *)
(* and an end, and every look at one is a step of its own, so a thread may *)
(* meet an entry that another one is writing, and two may write one at     *)
(* once.                                                                   *)
(*                                                                         *)
(* A call is what one thread asks for: it is called again and again, and a *)
(* call that has returned is forgotten at the next, as is its child.       *)
(***************************************************************************)
EXTENDS Integers, FiniteSets

CONSTANTS
  Caller,     \* threads
  Prog,       \* files
  Module,     \* those that are modules
  Items,      \* how many lines the section [whitelist] has
  Relative,   \* entries of these lines that are relative paths
  EntryOf,    \* the entry that names a file, -1 if none does
  Gui,        \* those that are windows programs
  Risky,      \* SumatraPDF.exe, java.exe, jp2launcher.exe
  Versions,   \* versions of the system, <<major, minor>>
  Calls       \* bound: how many calls are made

(* The entries of white_list: the program itself; plugin-container, by which a filled     *)
(* list is known; the browser's other programs, as one; the lines of the section. *)
Self == 0
Mark == 1
Rest == 2
LastEntry == Rest + Items
Entries == Self..LastEntry
Section == Rest + 1..LastEntry

(* What an entry holds: nothing, a relative path, an absolute one as it should be (or a   *)
(* pattern), a text that is being written, a text of which nothing is known. *)
Text == {"empty", "raw", "full", "mixed", "spoilt"}

ASSUME PolicyAssumption ==
  /\ Items \in Nat \ {0} /\ Relative \subseteq Section
  /\ EntryOf \in [Prog -> {-1} \union Entries]
  /\ Module \subseteq Prog /\ Gui \subseteq Prog /\ Risky \subseteq Prog \ Module /\ Calls \in Nat
  /\ \A v \in Versions : v \in (5..10) \X (0..3)

VARIABLES
  policy,     \* "off", "on" while the hooks are there, "over"
  version,    \* of the system
  section,    \* the file has a section [whitelist]
  white_list, \* the text of each entry
  call,       \* the call each thread makes
  calls,      \* how many there were
  filled,     \* (history) some call has filled the list to the end
  unread      \* (history) the section is there and could not be read

policyVars == <<policy, version, section, white_list, call, calls, filled, unread>>
settings == <<policy, version, section>>

(* What is known of a call: where it is, the file, whether a process is asked for or a   *)
(* module, and whether it is asked for suspended; the entry in_whitelist is at, the text it *)
(* writes there, and its answer; the child's suspend count and the memory and the thread    *)
(* InjectDll has in it.  The rest is history: the list was full when it began, it met an    *)
(* entry on which another call was or had been at work, a step of the injection failed, the  *)
(* wait was given up. *)
NoCall == [at |-> "idle", prog |-> "", what |-> "", asked |-> FALSE,
           entry |-> 0, text |-> "empty", answer |-> "",
           born |-> FALSE, suspended |-> 0, dead |-> FALSE, memory |-> "none", remote |-> "none",
           late |-> FALSE, disturbed |-> FALSE, gaveUp |-> FALSE, timedOut |-> FALSE]

(* GetOsVersion prints major, 0, minor and keeps three characters: 10.0 becomes 100. *)
GetOsVersion == IF version[1] < 10 THEN 100 * version[1] + version[2] ELSE 10 * version[1]

(* init_safed hooks NtCreateUserProcess, else CreateProcessInternalW. *)
AfterWin7 == GetOsVersion > 601

PolicyInit ==
  /\ policy = "off" /\ version \in Versions /\ section \in BOOLEAN
  /\ white_list = [e \in Entries |-> "empty"] /\ call = [c \in Caller |-> NoCall] /\ calls = 0
  /\ filled = FALSE /\ unread = FALSE

(* init_safed *)
StartPolicy ==
  /\ policy = "off" /\ policy' = "on"
  /\ UNCHANGED <<version, section, white_list, call, calls, filled, unread>>

(* Thread c goes from one place to the next, and more of its call changes. *)
At(c, place) == policy = "on" /\ call[c].at = place
Becomes(c, r) == call' = [call EXCEPT ![c] = r]
To(c, place) == Becomes(c, [call[c] EXCEPT !.at = place])

OnlyCall == UNCHANGED <<settings, white_list, calls, filled, unread>>

-------------------------------------------------------------------------------
(* The calls *)

(* HookCreateProcessInternalW and HookNtCreateUserProcess, for a program that is not     *)
(* 16-bit *)
AskProcess(c, p, ask) ==
  /\ call[c].at = "idle" /\ policy = "on" /\ calls < Calls
  /\ Becomes(c, [NoCall EXCEPT !.at = IF p \in Risky THEN "create" ELSE "look",
                               !.prog = p, !.what = "process", !.asked = ask, !.late = filled])
  /\ calls' = calls + 1
  /\ UNCHANGED <<settings, white_list, filled, unread>>

(* HookLoadLibraryExW, called by user32.dll for a module that is not on its own list *)
AskModule(c, p) ==
  /\ call[c].at = "idle" /\ policy = "on" /\ calls < Calls
  /\ Becomes(c, [NoCall EXCEPT !.at = "look", !.prog = p, !.what = "module", !.late = filled])
  /\ calls' = calls + 1
  /\ UNCHANGED <<settings, white_list, filled, unread>>

(* Where a call goes from the answer: a module is loaded or not; a program not on the list *)
(* is refused, but for a windows program when EnableWhiteList, which is read from the file  *)
(* at every call, is off. *)
After(c, yes) ==
  LET r == call[c] IN
  IF r.what = "module" THEN {"back"}
  ELSE IF yes THEN {"create"}
  ELSE IF r.prog \in Gui THEN {"create", "back"} ELSE {"back"}

Forget(c) ==
  /\ call[c].at = "back" /\ ~call[c].born
  /\ Becomes(c, NoCall) /\ OnlyCall

-------------------------------------------------------------------------------
(* in_whitelist *)

Filling == {"fill", "filling", "section", "clearing", "refill", "refilling"}

Torn(e) == white_list[e] \in {"mixed", "spoilt"}

(* The entries a call is writing, and those it has yet to fill. *)
WritesTo(r) ==
  {e \in Entries : \/ /\ r.at = "clearing" /\ e \in Section
                \/ /\ r.at \in {"filling", "refilling", "writing"} /\ e = r.entry}

ToFill(r) == {e \in Entries : r.at \in Filling /\ e >= r.entry}

(* Call c begins to write text t to the entries es: if it is what they hold, nothing       *)
(* changes, and if another call writes something else there, nothing is known of what will   *)
(* be. *)
Begins(c, es, t, place) ==
  /\ white_list' =
       [e \in Entries |->
          IF e \notin es THEN white_list[e]
          ELSE IF \E d \in Caller \ {c} : e \in WritesTo(call[d]) /\ call[d].text # t THEN "spoilt"
          ELSE IF white_list[e] = t THEN t ELSE "mixed"]
  /\ Becomes(c, [call[c] EXCEPT !.at = place, !.text = t])

(* It ends, and goes on with an entry. *)
Ends(c, place, next) ==
  /\ white_list' = [e \in Entries |->
                     IF e \in WritesTo(call[c]) /\ white_list[e] # "spoilt" THEN call[c].text
                     ELSE white_list[e]]
  /\ Becomes(c, [call[c] EXCEPT !.at = place, !.entry = next, !.text = "empty"])

OnlyList == UNCHANGED <<settings, calls, filled, unread>>

(* A list is taken for filled when there is a text of plugin-container's in its entry. *)
LooksFilled(c, e) ==
  /\ At(c, "look")
  /\ \E found \in IF Torn(e) THEN BOOLEAN ELSE {white_list[e] = "full"} :
       Becomes(c, [call[c] EXCEPT !.at = IF found THEN "check" ELSE "fill", !.entry = Self,
                                  !.disturbed = @ \/ Torn(e)])
  /\ OnlyCall

(* Mutant: the list is taken for filled when an entry of the section is there. *)
LookForSection(c) == LooksFilled(c, LastEntry)

Look(c) == LooksFilled(c, Mark)

(* The entries before the section, in their order *)
Fill(c) ==
  \/ At(c, "fill") /\ Begins(c, {call[c].entry}, "full", "filling") /\ OnlyList
  \/ /\ At(c, "filling")
     /\ Ends(c, IF call[c].entry = Rest THEN "section" ELSE "fill", call[c].entry + 1)
     /\ OnlyList

(* foreach_section finds no section or no memory: this call answers yes. *)
NoSection(c) ==
  /\ At(c, "section")
  /\ \E place \in After(c, TRUE) :
       Becomes(c, [call[c] EXCEPT !.at = place, !.entry = Self, !.answer = "yes"])
  /\ filled' = TRUE /\ unread' = (unread \/ section)
  /\ UNCHANGED <<settings, white_list, calls>>

(* It clears its part of the list ... *)
ClearSection(c) ==
  \/ At(c, "section") /\ section /\ Begins(c, Section, "empty", "clearing") /\ OnlyList
  \/ At(c, "clearing") /\ Ends(c, "refill", Rest + 1) /\ OnlyList

(* ... and copies line after line of the section. *)
FillSection(c) ==
  \/ /\ At(c, "refill")
     /\ Begins(c, {call[c].entry}, IF call[c].entry \in Relative THEN "raw" ELSE "full", "refilling")
     /\ OnlyList
  \/ /\ At(c, "refilling") /\ call[c].entry # LastEntry
     /\ Ends(c, "refill", call[c].entry + 1) /\ OnlyList
  \/ /\ At(c, "refilling") /\ call[c].entry = LastEntry
     /\ Ends(c, "check", Self) /\ filled' = TRUE
     /\ UNCHANGED <<settings, calls, unread>>

(* The answer, and the next entry, after the last of which the answer is no *)
Answers(c, answer, met) ==
  \E place \in After(c, answer = "yes") :
    Becomes(c, [call[c] EXCEPT !.at = place, !.entry = Self, !.answer = answer,
                               !.disturbed = @ \/ met])

GoesOn(c, met) ==
  IF call[c].entry = LastEntry THEN Answers(c, "no", met)
  ELSE Becomes(c, [call[c] EXCEPT !.at = "check", !.entry = @ + 1, !.disturbed = @ \/ met])

(* An empty entry is passed over, and one that is no absolute path is made one first.     *)
(* These tests are one look: a text that changes between them is met while it does. *)
Check(c) ==
  LET e == call[c].entry
      coming == \E d \in Caller : e \in ToFill(call[d])
      Goes(place) == Becomes(c, [call[c] EXCEPT !.at = place, !.disturbed = @ \/ Torn(e)])
  IN
  /\ At(c, "check")
  /\ \/ (white_list[e] = "empty" \/ Torn(e)) /\ GoesOn(c, Torn(e) \/ coming)
     \/ (white_list[e] = "full" \/ Torn(e)) /\ Goes("compare")
     \/ (white_list[e] = "raw" \/ Torn(e)) /\ Goes("combine")
  /\ OnlyCall

(* PathToCombineW makes an absolute path of one that is not, in place: a relative path     *)
(* becomes what it should be, and anything else becomes something. *)
Combine(c) ==
  LET e == call[c].entry IN
  \/ /\ At(c, "combine")
     /\ \/ /\ white_list[e] # "full"
           /\ Becomes(c, [call[c] EXCEPT !.at = "write",
                                         !.text = IF white_list[e] = "raw" THEN "full" ELSE "spoilt",
                                         !.disturbed = @ \/ white_list[e] # "raw"])
        \/ /\ white_list[e] = "full" \/ Torn(e)
           /\ Becomes(c, [call[c] EXCEPT !.at = "compare", !.disturbed = @ \/ Torn(e)])
     /\ OnlyCall
  \/ At(c, "write") /\ Begins(c, {e}, call[c].text, "writing") /\ OnlyList
  \/ At(c, "writing") /\ Ends(c, "compare", e) /\ OnlyList

(* As many characters are compared as the entry has now: one that was emptied matches. *)
Compare(c) ==
  LET e == call[c].entry
      met == white_list[e] # "full"
  IN
  /\ At(c, "compare")
  /\ \/ (Torn(e) \/ (white_list[e] = "full" /\ EntryOf[call[c].prog] = e) \/ white_list[e] = "empty")
        /\ Answers(c, "yes", met)
     \/ (Torn(e) \/ (white_list[e] = "full" /\ EntryOf[call[c].prog] # e) \/ white_list[e] = "raw")
        /\ GoesOn(c, met)
  /\ OnlyCall

InWhitelist(c) ==
  \/ Look(c) \/ Fill(c) \/ NoSection(c) \/ ClearSection(c) \/ FillSection(c)
  \/ Check(c) \/ Combine(c) \/ Compare(c)

-------------------------------------------------------------------------------
(* The system creates the process.  Before Windows 8 the hook lies outside and asks for a *)
(* suspended one when the DLL must go into it; later it lies inside, where the thread is    *)
(* always suspended, and suspends it once more, if NtSuspendThread does not fail. *)
Create(c) ==
  LET risky == call[c].prog \in Risky
      Starts(n, place) == Becomes(c, [call[c] EXCEPT !.born = TRUE, !.suspended = n, !.at = place])
  IN
  /\ At(c, "create")
  /\ \/ AfterWin7 /\ risky /\ Starts(2, "inject")
     \/ AfterWin7 /\ Starts(1, "leave")
     \/ ~AfterWin7 /\ risky /\ Starts(1, "inject")
     \/ ~AfterWin7 /\ ~risky /\ Starts(IF call[c].asked THEN 1 ELSE 0, "back")
  /\ OnlyCall

CreateFails(c) == At(c, "create") /\ To(c, "back") /\ OnlyCall

(* CreateProcessInternalW, after NtCreateUserProcess, resumes what was not asked for     *)
(* suspended. *)
Leave(c) ==
  LET r == call[c] IN
  /\ At(c, "leave")
  /\ Becomes(c, [r EXCEPT !.at = "back", !.suspended = IF r.asked THEN @ ELSE @ - 1])
  /\ OnlyCall

-------------------------------------------------------------------------------
(* InjectDll and pic_inject *)

Outside(c) == IF AfterWin7 THEN "leave" ELSE "back"

(* A step before the child is touched fails: it is left as it is. *)
GiveUp(c) ==
  /\ At(c, "inject")
  /\ Becomes(c, [call[c] EXCEPT !.at = Outside(c), !.gaveUp = TRUE]) /\ OnlyCall

(* VirtualAllocEx; nobody looks whether it failed. *)
Allocate(c) ==
  /\ At(c, "inject")
  /\ \E m \in {"held", "failed"} :
       Becomes(c, [call[c] EXCEPT !.memory = m, !.at = IF AfterWin7 THEN "resume" ELSE "remote"])
  /\ OnlyCall

(* LdrLoadDll or RtlInitUnicodeString is not found: InjectDll only resumes. *)
NoLoader(c) == At(c, "inject") /\ ~AfterWin7 /\ To(c, "resume") /\ OnlyCall

CreateRemoteThread(c) ==
  /\ At(c, "remote")
  /\ \/ Becomes(c, [call[c] EXCEPT !.at = "wait", !.remote = "running"])
     \/ To(c, "free")
  /\ OnlyCall

(* The thread in the child loads the DLL and ends; where there is no code the child ends. *)
RemoteEnds(c) ==
  /\ call[c].remote = "running"
  /\ Becomes(c, [call[c] EXCEPT !.remote = "ended", !.dead = (call[c].memory # "held")])
  /\ OnlyCall

(* Mutant: the memory is freed without a wait for the thread. *)
NoWait(c) == At(c, "wait") /\ To(c, "free") /\ OnlyCall

Wait(c) == At(c, "wait") /\ call[c].remote = "ended" /\ To(c, "free") /\ OnlyCall

(* WaitForSingleObject waits 1.5 seconds. *)
WaitEnds(c) ==
  /\ At(c, "wait")
  /\ Becomes(c, [call[c] EXCEPT !.at = "free", !.timedOut = TRUE]) /\ OnlyCall

Free(c) ==
  /\ At(c, "free")
  /\ Becomes(c, [call[c] EXCEPT !.at = "resume",
                                !.memory = IF @ = "held" THEN "freed" ELSE @])
  /\ OnlyCall

(* Mutant: the one resume too many of a thread suspended twice. *)
ResumeFully(c) ==
  /\ At(c, "resume")
  /\ Becomes(c, [call[c] EXCEPT !.at = Outside(c), !.suspended = 0]) /\ OnlyCall

(* Mutant: the child is not resumed. *)
NoResume(c) == At(c, "resume") /\ To(c, Outside(c)) /\ OnlyCall

(* ResumeThread and NtResumeThread.  pic_inject frees the code too, but not by its       *)
(* address, so it stays. *)
Resume(c) ==
  /\ At(c, "resume")
  /\ Becomes(c, [call[c] EXCEPT !.at = Outside(c), !.suspended = @ - 1]) /\ OnlyCall

Inject(c) ==
  \/ GiveUp(c) \/ Allocate(c) \/ NoLoader(c) \/ CreateRemoteThread(c)
  \/ Wait(c) \/ WaitEnds(c) \/ Free(c) \/ Resume(c)

(* The thread that asked for a suspended child resumes it. *)
ResumeOwn(c) ==
  /\ At(c, "back") /\ call[c].born /\ call[c].asked
  /\ Becomes(c, [call[c] EXCEPT !.at = "gone", !.suspended = IF @ = 0 THEN 0 ELSE @ - 1]) /\ OnlyCall

(* The thread of run_process has its child's handle and goes its own way. *)
GoOn(c) == At(c, "back") /\ To(c, "gone") /\ OnlyCall

-------------------------------------------------------------------------------
(* The hooks are taken away when the process ends; its threads are gone, and what becomes *)
(* of their children is nothing the browser does. *)
EndPolicy ==
  /\ policy # "over" /\ policy' = "over"
  /\ call' = [c \in Caller |-> NoCall]
  /\ UNCHANGED <<version, section, white_list, calls, filled, unread>>

Asks(c) ==
  \/ \E p \in Prog \ Module, ask \in BOOLEAN : AskProcess(c, p, ask)
  \/ \E p \in Module : AskModule(c, p)

Works(c) == InWhitelist(c) \/ Create(c) \/ CreateFails(c) \/ Leave(c) \/ Inject(c)

PolicyNext ==
  \/ StartPolicy \/ EndPolicy
  \/ \E c \in Caller : Asks(c) \/ Works(c) \/ RemoteEnds(c) \/ ResumeOwn(c) \/ Forget(c) \/ GoOn(c)

-------------------------------------------------------------------------------
PolicySpec == PolicyInit /\ [][PolicyNext]_policyVars

Place ==
  Filling \union {"idle", "look", "check", "combine", "write", "writing", "compare", "create", "inject", "remote", "wait", "free",
                  "resume", "leave", "back", "gone"}

CallType ==
  [at : Place, prog : Prog \union {""}, what : {"", "process", "module"}, asked : BOOLEAN,
   entry : Entries, text : Text, answer : {"", "yes", "no"}, born : BOOLEAN, suspended : 0..2, dead : BOOLEAN,
   memory : {"none", "held", "failed", "freed"}, remote : {"none", "running", "ended"},
   late : BOOLEAN, disturbed : BOOLEAN, gaveUp : BOOLEAN, timedOut : BOOLEAN]

(* The type invariant: no thread is resumed more often than it was suspended. *)
PolicyTypeOK ==
  /\ policy \in {"off", "on", "over"} /\ version \in Versions
  /\ section \in BOOLEAN /\ filled \in BOOLEAN /\ unread \in BOOLEAN
  /\ white_list \in [Entries -> Text] /\ calls \in 0..Calls
  /\ call \in [Caller -> CallType]
  /\ \A c \in Caller : call[c].at # "idle" => call[c].prog \in Prog

Listed(p) == EntryOf[p] \in Entries /\ (EntryOf[p] \in Section => section)

(* in_whitelist has no lock and no mark of its own for a list that is complete.  It says *)
(* yes to a file that is on no list only in a call that began before the list was full, or   *)
(* met an entry another call was at work on; and no to one that is listed only if it met    *)
(* such an entry, or when the call that filled the list could not read the section: it is    *)
(* never read again. *)
WhitelistAnswer ==
  \A c \in Caller :
    LET r == call[c] IN
    /\ r.answer = "yes" => Listed(r.prog) \/ ~r.late \/ r.disturbed
    /\ r.answer = "no" => ~Listed(r.prog) \/ r.disturbed \/ (unread /\ EntryOf[r.prog] \in Section)

(* A child that was asked for suspended stays so until the one who asked resumes it,     *)
(* whatever the injection suspends and resumes; but before Windows 8 InjectDll resumes the *)
(* child without a look at what was asked for. *)
AskedStaysSuspended ==
  \A c \in Caller :
    LET r == call[c] IN
    r.born /\ r.asked /\ r.at # "gone" /\ r.suspended = 0 => ~AfterWin7 /\ r.prog \in Risky

(* The code in the child is not freed while the thread that InjectDll started runs it,   *)
(* unless the wait for it was given up after 1.5 seconds. *)
CodeStays ==
  \A c \in Caller :
    call[c].remote = "running" /\ call[c].memory = "freed" => call[c].timedOut

(* The child of a thread that does not ask for it suspended runs at last, or has ended,  *)
(* however the steps of the injection fail: but for those before the child is touched,     *)
(* after which nobody resumes it, and for the end of the browser on the way. *)
ChildRuns ==
  \A c \in Caller :
    (call[c].born /\ ~call[c].asked) ~>
      (call[c].suspended = 0 \/ call[c].dead \/ call[c].gaveUp \/ policy = "over")
===============================================================================
