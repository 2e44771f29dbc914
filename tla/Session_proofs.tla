----------------------------- MODULE Session_proofs -----------------------------
(* Proofs about Policy and about Session, which composes it with the others.

   Policy, for any set of threads, files and versions and any number of calls:
   what in_whitelist answers while several threads fill its list, and what the
   injection leaves of the child it holds back.

   Session: each component behaves in the session as it does by itself, whatever
   the others do, so what is proved of a component holds of every session.       *)
EXTENDS Session, Threads_proofs

-------------------------------------------------------------------------------
(* Policy *)

(* The places of a call that reads an entry, and of one that has its turn of the list *)
Reading == {"combine", "write", "writing", "compare"}
Checking == {"check"} \union Reading

(* What is known of a call at each place; w stands for AfterWin7. *)
CallOK(r, w) ==
  /\ r.at \in Filling \union Checking \union {"idle", "look", "create"} =>
       ~r.born /\ r.suspended = 0 /\ r.memory = "none" /\ r.remote = "none"
  /\ r.at = "create" => r.prog \in Prog
  /\ r.at = "inject" => r.prog \in Risky /\ r.memory = "none" /\ r.remote = "none"
  /\ r.at \in {"inject", "resume"} => r.suspended = IF w THEN 2 ELSE 1
  /\ r.at \in {"inject", "remote", "wait", "free", "resume"} => r.prog \in Risky /\ r.born
  /\ r.at \in {"remote", "wait", "free"} =>
       ~w /\ r.suspended = 1 /\ r.memory \in {"held", "failed"}
  /\ r.at = "remote" => r.remote = "none"
  /\ r.at \in {"free", "resume"} /\ r.remote = "running" => r.timedOut
  /\ r.at = "leave" => w /\ r.suspended \in 1..2
  /\ w => r.remote = "none"
  /\ r.remote = "running" /\ r.memory = "freed" => r.timedOut
  /\ r.born /\ r.asked /\ r.at # "gone" /\ r.suspended = 0 => ~w /\ r.prog \in Risky

(* When a call that has passed a file's entry, or has answered no, may do so; u stands    *)
(* for unread. *)
MayPass(r, u) == ~Listed(r.prog) \/ r.disturbed \/ (u /\ EntryOf[r.prog] \in Section)

(* Where a call is in the list, and what it writes there *)
WhereOK(r) ==
  /\ r.at \in {"fill", "filling"} => r.entry \in Self..Rest
  /\ r.at \in {"section", "clearing", "refill", "refilling"} => r.entry \in Section
  /\ r.at \in {"clearing", "refill", "refilling"} => section
  /\ r.at \in Reading /\ r.entry \in Section => section
  /\ r.at = "filling" => r.text = "full"
  /\ r.at = "clearing" => r.text = "empty"
  /\ r.at = "refilling" => r.text \in {"raw", "full"}
  /\ r.at \in {"write", "writing"} => r.text \in {"full", "spoilt"}

(* What the place of a call tells of a list of texts l, filled when f holds, and whose    *)
(* section could not be read when u holds *)
ListWith(r, l, f, u) ==
  /\ r.at \in Filling => \A e \in Self..Rest : e < r.entry => l[e] # "empty"
  /\ r.at \in Checking => l[Mark] # "empty"
  /\ r.late => f /\ (r.at \in Filling => r.disturbed)
  /\ r.at \in Checking /\ EntryOf[r.prog] < r.entry => MayPass(r, u)
  /\ r.answer = "yes" => Listed(r.prog) \/ ~r.late \/ r.disturbed
  /\ r.answer = "no" => MayPass(r, u)

ListOK(r) == WhereOK(r) /\ ListWith(r, white_list, filled, unread)

(* An empty entry of a list whose mark is there: some call has yet to fill it, or it is    *)
(* one of a section that is missing or could not be read. *)
Awaited(e) ==
  (\E c \in Caller : e \in ToFill(call[c])) \/ (e \in Section /\ (~section \/ unread))

PolicyInv ==
  /\ PolicyTypeOK
  /\ \A c \in Caller : CallOK(call[c], AfterWin7) /\ ListOK(call[c])
  /\ filled => white_list[Mark] # "empty"
  /\ white_list[Mark] # "raw"
  /\ \A e \in Section : white_list[e] # "empty" => section
  /\ policy = "off" => \A e \in Entries : white_list[e] = "empty"
  /\ policy = "on" /\ white_list[Mark] # "empty" =>
       \A e \in Entries : white_list[e] = "empty" => Awaited(e)

-------------------------------------------------------------------------------
(* The entries: those before the section, and the section's. *)
LEMMA EntriesAre ==
  /\ LastEntry \in Nat /\ LastEntry > Rest
  /\ Entries = 0..LastEntry /\ Section = 3..LastEntry /\ Self = 0 /\ Mark = 1 /\ Rest = 2
BY PolicyAssumption DEF LastEntry, Entries, Section, Self, Mark, Rest

(* A call that is not made, or is forgotten *)
LEMMA NoCallOK ==
  /\ NoCall \in CallType /\ CallOK(NoCall, AfterWin7) /\ WhereOK(NoCall)
  /\ \A l, f, u : ListWith(NoCall, l, f, u)
<1>1. /\ NoCall.at = "idle" /\ NoCall.remote = "none" /\ NoCall.answer = ""
      /\ NoCall.born = FALSE /\ NoCall.late = FALSE /\ NoCall.suspended = 0 /\ NoCall.memory = "none"
  BY DEF NoCall
<1>2. 0 \in Entries
  BY EntriesAre
<1>3. NoCall \in CallType
  BY <1>2 DEF NoCall, CallType, Place, Filling, Text
<1>. QED BY <1>1, <1>3 DEF CallOK, WhereOK, ListWith, Filling, Checking, Reading

(* The invariant holds before init_safed. *)
LEMMA PolicyInitOK == PolicyInit => PolicyInv
<1> SUFFICES ASSUME PolicyInit PROVE PolicyInv
  OBVIOUS
<1>1. call \in [Caller -> CallType] /\ \A c \in Caller : call[c] = NoCall
  BY NoCallOK DEF PolicyInit
<1>2. /\ white_list \in [Entries -> Text]
      /\ \A e \in Entries : white_list[e] = "empty"
  BY DEF PolicyInit, Text
<1>3. PolicyTypeOK
  <2>1. NoCall.at = "idle"
    BY DEF NoCall
  <2>2. Calls \in Nat
    BY PolicyAssumption
  <2>3. calls \in 0..Calls
    BY <2>2 DEF PolicyInit
  <2>4. filled \in BOOLEAN /\ unread \in BOOLEAN
    BY DEF PolicyInit
  <2>. QED BY <1>1, <1>2, <2>1, <2>3, <2>4 DEF PolicyInit, PolicyTypeOK
<1>4. \A c \in Caller : CallOK(call[c], AfterWin7) /\ ListOK(call[c])
  BY <1>1, NoCallOK DEF ListOK
<1>5. Mark \in Entries /\ Section \subseteq Entries
  BY EntriesAre
<1>. QED BY <1>2, <1>3, <1>4, <1>5 DEF PolicyInv, PolicyInit

(* A step of one call: the record it becomes, the others as they were. *)
LEMMA Becoming ==
  ASSUME call \in [Caller -> CallType], NEW c \in Caller, NEW r \in CallType, Becomes(c, r)
  PROVE  /\ call' \in [Caller -> CallType] /\ call'[c] = r
         /\ \A d \in Caller \ {c} : call'[d] = call[d]
BY DEF Becomes

(* A step of one call keeps the invariant if the record it becomes is one the invariant  *)
(* allows, no entry before the section is emptied, an entry of the section is there only if  *)
(* the section is, and what is empty is awaited after the step. *)
LEMMA OneCallOfList ==
  ASSUME PolicyInv, NEW c \in Caller, NEW r \in CallType, Becomes(c, r),
         UNCHANGED settings, calls' \in 0..Calls,
         white_list' \in [Entries -> Text], filled' \in BOOLEAN, unread' \in BOOLEAN,
         policy = "off" => white_list' = white_list,
         filled => filled', unread => unread',
         \A e \in Self..Rest : white_list[e] # "empty" => white_list'[e] # "empty",
         filled' => white_list'[Mark] # "empty", white_list'[Mark] # "raw",
         \A e \in Section : white_list'[e] # "empty" => section,
         r.at # "idle" => r.prog \in Prog, CallOK(r, AfterWin7), WhereOK(r),
         ListWith(r, white_list', filled', unread'),
         \A e \in Entries : white_list'[e] = "empty" /\ white_list'[Mark] # "empty" =>
           \/ e \in ToFill(r)
           \/ e \in Section /\ (~section \/ unread')
           \/ white_list[e] = "empty" /\ white_list[Mark] # "empty" /\ e \notin ToFill(call[c])
  PROVE  PolicyInv'
<1>1. /\ call' \in [Caller -> CallType] /\ call'[c] = r
      /\ \A d \in Caller \ {c} : call'[d] = call[d]
  BY Becoming DEF PolicyInv, PolicyTypeOK
<1>2. AfterWin7' = AfterWin7
  BY DEF AfterWin7, GetOsVersion, settings
<1>3. PolicyTypeOK'
  BY <1>1 DEF PolicyInv, PolicyTypeOK, settings
<1>4. \A d \in Caller : CallOK(call'[d], AfterWin7')
  BY <1>1, <1>2 DEF PolicyInv
<1>5. \A d \in Caller : ListOK(call[d])'
  <2>1. ASSUME NEW d \in Caller, NEW s, WhereOK(s), ListWith(s, white_list', filled', unread'),
               call'[d] = s
        PROVE  ListOK(call[d])'
    BY <2>1 DEF ListOK, ListWith, WhereOK, MayPass, Listed, settings
  <2>2. Mark \in Self..Rest
    BY DEF Mark, Self, Rest
  <2>3. ASSUME NEW s, ListOK(s) PROVE ListWith(s, white_list', filled', unread')
    BY <2>2, <2>3 DEF ListOK, ListWith, MayPass
  <2>4. \A d \in Caller : ListOK(call[d])
    BY DEF PolicyInv
  <2>5. ASSUME NEW d \in Caller \ {c} PROVE ListOK(call[d])'
    BY <1>1, <2>1, <2>3, <2>4 DEF ListOK
  <2>. QED BY <1>1, <2>1, <2>5
<1>6. (policy = "on" /\ white_list[Mark] # "empty" =>
         \A e \in Entries : white_list[e] = "empty" => Awaited(e))'
  <2> SUFFICES ASSUME policy = "on", white_list'[Mark] # "empty",
                      NEW e \in Entries, white_list'[e] = "empty"
               PROVE  Awaited(e)'
    BY DEF settings
  <2>1. CASE e \in ToFill(r)
    BY <1>1, <2>1 DEF Awaited, ToFill
  <2>2. CASE e \in Section /\ (~section \/ unread')
    BY <2>2 DEF Awaited, settings
  <2>3. CASE white_list[e] = "empty" /\ white_list[Mark] # "empty" /\ e \notin ToFill(call[c])
    <3>1. Awaited(e)
      BY <2>3 DEF PolicyInv
    <3>2. CASE e \in Section /\ (~section \/ unread)
      BY <3>2 DEF Awaited, settings
    <3>3. CASE \E d \in Caller : e \in ToFill(call[d])
      <4>1. PICK d \in Caller : e \in ToFill(call[d])
        BY <3>3
      <4>2. call'[d] = call[d]
        BY <1>1, <2>3, <4>1
      <4>. QED BY <4>1, <4>2 DEF Awaited, ToFill
    <3>. QED BY <3>1, <3>2, <3>3 DEF Awaited
  <2>. QED BY <2>1, <2>2, <2>3
<1>7. policy' = policy /\ section' = section
  BY DEF settings
<1>8. policy = "off" => \A e \in Entries : white_list'[e] = "empty"
  BY DEF PolicyInv
<1>. QED BY <1>3, <1>4, <1>5, <1>6, <1>7, <1>8 DEF PolicyInv

(* So does one that leaves the list alone, if a call at work on it stays at its entry. *)
LEMMA OneCall ==
  ASSUME PolicyInv, NEW c \in Caller, NEW r \in CallType, Becomes(c, r),
         UNCHANGED <<settings, white_list, filled, unread>>, calls' \in 0..Calls,
         r.at # "idle" => r.prog \in Prog,
         CallOK(r, AfterWin7), ListOK(r),
         call[c].at \in Filling => r.at \in Filling /\ r.entry = call[c].entry
  PROVE  PolicyInv'
<1>1. /\ white_list \in [Entries -> Text] /\ filled \in BOOLEAN /\ unread \in BOOLEAN
      /\ filled => white_list[Mark] # "empty"
      /\ white_list[Mark] # "raw"
      /\ \A e \in Section : white_list[e] # "empty" => section
  BY DEF PolicyInv, PolicyTypeOK
<1>2. WhereOK(r) /\ ListWith(r, white_list', filled', unread')
  BY DEF ListOK
<1>3. ASSUME NEW e \in ToFill(call[c]) PROVE e \in ToFill(r)
  BY DEF ToFill
<1>. QED BY <1>1, <1>2, <1>3, OneCallOfList

-------------------------------------------------------------------------------
(* The steps that leave the list alone *)

(* A step before the child is touched fails. *)
LEMMA GiveUpOK ==
  ASSUME PolicyInv, NEW c \in Caller, GiveUp(c)
  PROVE  PolicyInv'
<1> DEFINE r == [call[c] EXCEPT !.at = Outside(c), !.gaveUp = TRUE]
<1>1. call[c] \in CallType /\ (call[c].at # "idle" => call[c].prog \in Prog)
      /\ CallOK(call[c], AfterWin7) /\ ListOK(call[c]) /\ calls \in 0..Calls
  BY DEF PolicyInv, PolicyTypeOK
<1>2. Becomes(c, r) /\ UNCHANGED <<settings, white_list, filled, unread>> /\ calls' \in 0..Calls
  BY <1>1 DEF GiveUp, OnlyCall, To, At
<1>3. /\ r.at = Outside(c)
      /\ r.prog = call[c].prog /\ r.asked = call[c].asked /\ r.answer = call[c].answer /\ r.born = call[c].born
      /\ r.suspended = call[c].suspended /\ r.memory = call[c].memory /\ r.remote = call[c].remote /\ r.late = call[c].late
      /\ r.disturbed = call[c].disturbed /\ r.timedOut = call[c].timedOut
  BY <1>1 DEF CallType
<1>4. call[c].suspended \in 0..2 /\ call[c].asked \in BOOLEAN /\ call[c].at \notin Filling /\ r.at \notin Filling
      /\ r.at # "idle" /\ call[c].prog \in Prog
  BY <1>1, <1>3 DEF GiveUp, At, CallType, Outside, Filling
<1>5. r.suspended \in 0..2
  BY <1>1, <1>3, <1>4 DEF GiveUp, At, CallOK, Filling, Checking, Reading
<1>6. r \in CallType
  BY <1>1, <1>3, <1>5 DEF CallType, Place, Outside
<1>7. CallOK(r, AfterWin7)
  <2> HIDE DEF r
  <2>. QED BY <1>1, <1>3, <1>4 DEF GiveUp, At, CallOK, Outside, Filling, Checking, Reading
<1>8. ListOK(r)
  <2> HIDE DEF r
  <2>. QED BY <1>1, <1>3, <1>4 DEF GiveUp, At, ListOK, ListWith, WhereOK, MayPass, Outside, Filling, Checking, Reading
<1>. QED BY <1>2, <1>3, <1>4, <1>6, <1>7, <1>8, OneCall

(* InjectDll finds no loader and only resumes. *)
LEMMA NoLoaderOK ==
  ASSUME PolicyInv, NEW c \in Caller, NoLoader(c)
  PROVE  PolicyInv'
<1> DEFINE r == [call[c] EXCEPT !.at = "resume"]
<1>1. call[c] \in CallType /\ (call[c].at # "idle" => call[c].prog \in Prog)
      /\ CallOK(call[c], AfterWin7) /\ ListOK(call[c]) /\ calls \in 0..Calls
  BY DEF PolicyInv, PolicyTypeOK
<1>2. Becomes(c, r) /\ UNCHANGED <<settings, white_list, filled, unread>> /\ calls' \in 0..Calls
  BY <1>1 DEF NoLoader, OnlyCall, To, At
<1>3. r \in CallType /\ (r.at # "idle" => r.prog \in Prog) /\ call[c].at \notin Filling
  BY <1>1 DEF NoLoader, At, CallType, Place, Filling, Checking, Reading, CallOK, Outside
<1>4. CallOK(r, AfterWin7)
  BY <1>1 DEF NoLoader, At, CallOK, CallType, Filling, Checking, Reading, Outside
<1>5. ListOK(r)
  BY <1>1 DEF NoLoader, At, ListOK, ListWith, WhereOK, MayPass, CallType, Filling, Checking, Reading, Outside
<1>. QED BY <1>2, <1>3, <1>4, <1>5, OneCall

(* The system does not create the process. *)
LEMMA CreateFailsOK ==
  ASSUME PolicyInv, NEW c \in Caller, CreateFails(c)
  PROVE  PolicyInv'
<1> DEFINE r == [call[c] EXCEPT !.at = "back"]
<1>1. call[c] \in CallType /\ (call[c].at # "idle" => call[c].prog \in Prog)
      /\ CallOK(call[c], AfterWin7) /\ ListOK(call[c]) /\ calls \in 0..Calls
  BY DEF PolicyInv, PolicyTypeOK
<1>2. Becomes(c, r) /\ UNCHANGED <<settings, white_list, filled, unread>> /\ calls' \in 0..Calls
  BY <1>1 DEF CreateFails, OnlyCall, To, At
<1>3. r \in CallType /\ (r.at # "idle" => r.prog \in Prog) /\ call[c].at \notin Filling
  BY <1>1 DEF CreateFails, At, CallType, Place, Filling, Checking, Reading, CallOK, Outside
<1>4. CallOK(r, AfterWin7)
  BY <1>1 DEF CreateFails, At, CallOK, CallType, Filling, Checking, Reading, Outside
<1>5. ListOK(r)
  BY <1>1 DEF CreateFails, At, ListOK, ListWith, WhereOK, MayPass, CallType, Filling, Checking, Reading, Outside
<1>. QED BY <1>2, <1>3, <1>4, <1>5, OneCall

(* The wait ends because the remote thread has ended. *)
LEMMA WaitOK ==
  ASSUME PolicyInv, NEW c \in Caller, Wait(c)
  PROVE  PolicyInv'
<1> DEFINE r == [call[c] EXCEPT !.at = "free"]
<1>1. call[c] \in CallType /\ (call[c].at # "idle" => call[c].prog \in Prog)
      /\ CallOK(call[c], AfterWin7) /\ ListOK(call[c]) /\ calls \in 0..Calls
  BY DEF PolicyInv, PolicyTypeOK
<1>2. Becomes(c, r) /\ UNCHANGED <<settings, white_list, filled, unread>> /\ calls' \in 0..Calls
  BY <1>1 DEF Wait, OnlyCall, To, At
<1>3. r \in CallType /\ (r.at # "idle" => r.prog \in Prog) /\ call[c].at \notin Filling
  BY <1>1 DEF Wait, At, CallType, Place, Filling, Checking, Reading, CallOK, Outside
<1>4. CallOK(r, AfterWin7)
  BY <1>1 DEF Wait, At, CallOK, CallType, Filling, Checking, Reading, Outside
<1>5. ListOK(r)
  BY <1>1 DEF Wait, At, ListOK, ListWith, WhereOK, MayPass, CallType, Filling, Checking, Reading, Outside
<1>. QED BY <1>2, <1>3, <1>4, <1>5, OneCall

(* The wait ends after 1.5 seconds. *)
LEMMA WaitEndsOK ==
  ASSUME PolicyInv, NEW c \in Caller, WaitEnds(c)
  PROVE  PolicyInv'
<1> DEFINE r == [call[c] EXCEPT !.at = "free", !.timedOut = TRUE]
<1>1. call[c] \in CallType /\ (call[c].at # "idle" => call[c].prog \in Prog)
      /\ CallOK(call[c], AfterWin7) /\ ListOK(call[c]) /\ calls \in 0..Calls
  BY DEF PolicyInv, PolicyTypeOK
<1>2. Becomes(c, r) /\ UNCHANGED <<settings, white_list, filled, unread>> /\ calls' \in 0..Calls
  BY <1>1 DEF WaitEnds, OnlyCall, To, At
<1>3. r \in CallType /\ (r.at # "idle" => r.prog \in Prog) /\ call[c].at \notin Filling
  BY <1>1 DEF WaitEnds, At, CallType, Place, Filling, Checking, Reading, CallOK, Outside
<1>4. CallOK(r, AfterWin7)
  BY <1>1 DEF WaitEnds, At, CallOK, CallType, Filling, Checking, Reading, Outside
<1>5. ListOK(r)
  BY <1>1 DEF WaitEnds, At, ListOK, ListWith, WhereOK, MayPass, CallType, Filling, Checking, Reading, Outside
<1>. QED BY <1>2, <1>3, <1>4, <1>5, OneCall

(* The memory in the child is freed. *)
LEMMA FreeOK ==
  ASSUME PolicyInv, NEW c \in Caller, Free(c)
  PROVE  PolicyInv'
<1> DEFINE r == [call[c] EXCEPT !.at = "resume", !.memory = IF @ = "held" THEN "freed" ELSE @]
<1>1. call[c] \in CallType /\ (call[c].at # "idle" => call[c].prog \in Prog)
      /\ CallOK(call[c], AfterWin7) /\ ListOK(call[c]) /\ calls \in 0..Calls
  BY DEF PolicyInv, PolicyTypeOK
<1>2. Becomes(c, r) /\ UNCHANGED <<settings, white_list, filled, unread>> /\ calls' \in 0..Calls
  BY <1>1 DEF Free, OnlyCall, To, At
<1>3. r \in CallType /\ (r.at # "idle" => r.prog \in Prog) /\ call[c].at \notin Filling
  BY <1>1 DEF Free, At, CallType, Place, Filling, Checking, Reading, CallOK, Outside
<1>4. CallOK(r, AfterWin7)
  BY <1>1 DEF Free, At, CallOK, CallType, Filling, Checking, Reading, Outside
<1>5. ListOK(r)
  BY <1>1 DEF Free, At, ListOK, ListWith, WhereOK, MayPass, CallType, Filling, Checking, Reading, Outside
<1>. QED BY <1>2, <1>3, <1>4, <1>5, OneCall

(* The child is resumed once, which undoes one suspension. *)
LEMMA ResumeOK ==
  ASSUME PolicyInv, NEW c \in Caller, Resume(c)
  PROVE  PolicyInv'
<1> DEFINE r == [call[c] EXCEPT !.at = Outside(c), !.suspended = @ - 1]
<1>1. call[c] \in CallType /\ (call[c].at # "idle" => call[c].prog \in Prog)
      /\ CallOK(call[c], AfterWin7) /\ ListOK(call[c]) /\ calls \in 0..Calls
  BY DEF PolicyInv, PolicyTypeOK
<1>2. Becomes(c, r) /\ UNCHANGED <<settings, white_list, filled, unread>> /\ calls' \in 0..Calls
  BY <1>1 DEF Resume, OnlyCall, To, At
<1>3. /\ r.at = Outside(c) /\ r.suspended = call[c].suspended - 1
      /\ r.prog = call[c].prog /\ r.asked = call[c].asked /\ r.answer = call[c].answer /\ r.born = call[c].born
      /\ r.memory = call[c].memory /\ r.remote = call[c].remote /\ r.late = call[c].late /\ r.disturbed = call[c].disturbed
      /\ r.timedOut = call[c].timedOut
  BY <1>1 DEF CallType
<1>4. call[c].suspended \in 0..2 /\ call[c].asked \in BOOLEAN /\ call[c].at \notin Filling /\ r.at \notin Filling
      /\ r.at # "idle" /\ call[c].prog \in Prog
  BY <1>1, <1>3 DEF Resume, At, CallType, Outside, Filling
<1>5. r.suspended \in 0..2
  BY <1>1, <1>3, <1>4 DEF Resume, At, CallOK, Filling, Checking, Reading
<1>6. r \in CallType
  BY <1>1, <1>3, <1>5 DEF CallType, Place, Outside
<1>7. CallOK(r, AfterWin7)
  <2> HIDE DEF r
  <2>. QED BY <1>1, <1>3, <1>4 DEF Resume, At, CallOK, Outside, Filling, Checking, Reading
<1>8. ListOK(r)
  <2> HIDE DEF r
  <2>. QED BY <1>1, <1>3, <1>4 DEF Resume, At, ListOK, ListWith, WhereOK, MayPass, Outside, Filling, Checking, Reading
<1>. QED BY <1>2, <1>3, <1>4, <1>6, <1>7, <1>8, OneCall

(* CreateProcessInternalW resumes what was not asked for suspended. *)
LEMMA LeaveOK ==
  ASSUME PolicyInv, NEW c \in Caller, Leave(c)
  PROVE  PolicyInv'
<1> DEFINE r == [call[c] EXCEPT !.at = "back", !.suspended = IF call[c].asked THEN @ ELSE @ - 1]
<1>1. call[c] \in CallType /\ (call[c].at # "idle" => call[c].prog \in Prog)
      /\ CallOK(call[c], AfterWin7) /\ ListOK(call[c]) /\ calls \in 0..Calls
  BY DEF PolicyInv, PolicyTypeOK
<1>2. Becomes(c, r) /\ UNCHANGED <<settings, white_list, filled, unread>> /\ calls' \in 0..Calls
  BY <1>1 DEF Leave, OnlyCall, To, At
<1>3. /\ r.at = "back" /\ r.suspended = IF call[c].asked THEN call[c].suspended ELSE call[c].suspended - 1
      /\ r.prog = call[c].prog /\ r.asked = call[c].asked /\ r.answer = call[c].answer /\ r.born = call[c].born
      /\ r.memory = call[c].memory /\ r.remote = call[c].remote /\ r.late = call[c].late /\ r.disturbed = call[c].disturbed
      /\ r.timedOut = call[c].timedOut
  BY <1>1 DEF CallType
<1>4. call[c].suspended \in 0..2 /\ call[c].asked \in BOOLEAN /\ call[c].at \notin Filling /\ r.at \notin Filling
      /\ r.at # "idle" /\ call[c].prog \in Prog
  BY <1>1, <1>3 DEF Leave, At, CallType, Outside, Filling
<1>5. r.suspended \in 0..2
  BY <1>1, <1>3, <1>4 DEF Leave, At, CallOK, Filling, Checking, Reading
<1>6. r \in CallType
  BY <1>1, <1>3, <1>5 DEF CallType, Place, Outside
<1>7. CallOK(r, AfterWin7)
  <2> HIDE DEF r
  <2>. QED BY <1>1, <1>3, <1>4 DEF Leave, At, CallOK, Outside, Filling, Checking, Reading
<1>8. ListOK(r)
  <2> HIDE DEF r
  <2>. QED BY <1>1, <1>3, <1>4 DEF Leave, At, ListOK, ListWith, WhereOK, MayPass, Outside, Filling, Checking, Reading
<1>. QED BY <1>2, <1>3, <1>4, <1>6, <1>7, <1>8, OneCall

(* Who asked for a suspended child resumes it. *)
LEMMA ResumeOwnOK ==
  ASSUME PolicyInv, NEW c \in Caller, ResumeOwn(c)
  PROVE  PolicyInv'
<1> DEFINE r == [call[c] EXCEPT !.at = "gone", !.suspended = IF @ = 0 THEN 0 ELSE @ - 1]
<1>1. call[c] \in CallType /\ (call[c].at # "idle" => call[c].prog \in Prog)
      /\ CallOK(call[c], AfterWin7) /\ ListOK(call[c]) /\ calls \in 0..Calls
  BY DEF PolicyInv, PolicyTypeOK
<1>2. Becomes(c, r) /\ UNCHANGED <<settings, white_list, filled, unread>> /\ calls' \in 0..Calls
  BY <1>1 DEF ResumeOwn, OnlyCall, To, At
<1>3. /\ r.at = "gone" /\ r.suspended = IF call[c].suspended = 0 THEN 0 ELSE call[c].suspended - 1
      /\ r.prog = call[c].prog /\ r.asked = call[c].asked /\ r.answer = call[c].answer /\ r.born = call[c].born
      /\ r.memory = call[c].memory /\ r.remote = call[c].remote /\ r.late = call[c].late /\ r.disturbed = call[c].disturbed
      /\ r.timedOut = call[c].timedOut
  BY <1>1 DEF CallType
<1>4. call[c].suspended \in 0..2 /\ call[c].asked \in BOOLEAN /\ call[c].at \notin Filling /\ r.at \notin Filling
      /\ r.at # "idle" /\ call[c].prog \in Prog
  BY <1>1, <1>3 DEF ResumeOwn, At, CallType, Outside, Filling
<1>5. r.suspended \in 0..2
  BY <1>1, <1>3, <1>4 DEF ResumeOwn, At, CallOK, Filling, Checking, Reading
<1>6. r \in CallType
  BY <1>1, <1>3, <1>5 DEF CallType, Place, Outside
<1>7. CallOK(r, AfterWin7)
  <2> HIDE DEF r
  <2>. QED BY <1>1, <1>3, <1>4 DEF ResumeOwn, At, CallOK, Outside, Filling, Checking, Reading
<1>8. ListOK(r)
  <2> HIDE DEF r
  <2>. QED BY <1>1, <1>3, <1>4 DEF ResumeOwn, At, ListOK, ListWith, WhereOK, MayPass, Outside, Filling, Checking, Reading
<1>. QED BY <1>2, <1>3, <1>4, <1>6, <1>7, <1>8, OneCall

(* A call of the hooks of process creation begins. *)
LEMMA AskProcessOK ==
  ASSUME PolicyInv, NEW c \in Caller, NEW p \in Prog, NEW ask \in BOOLEAN,
         AskProcess(c, p, ask)
  PROVE  PolicyInv'
<1> DEFINE r == [NoCall EXCEPT !.at = IF p \in Risky THEN "create" ELSE "look", !.prog = p,
                              !.what = "process", !.asked = ask, !.late = filled]
<1>1. call[c] \in CallType /\ (call[c].at # "idle" => call[c].prog \in Prog)
      /\ CallOK(call[c], AfterWin7) /\ ListOK(call[c]) /\ calls \in 0..Calls
  BY DEF PolicyInv, PolicyTypeOK
<1>2. Becomes(c, r) /\ UNCHANGED <<settings, white_list, filled, unread>>
  BY DEF AskProcess
<1>3. calls' \in 0..Calls
  <2>1. Calls \in Nat
    BY PolicyAssumption
  <2>. QED BY <1>1, <2>1 DEF AskProcess
<1>4. /\ r.at \in {"create", "look"} /\ r.prog = p /\ r.what = "process" /\ r.asked = ask
      /\ r.answer = "" /\ r.born = FALSE /\ r.suspended = 0 /\ r.dead = FALSE
      /\ r.memory = "none" /\ r.remote = "none" /\ r.late = filled
      /\ r.disturbed = FALSE /\ r.gaveUp = FALSE /\ r.timedOut = FALSE
  BY DEF NoCall
<1>5. r \in CallType
  <2>1. filled \in BOOLEAN
    BY DEF PolicyInv, PolicyTypeOK
  <2>2. NoCall \in CallType
    BY NoCallOK
  <2>3. (IF p \in Risky THEN "create" ELSE "look") \in Place
    BY DEF Place
  <2>. QED BY <2>1, <2>2, <2>3 DEF CallType
<1>6. CallOK(r, AfterWin7)
  <2> HIDE DEF r
  <2>. QED BY <1>4 DEF CallOK, Filling, Checking, Reading
<1>8. ListOK(r)
  <2>1. r.late => filled
    OBVIOUS
  <2> HIDE DEF r
  <2>. QED BY <1>4, <2>1 DEF ListOK, ListWith, WhereOK, MayPass, Filling, Checking, Reading
<1>7. call[c].at \notin Filling
  BY DEF AskProcess, Filling
<1>. QED BY <1>2, <1>3, <1>4, <1>5, <1>6, <1>7, <1>8, OneCall

(* A call of HookLoadLibraryExW begins. *)
LEMMA AskModuleOK ==
  ASSUME PolicyInv, NEW c \in Caller, NEW p \in Prog, AskModule(c, p)
  PROVE  PolicyInv'
<1> DEFINE r == [NoCall EXCEPT !.at = "look", !.prog = p, !.what = "module", !.late = filled]
<1>1. call[c] \in CallType /\ (call[c].at # "idle" => call[c].prog \in Prog)
      /\ CallOK(call[c], AfterWin7) /\ ListOK(call[c]) /\ calls \in 0..Calls
  BY DEF PolicyInv, PolicyTypeOK
<1>2. Becomes(c, r) /\ UNCHANGED <<settings, white_list, filled, unread>>
  BY DEF AskModule
<1>3. calls' \in 0..Calls
  <2>1. Calls \in Nat
    BY PolicyAssumption
  <2>. QED BY <1>1, <2>1 DEF AskModule
<1>4. /\ r.at = "look" /\ r.prog = p /\ r.asked = FALSE
      /\ r.answer = "" /\ r.born = FALSE /\ r.suspended = 0
      /\ r.memory = "none" /\ r.remote = "none" /\ r.late = filled
  BY DEF NoCall
<1>5. r \in CallType
  <2>1. filled \in BOOLEAN
    BY DEF PolicyInv, PolicyTypeOK
  <2>2. NoCall \in CallType
    BY NoCallOK
  <2>. QED BY <2>1, <2>2 DEF CallType, Place
<1>6. CallOK(r, AfterWin7)
  <2> HIDE DEF r
  <2>. QED BY <1>4 DEF CallOK, Filling, Checking, Reading
<1>8. ListOK(r)
  <2>1. r.late => filled
    OBVIOUS
  <2> HIDE DEF r
  <2>. QED BY <1>4, <2>1 DEF ListOK, ListWith, WhereOK, MayPass, Filling, Checking, Reading
<1>7. call[c].at \notin Filling
  BY DEF AskModule, Filling
<1>. QED BY <1>2, <1>3, <1>4, <1>5, <1>6, <1>7, <1>8, OneCall

(* A call that made no process is forgotten. *)
LEMMA ForgetOK ==
  ASSUME PolicyInv, NEW c \in Caller, Forget(c)
  PROVE  PolicyInv'
<1>1. NoCall.at = "idle"
  BY DEF NoCall
<1>2. Becomes(c, NoCall) /\ UNCHANGED <<settings, white_list, filled, unread>> /\ calls' \in 0..Calls
  BY DEF Forget, OnlyCall, PolicyInv, PolicyTypeOK
<1>3. call[c].at \notin Filling
  BY DEF Forget, Filling
<1>. QED BY <1>1, <1>2, <1>3, NoCallOK, OneCall DEF ListOK

(* The thread in the child is started or is not. *)
LEMMA CreateRemoteThreadOK ==
  ASSUME PolicyInv, NEW c \in Caller, CreateRemoteThread(c)
  PROVE  PolicyInv'
<1>1. call[c] \in CallType /\ (call[c].at # "idle" => call[c].prog \in Prog)
      /\ CallOK(call[c], AfterWin7) /\ ListOK(call[c]) /\ calls \in 0..Calls
  BY DEF PolicyInv, PolicyTypeOK
<1>2. ASSUME NEW r, \/ r = [call[c] EXCEPT !.at = "wait", !.remote = "running"]
                    \/ r = [call[c] EXCEPT !.at = "free"],
             Becomes(c, r)
      PROVE  PolicyInv'
  <2>1. UNCHANGED <<settings, white_list, filled, unread>> /\ calls' \in 0..Calls
    BY <1>1 DEF CreateRemoteThread, OnlyCall
  <2>2. call[c].at = "remote" /\ call[c].at \notin Filling /\ call[c].prog \in Prog
    BY <1>1 DEF CreateRemoteThread, At, Filling
  <2>3. r \in CallType
    <3>1. {"wait", "free"} \subseteq Place
      BY DEF Place
    <3>2. CASE r = [call[c] EXCEPT !.at = "wait", !.remote = "running"]
      BY <1>1, <3>1, <3>2 DEF CallType
    <3>3. CASE r = [call[c] EXCEPT !.at = "free"]
      BY <1>1, <3>1, <3>3 DEF CallType
    <3>. QED BY <1>2, <3>2, <3>3
  <2>4. /\ (r.at = "wait" /\ r.remote = "running") \/ (r.at = "free" /\ r.remote = call[c].remote)
        /\ r.prog = call[c].prog /\ r.asked = call[c].asked /\ r.answer = call[c].answer
        /\ r.born = call[c].born /\ r.suspended = call[c].suspended /\ r.memory = call[c].memory
        /\ r.late = call[c].late /\ r.disturbed = call[c].disturbed /\ r.timedOut = call[c].timedOut
    BY <1>1, <1>2 DEF CallType
  <2>5. CallOK(r, AfterWin7)
    BY <1>1, <2>2, <2>4 DEF CallOK, Filling, Checking, Reading
  <2>6. ListOK(r)
    BY <1>1, <2>2, <2>4 DEF ListOK, ListWith, WhereOK, MayPass, Filling, Checking, Reading
  <2>. QED BY <1>2, <2>1, <2>2, <2>3, <2>4, <2>5, <2>6, OneCall
<1>. QED BY <1>2 DEF CreateRemoteThread, To

(* Memory in the child is there or is not. *)
LEMMA AllocateOK ==
  ASSUME PolicyInv, NEW c \in Caller, Allocate(c)
  PROVE  PolicyInv'
<1>1. call[c] \in CallType /\ (call[c].at # "idle" => call[c].prog \in Prog)
      /\ CallOK(call[c], AfterWin7) /\ ListOK(call[c]) /\ calls \in 0..Calls
  BY DEF PolicyInv, PolicyTypeOK
<1>2. PICK m \in {"held", "failed"} :
        Becomes(c, [call[c] EXCEPT !.memory = m, !.at = IF AfterWin7 THEN "resume" ELSE "remote"])
  BY DEF Allocate
<1> DEFINE r == [call[c] EXCEPT !.memory = m, !.at = IF AfterWin7 THEN "resume" ELSE "remote"]
<1>3. UNCHANGED <<settings, white_list, filled, unread>> /\ calls' \in 0..Calls
  BY <1>1 DEF Allocate, OnlyCall
<1>4. r \in CallType /\ r.prog \in Prog /\ call[c].at \notin Filling
  BY <1>1 DEF Allocate, At, CallType, Place, Filling
<1>5. CallOK(r, AfterWin7)
  BY <1>1 DEF Allocate, At, CallOK, CallType, Filling, Checking, Reading
<1>6. ListOK(r)
  BY <1>1 DEF Allocate, At, ListOK, ListWith, WhereOK, MayPass, CallType, Filling, Checking, Reading
<1>. QED BY <1>2, <1>3, <1>4, <1>5, <1>6, OneCall

(* The thread in the child ends. *)
LEMMA RemoteEndsOK ==
  ASSUME PolicyInv, NEW c \in Caller, RemoteEnds(c)
  PROVE  PolicyInv'
<1> DEFINE r == [call[c] EXCEPT !.remote = "ended", !.dead = (call[c].memory # "held")]
<1>1. call[c] \in CallType /\ (call[c].at # "idle" => call[c].prog \in Prog)
      /\ CallOK(call[c], AfterWin7) /\ ListOK(call[c]) /\ calls \in 0..Calls
  BY DEF PolicyInv, PolicyTypeOK
<1>2. Becomes(c, r) /\ UNCHANGED <<settings, white_list, filled, unread>> /\ calls' \in 0..Calls
  BY <1>1 DEF RemoteEnds, OnlyCall
<1>3. (call[c].memory # "held") \in BOOLEAN
  OBVIOUS
<1>4. r \in CallType
  BY <1>1, <1>3 DEF CallType
<1>5. /\ r.at = call[c].at /\ r.remote = "ended" /\ r.prog = call[c].prog /\ r.asked = call[c].asked
      /\ r.answer = call[c].answer /\ r.born = call[c].born /\ r.suspended = call[c].suspended
      /\ r.memory = call[c].memory /\ r.late = call[c].late /\ r.disturbed = call[c].disturbed
      /\ r.timedOut = call[c].timedOut
  BY <1>1 DEF CallType
<1>6. call[c].at \notin Filling \union Checking
  BY <1>1 DEF RemoteEnds, CallOK
<1>7. CallOK(r, AfterWin7)
  <2> HIDE DEF r
  <2>. QED BY <1>1, <1>5, <1>6 DEF RemoteEnds, CallOK, Filling, Checking, Reading
<1>8. ListOK(r)
  <2> HIDE DEF r
  <2>. QED BY <1>1, <1>5, <1>6 DEF ListOK, ListWith, WhereOK, MayPass, Filling, Checking, Reading
<1>. QED BY <1>1, <1>2, <1>4, <1>5, <1>6, <1>7, <1>8, OneCall

(* The system creates the process and the hook suspends it once more. *)
LEMMA CreateOK ==
  ASSUME PolicyInv, NEW c \in Caller, Create(c)
  PROVE  PolicyInv'
<1>1. call[c] \in CallType /\ call[c].prog \in Prog /\ call[c].asked \in BOOLEAN
      /\ CallOK(call[c], AfterWin7) /\ ListOK(call[c]) /\ calls \in 0..Calls
  BY DEF PolicyInv, PolicyTypeOK, Create, At, CallType
<1>2. call[c].at = "create" /\ call[c].at \notin Filling
  BY DEF Create, At, Filling
<1>3. ASSUME NEW n \in 0..2, NEW place \in {"inject", "leave", "back"},
             Becomes(c, [call[c] EXCEPT !.born = TRUE, !.suspended = n, !.at = place]),
             place = "inject" => call[c].prog \in Risky /\ n = IF AfterWin7 THEN 2 ELSE 1,
             place = "leave" => AfterWin7 /\ n = 1,
             place = "back" => (call[c].asked => n = 1)
      PROVE  PolicyInv'
  <2> DEFINE r == [call[c] EXCEPT !.born = TRUE, !.suspended = n, !.at = place]
  <2>1. r \in CallType
    BY <1>1 DEF CallType, Place
  <2>2. /\ r.at = place /\ r.born = TRUE /\ r.suspended = n /\ r.prog = call[c].prog
        /\ r.asked = call[c].asked /\ r.answer = call[c].answer /\ r.memory = call[c].memory
        /\ r.remote = call[c].remote /\ r.late = call[c].late /\ r.disturbed = call[c].disturbed
        /\ r.timedOut = call[c].timedOut
    BY <1>1 DEF CallType
  <2>3. call[c].memory = "none" /\ call[c].remote = "none"
    BY <1>1, <1>2 DEF CallOK, Filling, Checking, Reading
  <2>4. CallOK(r, AfterWin7)
    <3> HIDE DEF r
    <3>. QED BY <1>1, <1>2, <1>3, <2>2, <2>3 DEF CallOK, Filling, Checking, Reading
  <2>5. ListOK(r)
    <3> HIDE DEF r
    <3>. QED BY <1>1, <2>2 DEF ListOK, ListWith, WhereOK, MayPass, Filling, Checking, Reading
  <2>6. UNCHANGED <<settings, white_list, filled, unread>> /\ calls' \in 0..Calls
    BY <1>1 DEF Create, OnlyCall
  <2>. QED BY <1>1, <1>2, <1>3, <2>1, <2>2, <2>4, <2>5, <2>6, OneCall
<1>4. CASE AfterWin7 /\ call[c].prog \in Risky
           /\ Becomes(c, [call[c] EXCEPT !.born = TRUE, !.suspended = 2, !.at = "inject"])
  BY <1>3, <1>4
<1>5. CASE AfterWin7 /\ Becomes(c, [call[c] EXCEPT !.born = TRUE, !.suspended = 1, !.at = "leave"])
  BY <1>3, <1>5
<1>6. CASE ~AfterWin7 /\ call[c].prog \in Risky
           /\ Becomes(c, [call[c] EXCEPT !.born = TRUE, !.suspended = 1, !.at = "inject"])
  BY <1>3, <1>6
<1>7. CASE Becomes(c, [call[c] EXCEPT !.born = TRUE, !.suspended = IF call[c].asked THEN 1 ELSE 0,
                                      !.at = "back"])
  <2>1. CASE call[c].asked
    <3>1. Becomes(c, [call[c] EXCEPT !.born = TRUE, !.suspended = 1, !.at = "back"])
      BY <1>7, <2>1
    <3>. QED BY <1>3, <3>1
  <2>2. CASE ~call[c].asked
    <3>1. Becomes(c, [call[c] EXCEPT !.born = TRUE, !.suspended = 0, !.at = "back"])
      BY <1>7, <2>2
    <3>. QED BY <1>3, <2>2, <3>1
  <2>. QED BY <2>1, <2>2
<1>. QED BY <1>4, <1>5, <1>6, <1>7 DEF Create

(* run_process goes its own way. *)
LEMMA GoOnOK ==
  ASSUME PolicyInv, NEW c \in Caller, GoOn(c)
  PROVE  PolicyInv'
<1> DEFINE r == [call[c] EXCEPT !.at = "gone"]
<1>1. call[c] \in CallType /\ (call[c].at # "idle" => call[c].prog \in Prog)
      /\ CallOK(call[c], AfterWin7) /\ ListOK(call[c]) /\ calls \in 0..Calls
  BY DEF PolicyInv, PolicyTypeOK
<1>2. Becomes(c, r) /\ UNCHANGED <<settings, white_list, filled, unread>> /\ calls' \in 0..Calls
  BY <1>1 DEF GoOn, OnlyCall, To, At
<1>3. r \in CallType /\ r.prog \in Prog /\ call[c].at \notin Filling
  BY <1>1 DEF GoOn, At, CallType, Place, Filling
<1>4. CallOK(r, AfterWin7)
  BY <1>1 DEF GoOn, At, CallOK, CallType, Filling, Checking, Reading
<1>5. ListOK(r)
  BY <1>1 DEF GoOn, At, ListOK, ListWith, WhereOK, MayPass, CallType, Filling, Checking, Reading
<1>. QED BY <1>2, <1>3, <1>4, <1>5, OneCall

-------------------------------------------------------------------------------
(* The steps at work on the list, and the answer *)

(* What is known of a call at work on the list *)
LEMMA OfCall ==
  ASSUME PolicyInv, NEW c \in Caller, call[c].at \in Filling \union Checking \union {"look"}
  PROVE  /\ call[c] \in CallType /\ call[c].prog \in Prog
         /\ CallOK(call[c], AfterWin7) /\ WhereOK(call[c])
         /\ ListWith(call[c], white_list, filled, unread)
         /\ white_list \in [Entries -> Text] /\ calls \in 0..Calls
         /\ filled \in BOOLEAN /\ unread \in BOOLEAN /\ section \in BOOLEAN
         /\ filled => white_list[Mark] # "empty"
         /\ white_list[Mark] # "raw"
         /\ \A e \in Section : white_list[e] # "empty" => section
         /\ call[c].entry \in Entries
<1>1. call[c].at # "idle"
  BY DEF Filling, Checking, Reading
<1>2. call[c] \in CallType
  BY DEF PolicyInv, PolicyTypeOK
<1>3. call[c].entry \in Entries
  BY <1>2 DEF CallType
<1>. QED BY <1>1, <1>2, <1>3 DEF PolicyInv, PolicyTypeOK, ListOK

(* The record of a call that goes to another place or entry of the list *)
Moved(s, place, e, t, met) ==
  [s EXCEPT !.at = place, !.entry = e, !.text = t, !.disturbed = met]

(* It keeps what the injection knows of the call. *)
LEMMA Stays ==
  ASSUME NEW s \in CallType, NEW place \in Filling \union Checking, NEW e \in Entries,
         NEW t \in Text, NEW met \in BOOLEAN, s.prog \in Prog,
         s.at \in Filling \union Checking \union {"look"}, CallOK(s, AfterWin7),
         NEW r, r = Moved(s, place, e, t, met)
  PROVE  /\ r \in CallType /\ r.prog \in Prog /\ CallOK(r, AfterWin7)
         /\ r.at = place /\ r.entry = e /\ r.text = t /\ r.disturbed = met
         /\ r.prog = s.prog /\ r.late = s.late /\ r.answer = s.answer
<1>1. place \in Place
  BY DEF Filling, Checking, Reading, Place
<1>2. r \in CallType
  BY <1>1 DEF CallType, Moved
<1>3. /\ r.at = place /\ r.entry = e /\ r.text = t /\ r.disturbed = met
      /\ r.prog = s.prog /\ r.late = s.late /\ r.answer = s.answer
      /\ r.asked = s.asked /\ r.born = s.born /\ r.suspended = s.suspended
      /\ r.memory = s.memory /\ r.remote = s.remote /\ r.timedOut = s.timedOut
  BY DEF CallType, Moved
<1>4. CallOK(r, AfterWin7)
  BY <1>3 DEF CallOK, Filling, Checking, Reading
<1>. QED BY <1>2, <1>3, <1>4

(* An entry that a call begins to write is not emptied by that. *)
LEMMA BeginsIs ==
  ASSUME white_list \in [Entries -> Text], NEW c \in Caller, NEW es, NEW t \in Text, NEW place,
         Begins(c, es, t, place)
  PROVE  /\ white_list' \in [Entries -> Text]
         /\ \A e \in Entries :
              white_list'[e] = white_list[e] \/ (e \in es /\ white_list'[e] \in {"mixed", "spoilt"})
<1> DEFINE spoils == {e \in Entries : \E d \in Caller \ {c} : e \in WritesTo(call[d]) /\ call[d].text # t}
<1>1. white_list' =
        [e \in Entries |->
           IF e \notin es THEN white_list[e]
           ELSE IF e \in spoils THEN "spoilt"
           ELSE IF white_list[e] = t THEN t ELSE "mixed"]
  BY Zenon DEF Begins
<1>2. {"mixed", "spoilt"} \subseteq Text
  BY DEF Text
<1> HIDE DEF spoils
<1>. QED BY <1>1, <1>2

(* An entry that it has written holds its text, or what two calls made of it. *)
LEMMA EndsIs ==
  ASSUME white_list \in [Entries -> Text], NEW c \in Caller, call[c] \in CallType,
         NEW place, NEW next, Ends(c, place, next)
  PROVE  /\ white_list' \in [Entries -> Text]
         /\ \A e \in Entries :
              \/ white_list'[e] = white_list[e] /\ (e \notin WritesTo(call[c]) \/ white_list[e] = "spoilt")
              \/ white_list'[e] = call[c].text /\ e \in WritesTo(call[c])
<1>1. call[c].text \in Text
  BY DEF CallType
<1>2. white_list' = [e \in Entries |->
                       IF e \in WritesTo(call[c]) /\ white_list[e] # "spoilt" THEN call[c].text
                       ELSE white_list[e]]
  BY DEF Ends
<1>. QED BY <1>1, <1>2

(* A call begins to write, be it one that fills the list or one that reads it. *)
LEMMA BeginOK ==
  ASSUME PolicyInv, NEW c \in Caller, NEW es \in SUBSET Entries, NEW t \in Text, NEW place,
         Begins(c, es, t, place), OnlyList, policy = "on",
         \/ call[c].at \in Filling /\ place \in Filling
         \/ call[c].at \in Checking /\ place \in Checking,
         \A e \in es : e \in Section => section,
         Mark \in es => call[c].at \in Checking \/ call[c].entry = Mark,
         NEW r, r = [call[c] EXCEPT !.at = place, !.text = t], WhereOK(r)
  PROVE  PolicyInv'
<1>1. /\ call[c] \in CallType /\ call[c].prog \in Prog
      /\ CallOK(call[c], AfterWin7) /\ WhereOK(call[c])
      /\ ListWith(call[c], white_list, filled, unread)
      /\ white_list \in [Entries -> Text] /\ calls \in 0..Calls
      /\ filled \in BOOLEAN /\ unread \in BOOLEAN
      /\ filled => white_list[Mark] # "empty"
      /\ white_list[Mark] # "raw"
      /\ \A e \in Section : white_list[e] # "empty" => section
      /\ call[c].entry \in Entries
  BY OfCall
<1>2. /\ r = Moved(call[c], place, call[c].entry, t, call[c].disturbed)
      /\ call[c].disturbed \in BOOLEAN
  BY <1>1 DEF CallType, Moved
<1>3. /\ r \in CallType /\ r.prog \in Prog /\ CallOK(r, AfterWin7)
      /\ r.at = place /\ r.entry = call[c].entry /\ r.disturbed = call[c].disturbed
      /\ r.prog = call[c].prog /\ r.late = call[c].late /\ r.answer = call[c].answer
  <2>1. /\ place \in Filling \union Checking
        /\ call[c].at \in Filling \union Checking \union {"look"}
    OBVIOUS
  <2>. QED BY <1>1, <1>2, <2>1, Stays
<1>4. /\ white_list' \in [Entries -> Text]
      /\ \A e \in Entries :
              white_list'[e] = white_list[e] \/ (e \in es /\ white_list'[e] \in {"mixed", "spoilt"})
  BY <1>1, BeginsIs
<1>5. Becomes(c, r) /\ UNCHANGED <<settings, calls, filled, unread>>
  BY DEF Begins, OnlyList
<1>6. Mark \in Entries /\ Section \subseteq Entries /\ Self..Rest \subseteq Entries /\ Entries \subseteq Int
      /\ Mark \in Int /\ Mark \in Self..Rest
  BY EntriesAre
<1>7. \A e \in Entries : white_list[e] # "empty" => white_list'[e] # "empty"
  BY <1>4
<1>8. ListWith(r, white_list', filled', unread')
  <2>1. Filling \intersect Checking = {}
    BY DEF Filling, Checking, Reading
  <2>. QED BY <1>1, <1>3, <1>5, <1>6, <1>7, <2>1 DEF ListWith, MayPass
<1>9. ASSUME NEW e \in Entries, white_list'[e] = "empty", white_list'[Mark] # "empty",
             e \notin ToFill(r)
      PROVE  white_list[e] = "empty" /\ white_list[Mark] # "empty" /\ e \notin ToFill(call[c])
  <2>1. white_list[e] = "empty"
    BY <1>4, <1>9
  <2>2. e \notin ToFill(call[c])
    BY <1>3, <1>9 DEF ToFill, Filling, Checking, Reading
  <2>3. white_list[Mark] # "empty"
    <3>1. CASE Mark \notin es
      BY <1>4, <1>6, <1>9, <3>1
    <3>2. CASE call[c].at \in Checking
      BY <1>1, <3>2 DEF ListWith
    <3>3. CASE call[c].at \in Filling /\ call[c].entry = Mark
      <4>1. ~(e >= Mark)
        BY <2>2, <3>3 DEF ToFill
      <4>2. e \in Self..Rest /\ e < call[c].entry
        BY <3>3, <4>1, EntriesAre
      <4>. QED BY <1>1, <2>1, <3>3, <4>2 DEF ListWith
    <3>. QED BY <3>1, <3>2, <3>3
  <2>. QED BY <2>1, <2>2, <2>3
<1>10. /\ \A e \in Self..Rest : white_list[e] # "empty" => white_list'[e] # "empty"
       /\ filled' => white_list'[Mark] # "empty"
       /\ white_list'[Mark] # "raw"
  BY <1>1, <1>4, <1>5, <1>6, <1>7
<1>11. \A e \in Section : white_list'[e] # "empty" => section
  BY <1>1, <1>4, <1>6
<1>. QED BY <1>1, <1>3, <1>4, <1>5, <1>8, <1>9, <1>10, <1>11, OneCallOfList

(* An entry before the section is filled, by whichever call. *)
LEMMA FillOK ==
  ASSUME PolicyInv, NEW c \in Caller, Fill(c)
  PROVE  PolicyInv'
<1>1. call[c].at \in {"fill", "filling"} /\ call[c].at \in Filling /\ policy = "on" /\ OnlyList
  BY DEF Fill, At, Filling
<1>2. /\ call[c] \in CallType /\ call[c].prog \in Prog
      /\ CallOK(call[c], AfterWin7) /\ WhereOK(call[c])
      /\ ListWith(call[c], white_list, filled, unread)
      /\ white_list \in [Entries -> Text] /\ calls \in 0..Calls
      /\ filled \in BOOLEAN /\ unread \in BOOLEAN
      /\ filled => white_list[Mark] # "empty"
      /\ white_list[Mark] # "raw"
      /\ \A e \in Section : white_list[e] # "empty" => section
  BY <1>1, OfCall
<1>3. call[c].entry \in Self..Rest
  BY <1>1, <1>2 DEF WhereOK
<1>4. CASE At(c, "fill") /\ Begins(c, {call[c].entry}, "full", "filling")
  <2>1. {call[c].entry} \in SUBSET Entries /\ \A e \in {call[c].entry} : e \notin Section
    BY <1>3, EntriesAre
  <2>2. "full" \in Text /\ "filling" \in Filling
    BY DEF Text, Filling
  <2> DEFINE r == [call[c] EXCEPT !.at = "filling", !.text = "full"]
  <2>3. r.at = "filling" /\ r.text = "full" /\ r.entry = call[c].entry
    BY <1>2 DEF CallType
  <2>4. WhereOK(r)
    <3> HIDE DEF r
    <3>. QED BY <1>3, <2>3 DEF WhereOK, Reading
  <2>. QED BY <1>1, <1>4, <2>1, <2>2, <2>4, BeginOK
<1>5. CASE At(c, "filling")
           /\ Ends(c, IF call[c].entry = Rest THEN "section" ELSE "fill", call[c].entry + 1)
  <2> DEFINE k == call[c].entry
             place == IF k = Rest THEN "section" ELSE "fill"
             r == [call[c] EXCEPT !.at = place, !.entry = k + 1, !.text = "empty"]
  <2>1. call[c].at = "filling" /\ call[c].text = "full" /\ call[c].disturbed \in BOOLEAN
    BY <1>2, <1>5 DEF At, WhereOK, CallType
  <2>2. r = Moved(call[c], place, k + 1, "empty", call[c].disturbed)
    BY <1>2 DEF Moved, CallType
  <2>3. place \in {"section", "fill"} /\ place \in Filling \union Checking /\ k + 1 \in Entries /\ "empty" \in Text
    BY <1>3, EntriesAre DEF Filling, Text
  <2>4. /\ r \in CallType /\ r.prog \in Prog /\ CallOK(r, AfterWin7)
        /\ r.at = place /\ r.entry = k + 1 /\ r.disturbed = call[c].disturbed
        /\ r.prog = call[c].prog /\ r.late = call[c].late /\ r.answer = call[c].answer
    <3> HIDE DEF r, place, k
    <3>. QED BY <1>1, <1>2, <2>1, <2>2, <2>3, Stays
  <2>5. Becomes(c, r) /\ UNCHANGED <<settings, calls, filled, unread>>
    BY <1>1, <1>5 DEF Ends, OnlyList
  <2>6. /\ white_list' \in [Entries -> Text]
        /\ \A e \in Entries :
             \/ white_list'[e] = white_list[e] /\ (e # k \/ white_list[e] = "spoilt")
             \/ white_list'[e] = "full" /\ e = k
    <3>1. \A e \in Entries : e \in WritesTo(call[c]) <=> e = k
      BY <2>1 DEF WritesTo
    <3>. QED BY <1>2, <1>5, <2>1, <3>1, EndsIs
  <2>7. k = Rest => place = "section"
    OBVIOUS
  <2>8. k # Rest => place = "fill"
    OBVIOUS
  <2> HIDE DEF r, place
  <2>9. WhereOK(r)
    BY <1>3, <2>3, <2>4, <2>7, <2>8, EntriesAre DEF WhereOK, Reading
  <2>10. \A e \in Self..Rest : e \in Entries /\ (e < k => white_list[e] # "empty")
    BY <1>1, <1>2, EntriesAre DEF ListWith
  <2>11. \A e \in Self..Rest : e < k + 1 => white_list'[e] # "empty"
    BY <1>3, <2>6, <2>10, EntriesAre
  <2>12. ListWith(r, white_list', filled', unread')
    BY <1>1, <1>2, <2>3, <2>4, <2>5, <2>11 DEF ListWith, MayPass, Filling, Checking, Reading
  <2>13. ASSUME NEW e \in Entries, white_list'[e] = "empty" PROVE e \in ToFill(r)
    <3>1. ~(e < k + 1)
      BY <1>3, <2>11, <2>13, EntriesAre
    <3>. QED BY <1>3, <2>3, <2>4, <3>1, EntriesAre DEF ToFill, Filling
  <2>14. Mark \in Entries /\ Section \subseteq Entries /\ k \notin Section
         /\ \A e \in Self..Rest : e \in Entries
    BY <1>3, EntriesAre
  <2>15. /\ \A e \in Self..Rest : white_list[e] # "empty" => white_list'[e] # "empty"
         /\ filled' => white_list'[Mark] # "empty"
         /\ white_list'[Mark] # "raw"
         /\ \A e \in Section : white_list'[e] # "empty" => section
    BY <1>2, <2>5, <2>6, <2>14
  <2>. QED BY <1>1, <1>2, <2>4, <2>5, <2>6, <2>9, <2>12, <2>13, <2>15, OneCallOfList
<1>. QED BY <1>4, <1>5 DEF Fill

(* A call that fills the section's part ends to write there: the entries before it hold,  *)
(* and what is empty was so before, or is cleared. *)
LEMMA EndsInSection ==
  ASSUME PolicyInv, NEW c \in Caller, call[c].at \in {"clearing", "refilling"},
         NEW place \in Filling \union Checking, NEW next \in Entries,
         Ends(c, place, next), UNCHANGED <<settings, calls, unread>>, policy = "on",
         \/ UNCHANGED filled
         \/ filled' = TRUE,
         place \in Filling => next \in Section,
         place \in Checking => next = Self,
         NEW r, r = Moved(call[c], place, next, "empty", call[c].disturbed), WhereOK(r),
         \A e \in Section : call[c].at = "clearing" \/ e > call[c].entry => e \in ToFill(r)
  PROVE  PolicyInv'
<1>1. call[c].at \in Filling /\ "empty" \in Text
  BY DEF Filling, Text
<1>2. /\ call[c] \in CallType /\ call[c].prog \in Prog
      /\ CallOK(call[c], AfterWin7) /\ WhereOK(call[c])
      /\ ListWith(call[c], white_list, filled, unread)
      /\ white_list \in [Entries -> Text] /\ calls \in 0..Calls
      /\ filled \in BOOLEAN /\ unread \in BOOLEAN
      /\ white_list[Mark] # "raw"
      /\ \A e \in Section : white_list[e] # "empty" => section
  BY <1>1, OfCall
<1>3. call[c].entry \in Section /\ section /\ call[c].disturbed \in BOOLEAN
  BY <1>2 DEF WhereOK, CallType
<1>4. /\ r \in CallType /\ r.prog \in Prog /\ CallOK(r, AfterWin7)
      /\ r.at = place /\ r.entry = next /\ r.disturbed = call[c].disturbed
      /\ r.prog = call[c].prog /\ r.late = call[c].late /\ r.answer = call[c].answer
  BY <1>1, <1>2, <1>3, Stays
<1>5. Becomes(c, r)
  <2>1. r = [call[c] EXCEPT !.at = place, !.entry = next, !.text = "empty"]
    BY <1>2 DEF Moved, CallType
  <2>. QED BY <2>1 DEF Ends
<1>6. /\ white_list' \in [Entries -> Text]
      /\ \A e \in Entries :
           \/ white_list'[e] = white_list[e] /\ (e \notin WritesTo(call[c]) \/ white_list[e] = "spoilt")
           \/ white_list'[e] = call[c].text /\ e \in WritesTo(call[c])
  BY <1>2, EndsIs
<1>7. \A e \in WritesTo(call[c]) : e \in Section
  BY <1>3 DEF WritesTo
<1>8. Section \subseteq Entries /\ Mark \in Self..Rest /\ \A e \in Self..Rest : e \in Entries /\ e \notin Section
  BY EntriesAre
<1>9. \A e \in Self..Rest : e < call[c].entry
  BY <1>3, EntriesAre
<1>10. \A e \in Self..Rest : white_list[e] # "empty"
  BY <1>1, <1>2, <1>9 DEF ListWith
<1>11. \A e \in Self..Rest : white_list'[e] = white_list[e]
  BY <1>6, <1>7, <1>8
<1>12. filled' \in BOOLEAN /\ (filled => filled')
  BY <1>2
<1>13. ListWith(r, white_list', filled', unread')
  <2>1. place \in Checking => ~(EntryOf[r.prog] \in Entries) \/ ~(EntryOf[r.prog] < r.entry)
    BY <1>4, EntriesAre
  <2>2. Filling \intersect Checking = {}
    BY DEF Filling, Checking, Reading
  <2>. QED BY <1>1, <1>2, <1>4, <1>8, <1>10, <1>11, <1>12, <2>1, <2>2 DEF ListWith, MayPass, Listed
<1>14. ASSUME NEW e \in Entries, white_list'[e] = "empty", e \notin ToFill(r)
       PROVE  white_list[e] = "empty" /\ white_list[Mark] # "empty" /\ e \notin ToFill(call[c])
  <2>1. e \in Section
    <3>1. e \notin Self..Rest
      BY <1>10, <1>11, <1>14
    <3>. QED BY <3>1, EntriesAre
  <2>2. call[c].at = "refilling" /\ ~(e > call[c].entry)
    BY <1>14, <2>1
  <2>3. e \notin WritesTo(call[c]) \/ white_list[e] = "spoilt"
    BY <1>2, <1>6, <1>14, <2>2 DEF WhereOK
  <2>4. white_list[e] = "empty" /\ e \notin WritesTo(call[c])
    BY <1>2, <1>6, <1>14, <2>2, <2>3 DEF WhereOK
  <2>5. e # call[c].entry
    BY <2>2, <2>4 DEF WritesTo
  <2>6. e < call[c].entry
    BY <1>3, <2>1, <2>2, <2>5, EntriesAre
  <2>7. e \notin ToFill(call[c])
    BY <1>3, <2>1, <2>6, EntriesAre DEF ToFill
  <2>. QED BY <1>8, <1>10, <2>4, <2>7
<1>15. policy = "off" => white_list' = white_list
  OBVIOUS
<1>. QED BY <1>2, <1>3, <1>4, <1>5, <1>6, <1>8, <1>10, <1>11, <1>12, <1>13, <1>14, OneCallOfList

(* The section's part of the list is cleared under the eyes of the others. *)
LEMMA ClearSectionOK ==
  ASSUME PolicyInv, NEW c \in Caller, ClearSection(c)
  PROVE  PolicyInv'
<1>1. call[c].at \in {"section", "clearing"} /\ call[c].at \in Filling /\ policy = "on" /\ OnlyList
  BY DEF ClearSection, At, Filling
<1>2. call[c] \in CallType /\ WhereOK(call[c])
  BY <1>1, OfCall
<1>3. call[c].entry \in Section
  BY <1>1, <1>2 DEF WhereOK
<1>4. CASE At(c, "section") /\ section /\ Begins(c, Section, "empty", "clearing")
  <2>1. Section \in SUBSET Entries /\ Mark \notin Section
    BY EntriesAre
  <2>2. "empty" \in Text /\ "clearing" \in Filling
    BY DEF Text, Filling
  <2> DEFINE r == [call[c] EXCEPT !.at = "clearing", !.text = "empty"]
  <2>3. r.at = "clearing" /\ r.text = "empty" /\ r.entry = call[c].entry
    BY <1>2 DEF CallType
  <2>4. WhereOK(r)
    <3> HIDE DEF r
    <3>. QED BY <1>3, <1>4, <2>3 DEF WhereOK, Reading
  <2>. QED BY <1>1, <1>4, <2>1, <2>2, <2>4, BeginOK
<1>5. CASE At(c, "clearing") /\ Ends(c, "refill", Rest + 1)
  <2> DEFINE r == Moved(call[c], "refill", Rest + 1, "empty", call[c].disturbed)
  <2>1. r.at = "refill" /\ r.entry = Rest + 1
    BY <1>2 DEF CallType, Moved
  <2>2. Rest + 1 \in Section /\ Rest + 1 \in Entries
    BY EntriesAre
  <2>3. call[c].at = "clearing" /\ section
    BY <1>2, <1>5 DEF At, WhereOK
  <2> HIDE DEF r
  <2>4. WhereOK(r)
    BY <2>1, <2>2, <2>3 DEF WhereOK, Reading
  <2>5. \A e \in Section : e \in ToFill(r)
    BY <2>1, EntriesAre DEF ToFill, Filling
  <2>6. UNCHANGED <<settings, calls, unread>> /\ UNCHANGED filled
    BY <1>1 DEF OnlyList
  <2>7. "refill" \in Filling \union Checking /\ "refill" \notin Checking
    BY DEF Filling, Checking, Reading
  <2>. QED BY <1>1, <1>5, <2>2, <2>3, <2>4, <2>5, <2>6, <2>7, EndsInSection DEF r
<1>. QED BY <1>4, <1>5 DEF ClearSection

(* The section's part of the list is filled, line after line. *)
LEMMA FillSectionOK ==
  ASSUME PolicyInv, NEW c \in Caller, FillSection(c)
  PROVE  PolicyInv'
<1>1. call[c].at \in {"refill", "refilling"} /\ call[c].at \in Filling /\ policy = "on"
  BY DEF FillSection, At, Filling
<1>2. call[c] \in CallType /\ WhereOK(call[c])
  BY <1>1, OfCall
<1>3. call[c].entry \in Section /\ section
  BY <1>1, <1>2 DEF WhereOK
<1>4. ASSUME NEW t \in {"raw", "full"}, At(c, "refill"), OnlyList,
             Begins(c, {call[c].entry}, t, "refilling")
      PROVE  PolicyInv'
  <2>1. {call[c].entry} \in SUBSET Entries /\ Mark \notin {call[c].entry}
    BY <1>3, EntriesAre
  <2>2. t \in Text /\ "refilling" \in Filling
    BY DEF Text, Filling
  <2> DEFINE r == [call[c] EXCEPT !.at = "refilling", !.text = t]
  <2>3. r.at = "refilling" /\ r.text = t /\ r.entry = call[c].entry
    BY <1>2 DEF CallType
  <2>4. WhereOK(r)
    <3> HIDE DEF r
    <3>. QED BY <1>3, <2>3 DEF WhereOK, Reading
  <2>. QED BY <1>1, <1>3, <1>4, <2>1, <2>2, <2>4, BeginOK
<1>5. CASE At(c, "refilling") /\ call[c].entry # LastEntry /\ OnlyList
           /\ Ends(c, "refill", call[c].entry + 1)
  <2> DEFINE k == call[c].entry
             r == Moved(call[c], "refill", k + 1, "empty", call[c].disturbed)
  <2>1. r.at = "refill" /\ r.entry = k + 1
    BY <1>2 DEF CallType, Moved
  <2>2. k + 1 \in Section /\ k + 1 \in Entries
    BY <1>3, <1>5, EntriesAre
  <2>3. call[c].at = "refilling"
    BY <1>5 DEF At
  <2> HIDE DEF r
  <2>4. WhereOK(r)
    BY <1>3, <2>1, <2>2 DEF WhereOK, Reading
  <2>5. \A e \in Section : e > k => e \in ToFill(r)
    BY <1>3, <2>1, EntriesAre DEF ToFill, Filling
  <2>6. UNCHANGED <<settings, calls, unread>> /\ UNCHANGED filled
    BY <1>5 DEF OnlyList
  <2>7. "refill" \in Filling \union Checking /\ "refill" \notin Checking
    BY DEF Filling, Checking, Reading
  <2>8. Ends(c, "refill", k + 1)
    BY <1>5
  <2> HIDE DEF k
  <2>. QED BY <1>1, <2>2, <2>3, <2>4, <2>5, <2>6, <2>7, <2>8, EndsInSection DEF r, k
<1>6. CASE At(c, "refilling") /\ call[c].entry = LastEntry /\ Ends(c, "check", Self)
           /\ filled' = TRUE /\ UNCHANGED <<settings, calls, unread>>
  <2> DEFINE r == Moved(call[c], "check", Self, "empty", call[c].disturbed)
  <2>1. r.at = "check" /\ r.entry = Self
    BY <1>2 DEF CallType, Moved
  <2>2. Self \in Entries /\ \A e \in Section : ~(e > call[c].entry)
    BY <1>6, EntriesAre
  <2>3. call[c].at = "refilling"
    BY <1>6 DEF At
  <2> HIDE DEF r
  <2>4. WhereOK(r)
    BY <2>1 DEF WhereOK, Reading
  <2>5. "check" \in Filling \union Checking /\ "check" \notin Filling
    BY DEF Filling, Checking, Reading
  <2>. QED BY <1>1, <1>6, <2>2, <2>3, <2>4, <2>5, EndsInSection DEF r
<1>. QED BY <1>4, <1>5, <1>6 DEF FillSection

(* The section is missing or cannot be read, and the call answers yes. *)
LEMMA NoSectionOK ==
  ASSUME PolicyInv, NEW c \in Caller, NoSection(c)
  PROVE  PolicyInv'
<1>1. call[c].at = "section" /\ call[c].at \in Filling /\ policy = "on"
  BY DEF NoSection, At, Filling
<1>2. /\ call[c] \in CallType /\ call[c].prog \in Prog
      /\ CallOK(call[c], AfterWin7) /\ WhereOK(call[c])
      /\ ListWith(call[c], white_list, filled, unread)
      /\ white_list \in [Entries -> Text] /\ calls \in 0..Calls
      /\ filled \in BOOLEAN /\ unread \in BOOLEAN /\ section \in BOOLEAN
      /\ white_list[Mark] # "raw"
      /\ \A e \in Section : white_list[e] # "empty" => section
  BY <1>1, OfCall
<1>3. PICK place \in After(c, TRUE) :
        Becomes(c, [call[c] EXCEPT !.at = place, !.entry = Self, !.answer = "yes"])
  BY DEF NoSection
<1> DEFINE r == [call[c] EXCEPT !.at = place, !.entry = Self, !.answer = "yes"]
<1>4. UNCHANGED <<settings, white_list, calls>> /\ filled' = TRUE /\ unread' = (unread \/ section)
  BY DEF NoSection
<1>5. place \in {"create", "back"}
  BY DEF After
<1>6. /\ r \in CallType /\ r.at = place /\ r.answer = "yes" /\ r.disturbed = call[c].disturbed
      /\ r.prog = call[c].prog /\ r.asked = call[c].asked
      /\ r.born = call[c].born /\ r.suspended = call[c].suspended /\ r.memory = call[c].memory
      /\ r.remote = call[c].remote /\ r.late = call[c].late /\ r.timedOut = call[c].timedOut
  <2>1. place \in Place /\ Self \in Entries
    BY <1>5, EntriesAre DEF Place
  <2>. QED BY <1>2, <2>1 DEF CallType
<1> HIDE DEF r
<1>7. CallOK(r, AfterWin7) /\ WhereOK(r)
  BY <1>1, <1>2, <1>5, <1>6 DEF CallOK, WhereOK, Filling, Checking, Reading
<1>8. call[c].entry \in Section
  BY <1>1, <1>2 DEF WhereOK
<1>9. Mark \in Self..Rest /\ Mark < call[c].entry
  BY <1>8, EntriesAre
<1>10. white_list[Mark] # "empty"
  BY <1>1, <1>2, <1>9 DEF ListWith
<1>11. ListWith(r, white_list', filled', unread')
  BY <1>1, <1>2, <1>4, <1>5, <1>6 DEF ListWith, Filling, Checking, Reading
<1>12. (unread' \in BOOLEAN) /\ (unread => unread') /\ (section => unread') /\ filled' \in BOOLEAN
  BY <1>2, <1>4
<1>13. ASSUME NEW e \in Entries, white_list'[e] = "empty"
       PROVE  \/ e \in Section /\ (~section \/ unread')
              \/ white_list[e] = "empty" /\ white_list[Mark] # "empty" /\ e \notin ToFill(call[c])
  <2>1. e \in ToFill(call[c]) => e \in Section
    BY <1>8, EntriesAre DEF ToFill
  <2>. QED BY <1>4, <1>10, <1>12, <1>13, <2>1
<1>14. Becomes(c, r)
  BY <1>3 DEF r
<1>. QED BY <1>1, <1>2, <1>4, <1>6, <1>7, <1>10, <1>11, <1>12, <1>13, <1>14, OneCallOfList

(* in_whitelist looks whether the list is filled. *)
LEMMA LookOK ==
  ASSUME PolicyInv, NEW c \in Caller, Look(c)
  PROVE  PolicyInv'
<1>1. call[c].at = "look" /\ policy = "on" /\ OnlyCall
  BY DEF Look, LooksFilled, At
<1>2. /\ call[c] \in CallType /\ call[c].prog \in Prog
      /\ CallOK(call[c], AfterWin7) /\ WhereOK(call[c])
      /\ ListWith(call[c], white_list, filled, unread)
      /\ white_list \in [Entries -> Text] /\ calls \in 0..Calls
      /\ filled => white_list[Mark] # "empty"
      /\ white_list[Mark] # "raw"
  BY <1>1, OfCall
<1>3. PICK found \in IF Torn(Mark) THEN BOOLEAN ELSE {white_list[Mark] = "full"} :
        Becomes(c, [call[c] EXCEPT !.at = IF found THEN "check" ELSE "fill", !.entry = Self,
                                   !.disturbed = @ \/ Torn(Mark)])
  BY DEF Look, LooksFilled
<1> DEFINE place == IF found THEN "check" ELSE "fill"
           met == call[c].disturbed \/ Torn(Mark)
           r == [call[c] EXCEPT !.at = place, !.entry = Self, !.disturbed = met]
<1>4. found => white_list[Mark] # "empty"
  BY <1>3 DEF Torn
<1>5. ~found => Torn(Mark) \/ white_list[Mark] # "full"
  BY <1>3
<1>6. Mark \in Entries /\ Self \in Entries
  BY EntriesAre
<1>7. white_list[Mark] \in Text
  BY <1>2, <1>6
<1>8. ~found /\ filled => Torn(Mark)
  BY <1>2, <1>5, <1>7 DEF Torn, Text
<1>9. place = (IF found THEN "check" ELSE "fill") /\ place \in Filling \union Checking
  BY DEF Filling, Checking, Reading
<1>10. call[c].text \in Text /\ call[c].disturbed \in BOOLEAN /\ met \in BOOLEAN
  BY <1>2 DEF CallType
<1>11. r = Moved(call[c], place, Self, call[c].text, met)
  BY <1>2 DEF Moved, CallType
<1>12. Becomes(c, r)
  BY <1>3
<1>13. met <=> call[c].disturbed \/ Torn(Mark)
  BY <1>10
<1> HIDE DEF r, place, met
<1>14. /\ r \in CallType /\ r.prog \in Prog /\ CallOK(r, AfterWin7)
       /\ r.at = place /\ r.entry = Self /\ r.disturbed = met
       /\ r.prog = call[c].prog /\ r.late = call[c].late /\ r.answer = call[c].answer
  BY <1>1, <1>2, <1>6, <1>9, <1>10, <1>11, Stays
<1>15. WhereOK(r)
  <2>1. Self \in Self..Rest
    BY EntriesAre
  <2>. QED BY <1>9, <1>14, <2>1 DEF WhereOK, Reading
<1>16. ListWith(r, white_list, filled, unread)
  <2>1. \A e \in Self..Rest : ~(e < r.entry)
    BY <1>14, EntriesAre
  <2>2. ~(EntryOf[r.prog] \in Entries) \/ ~(EntryOf[r.prog] < r.entry)
    BY <1>14, EntriesAre
  <2>3. r.at \in Filling => ~found
    BY <1>9, <1>14 DEF Filling
  <2>4. r.at \in Checking => found
    BY <1>9, <1>14 DEF Checking, Reading
  <2>5. call[c].late => filled
    BY <1>2 DEF ListWith
  <2>6. call[c].answer = "yes" => Listed(r.prog) \/ ~r.late \/ r.disturbed
    BY <1>2, <1>13, <1>14 DEF ListWith
  <2>7. call[c].answer = "no" => MayPass(r, unread)
    BY <1>2, <1>13, <1>14 DEF ListWith, MayPass
  <2>. QED BY <1>4, <1>8, <1>13, <1>14, <2>1, <2>2, <2>3, <2>4, <2>5, <2>6, <2>7
       DEF ListWith, MayPass, Listed
<1>17. UNCHANGED <<settings, white_list, filled, unread>> /\ calls' \in 0..Calls
  BY <1>1, <1>2 DEF OnlyCall
<1>18. call[c].at \notin Filling
  BY <1>1 DEF Filling
<1>. QED BY <1>12, <1>14, <1>15, <1>16, <1>17, <1>18, OneCall DEF ListOK

(* A call answers: yes, if the file is listed or the call has met an entry another one    *)
(* was at work on; no, if it may pass the file's entry. *)
LEMMA AnswersOK ==
  ASSUME PolicyInv, NEW c \in Caller, call[c].at \in Checking, NEW met \in BOOLEAN,
         NEW answer \in {"yes", "no"}, Answers(c, answer, met), OnlyCall,
         answer = "yes" => Listed(call[c].prog) \/ met,
         answer = "no" => MayPass(call[c], unread) \/ met
  PROVE  PolicyInv'
<1>1. call[c].at \in Filling \union Checking /\ call[c].at \notin Filling
  BY DEF Filling, Checking, Reading
<1>2. /\ call[c] \in CallType /\ call[c].prog \in Prog
      /\ CallOK(call[c], AfterWin7)
      /\ ListWith(call[c], white_list, filled, unread) /\ calls \in 0..Calls
  BY <1>1, OfCall
<1>3. PICK place \in After(c, answer = "yes") :
        Becomes(c, [call[c] EXCEPT !.at = place, !.entry = Self, !.answer = answer,
                                   !.disturbed = @ \/ met])
  BY DEF Answers
<1> DEFINE m == call[c].disturbed \/ met
           r == [call[c] EXCEPT !.at = place, !.entry = Self, !.answer = answer, !.disturbed = m]
<1>4. place \in {"create", "back"}
  BY DEF After
<1>5. m \in BOOLEAN /\ (m <=> call[c].disturbed \/ met) /\ Becomes(c, r)
  BY <1>2, <1>3 DEF CallType
<1> HIDE DEF m
<1>6. /\ r \in CallType /\ r.at = place /\ r.answer = answer /\ r.disturbed = m
      /\ r.prog = call[c].prog /\ r.asked = call[c].asked
      /\ r.born = call[c].born /\ r.suspended = call[c].suspended /\ r.memory = call[c].memory
      /\ r.remote = call[c].remote /\ r.late = call[c].late /\ r.timedOut = call[c].timedOut
  <2>1. place \in Place /\ Self \in Entries
    BY <1>4, EntriesAre DEF Place
  <2>. QED BY <1>2, <1>5, <2>1 DEF CallType
<1> HIDE DEF r
<1>7. CallOK(r, AfterWin7) /\ WhereOK(r)
  BY <1>1, <1>2, <1>4, <1>6 DEF CallOK, WhereOK, Filling, Checking, Reading
<1>8. ListWith(r, white_list, filled, unread)
  <2>1. r.at \notin Filling /\ r.at \notin Checking
    BY <1>4, <1>6 DEF Filling, Checking, Reading
  <2>2. r.late => filled
    BY <1>2, <1>6 DEF ListWith
  <2>3. r.answer = "yes" => Listed(r.prog) \/ r.disturbed
    BY <1>5, <1>6
  <2>4. r.answer = "no" => MayPass(r, unread)
    BY <1>5, <1>6 DEF MayPass
  <2>. QED BY <2>1, <2>2, <2>3, <2>4 DEF ListWith
<1>9. UNCHANGED <<settings, white_list, filled, unread>> /\ calls' \in 0..Calls
  BY <1>2 DEF OnlyCall
<1>. QED BY <1>1, <1>2, <1>5, <1>6, <1>7, <1>8, <1>9, OneCall DEF ListOK

(* A call that has its turn of the list goes to another place or to the next entry. *)
LEMMA TurnOK ==
  ASSUME PolicyInv, NEW c \in Caller, call[c].at \in Checking,
         NEW place \in Checking, NEW next \in Entries, NEW t \in Text, NEW met \in BOOLEAN,
         call[c].disturbed => met,
         Becomes(c, Moved(call[c], place, next, t, met)), OnlyCall,
         place \in Reading /\ next \in Section => section,
         place = "write" => t \in {"full", "spoilt"}, place # "writing",
         EntryOf[call[c].prog] < next /\ ~(EntryOf[call[c].prog] < call[c].entry) =>
           MayPass(call[c], unread) \/ met
  PROVE  PolicyInv'
<1>1. call[c].at \in Filling \union Checking \union {"look"} /\ call[c].at \notin Filling
      /\ place \in Filling \union Checking /\ place \notin Filling
  BY DEF Filling, Checking, Reading
<1>2. /\ call[c] \in CallType /\ call[c].prog \in Prog
      /\ CallOK(call[c], AfterWin7)
      /\ ListWith(call[c], white_list, filled, unread) /\ calls \in 0..Calls
  BY <1>1, OfCall
<1> DEFINE r == Moved(call[c], place, next, t, met)
<1>3. /\ r \in CallType /\ r.prog \in Prog /\ CallOK(r, AfterWin7)
      /\ r.at = place /\ r.entry = next /\ r.text = t /\ r.disturbed = met
      /\ r.prog = call[c].prog /\ r.late = call[c].late /\ r.answer = call[c].answer
  BY <1>1, <1>2, Stays
<1> HIDE DEF r
<1>4. WhereOK(r)
  BY <1>1, <1>3 DEF WhereOK, Filling
<1>5. ListWith(r, white_list, filled, unread)
  <2>1. white_list[Mark] # "empty" /\ (call[c].late => filled)
    BY <1>2 DEF ListWith
  <2>2. EntryOf[call[c].prog] < call[c].entry => MayPass(call[c], unread)
    BY <1>2 DEF ListWith
  <2>3. EntryOf[r.prog] < r.entry => MayPass(r, unread)
    BY <1>3, <2>2 DEF MayPass
  <2>4. r.answer = "yes" => Listed(r.prog) \/ ~r.late \/ r.disturbed
    BY <1>2, <1>3 DEF ListWith
  <2>5. r.answer = "no" => MayPass(r, unread)
    BY <1>2, <1>3 DEF ListWith, MayPass
  <2>. QED BY <1>1, <1>3, <2>1, <2>3, <2>4, <2>5 DEF ListWith
<1>6. UNCHANGED <<settings, white_list, filled, unread>> /\ calls' \in 0..Calls
  BY <1>2 DEF OnlyCall
<1>7. Becomes(c, r)
  BY DEF r
<1>. QED BY <1>1, <1>3, <1>4, <1>5, <1>6, <1>7, OneCall DEF ListOK

(* It passes an entry, after the last of which it answers no. *)
LEMMA GoesOnOK ==
  ASSUME PolicyInv, NEW c \in Caller, call[c].at \in Checking, NEW met \in BOOLEAN,
         GoesOn(c, met), OnlyCall,
         EntryOf[call[c].prog] = call[c].entry => MayPass(call[c], unread) \/ met
  PROVE  PolicyInv'
<1>1. /\ call[c] \in CallType /\ call[c].prog \in Prog /\ call[c].entry \in Entries
      /\ ListWith(call[c], white_list, filled, unread)
  BY OfCall
<1>2. EntryOf[call[c].prog] \in {-1} \union Entries
  BY <1>1, PolicyAssumption
<1>3. EntryOf[call[c].prog] < call[c].entry => MayPass(call[c], unread)
  BY <1>1 DEF ListWith
<1>4. CASE call[c].entry = LastEntry
  <2>1. EntryOf[call[c].prog] < call[c].entry \/ EntryOf[call[c].prog] = call[c].entry
    BY <1>2, <1>4, EntriesAre
  <2>2. MayPass(call[c], unread) \/ met
    BY <1>3, <2>1
  <2>3. Answers(c, "no", met)
    BY <1>4 DEF GoesOn
  <2>. QED BY <2>2, <2>3, AnswersOK
<1>5. CASE call[c].entry # LastEntry
  <2> DEFINE m == call[c].disturbed \/ met
  <2>1. m \in BOOLEAN /\ call[c].text \in Text /\ (m <=> call[c].disturbed \/ met)
    BY <1>1 DEF CallType
  <2>2. Becomes(c, Moved(call[c], "check", call[c].entry + 1, call[c].text, m))
    <3>1. [call[c] EXCEPT !.at = "check", !.entry = @ + 1, !.disturbed = @ \/ met]
            = Moved(call[c], "check", call[c].entry + 1, call[c].text, m)
      BY <1>1 DEF Moved, CallType
    <3>2. Becomes(c, [call[c] EXCEPT !.at = "check", !.entry = @ + 1, !.disturbed = @ \/ met])
      BY <1>5 DEF GoesOn
    <3> HIDE DEF m
    <3>. QED BY <3>1, <3>2 DEF Becomes
  <2>3. call[c].entry + 1 \in Entries
    BY <1>1, <1>5, EntriesAre
  <2>4. "check" \in Checking /\ "check" \notin Reading
    BY DEF Checking, Reading
  <2>5. EntryOf[call[c].prog] < call[c].entry + 1 /\ ~(EntryOf[call[c].prog] < call[c].entry)
          => EntryOf[call[c].prog] = call[c].entry
    BY <1>1, <1>2, EntriesAre
  <2> HIDE DEF m
  <2>. QED BY <2>1, <2>2, <2>3, <2>4, <2>5, TurnOK
<1>. QED BY <1>4, <1>5

(* It goes to another place of the same entry. *)
LEMMA PlaceOK ==
  ASSUME PolicyInv, NEW c \in Caller, call[c].at \in Checking,
         NEW place \in Checking, NEW t \in Text, NEW met \in BOOLEAN,
         Becomes(c, Moved(call[c], place, call[c].entry, t, call[c].disturbed \/ met)), OnlyCall,
         place \in Reading /\ call[c].entry \in Section => section,
         place = "write" => t \in {"full", "spoilt"}, place # "writing"
  PROVE  PolicyInv'
<1> DEFINE m == call[c].disturbed \/ met
<1>1. call[c] \in CallType /\ call[c].entry \in Entries
  BY OfCall
<1>2. m \in BOOLEAN /\ (call[c].disturbed => m)
  BY <1>1 DEF CallType
<1>3. Becomes(c, Moved(call[c], place, call[c].entry, t, m))
  OBVIOUS
<1> HIDE DEF m
<1>. QED BY <1>1, <1>2, <1>3, TurnOK

(* An entry is looked at: an empty one is passed over, if none of the others has yet to    *)
(* fill it, because it is one of a section that is missing or was not read. *)
LEMMA CheckOK ==
  ASSUME PolicyInv, NEW c \in Caller, Check(c)
  PROVE  PolicyInv'
<1> DEFINE e == call[c].entry
           coming == \E d \in Caller : e \in ToFill(call[d])
<1>1. call[c].at = "check" /\ call[c].at \in Checking /\ policy = "on" /\ OnlyCall
  BY DEF Check, At, Checking
<1>2. /\ call[c] \in CallType /\ call[c].prog \in Prog /\ e \in Entries
      /\ ListWith(call[c], white_list, filled, unread)
      /\ white_list \in [Entries -> Text] /\ section \in BOOLEAN
      /\ \A k \in Section : white_list[k] # "empty" => section
  BY <1>1, OfCall
<1>3. white_list[Mark] # "empty"
  BY <1>1, <1>2 DEF ListWith
<1>4. CASE (white_list[e] = "empty" \/ Torn(e)) /\ GoesOn(c, Torn(e) \/ coming)
  <2>1. (Torn(e) \/ coming) \in BOOLEAN
    OBVIOUS
  <2>2. CASE white_list[e] = "empty"
    <3>1. Awaited(e)
      BY <1>1, <1>2, <1>3, <2>2 DEF PolicyInv
    <3>2. coming \/ (e \in Section /\ (~section \/ unread))
      BY <3>1 DEF Awaited
    <3>3. EntryOf[call[c].prog] = e => MayPass(call[c], unread) \/ coming
      BY <3>2 DEF MayPass, Listed
    <3> HIDE DEF coming
    <3>. QED BY <1>1, <1>4, <2>1, <3>3, GoesOnOK
  <2>3. CASE Torn(e)
    <3> HIDE DEF coming
    <3>. QED BY <1>1, <1>4, <2>1, <2>3, GoesOnOK
  <2>. QED BY <1>4, <2>2, <2>3
<1>5. ASSUME NEW place \in {"compare", "combine"}, white_list[e] # "empty",
             Becomes(c, [call[c] EXCEPT !.at = place, !.disturbed = @ \/ Torn(e)])
      PROVE  PolicyInv'
  <2>1. Torn(e) \in BOOLEAN /\ call[c].text \in Text
    <3>1. Torn(e) \in BOOLEAN
      BY DEF Torn
    <3>2. call[c].text \in Text
      BY <1>2 DEF CallType
    <3>. QED BY <3>1, <3>2
  <2>2. Becomes(c, Moved(call[c], place, e, call[c].text, call[c].disturbed \/ Torn(e)))
    <3>1. [call[c] EXCEPT !.at = place, !.disturbed = @ \/ Torn(e)]
            = Moved(call[c], place, e, call[c].text, call[c].disturbed \/ Torn(e))
      BY <1>2 DEF Moved, CallType
    <3>. QED BY <1>5, <3>1 DEF Becomes
  <2>3. place \in Checking /\ place # "write" /\ place # "writing"
    BY DEF Checking, Reading
  <2>4. e \in Section => section
    BY <1>2, <1>5
  <2>. QED BY <1>1, <2>1, <2>2, <2>3, <2>4, PlaceOK
<1>6. Torn(e) => white_list[e] # "empty"
  BY DEF Torn
<1>7. \/ (white_list[e] = "empty" \/ Torn(e)) /\ GoesOn(c, Torn(e) \/ coming)
      \/ (white_list[e] = "full" \/ Torn(e))
           /\ Becomes(c, [call[c] EXCEPT !.at = "compare", !.disturbed = @ \/ Torn(e)])
      \/ (white_list[e] = "raw" \/ Torn(e))
           /\ Becomes(c, [call[c] EXCEPT !.at = "combine", !.disturbed = @ \/ Torn(e)])
  BY DEF Check
<1> HIDE DEF e, coming
<1>. QED BY <1>4, <1>5, <1>6, <1>7

(* A relative path is made an absolute one in its place. *)
LEMMA CombineOK ==
  ASSUME PolicyInv, NEW c \in Caller, Combine(c)
  PROVE  PolicyInv'
<1> DEFINE e == call[c].entry
<1>1. call[c].at \in {"combine", "write", "writing"} /\ call[c].at \in Checking /\ call[c].at \in Reading
      /\ policy = "on"
  BY DEF Combine, At, Checking, Reading
<1>2. /\ call[c] \in CallType /\ call[c].prog \in Prog /\ e \in Entries
      /\ CallOK(call[c], AfterWin7) /\ WhereOK(call[c])
      /\ ListWith(call[c], white_list, filled, unread)
      /\ white_list \in [Entries -> Text] /\ calls \in 0..Calls
      /\ filled \in BOOLEAN /\ unread \in BOOLEAN
      /\ filled => white_list[Mark] # "empty"
      /\ white_list[Mark] # "raw"
      /\ \A k \in Section : white_list[k] # "empty" => section
  BY <1>1, OfCall
<1>3. e \in Section => section
  BY <1>1, <1>2 DEF WhereOK
<1>4. call[c].text \in Text /\ call[c].disturbed \in BOOLEAN
  BY <1>2 DEF CallType
<1>5. CASE At(c, "combine") /\ OnlyCall /\ white_list[e] # "full"
           /\ Becomes(c, [call[c] EXCEPT !.at = "write",
                                         !.text = IF white_list[e] = "raw" THEN "full" ELSE "spoilt",
                                         !.disturbed = @ \/ white_list[e] # "raw"])
  <2> DEFINE t == IF white_list[e] = "raw" THEN "full" ELSE "spoilt"
             met == white_list[e] # "raw"
  <2>1. t \in {"full", "spoilt"} /\ t \in Text /\ met \in BOOLEAN
    BY DEF Text
  <2>2. Becomes(c, [call[c] EXCEPT !.at = "write", !.text = t, !.disturbed = @ \/ met])
    BY <1>5
  <2> HIDE DEF t, met
  <2>3. Becomes(c, Moved(call[c], "write", e, t, call[c].disturbed \/ met))
    <3>1. [call[c] EXCEPT !.at = "write", !.text = t, !.disturbed = @ \/ met]
            = Moved(call[c], "write", e, t, call[c].disturbed \/ met)
      BY <1>2 DEF Moved, CallType
    <3>. QED BY <2>2, <3>1 DEF Becomes
  <2>4. "write" \in Checking
    BY DEF Checking, Reading
  <2>. QED BY <1>1, <1>3, <1>5, <2>1, <2>3, <2>4, PlaceOK
<1>6. CASE At(c, "combine") /\ OnlyCall
           /\ Becomes(c, [call[c] EXCEPT !.at = "compare", !.disturbed = @ \/ Torn(e)])
  <2>1. Torn(e) \in BOOLEAN
    BY DEF Torn
  <2>2. Becomes(c, Moved(call[c], "compare", e, call[c].text, call[c].disturbed \/ Torn(e)))
    <3>1. [call[c] EXCEPT !.at = "compare", !.disturbed = @ \/ Torn(e)]
            = Moved(call[c], "compare", e, call[c].text, call[c].disturbed \/ Torn(e))
      BY <1>2 DEF Moved, CallType
    <3>. QED BY <1>6, <3>1 DEF Becomes
  <2>3. "compare" \in Checking
    BY DEF Checking, Reading
  <2>. QED BY <1>1, <1>3, <1>4, <1>6, <2>1, <2>2, <2>3, PlaceOK
<1>7. CASE At(c, "write") /\ Begins(c, {e}, call[c].text, "writing") /\ OnlyList
  <2> DEFINE t == call[c].text
             r == [call[c] EXCEPT !.at = "writing", !.text = t]
  <2>1. {e} \in SUBSET Entries /\ "writing" \in Checking
    BY <1>2 DEF Checking, Reading
  <2>2. call[c].at = "write" /\ t \in {"full", "spoilt"}
    BY <1>2, <1>7 DEF At, WhereOK
  <2>3. r.at = "writing" /\ r.text = t /\ r.entry = e
    BY <1>2 DEF CallType
  <2>4. WhereOK(r)
    <3> HIDE DEF r
    <3>. QED BY <1>3, <2>2, <2>3 DEF WhereOK, Reading
  <2>. QED BY <1>1, <1>3, <1>4, <1>7, <2>1, <2>4, BeginOK
<1>8. CASE At(c, "writing") /\ Ends(c, "compare", e) /\ OnlyList
  <2> DEFINE r == Moved(call[c], "compare", e, "empty", call[c].disturbed)
  <2>1. call[c].at = "writing" /\ call[c].text \in {"full", "spoilt"}
    BY <1>2, <1>8 DEF At, WhereOK
  <2>2. "compare" \in Filling \union Checking /\ "empty" \in Text
        /\ call[c].at \in Filling \union Checking \union {"look"}
    BY <1>1 DEF Checking, Reading, Text
  <2>3. /\ r \in CallType /\ r.prog \in Prog /\ CallOK(r, AfterWin7)
        /\ r.at = "compare" /\ r.entry = e /\ r.disturbed = call[c].disturbed
        /\ r.prog = call[c].prog /\ r.late = call[c].late /\ r.answer = call[c].answer
    BY <1>2, <1>4, <2>2, Stays
  <2>4. Becomes(c, r)
    <3>1. r = [call[c] EXCEPT !.at = "compare", !.entry = e, !.text = "empty"]
      BY <1>2 DEF Moved, CallType
    <3>. QED BY <1>8, <3>1 DEF Ends
  <2> HIDE DEF r
  <2>5. /\ white_list' \in [Entries -> Text]
        /\ \A k \in Entries :
             \/ white_list'[k] = white_list[k] /\ (k \notin WritesTo(call[c]) \/ white_list[k] = "spoilt")
             \/ white_list'[k] = call[c].text /\ k \in WritesTo(call[c])
    BY <1>2, <1>8, EndsIs
  <2>6. \A k \in WritesTo(call[c]) : k = e
    BY <2>1 DEF WritesTo
  <2>7. \A k \in Entries : white_list'[k] = white_list[k] \/ (k = e /\ white_list'[k] \in {"full", "spoilt"})
    BY <2>1, <2>5, <2>6
  <2>8. WhereOK(r)
    BY <1>3, <2>3 DEF WhereOK, Reading
  <2>9. Mark \in Entries /\ Section \subseteq Entries /\ Mark \in Self..Rest /\ \A k \in Self..Rest : k \in Entries
    BY EntriesAre
  <2>10. white_list[Mark] # "empty"
    BY <1>1, <1>2 DEF ListWith
  <2>11. UNCHANGED <<settings, calls, filled, unread>>
    BY <1>8 DEF OnlyList
  <2>12. ListWith(r, white_list', filled', unread')
    <3>1. white_list'[Mark] # "empty"
      BY <2>7, <2>9, <2>10
    <3>2. r.at \notin Filling
      BY <2>3 DEF Filling
    <3>. QED BY <1>1, <1>2, <2>3, <2>11, <3>1, <3>2 DEF ListWith, MayPass
  <2>13. \A k \in Entries : k \notin ToFill(call[c])
    BY <2>1 DEF ToFill, Filling
  <2>14. /\ \A k \in Self..Rest : white_list[k] # "empty" => white_list'[k] # "empty"
         /\ filled' => white_list'[Mark] # "empty"
         /\ white_list'[Mark] # "raw"
         /\ \A k \in Section : white_list'[k] # "empty" => section
         /\ \A k \in Entries : white_list'[k] = "empty" => white_list[k] = "empty"
    BY <1>2, <1>3, <2>7, <2>9, <2>10
  <2>. QED BY <1>1, <1>2, <2>3, <2>4, <2>5, <2>8, <2>10, <2>11, <2>12, <2>13, <2>14, OneCallOfList
<1> HIDE DEF e
<1>. QED BY <1>5, <1>6, <1>7, <1>8 DEF Combine, e

(* The file is compared with the entry, or with what is there of it. *)
LEMMA CompareOK ==
  ASSUME PolicyInv, NEW c \in Caller, Compare(c)
  PROVE  PolicyInv'
<1> DEFINE e == call[c].entry
           met == white_list[e] # "full"
<1>1. call[c].at = "compare" /\ call[c].at \in Checking /\ call[c].at \in Reading /\ OnlyCall
  BY DEF Compare, At, Checking, Reading
<1>2. /\ call[c] \in CallType /\ call[c].prog \in Prog /\ e \in Entries /\ WhereOK(call[c])
  BY <1>1, OfCall
<1>3. e \in Section => section
  BY <1>1, <1>2 DEF WhereOK
<1>4. met \in BOOLEAN
  OBVIOUS
<1>5. Torn(e) => met
  BY DEF Torn
<1>6. CASE (Torn(e) \/ (white_list[e] = "full" /\ EntryOf[call[c].prog] = e) \/ white_list[e] = "empty")
           /\ Answers(c, "yes", met)
  <2>1. Listed(call[c].prog) \/ met
    BY <1>2, <1>3, <1>5, <1>6 DEF Listed
  <2> HIDE DEF met
  <2>. QED BY <1>1, <1>4, <1>6, <2>1, AnswersOK
<1>7. CASE (Torn(e) \/ (white_list[e] = "full" /\ EntryOf[call[c].prog] # e) \/ white_list[e] = "raw")
           /\ GoesOn(c, met)
  <2>1. EntryOf[call[c].prog] = e => met
    BY <1>5, <1>7
  <2> HIDE DEF met
  <2>. QED BY <1>1, <1>4, <1>7, <2>1, GoesOnOK
<1>. QED BY <1>6, <1>7 DEF Compare

-------------------------------------------------------------------------------
(* The start and the end, and every step *)

(* init_safed sets the hooks. *)
LEMMA StartPolicyOK == PolicyInv /\ StartPolicy => PolicyInv'
<1> SUFFICES ASSUME PolicyInv, StartPolicy PROVE PolicyInv'
  OBVIOUS
<1>1. UNCHANGED <<version, section, white_list, call, calls, filled, unread>>
      /\ policy = "off" /\ policy' = "on" /\ \A e \in Entries : white_list[e] = "empty"
  BY DEF StartPolicy, PolicyInv
<1>2. PolicyTypeOK'
  BY <1>1 DEF PolicyInv, PolicyTypeOK
<1>3. AfterWin7' = AfterWin7
  BY <1>1 DEF AfterWin7, GetOsVersion
<1>4. \A c \in Caller : CallOK(call'[c], AfterWin7')
  BY <1>1, <1>3 DEF PolicyInv
<1>5. \A c \in Caller : ListOK(call[c])'
  BY <1>1 DEF PolicyInv, ListOK, ListWith, WhereOK, MayPass, Listed
<1>6. Mark \in Entries
  BY EntriesAre
<1>. QED BY <1>1, <1>2, <1>4, <1>5, <1>6 DEF PolicyInv

(* The process ends. *)
LEMMA EndPolicyOK == PolicyInv /\ EndPolicy => PolicyInv'
<1> SUFFICES ASSUME PolicyInv, EndPolicy PROVE PolicyInv'
  OBVIOUS
<1>1. UNCHANGED <<version, section, white_list, calls, filled, unread>> /\ policy' = "over"
  BY DEF EndPolicy
<1>2. call' \in [Caller -> CallType] /\ \A c \in Caller : call'[c] = NoCall
  BY NoCallOK DEF EndPolicy
<1>3. NoCall.at = "idle"
  BY DEF NoCall
<1>4. PolicyTypeOK'
  BY <1>1, <1>2, <1>3 DEF PolicyInv, PolicyTypeOK
<1>5. AfterWin7' = AfterWin7
  BY <1>1 DEF AfterWin7, GetOsVersion
<1>6. \A c \in Caller : CallOK(call'[c], AfterWin7')
  BY <1>2, <1>5, NoCallOK
<1>7. \A c \in Caller : ListOK(call[c])'
  <2>1. \A c \in Caller : WhereOK(call'[c]) /\ ListWith(call'[c], white_list', filled', unread')
    BY <1>2, NoCallOK
  <2>. QED BY <1>1, <2>1 DEF ListOK, ListWith, WhereOK, MayPass, Listed
<1>. QED BY <1>1, <1>4, <1>6, <1>7 DEF PolicyInv

(* Every step of the policy keeps the invariant. *)
LEMMA PolicyStepOK == PolicyInv /\ [PolicyNext]_policyVars => PolicyInv'
<1> SUFFICES ASSUME PolicyInv, [PolicyNext]_policyVars PROVE PolicyInv'
  OBVIOUS
<1>1. CASE UNCHANGED policyVars
  <2>1. UNCHANGED <<policy, version, section, white_list, call, calls, filled, unread>>
    BY <1>1 DEF policyVars
  <2>2. AfterWin7' = AfterWin7
    BY <2>1 DEF AfterWin7, GetOsVersion
  <2>3. \A c \in Caller : CallOK(call'[c], AfterWin7')
    BY <2>1, <2>2 DEF PolicyInv
  <2>4. \A c \in Caller : ListOK(call[c])'
    BY <2>1 DEF PolicyInv, ListOK, ListWith, WhereOK, MayPass, Listed
  <2>5. \A e : Awaited(e)' = Awaited(e)
    BY <2>1 DEF Awaited, ToFill
  <2>. QED BY <2>1, <2>3, <2>4, <2>5 DEF PolicyInv, PolicyTypeOK
<1>2. ASSUME NEW c \in Caller, InWhitelist(c) PROVE PolicyInv'
  BY <1>2, LookOK, FillOK, NoSectionOK, ClearSectionOK, FillSectionOK,
     CheckOK, CombineOK, CompareOK DEF InWhitelist
<1>3. ASSUME NEW c \in Caller, Inject(c) PROVE PolicyInv'
  BY <1>3, GiveUpOK, AllocateOK, NoLoaderOK, CreateRemoteThreadOK, WaitOK, WaitEndsOK, FreeOK,
     ResumeOK DEF Inject
<1>4. ASSUME NEW c \in Caller, Works(c) PROVE PolicyInv'
  BY <1>2, <1>3, <1>4, CreateOK, CreateFailsOK, LeaveOK DEF Works
<1>5. ASSUME NEW c \in Caller, Asks(c) PROVE PolicyInv'
  <2>1. Module \subseteq Prog
    BY PolicyAssumption
  <2>. QED BY <1>5, <2>1, AskProcessOK, AskModuleOK DEF Asks
<1>. QED BY <1>1, <1>4, <1>5, StartPolicyOK, EndPolicyOK, RemoteEndsOK, ResumeOwnOK, ForgetOK, GoOnOK
         DEF PolicyNext

-------------------------------------------------------------------------------
(* What the invariant tells of every reachable state *)

(* The inductive invariant: what is known of a call at each of its places, of the list it *)
(* fills or reads, and that an entry of a marked list is empty only if a call has yet to     *)
(* fill it, or the section is missing or could not be read. *)
THEOREM PolicyCorrect == PolicySpec => []PolicyInv
<1>1. PolicyInv /\ [PolicyNext]_policyVars => PolicyInv'
  BY PolicyStepOK
<1>. QED BY <1>1, PolicyInitOK, PTL DEF PolicySpec

(* The type invariant: the counts, the places and the answers stay in their ranges, and   *)
(* no thread is resumed more often than it was suspended. *)
THEOREM PolicyTypeCorrect == PolicySpec => []PolicyTypeOK
<1>1. PolicyInv => PolicyTypeOK
  BY DEF PolicyInv
<1>. QED BY <1>1, PolicyCorrect, PTL

(* However many threads fill the static list of in_whitelist and rewrite its entries while *)
(* others read them, a wrong answer has one of three reasons: it was given by a call that    *)
(* began before the list was full, or that met an entry another call was or had been at      *)
(* work on, or after the section could not be read. *)
THEOREM AnswersCorrect == PolicySpec => []WhitelistAnswer
<1>1. PolicyInv => WhitelistAnswer
  <2> SUFFICES ASSUME PolicyInv, NEW c \in Caller
               PROVE  /\ call[c].answer = "yes" =>
                           Listed(call[c].prog) \/ ~call[c].late \/ call[c].disturbed
                      /\ call[c].answer = "no" => \/ ~Listed(call[c].prog) \/ call[c].disturbed
                                                  \/ (unread /\ EntryOf[call[c].prog] \in Section)
    BY DEF WhitelistAnswer
  <2>1. ListWith(call[c], white_list, filled, unread)
    BY DEF PolicyInv, ListOK
  <2>. QED BY <2>1 DEF ListWith, MayPass
<1>. QED BY <1>1, PolicyCorrect, PTL

(* Whatever the injection suspends and resumes, a child that was asked for suspended is   *)
(* not resumed before its time, but by InjectDll before Windows 8. *)
THEOREM SuspensionKept == PolicySpec => []AskedStaysSuspended
<1>1. PolicyInv => AskedStaysSuspended
  <2> SUFFICES ASSUME PolicyInv, NEW c \in Caller,
                      call[c].born, call[c].asked, call[c].at # "gone", call[c].suspended = 0
               PROVE  ~AfterWin7 /\ call[c].prog \in Risky
    BY DEF AskedStaysSuspended
  <2>1. CallOK(call[c], AfterWin7)
    BY DEF PolicyInv
  <2>. QED BY <2>1 DEF CallOK
<1>. QED BY <1>1, PolicyCorrect, PTL

(* The code that runs in the child is freed only after the wait for it was given up. *)
THEOREM CodeKept == PolicySpec => []CodeStays
<1>1. PolicyInv => CodeStays
  <2> SUFFICES ASSUME PolicyInv, NEW c \in Caller,
                      call[c].remote = "running", call[c].memory = "freed"
               PROVE  call[c].timedOut
    BY DEF CodeStays
  <2>1. CallOK(call[c], AfterWin7)
    BY DEF PolicyInv
  <2>. QED BY <2>1 DEF CallOK
<1>. QED BY <1>1, PolicyCorrect, PTL

-------------------------------------------------------------------------------
(* Session *)

(* The session begins with the initial states of its components. *)
LEMMA InitOfAll == SessionInit => ProxyInit /\ UserInit /\ BossInit /\ PolicyInit
BY DEF SessionInit

(* A step of the session is one of the proxy or leaves it alone. *)
LEMMA ProxyPart == [Next]_vars => [ProxyNext]_proxyVars
<1> SUFFICES ASSUME [Next]_vars PROVE ProxyNext \/ UNCHANGED proxyVars
  OBVIOUS
<1>1. CASE UNCHANGED vars
  BY <1>1 DEF vars
<1>2. CASE DoIt \/ UndoIt \/ Restart
  BY <1>2 DEF DoIt, UndoIt, Restart, ProxyNext
<1>3. CASE ProxyAsks \/ ProxyReturns \/ ProxyStep \/ Processes
  BY <1>3 DEF ProxyAsks, ProxyReturns, ProxyStep, Processes, Creates, ProxyNext
<1>4. CASE UserJsStep \/ User \/ BossKeyStep \/ Desktop
  BY <1>4 DEF UserJsStep, User, BossKeyStep, Desktop
<1>5. CASE BrowserAsks \/ BrowserReturns \/ (\E c \in Caller : HookStep(c)) \/ ChildStep
  BY <1>5 DEF BrowserAsks, BrowserReturns, HookStep, ChildStep
<1>. QED BY <1>1, <1>2, <1>3, <1>4, <1>5 DEF Next

(* A step of the session is one of the rewriting or leaves it alone. *)
LEMMA UserPart == [Next]_vars => [UserNext]_userVars
<1> SUFFICES ASSUME [Next]_vars PROVE UserNext \/ UNCHANGED userVars
  OBVIOUS
<1>1. CASE UNCHANGED vars
  BY <1>1 DEF vars
<1>2. CASE DoIt \/ UndoIt \/ Restart
  BY <1>2 DEF DoIt, UndoIt, Restart, UserNext
<1>3. CASE ProxyAsks \/ ProxyReturns \/ ProxyStep \/ Processes
  BY <1>3 DEF ProxyAsks, ProxyReturns, ProxyStep, Processes
<1>4. CASE UserJsStep \/ User \/ BossKeyStep \/ Desktop
  BY <1>4 DEF UserJsStep, User, BossKeyStep, Desktop, UserNext
<1>5. CASE BrowserAsks \/ BrowserReturns \/ (\E c \in Caller : HookStep(c)) \/ ChildStep
  BY <1>5 DEF BrowserAsks, BrowserReturns, HookStep, ChildStep
<1>. QED BY <1>1, <1>2, <1>3, <1>4, <1>5 DEF Next

(* A step of the session is one of the boss key or leaves it alone. *)
LEMMA BossPart == [Next]_vars => [BossNext]_bossVars
<1> SUFFICES ASSUME [Next]_vars PROVE BossNext \/ UNCHANGED bossVars
  OBVIOUS
<1>1. CASE UNCHANGED vars
  BY <1>1 DEF vars
<1>2. CASE DoIt \/ UndoIt \/ Restart
  BY <1>2 DEF DoIt, UndoIt, Restart, BossNext
<1>3. CASE ProxyAsks \/ ProxyReturns \/ ProxyStep \/ Processes
  BY <1>3 DEF ProxyAsks, ProxyReturns, ProxyStep, Processes
<1>4. CASE UserJsStep \/ User \/ BossKeyStep \/ Desktop
  BY <1>4 DEF UserJsStep, User, BossKeyStep, Desktop, BossNext
<1>5. CASE BrowserAsks \/ BrowserReturns \/ (\E c \in Caller : HookStep(c)) \/ ChildStep
  BY <1>5 DEF BrowserAsks, BrowserReturns, HookStep, ChildStep
<1>. QED BY <1>1, <1>2, <1>3, <1>4, <1>5 DEF Next

(* run_process asks for its program as any caller does, and goes its own way afterwards. *)
LEMMA PolicyPart == [Next]_vars => [PolicyNext]_policyVars
<1> SUFFICES ASSUME [Next]_vars PROVE PolicyNext \/ UNCHANGED policyVars
  OBVIOUS
<1>1. CASE UNCHANGED vars
  BY <1>1 DEF vars
<1>2. CASE DoIt \/ UndoIt \/ Restart
  BY <1>2 DEF DoIt, UndoIt, Restart, PolicyNext
<1>3. CASE ProxyAsks
  <2>1. Asks(RunProcessId) /\ RunProcessId \in Caller
    BY <1>3, SessionAssumption DEF ProxyAsks, Asks
  <2>. QED BY <2>1 DEF PolicyNext
<1>4. CASE ProxyReturns
  BY <1>4, SessionAssumption DEF ProxyReturns, PolicyNext
<1>5. CASE ProxyStep \/ Processes \/ UserJsStep \/ User \/ BossKeyStep \/ Desktop
  BY <1>5 DEF ProxyStep, Processes, UserJsStep, User, BossKeyStep, Desktop
<1>6. CASE BrowserAsks
  <2>1. PICK c \in Caller : (\E p \in Module : AskModule(c, p)) \/ Asks(c) \/ ResumeOwn(c)
    BY <1>6 DEF BrowserAsks
  <2>2. Asks(c) \/ ResumeOwn(c)
    BY <2>1 DEF Asks
  <2>. QED BY <2>2 DEF PolicyNext
<1>7. CASE BrowserReturns \/ (\E c \in Caller : HookStep(c)) \/ ChildStep
  BY <1>7 DEF BrowserReturns, HookStep, ChildStep, PolicyNext
<1>. QED BY <1>1, <1>2, <1>3, <1>4, <1>5, <1>6, <1>7 DEF Next

-------------------------------------------------------------------------------
(* The session implements the specification of each component: what they share, the       *)
(* process and the hook that run_process comes into, adds no step to any of them. *)
THEOREM Composition == Spec => ProxySpec /\ UserSpec /\ BossSpec /\ PolicySpec
BY InitOfAll, ProxyPart, UserPart, BossPart, PolicyPart, PTL
   DEF Spec, ProxySpec, UserSpec, BossSpec, PolicySpec

(* What is proved of the components holds in every session, with all features at once. *)
THEOREM SessionCorrect ==
  Spec => [](HandleTable /\ EndsOnlyOwn /\ AllFound /\ KeepsOthers /\ Rewritten
             /\ TurnedOncePerPress /\ WhitelistAnswer /\ AskedStaysSuspended /\ CodeStays)
BY Composition, HandlesReached, OnlyOwnEnded, SearchFindsAll, UserJsKept, FileRewritten,
   TurnedCorrect, AnswersCorrect, SuspensionKept, CodeKept, PTL

SessionVarsOK == features \in FeatureSets /\ session \in {"off", "running", "ended"}

(* The type invariant of the session and of all its components. *)
THEOREM SessionTypeCorrect == Spec => []SessionTypeOK
<1>1. SessionInit => SessionVarsOK
  BY DEF SessionInit, SessionVarsOK
<1>2. SessionVarsOK /\ [Next]_vars => SessionVarsOK'
  <2> SUFFICES ASSUME SessionVarsOK, [Next]_vars PROVE SessionVarsOK'
    OBVIOUS
  <2>1. CASE UNCHANGED vars
    BY <2>1 DEF vars, sessionVars, SessionVarsOK
  <2>2. CASE DoIt \/ UndoIt \/ Restart
    BY <2>2 DEF DoIt, UndoIt, Restart, SessionVarsOK
  <2>3. CASE ProxyAsks \/ ProxyReturns \/ ProxyStep \/ Processes
    BY <2>3 DEF ProxyAsks, ProxyReturns, ProxyStep, Processes, sessionVars, SessionVarsOK
  <2>4. CASE UserJsStep \/ User \/ BossKeyStep \/ Desktop
    BY <2>4 DEF UserJsStep, User, BossKeyStep, Desktop, sessionVars, SessionVarsOK
  <2>5. CASE BrowserAsks \/ BrowserReturns \/ (\E c \in Caller : HookStep(c)) \/ ChildStep
    BY <2>5 DEF BrowserAsks, BrowserReturns, HookStep, ChildStep, sessionVars, SessionVarsOK
  <2>. QED BY <2>1, <2>2, <2>3, <2>4, <2>5 DEF Next
<1>3. SessionVarsOK /\ ProxyTypeOK /\ UserTypeOK /\ BossTypeOK /\ PolicyTypeOK => SessionTypeOK
  BY DEF SessionVarsOK, SessionTypeOK
<1>. QED BY <1>1, <1>2, <1>3, Composition, ProxyTypeCorrect, UserTypeCorrect, BossTypeCorrect,
            PolicyTypeCorrect, PTL DEF Spec
===============================================================================
