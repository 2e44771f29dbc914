-------------------------- MODULE SharedStartup_proofs --------------------------
(* Proofs about SharedStartup, for any number of processes, under the assumption
   that the first one comes out of DllMain before another one starts.  They show
   that no lock is needed for the section then, also when processes end or are
   killed anywhere.                                                            *)
EXTENDS SharedStartup, TLAPS

Location == {"off", "test", "read", "env", "combine", "local", "appendApp",
             "appendLocal", "once", "part", "threads", "mark", "running"}

(* The section as the first process finds it. *)
Blank ==
  /\ ~RunOnce /\ ~RunPart
  /\ appdata = Empty /\ localdata = Empty
  /\ envRuns = 0 /\ partRuns = 0

Fresh(form) == [form |-> form, dirs |-> 0]

(* The part under RunOnce is behind us, or there is no path to complete. *)
EnvDone ==
  \/ portable = "none" /\ ~RunOnce /\ envRuns = 0 /\ appdata = Empty /\ localdata = Empty
  \/ portable # "none" /\ RunOnce /\ envRuns = 1 /\ appdata = Done /\ localdata = Done

(* The part under RunOnce, before and after it is entered. *)
EnvAhead == portable # "none" /\ ~RunOnce /\ envRuns = 0 /\ localdata = Empty /\ partRuns = 0
EnvRunning == portable # "none" /\ ~RunOnce /\ envRuns = 1 /\ partRuns = 0

(* The first process in DllMain, step by step. *)
First(p) ==
  \/ pc[p] = "test" /\ Blank
  \/ pc[p] = "read" /\ Blank /\ portable # "none"
  \/ pc[p] = "env" /\ EnvAhead /\ appdata = Fresh(portable)
  \/ pc[p] = "combine" /\ EnvRunning /\ appdata = Fresh(portable) /\ localdata = Empty
  \/ pc[p] = "local" /\ EnvRunning /\ appdata = Fresh("absolute") /\ localdata = Empty
  \/ pc[p] = "appendApp" /\ EnvRunning /\ appdata = Fresh("absolute")
                         /\ localdata = Fresh("absolute")
  \/ pc[p] = "appendLocal" /\ EnvRunning /\ appdata = Done /\ localdata = Fresh("absolute")
  \/ pc[p] = "once" /\ EnvRunning /\ appdata = Done /\ localdata = Done
  \/ pc[p] \in {"part", "threads"} /\ EnvDone /\ partRuns = 0
  \/ pc[p] = "mark" /\ EnvDone /\ partRuns = 1

Alone(p) == \A q \in Proc \ {p} : pc[q] = "off"

(* The first process is out of DllMain: whoever comes now only looks. *)
Established ==
  /\ RunPart /\ partRuns = 1 /\ EnvDone
  /\ \A p \in Proc :
       \/ pc[p] \in {"off", "test", "part", "running"}
       \/ pc[p] = "env" /\ portable # "none"

StartType ==
  /\ portable \in {"none", "relative", "absolute"} /\ tmpKey \in BOOLEAN
  /\ RunOnce \in BOOLEAN /\ RunPart \in BOOLEAN
  /\ pc \in [Proc -> Location]

(* The inductive invariant. *)
StartInv ==
  /\ StartType
  /\ \/ Established
     \/ ~RunPart /\ Blank /\ \A q \in Proc : pc[q] = "off"
     \/ ~RunPart /\ \E p \in Proc : Alone(p) /\ First(p)

(* The invariant holds of a new section. *)
LEMMA StartInit == Init => StartInv
BY DEF Init, StartInv, StartType, Blank, Location

(* A step of DllMain, once the first process is out of it. *)
LEMMA Later ==
  ASSUME StartType, Established, NEW p \in Proc, DllMain(p)
  PROVE  StartType' /\ Established'
<1> USE DEF StartType, Established, EnvDone, Goto, ini, section, Location, Empty, Done
<1>1. CASE Attach(p)
  BY <1>1 DEF Attach
<1>2. CASE TestPath(p)
  BY <1>2 DEF TestPath
<1>3. CASE TestOnce(p)
  BY <1>3 DEF TestOnce
<1>4. CASE TestPart(p)
  BY <1>4 DEF TestPart
<1>5. ~ReadPath(p) /\ ~Combine(p) /\ ~SetLocal(p) /\ ~AppendApp(p) /\ ~AppendLocal(p) /\ ~SetOnce(p)
  BY DEF ReadPath, Combine, SetLocal, AppendApp, AppendLocal, SetOnce
<1>6. ~StartThreads(p) /\ ~SetPart(p)
  BY DEF StartThreads, SetPart
<1>. QED BY <1>1, <1>2, <1>3, <1>4, <1>5, <1>6 DEF DllMain

(* A step of the first process in DllMain; with it the section is established. *)
LEMMA Earlier ==
  ASSUME StartType, ~RunPart, NEW p \in Proc, Alone(p), First(p), DllMain(p)
  PROVE  /\ StartType'
         /\ Established' \/ (~RunPart' /\ Alone(p)' /\ First(p)')
<1> USE DEF StartType, Alone, Goto, ini, section, Location
<1>1. CASE Attach(p)
  BY <1>1 DEF Attach, First
<1>2. CASE TestPath(p)
  BY <1>2 DEF TestPath, First, Blank, EnvDone, Empty
<1>3. CASE ReadPath(p)
  BY <1>3 DEF ReadPath, First, Blank, EnvAhead, Fresh
<1>4. CASE TestOnce(p)
  BY <1>4 DEF TestOnce, First, EnvAhead, EnvRunning
<1>5. CASE Combine(p)
  BY <1>5 DEF Combine, First, EnvRunning, Fresh
<1>6. CASE SetLocal(p)
  BY <1>6 DEF SetLocal, First, EnvRunning, Fresh
<1>7. CASE AppendApp(p)
  BY <1>7 DEF AppendApp, First, EnvRunning, Fresh, Done
<1>8. CASE AppendLocal(p)
  BY <1>8 DEF AppendLocal, First, EnvRunning, Fresh, Done
<1>9. CASE SetOnce(p)
  BY <1>9 DEF SetOnce, First, EnvRunning, EnvDone
<1>10. CASE TestPart(p)
  BY <1>10 DEF TestPart, First, EnvDone
<1>11. CASE StartThreads(p)
  BY <1>11 DEF StartThreads, First, EnvDone
<1>12. CASE SetPart(p)
  <2>1. EnvDone /\ partRuns = 1 /\ UNCHANGED <<ini, RunOnce, appdata, localdata, envRuns, partRuns>>
    BY <1>12 DEF SetPart, First
  <2>2. RunPart' = TRUE /\ pc' \in [Proc -> Location] /\ \A q \in Proc : pc'[q] \in {"off", "running"}
    BY <1>12 DEF SetPart
  <2>3. EnvDone'
    BY <2>1 DEF EnvDone
  <2>4. StartType'
    BY <2>1, <2>2
  <2>5. partRuns' = 1 /\ \A q \in Proc : pc[q]' \in {"off", "running"}
    BY <2>1, <2>2
  <2>6. Established'
    BY <2>2, <2>3, <2>5 DEF Established
  <2>. QED BY <2>4, <2>6
<1>. QED BY <1>1, <1>2, <1>3, <1>4, <1>5, <1>6, <1>7, <1>8, <1>9, <1>10, <1>11, <1>12 DEF DllMain

(* Every step keeps the invariant, if the first process is alone in DllMain. *)
LEMMA StartStep == ~Together /\ StartInv /\ [Next]_vars => StartInv'
<1> SUFFICES ASSUME ~Together, StartInv, [Next]_vars PROVE StartInv'
  OBVIOUS
<1>1. ASSUME NEW p \in Proc, DllMain(p) PROVE StartInv'
  <2>1. CASE Established
    BY <1>1, <2>1, Later DEF StartInv
  <2>2. CASE ~RunPart /\ Blank /\ \A q \in Proc : pc[q] = "off"
    <3>1. Attach(p)
      BY <1>1, <2>2 DEF DllMain, TestPath, ReadPath, TestOnce, Combine, SetLocal, AppendApp,
         AppendLocal, SetOnce, TestPart, StartThreads, SetPart, Goto
    <3>. QED BY <2>2, <3>1 DEF StartInv, StartType, Location, Attach, Goto, Alone, First, Blank, ini, section
  <2>3. ASSUME NEW q \in Proc, Alone(q), First(q), ~RunPart PROVE StartInv'
    <3>1. CASE p = q
      BY <1>1, <2>3, <3>1, Earlier DEF StartInv
    <3>2. CASE p # q
      <4>1. pc[p] = "off" /\ pc[q] \notin {"off", "running"}
        BY <2>3, <3>2 DEF Alone, First
      <4>2. ~DllMain(p)
        BY <2>3, <4>1 DEF Alone, DllMain, Attach, TestPath, ReadPath, TestOnce, Combine, SetLocal,
           AppendApp, AppendLocal, SetOnce, TestPart, StartThreads, SetPart, Goto
      <4>. QED BY <1>1, <4>2
    <3>. QED BY <3>1, <3>2
  <2>. QED BY <2>1, <2>2, <2>3 DEF StartInv
<1>2. ASSUME NEW p \in Proc, Leave(p) PROVE StartInv'
  <2>1. PICK r \in Proc \ {p} : pc[r] # "off"
    BY <1>2 DEF Leave
  <2>2. pc[p] # "off" /\ ~\E q \in Proc : Alone(q)
    BY <1>2, <2>1 DEF Leave, Alone
  <2>3. Established
    BY <2>2 DEF StartInv
  <2>. QED BY <1>2, <2>3 DEF Leave, StartInv, StartType, Established, EnvDone, Location, ini, section
<1>3. ASSUME NEW p \in Proc, LeaveLast(p) PROVE StartInv'
  BY <1>3 DEF LeaveLast, StartInv, StartType, Location, Blank
<1>4. CASE UNCHANGED vars
  BY <1>4 DEF vars, ini, section, StartInv, StartType, Established, EnvDone, EnvAhead, EnvRunning,
     Blank, First, Alone
<1>. QED BY <1>1, <1>2, <1>3, <1>4 DEF Next

(* Every reachable state is before, in or after the start of a first process. *)
THEOREM StartCorrect == ~Together => (Spec => []StartInv)
<1> SUFFICES ASSUME ~Together PROVE Spec => []StartInv
  OBVIOUS
<1>1. StartInv /\ [Next]_vars => StartInv'
  BY StartStep
<1>. QED BY StartInit, <1>1, PTL DEF Spec

(* The parts under RunOnce and RunPart run once while the section exists. *)
THEOREM RunsOnce == ~Together => (Spec => []OnlyOnce)
<1>1. StartInv => OnlyOnce
  BY DEF StartInv, OnlyOnce, Established, EnvDone, EnvAhead, EnvRunning, Blank, First
<1>. QED BY <1>1, StartCorrect, PTL

(* Whoever redirects to the paths finds them complete. *)
THEOREM PathsAreComplete == ~Together => (Spec => []PathsComplete)
<1>1. StartInv => PathsComplete
  <2> SUFFICES ASSUME StartInv, NEW p \in Proc, portable # "none",
                      pc[p] \in {"part", "threads", "mark", "running"}
               PROVE  appdata = Done /\ localdata = Done
    BY DEF PathsComplete
  <2>1. EnvDone
    BY DEF StartInv, Established, Alone, First
  <2>. QED BY <2>1 DEF EnvDone
<1>. QED BY <1>1, StartCorrect, PTL

(* Every state has its type: the paths are never completed halfway into another form. *)
THEOREM TypeCorrect == ~Together => (Spec => []TypeOK)
<1>1. StartInv => TypeOK
  <2> SUFFICES ASSUME StartInv PROVE TypeOK
    OBVIOUS
  <2>1. MaxRuns \in Nat /\ 1 \in 0 .. MaxRuns /\ 0 \in 0 .. MaxRuns
    BY StartupAssumption
  <2>2. appdata \in Path /\ localdata \in Path
    BY DEF StartInv, StartType, Established, EnvDone, EnvAhead, EnvRunning, Blank, First, Fresh, Path, Empty, Done
  <2>3. envRuns \in {0, 1} /\ partRuns \in {0, 1}
    BY DEF StartInv, Established, EnvDone, EnvAhead, EnvRunning, Blank, First
  <2>. QED BY <2>1, <2>2, <2>3 DEF StartInv, StartType, TypeOK, Location
<1>. QED BY <1>1, StartCorrect, PTL
===============================================================================
