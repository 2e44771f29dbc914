------------------------- MODULE Displacement_proofs -------------------------
(* Proofs about Displacement, for every address and for every value of the
   constants in the proportions of the code.  In particular for the constants of
   the code itself, which TLC could not count up to.                         *)
EXTENDS Displacement, TLAPS

(* The limits hold what is moved, and the trampoline is inside the window they
   leave, above the lowest block there is.                                  *)
Placed ==
  /\ nRipCnt = 1 => rip + at <= limUp /\ limDown <= rip + at
  /\ pc \in {"emit", "done"} => InWindow(tramp) /\ tramp >= Granularity

Emitted ==
  pc = "done" =>
    /\ back = EmitJump(tramp + CodeAt + len, fn + len)
    /\ newRip = IF nRipCnt = 0 THEN 0 ELSE rip - (tramp + CodeAt - fn)
    /\ stub => patch = EmitJump(fn, tramp + StubAt)

PlaceInv == TypeOK /\ Placed /\ Emitted

(* Every step of the placement keeps the types. *)
LEMMA TypeStep == TypeOK /\ [Next]_vars => TypeOK'
<1> SUFFICES ASSUME TypeOK, [Next]_vars PROVE TypeOK'
  OBVIOUS
<1> USE DisplacementAssumption DEF TypeOK, place, moved, search, code
<1>1. ASSUME NEW n \in 1 .. MaxIns, Move(n) PROVE TypeOK'
  BY <1>1 DEF Move
<1>2. ASSUME NEW n \in JmpSize .. MaxIns, NEW d \in Disp, MoveRip(n, d) PROVE TypeOK'
  <2>1. len' \in 0 .. JmpSize + MaxIns - 1 /\ at' \in 0 .. JmpSize - 1
    BY <1>2 DEF MoveRip
  <2>2. d \in Int
    OBVIOUS
  <2>3. limUp' \in Nat /\ limDown' \in Int /\ limDown' <= 0
    BY <1>2, <2>2 DEF MoveRip
  <2>. QED BY <1>2, <2>1, <2>3 DEF MoveRip
<1>3. CASE Stop \/ Disassembled
  BY <1>3 DEF Stop, Disassembled
<1>4. ASSUME NEW t \in Addr, FindFree(t) PROVE TypeOK'
  BY <1>4 DEF FindFree
<1>5. CASE NoneFree
  <2>1. Guess \in Int
    BY DEF Guess
  <2>. QED BY <1>5, <2>1 DEF NoneFree
<1>6. CASE Taken
  <2>1. probe \in Int /\ Spiral \in Int
    BY <1>6 DEF Taken, Spiral
  <2>. QED BY <1>6, <2>1 DEF Taken
<1>7. CASE Allocate
  BY <1>7 DEF Allocate
<1>8. CASE GiveUp
  BY <1>8 DEF GiveUp
<1>9. CASE Emit
  BY <1>9 DEF Emit, EmitJump
<1>10. CASE UNCHANGED vars
  BY <1>10 DEF vars
<1>. HIDE DEF TypeOK, place, moved, search, code
<1>. QED BY <1>1, <1>2, <1>3, <1>4, <1>5, <1>6, <1>7, <1>8, <1>9, <1>10 DEF Next

(* Every step keeps the relation between the window, the trampoline in it and the
   displacement that was moved.                                             *)
LEMMA PlacedStep == TypeOK /\ Placed /\ [Next]_vars => Placed'
<1> SUFFICES ASSUME TypeOK, Placed, [Next]_vars PROVE Placed'
  OBVIOUS
<1> USE DisplacementAssumption DEF TypeOK, Placed, InWindow, Lower, Upper, place, moved, search, code
<1>1. ASSUME NEW n \in 1 .. MaxIns, Move(n) PROVE Placed'
  BY <1>1 DEF Move
<1>2. ASSUME NEW n \in JmpSize .. MaxIns, NEW d \in Disp, MoveRip(n, d) PROVE Placed'
  <2>1. d \in Int /\ fn \in Int
    OBVIOUS
  <2>. QED BY <1>2, <2>1 DEF MoveRip
<1>3. CASE Stop \/ Disassembled
  BY <1>3 DEF Stop, Disassembled
<1>4. ASSUME NEW t \in Addr, FindFree(t) PROVE Placed'
  BY <1>4 DEF FindFree
<1>5. CASE NoneFree
  BY <1>5 DEF NoneFree
<1>6. CASE Taken
  BY <1>6 DEF Taken
<1>7. CASE Allocate
  BY <1>7 DEF Allocate
<1>8. CASE GiveUp
  BY <1>8 DEF GiveUp
<1>9. CASE Emit
  BY <1>9 DEF Emit
<1>10. CASE UNCHANGED vars
  BY <1>10 DEF vars
<1>. HIDE DEF TypeOK, Placed, InWindow, Lower, Upper, place, moved, search, code
<1>. QED BY <1>1, <1>2, <1>3, <1>4, <1>5, <1>6, <1>7, <1>8, <1>9, <1>10 DEF Next

(* Every step keeps what is said of the jumps once they are written. *)
LEMMA EmittedStep == TypeOK /\ Emitted /\ [Next]_vars => Emitted'
<1> SUFFICES ASSUME TypeOK, Emitted, [Next]_vars PROVE Emitted'
  OBVIOUS
<1> USE DEF TypeOK, Emitted, place, moved, search, code
<1>1. CASE Emit
  BY <1>1 DEF Emit, EmitJump, Dist
<1>2. CASE UNCHANGED vars
  BY <1>2 DEF vars, EmitJump, Dist
<1>3. CASE Next /\ ~Emit
  <2>1. pc' # "done"
    BY <1>3 DEF Next, Move, MoveRip, Stop, Disassembled, FindFree, NoneFree, Taken, Allocate, GiveUp
  <2>. QED BY <2>1
<1>. QED BY <1>1, <1>2, <1>3

(* The distance of a trampoline from its function, both ways. *)
LEMMA Near ==
  ASSUME TypeOK, Placed, pc = "done"
  PROVE  fn + limUp - tramp < Reach /\ tramp - (fn + limDown) < Above
BY DisplacementAssumption DEF TypeOK, Placed, InWindow, Lower, Upper

(* The initial states have the types. *)
LEMMA InitTyped == Init => TypeOK
<1> SUFFICES ASSUME Init PROVE TypeOK
  OBVIOUS
<1>1. 0 \in 0 .. JmpSize + MaxIns - 1 /\ 0 \in 0 .. JmpSize - 1
  BY DisplacementAssumption
<1>2. len = 0 /\ nRipCnt = 0 /\ rip = 0 /\ at = 0 /\ limUp = 0 /\ limDown = 0
  BY DEF Init
<1>3. probe = 0 /\ loopCount = 0 /\ tried = {} /\ tramp = 0 /\ newRip = 0 /\ back = 0 /\ patch = 0
  BY DEF Init
<1>4. pc = "disassemble" /\ fn \in Func /\ hook \in Hook /\ stub = FALSE
  BY DEF Init
<1>5. tried \in SUBSET Int
  BY <1>3
<1>6. rip \in Disp \union {0} /\ back \in {0, JmpSize, LongJmp} /\ patch \in {0, JmpSize, LongJmp}
  BY <1>2, <1>3
<1>7. /\ len \in 0 .. JmpSize + MaxIns - 1 /\ nRipCnt \in 0 .. 1 /\ at \in 0 .. JmpSize - 1
      /\ limUp \in Nat /\ limDown \in Int /\ limDown <= 0
  BY <1>1, <1>2
<1>8. probe \in Int /\ loopCount \in Nat /\ tramp \in Nat /\ newRip \in Int
  BY <1>3
<1>. QED BY <1>4, <1>5, <1>6, <1>7, <1>8 DEF TypeOK

(* The state keeps its types; no more than one instruction is moved beyond the
   five bytes of the jump.                                                  *)
THEOREM DisplacementTypeCorrect == Spec => []TypeOK
<1>. QED BY InitTyped, TypeStep, PTL DEF Spec

(* Where the trampoline is, and what was written. *)
THEOREM PlaceCorrect == Spec => []PlaceInv
<1>1. Init => PlaceInv
  BY InitTyped DEF Init, PlaceInv, Placed, Emitted
<1>2. PlaceInv /\ [Next]_vars => PlaceInv'
  BY TypeStep, PlacedStep, EmittedStep DEF PlaceInv
<1>. QED BY <1>1, <1>2, PTL DEF Spec

(* A relocated displacement always fits in 32 bits. *)
THEOREM RelocationExact == Spec => []RipSurvives
<1>1. PlaceInv => RipSurvives
  <2> SUFFICES ASSUME PlaceInv, pc = "done", nRipCnt = 1 PROVE newRip \in -Half .. Half - 1
    BY DEF RipSurvives
  <2>1. newRip = rip - (tramp + CodeAt - fn)
    BY DEF PlaceInv, Emitted
  <2>2. rip + at <= limUp /\ limDown <= rip + at /\ at \in 0 .. JmpSize - 1 /\ rip \in Int
    BY DisplacementAssumption DEF PlaceInv, Placed, TypeOK
  <2>3. newRip < Half
    BY <2>1, <2>2, Near, DisplacementAssumption DEF PlaceInv, TypeOK
  <2>4. newRip >= -Half
    BY <2>1, <2>2, Near, DisplacementAssumption DEF PlaceInv, TypeOK
  <2>. QED BY <2>1, <2>2, <2>3, <2>4, DisplacementAssumption DEF PlaceInv, TypeOK
<1>. QED BY <1>1, PlaceCorrect, PTL

(* Both jumps between a function and its trampoline are near ones. *)
THEOREM TrampolineReached == Spec => []TrampolineNear
<1>1. PlaceInv => TrampolineNear
  <2> SUFFICES ASSUME PlaceInv, pc = "done" PROVE TrampolineNear
    BY DEF TrampolineNear
  <2>1. fn - tramp < Reach /\ tramp - fn < Above
    BY Near, DisplacementAssumption DEF PlaceInv, TypeOK
  <2>2. back = JmpSize
    BY <2>1, DisplacementAssumption DEF PlaceInv, TypeOK, Emitted, EmitJump, Dist
  <2>3. stub => patch = JmpSize
    BY <2>1, DisplacementAssumption DEF PlaceInv, TypeOK, Emitted, EmitJump, Dist
  <2>. QED BY <2>2, <2>3, DisplacementAssumption DEF PlaceInv, TypeOK, TrampolineNear
<1>. QED BY <1>1, PlaceCorrect, PTL

-------------------------------------------------------------------------------
(* The spiral of BlockAlloc: after an even number of steps it is k blocks above where it *)
(* began, after an odd number k + 1 below, and it has been at every block in between. *)
Block(i) == Guess + Granularity * i

Above0(k) == loopCount = 2 * k /\ probe = Block(k) /\ \A i \in -k .. k - 1 : Block(i) \in tried
Below0(k) == loopCount = 2 * k + 1 /\ probe = Block(-k - 1) /\ \A i \in -k .. k : Block(i) \in tried

Spiralled == pc = "spiral" => \E k \in Nat : Above0(k) \/ Below0(k)

(* A step of the spiral goes to the other side, one block farther out. *)
LEMMA SpiralStep == TypeOK /\ Spiralled /\ [Next]_vars => Spiralled'
<1> SUFFICES ASSUME TypeOK, Spiralled, [Next]_vars, pc' = "spiral"
             PROVE  \E k \in Nat : (Above0(k) \/ Below0(k))'
  BY DEF Spiralled
<1>1. Granularity \in Nat /\ fn \in Nat /\ Guess \in Int /\ Granularity > 0
  BY DisplacementAssumption DEF TypeOK, Guess
<1>2. CASE NoneFree
  <2>1. Guess' = Guess
    BY <1>2 DEF NoneFree, place, Guess
  <2>2. loopCount' = 2 * 0 /\ probe' = Guess' + Granularity * 0 /\ -0 .. 0 - 1 = {}
    BY <1>1, <1>2, <2>1 DEF NoneFree
  <2>3. Above0(0)'
    BY <2>2 DEF Above0, Block
  <2>. QED BY <2>3
<1>3. CASE Taken
  <2>1. /\ probe' = Spiral /\ loopCount' = loopCount + 1 /\ tried' = tried \union {probe}
        /\ Guess' = Guess /\ pc = "spiral"
    BY <1>3 DEF Taken, place, Guess
  <2>2. PICK k \in Nat : Above0(k) \/ Below0(k)
    BY <2>1 DEF Spiralled
  <2>3. CASE Above0(k)
    <3>1. loopCount % 2 = 0
      BY <2>3 DEF Above0
    <3>2. probe' = Guess + Granularity * k + Granularity * (2 * k + 1) * (-1)
      BY <2>1, <2>3, <3>1 DEF Spiral, Above0, Block
    <3>3. probe' = Guess + Granularity * (-k - 1)
      BY <1>1, <3>2
    <3>4. \A i \in -k .. k : Guess + Granularity * i \in tried'
      <4> SUFFICES ASSUME NEW i \in -k .. k PROVE Guess + Granularity * i \in tried'
        OBVIOUS
      <4>1. CASE i = k
        BY <2>1, <2>3, <4>1 DEF Above0, Block
      <4>2. CASE i # k
        <5>1. i \in -k .. k - 1
          BY <4>2
        <5>. QED BY <2>1, <2>3, <5>1 DEF Above0, Block
      <4>. QED BY <4>1, <4>2
    <3>5. loopCount' = 2 * k + 1
      BY <2>1, <2>3 DEF Above0
    <3>6. Below0(k)'
      BY <2>1, <3>3, <3>4, <3>5 DEF Below0, Block
    <3>. QED BY <3>6
  <2>4. CASE Below0(k)
    <3>1. loopCount % 2 = 1
      BY <2>4 DEF Below0
    <3>2. probe' = Guess + Granularity * (-k - 1) + Granularity * (2 * k + 2)
      BY <1>1, <2>1, <2>4, <3>1 DEF Spiral, Below0, Block
    <3>3. probe' = Guess + Granularity * (k + 1)
      BY <1>1, <3>2
    <3>4. \A i \in -(k + 1) .. (k + 1) - 1 : Guess + Granularity * i \in tried'
      <4> SUFFICES ASSUME NEW i \in -(k + 1) .. (k + 1) - 1 PROVE Guess + Granularity * i \in tried'
        OBVIOUS
      <4>1. CASE i = -k - 1
        BY <2>1, <2>4, <4>1 DEF Below0, Block
      <4>2. CASE i # -k - 1
        <5>1. i \in -k .. k
          BY <4>2
        <5>. QED BY <2>1, <2>4, <5>1 DEF Below0, Block
      <4>. QED BY <4>1, <4>2
    <3>5. loopCount' = 2 * (k + 1)
      BY <2>1, <2>4 DEF Below0
    <3>6. Above0(k + 1)'
      BY <2>1, <3>3, <3>4, <3>5 DEF Above0, Block
    <3>. QED BY <3>6
  <2>. QED BY <2>2, <2>3, <2>4
<1>4. CASE UNCHANGED <<pc, place, search>>
  BY <1>4 DEF place, search, Spiralled, Above0, Below0, Block, Guess
<1>5. NoneFree \/ Taken \/ UNCHANGED <<pc, place, search>>
  BY DEF Next, Move, MoveRip, Stop, Disassembled, FindFree, NoneFree, Taken, Allocate, GiveUp, Emit, vars
<1>. QED BY <1>2, <1>3, <1>4, <1>5

(* A multiple of the granularity is a block, counted from where the spiral begins. *)
LEMMA BlockOf ==
  ASSUME TypeOK, NEW a \in Nat, a % Granularity = 0
  PROVE  \E i \in Int : a = Block(i)
<1>1. Granularity \in Nat /\ Granularity > 0 /\ fn \in Nat
  BY DisplacementAssumption DEF TypeOK
<1>2. a = Granularity * (a \div Granularity) /\ a \div Granularity \in Int
  BY <1>1
<1>3. fn \div Granularity \in Int
  BY <1>1
<1>4. a = (fn \div Granularity) * Granularity
            + Granularity * (a \div Granularity - fn \div Granularity)
  BY <1>1, <1>2, <1>3
<1>. QED BY <1>2, <1>3, <1>4 DEF Block, Guess

(* Nearer to the beginning means fewer blocks away. *)
LEMMA Nearer ==
  ASSUME NEW g \in Nat, g > 0, NEW i \in Int, NEW j \in Int, g * i < g * j
  PROVE  i < j
<1>1. SUFFICES ASSUME i >= j PROVE FALSE
  OBVIOUS
<1>2. g * (i - j) >= 0
  BY <1>1
<1>3. g * (i - j) = g * i - g * j
  OBVIOUS
<1>4. g * i \in Int /\ g * j \in Int
  OBVIOUS
<1>. QED BY <1>2, <1>3, <1>4

(* BlockAlloc takes the nearest block that is free, for every granularity, function
   and window.                                                               *)
THEOREM BlockIsNearest == Spec => []NearestBlock
<1>1. Init => Spiralled
  BY DEF Init, Spiralled
<1>2. TypeOK /\ Spiralled => NearestBlock
  <2> SUFFICES ASSUME TypeOK, Spiralled, pc = "spiral", NEW a \in Addr,
                      a % Granularity = 0, Dist(a, Guess) < Dist(probe, Guess)
               PROVE  a \in tried
    BY DEF NearestBlock
  <2>1. Granularity \in Nat /\ Granularity > 0 /\ a \in Nat /\ fn \in Nat
    BY DisplacementAssumption DEF TypeOK
  <2>2. Guess \in Int
    BY <2>1 DEF Guess
  <2>3. PICK i \in Int : a = Guess + Granularity * i
    BY <2>1, BlockOf DEF Block
  <2>4. PICK k \in Nat : Above0(k) \/ Below0(k)
    BY DEF Spiralled
  <2>5. Granularity * i \in Int /\ Granularity * k \in Int /\ Granularity * k >= 0
    BY <2>1
  <2>6. Granularity * (-i) = -(Granularity * i) /\ Granularity * (-k - 1) = -(Granularity * (k + 1))
    BY <2>1
  <2>7. Granularity * (k + 1) \in Int /\ Granularity * (k + 1) >= 0
    BY <2>1
  <2>8. CASE Above0(k)
    <3>1. Dist(probe, Guess) = Granularity * k
      BY <2>2, <2>5, <2>8 DEF Dist, Above0, Block
    <3>2. Granularity * i < Granularity * k /\ -(Granularity * i) < Granularity * k
      BY <2>2, <2>3, <2>5, <3>1 DEF Dist
    <3>3. i < k
      BY <2>1, <3>2, Nearer
    <3>4. -i < k
      BY <2>1, <2>6, <3>2, Nearer
    <3>5. i \in -k .. k - 1
      BY <3>3, <3>4
    <3>. QED BY <2>3, <2>8, <3>5 DEF Above0, Block
  <2>9. CASE Below0(k)
    <3>1. Dist(probe, Guess) = Granularity * (k + 1)
      <4>1. probe = Guess - Granularity * (k + 1)
        BY <2>2, <2>6, <2>7, <2>9 DEF Below0, Block
      <4>. QED BY <2>2, <2>7, <4>1 DEF Dist
    <3>2. Granularity * i < Granularity * (k + 1) /\ -(Granularity * i) < Granularity * (k + 1)
      BY <2>2, <2>3, <2>5, <2>7, <3>1 DEF Dist
    <3>3. i < k + 1
      BY <2>1, <3>2, Nearer
    <3>4. -i < k + 1
      BY <2>1, <2>6, <3>2, Nearer
    <3>5. i \in -k .. k
      BY <3>3, <3>4
    <3>. QED BY <2>3, <2>9, <3>5 DEF Below0, Block
  <2>. QED BY <2>4, <2>8, <2>9
<1>3. TypeOK /\ Spiralled /\ [Next]_vars => (TypeOK /\ Spiralled)'
  BY TypeStep, SpiralStep
<1>4. Init => TypeOK
  BY InitTyped
<1>. QED BY <1>1, <1>2, <1>3, <1>4, PTL DEF Spec
===============================================================================
