-------------------------------- MODULE Decoder --------------------------------
(***************************************************************************)
(* The instruction decoder (mhook-lib/disasm_x86.c) as the hook engine     *)
(* uses it: X86_GetInstruction on the bytes of one instruction, then what  *)
(* DisassembleAndSkip (mhook-lib/mhook.c) does with the result.            *)
(*                                                                         *)
(* The text that is decoded never changes.  ins is INSTRUCTION and         *)
(* X86_INSTRUCTION together.  AnomalyOccurred is kept as far as it decides *)
(* whether an operand-size prefix is rejected; values of operands, target  *)
(* addresses and the disassembled text are not kept.                       *)
(***************************************************************************)
EXTENDS DecoderTables, Sequences

CONSTANTS
  Modes,   \* the processors the library is built for
  Texts    \* what may lie where an instruction is expected; zeros follow it

ASSUME DecoderAssumption ==
  /\ Modes \subseteq {"x86", "x64"}
  /\ Texts \subseteq Seq(0..255)

MaxLength == 15      \* X86_MAX_INSTRUCTION_LEN
MaxPrefixes == 4     \* X86_MAX_PREFIX_LENGTH
MaxPrefixes64 == 5   \* AMD64_MAX_PREFIX_LENGTH

VARIABLES mode, text, stage, ins

given == <<mode, text>>
vars == <<mode, text, stage, ins>>

Byte(i) == IF i <= Len(text) THEN text[i] ELSE 0

Mod(modrm) == modrm \div 64
Reg(modrm) == (modrm \div 8) % 8
RM(modrm) == modrm % 8

(* X86_InitInstruction *)
Init ==
  /\ mode \in Modes /\ text \in Texts
  /\ stage = "prefixes"
  /\ ins = [len |-> 0,                  \* Length
            at |-> 0,                   \* how far Address has come
            prefixes |-> <<>>, anomaly |-> FALSE,
            sse |-> 0,                  \* SSE_Prefix
            rep |-> 0,                  \* the repeat prefix in force
            segment |-> FALSE, lock |-> FALSE,
            opSizePrefix |-> FALSE, addrSizePrefix |-> FALSE,
            opSize |-> 4, addrSize |-> IF mode = "x64" THEN 8 ELSE 4,
            w |-> FALSE, r |-> FALSE, b |-> FALSE,   \* rex
            opLen |-> 0, opcode |-> 0,  \* OpcodeLength, LastOpcode
            hasModRM |-> FALSE, modrm |-> 0,
            row |-> Row,                \* Opcode
            suffix |-> FALSE,           \* SetOperands is called for a suffixed opcode
            modrmAt |-> 0,              \* Address before SetOperands
            operand |-> 1,              \* OperandIndex
            ipRel |-> {},               \* the operands with OP_IPREL
            dst |-> FALSE]              \* HasDstAddressing

Advance(i, n) == [i EXCEPT !.len = @ + n, !.at = @ + n]   \* INSTR_INC

Reject == stage' = "rejected" /\ UNCHANGED <<given, ins>>

-------------------------------------------------------------------------------
(* Prefixes *)

Entry(table, b) == IF b \in DOMAIN table THEN {table[b]} ELSE {}

IsPrefix(b) == \E e \in Entry(Opcodes_1, b) : e.is = "prefix"
IsRex(b) == mode = "x64" /\ b \in \h40..\h4F

this == Byte(ins.at + 1)

Misplaced == IsRex(this) /\ IsPrefix(Byte(ins.at + 2))

MisplacedRex ==
  /\ stage = "prefixes" /\ Misplaced
  /\ ins' = [Advance(ins, 1) EXCEPT !.anomaly = TRUE]
  /\ UNCHANGED <<given, stage>>

(* Mutant: the list of prefixes has no limit. *)
TakeAnyPrefix(p, conflict, i) ==
  /\ stage = "prefixes" /\ this = p
  /\ ins' = [Advance(i, 1) EXCEPT
               !.anomaly = @ \/ conflict \/ \E n \in DOMAIN ins.prefixes : ins.prefixes[n] = p,
               !.prefixes = Append(@, p)]
  /\ UNCHANGED <<given, stage>>

(* Prefix p is seen, in conflict with an earlier one or not; i has its effect. *)
TakePrefix(p, conflict, i) ==
  /\ stage = "prefixes" /\ this = p
  /\ IF Len(ins.prefixes) >= MaxLength
     THEN Reject
     ELSE /\ ins' = [Advance(i, 1) EXCEPT
                       !.anomaly = \/ @ \/ conflict
                                   \/ \E n \in DOMAIN ins.prefixes : ins.prefixes[n] = p
                                   \/ Len(ins.prefixes) = MaxPrefixes,
                       !.prefixes = Append(@, p)]
          /\ UNCHANGED <<given, stage>>

RepeatPrefix ==
  \E p \in {\hF2, \hF3} :
    TakePrefix(p, ins.rep \notin {0, p}, [ins EXCEPT !.sse = p, !.rep = p])

(* Mutant: a second operand-size prefix undoes the first. *)
TogglingOperandSizePrefix ==
  TakePrefix(\h66, ins.opSizePrefix,
             [ins EXCEPT !.sse = \h66, !.opSizePrefix = TRUE, !.opSize = 6 - @])

OperandSizePrefix ==
  TakePrefix(\h66, ins.opSizePrefix,
             [ins EXCEPT !.sse = \h66, !.opSizePrefix = TRUE,
                         !.opSize = IF ins.opSizePrefix THEN @ ELSE 6 - @])

(* Mutant: a second address-size prefix halves the size again. *)
RepeatedAddressSizePrefix ==
  TakePrefix(\h67, ins.addrSizePrefix,
             [ins EXCEPT !.addrSizePrefix = TRUE, !.addrSize = @ \div 2])

AddressSizePrefix ==
  TakePrefix(\h67, ins.addrSizePrefix,
             [ins EXCEPT !.addrSizePrefix = TRUE,
                         !.addrSize = IF ins.addrSizePrefix THEN @ ELSE @ \div 2])

SegmentPrefix ==
  \E p \in {\h26, \h2E, \h36, \h3E, \h64, \h65} :
    LET meant == mode = "x86" \/ p \in {\h64, \h65} IN
    TakePrefix(p, ins.segment \/ ~meant, [ins EXCEPT !.segment = @ \/ meant])

LockPrefix == TakePrefix(\hF0, ins.lock, [ins EXCEPT !.lock = TRUE])

(* The last prefix.  A byte that follows it is an opcode, another rex prefix too. *)
RexPrefix ==
  /\ stage = "prefixes" /\ IsRex(this) /\ ~Misplaced
  /\ IF Len(ins.prefixes) >= MaxLength
     THEN Reject
     ELSE LET w == this % 16 >= 8 IN
          /\ ins' = [Advance(ins, 1) EXCEPT
                       !.prefixes = Append(@, this),
                       !.anomaly = \/ @ \/ Len(ins.prefixes) = MaxPrefixes64
                                   \/ (this = \h40 /\ ~ins.opSizePrefix),
                       !.w = w, !.r = (this \div 4) % 2 = 1, !.b = this % 2 = 1,
                       !.opSize = IF w THEN 8 ELSE @,
                       !.opSizePrefix = @ /\ ~w]
          /\ stage' = "opcode"
          /\ UNCHANGED given

-------------------------------------------------------------------------------
(* Opcode *)

AtOpcode ==
  \/ stage = "opcode"
  \/ stage = "prefixes" /\ ~IsPrefix(this) /\ ~IsRex(this)

(* ins after an opcode of n bytes, the last of which is op *)
Opened(n, op, hasModRM) ==
  [Advance(ins, n) EXCEPT
     !.opLen = n, !.opcode = op, !.hasModRM = hasModRM, !.modrmAt = ins.at + n,
     !.modrm = IF hasModRM THEN Byte(ins.at + n + 1) ELSE 0]

(* The entry that the byte ModRM or the mode selects from the table of entry e. *)
Resolve(e, modrm) ==
  CASE e.is = "instr" -> {e}
    [] e.is = "group" -> Entry(e.table, Reg(modrm))
    [] e.is = "fpu" -> Entry(e.table, IF modrm < \hC0 THEN Reg(modrm) ELSE 8 + (modrm % 64))
    [] e.is = "modrm" -> UNION {IF f.is = "group" THEN Entry(f.table, Reg(modrm)) ELSE {f}
                                  : f \in Entry(e.table, modrm)}
    [] e.is = "ext64" -> Entry(e.table, IF mode = "x64" THEN 1 ELSE 0)

(* Continue with the one of the rows that this processor has. *)
Select(i, rows) ==
  LET known == {row \in rows : row.only64 => mode = "x64"} IN
  /\ IF known = {} THEN Reject
     ELSE \E row \in known : ins' = [i EXCEPT !.row = row, !.suffix = FALSE] /\ stage' = "checks"
  /\ UNCHANGED given

(* Without operands nothing else passes over the ModRM byte that was part of the opcode. *)
PastModRM(i, e, rows) ==
  IF e.is \in {"fpu", "modrm"} /\ \E row \in rows : row.ops = <<>> THEN Advance(i, 1) ELSE i

OneByteOpcode ==
  /\ AtOpcode /\ this # \h0F
  /\ IF \/ Entry(Opcodes_1, this) = {}
        \/ ins.addrSize = 8 /\ this \in Invalid_Addr64_1
        \/ ins.opSize = 2 /\ this \in Invalid_Op16_1
     THEN Reject
     ELSE LET e == Opcodes_1[this]
              i == Opened(1, this, this \in ModRM_1)
              rows == Resolve(e, i.modrm) IN
          Select(PastModRM(i, e, rows), rows)

(* The second byte of a two-byte opcode *)
second == Byte(ins.at + 2)

TwoBytes == AtOpcode /\ this = \h0F

Invalid2 ==
  \/ Entry(Opcodes_2, second) = {}
  \/ ins.addrSize = 8 /\ second \in Invalid_Addr64_2
  \/ ins.opSize = 2 /\ second \in Invalid_Op16_2

IsSSE == /\ ins.sse # 0 /\ second \in DOMAIN SSE_66
         /\ Opcodes_2[second].is \notin {"modrm", "suffix", "ext64"}

InvalidOpcode == TwoBytes /\ Invalid2 /\ Reject

TwoByteOpcode ==
  /\ TwoBytes /\ ~Invalid2 /\ ~IsSSE /\ Opcodes_2[second].is # "suffix"
  /\ LET e == Opcodes_2[second]
         i == Opened(2, second, second \in ModRM_2)
         rows == Resolve(e, i.modrm) IN
     Select(PastModRM(i, e, rows), rows)

(* The prefix is part of the opcode: "remove it from the prefix list".  What is removed  *)
(* is the first prefix, whichever it is. *)
SSEOpcode ==
  /\ TwoBytes /\ ~Invalid2 /\ IsSSE
  /\ LET i == [Opened(2, second, second \in ModRM_2) EXCEPT
                 !.opLen = 3, !.prefixes = Tail(@), !.rep = 0, !.opSizePrefix = FALSE,
                 !.opSize = IF ins.sse # \h66 THEN @ ELSE IF ins.w THEN 8 ELSE 4]
         table == CASE ins.sse = \h66 -> SSE_66
                    [] ins.sse = \hF2 -> SSE_F2
                    [] ins.sse = \hF3 -> SSE_F3 IN
     Select(i, UNION {Resolve(e, i.modrm) : e \in Entry(table, second)})

(* A 3DNow! opcode is completed by the byte behind its operands. *)
SuffixOpcode ==
  /\ TwoBytes /\ ~Invalid2 /\ Opcodes_2[second].is = "suffix"
  /\ ins' = [Advance(Opened(2, second, TRUE), 1) EXCEPT
               !.row.ops = <<"P", "Q">>, !.suffix = TRUE,
               !.opSize = IF ins.opSizePrefix THEN 4 ELSE @, !.opSizePrefix = FALSE]
  /\ stage' = "operands"
  /\ UNCHANGED given

(* Address is still that of ModRM: SetOperands has moved its own copy. *)
SuffixByte ==
  /\ stage = "suffix"
  /\ Select([ins EXCEPT !.len = @ + 1, !.at = ins.modrmAt, !.opLen = 3, !.operand = 1],
            Entry(T_3DNOW_0F, Byte(ins.len + 1)))

-------------------------------------------------------------------------------
(* Prefixes and sizes, once the instruction is known *)

Has(p) == \E n \in DOMAIN ins.prefixes : ins.prefixes[n] = p

Refused66 == ins.row.unit # "int" /\ ins.row.type # "fenv" /\ Has(\h66)
RefusedRepeat == ins.row.unit = "simd" /\ (Has(\hF2) \/ Has(\hF3))

Default64 ==
  /\ mode = "x64"
  /\ \/ ins.row.type \in {"stack", "call", "branch", "loopcc", "ret"}
     \/ /\ ins.row.type = "system" /\ ins.opLen = 2
        /\ ins.opcode \in {0, 1} /\ Reg(ins.modrm) \in {2, 3}

StringOperands == \E n \in DOMAIN ins.row.ops : ins.row.ops[n] \in {"X", "Y"}

CheckPrefixes ==
  /\ stage = "checks"
  /\ IF (Refused66 /\ ~ins.anomaly) \/ RefusedRepeat
     THEN Reject
     ELSE LET opSizePrefix == ins.opSizePrefix /\ ~Refused66 /\ ~(ins.w /\ Has(\h66))
              sized == [ins EXCEPT
                          !.opSizePrefix = opSizePrefix, !.w = @ /\ ~Default64,
                          !.anomaly = @ \/ (ins.rep # 0 /\ ~StringOperands),
                          !.opSize = IF Default64 /\ ~opSizePrefix THEN 8 ELSE @] IN
          /\ IF ins.row.ops = <<>>
             THEN ins' = sized /\ stage' = "last checks"
             ELSE /\ ins' = IF ins.hasModRM THEN Advance(sized, 1) ELSE sized
                  /\ stage' = "operands"
          /\ UNCHANGED given

-------------------------------------------------------------------------------
(* SetOperands *)

kind == ins.row.ops[ins.operand]

AtOperand(kinds) == stage = "operands" /\ kind \in kinds

OperandDone(i) ==
  /\ ins' = [i EXCEPT !.operand = @ + 1]
  /\ stage' = IF ins.operand < Len(ins.row.ops) THEN stage
              ELSE IF ins.suffix THEN "suffix" ELSE "last checks"
  /\ UNCHANGED given

ImpliedOperand == AtOperand({"r", "X", "Y", "xlat"}) /\ OperandDone(ins)

(* Mutant: an immediate of size z grows to eight bytes with rex.w. *)
SizeWithoutLimit(k) ==
  CASE k \in {"Ib", "Jb"} -> 1
    [] k = "Iw" -> 2
    [] k \in {"Iz", "Jz", "Iv"} -> ins.opSize
    [] k = "O" -> ins.addrSize
    [] k = "A" -> IF ins.opSize = 2 THEN 4 ELSE 6

(* The bytes of an operand that is part of the instruction *)
Size(k) ==
  CASE k \in {"Ib", "Jb"} -> 1
    [] k = "Iw" -> 2
    [] k \in {"Iz", "Jz"} -> IF ins.opSize = 2 THEN 2 ELSE 4
    [] k = "Iv" -> ins.opSize
    [] k = "O" -> ins.addrSize
    [] k = "A" -> IF ins.opSize = 2 THEN 4 ELSE 6

Immediate == AtOperand({"Ib", "Iw", "Iz", "Iv"}) /\ OperandDone(Advance(ins, Size(kind)))

(* SANITY_CHECK_ADDRESS_SIZE: a branch does not use the address size. *)
OwnAddressSize(i) ==
  [i EXCEPT !.anomaly = @ \/ i.addrSizePrefix, !.addrSizePrefix = FALSE,
            !.addrSize = IF mode = "x64" THEN 8 ELSE 4]

FarAddress == AtOperand({"A"}) /\ OperandDone(OwnAddressSize(Advance(ins, Size("A"))))

(* SANITY_CHECK_OPERAND_SIZE: the size of the offset is that of addresses. *)
Offset ==
  /\ AtOperand({"O"})
  /\ LET unexpected == ins.opSizePrefix /\ ~ins.anomaly IN
     OperandDone([Advance(ins, Size("O")) EXCEPT
       !.anomaly = @ \/ unexpected, !.opSizePrefix = @ /\ ~unexpected,
       !.opSize = IF unexpected THEN 6 - @ ELSE @])

RelativeOffset ==
  /\ AtOperand({"Jb", "Jz"})
  /\ OperandDone([OwnAddressSize(Advance(ins, Size(kind))) EXCEPT !.ipRel = @ \union {ins.operand}])

(* A register of the reg field; control and debug registers are as wide as the mode. *)
RegOperand ==
  /\ AtOperand({"G", "S", "P", "V", "C", "D"})
  /\ IF (kind = "P" /\ ins.r) \/ (kind \in {"P", "V"} /\ ins.opSize = 2)
     THEN Reject
     ELSE OperandDone([ins EXCEPT
            !.opSize = IF kind \in {"C", "D"} /\ mode = "x64" THEN 8 ELSE @])

(* A register of the rm field *)
RMOperand ==
  /\ AtOperand({"R", "PR", "VR"})
  /\ IF \/ Mod(ins.modrm) # 3 \/ (kind = "PR" /\ ins.b)
        \/ (kind \in {"PR", "VR"} /\ ins.opSize = 2)
     THEN Reject
     ELSE OperandDone(ins)

(* SetModRM16 *)
ModRM16Bytes ==
  CASE Mod(ins.modrm) = 0 -> IF RM(ins.modrm) = 6 THEN 2 ELSE 0
    [] Mod(ins.modrm) = 1 -> 1
    [] Mod(ins.modrm) = 2 -> 2

(* SetSIB with the displacement that SetModRM32 adds *)
SIBBytes ==
  LET base == Byte(ins.at + 1) % 8 IN
  CASE Mod(ins.modrm) = 0 -> IF base = 5 THEN 5 ELSE 1
    [] Mod(ins.modrm) = 1 -> 2
    [] Mod(ins.modrm) = 2 -> 5

NoBase == ins.addrSize # 2 /\ Mod(ins.modrm) = 0 /\ RM(ins.modrm) = 5

(* SetModRM32 *)
ModRM32Bytes ==
  CASE Mod(ins.modrm) = 3 -> 0
    [] Mod(ins.modrm) # 3 /\ RM(ins.modrm) = 4 -> SIBBytes
    [] Mod(ins.modrm) = 0 /\ RM(ins.modrm) # 4 -> IF NoBase THEN 4 ELSE 0
    [] Mod(ins.modrm) = 1 /\ RM(ins.modrm) # 4 -> 1
    [] Mod(ins.modrm) = 2 /\ RM(ins.modrm) # 4 -> 4

MemoryOperand ==
  /\ AtOperand({"M", "E", "Es", "Ep", "Q", "W"})
  /\ LET register == Mod(ins.modrm) = 3
         bytes == IF register THEN 0
                  ELSE IF ins.addrSize = 2 THEN ModRM16Bytes ELSE ModRM32Bytes IN
     IF register /\ (kind \in {"M", "Ep"} \/ (kind = "Q" /\ ins.b))
     THEN Reject
     ELSE OperandDone([Advance(ins, bytes) EXCEPT
            !.ipRel = IF mode = "x64" /\ NoBase THEN @ \union {ins.operand} ELSE @,
            !.dst = @ \/ (~register /\ kind \in {"M", "E"})])

-------------------------------------------------------------------------------
(* IsValidLockPrefix *)
Lockable ==
  /\ \/ ins.opLen = 1 /\ ins.opcode \in LockPrefix_1
     \/ ins.opLen > 1 /\ ins.opcode \in LockPrefix_2
     \/ /\ ins.opLen = 1 /\ ins.opcode \in LockPrefix_1_Groups
        /\ Reg(ins.modrm) \in LockPrefix_Groups[Groups_1[ins.opcode]]
     \/ /\ ins.opLen > 1 /\ ins.opcode \in LockPrefix_2_Groups
        /\ Reg(ins.modrm) \in LockPrefix_Groups[Groups_2[ins.opcode]]
  /\ ins.hasModRM /\ Mod(ins.modrm) # 3 /\ ins.dst

TooLong == ins.len > MaxLength

LastChecks ==
  /\ stage = "last checks"
  /\ IF (ins.lock /\ ~Lockable) \/ TooLong
     THEN Reject
     ELSE stage' = "decoded" /\ UNCHANGED <<given, ins>>

-------------------------------------------------------------------------------
(* DisassembleAndSkip *)

Leaves == ins.row.type \in {"ret", "branch", "branchcc", "call", "callcc"}

(* Mutant: 32-bit destinations are patched too. *)
PatchableOfAnySize ==
  ins.row.type \in {"mov", "lea"} /\ Len(ins.row.ops) = 2 /\ ins.ipRel # {}

Patchable ==
  /\ ins.row.type \in {"mov", "lea"} /\ ins.opSize = 8 /\ Len(ins.row.ops) = 2
  /\ ins.ipRel # {}

(* Mutant: only the first operand is looked at. *)
ExamineFirstOperand ==
  /\ stage = "decoded"
  /\ stage' = IF Leaves THEN "stopped"
              ELSE IF mode = "x86" THEN "moved"
              ELSE IF Patchable THEN "patched"
              ELSE IF 1 \in ins.ipRel THEN "stopped" ELSE "moved"
  /\ UNCHANGED <<given, ins>>

(* What becomes of the instruction: it is moved, moved with its displacement put down to *)
(* be corrected, or it ends what is moved.  On x86 operands are not looked at. *)
Examine ==
  /\ stage = "decoded"
  /\ stage' = IF Leaves THEN "stopped"
              ELSE IF mode = "x86" THEN "moved"
              ELSE IF Patchable THEN "patched"
              ELSE IF ins.ipRel # {} THEN "stopped" ELSE "moved"
  /\ UNCHANGED <<given, ins>>

PatchOffset == 3   \* "dwRet + 3"

Returned == stage \in {"rejected", "moved", "patched", "stopped"} /\ UNCHANGED vars

-------------------------------------------------------------------------------
Next ==
  \/ MisplacedRex
  \/ RepeatPrefix \/ OperandSizePrefix \/ AddressSizePrefix \/ SegmentPrefix \/ LockPrefix
  \/ RexPrefix
  \/ OneByteOpcode \/ InvalidOpcode \/ TwoByteOpcode \/ SSEOpcode
  \/ SuffixOpcode \/ SuffixByte
  \/ CheckPrefixes
  \/ ImpliedOperand \/ Immediate \/ FarAddress \/ Offset \/ RelativeOffset
  \/ RegOperand \/ RMOperand \/ MemoryOperand
  \/ LastChecks
  \/ Examine
  \/ Returned

Spec == Init /\ [][Next]_vars

-------------------------------------------------------------------------------
Accepted == stage \in {"decoded", "moved", "patched", "stopped"}

(* The type invariant. *)
TypeOK ==
  /\ mode \in Modes /\ text \in Seq(0..255)
  /\ stage \in {"prefixes", "opcode", "suffix", "checks", "operands", "last checks",
                "decoded", "rejected", "moved", "patched", "stopped"}
  /\ {ins.len, ins.at, ins.opLen, ins.modrmAt, ins.operand} \subseteq Nat
  /\ {ins.opcode, ins.modrm} \subseteq 0..255 /\ ins.prefixes \in Seq(0..255)
  /\ {ins.opSize, ins.addrSize} \subseteq {2, 4, 8}
  /\ {ins.anomaly, ins.segment, ins.lock, ins.opSizePrefix, ins.addrSizePrefix,
      ins.w, ins.r, ins.b, ins.hasModRM, ins.suffix, ins.dst} \subseteq BOOLEAN
  /\ ins.sse \in {0, \h66, \hF2, \hF3} /\ ins.rep \in {0, \hF2, \hF3}
  /\ ins.ipRel \subseteq Nat

(* However many prefixes lie there, the list of them (Prefixes in disasm.h) holds them,  *)
(* and an instruction that is accepted has no more bytes than the processor takes. *)
Bounded ==
  /\ Len(ins.prefixes) <= MaxLength
  /\ Accepted => ins.len <= MaxLength

(* What SetOperands, SANITY_CHECK_OPERAND_SIZE and X86_GetInstruction assert of the sizes *)
(* and of ModRM when they come to use them. *)
AssertionsHold ==
  /\ ins.opSizePrefix /\ (stage \in {"prefixes", "opcode", "checks"} \/ AtOperand({"O"})) => ins.opSize = 2
  /\ mode = "x64" => ins.addrSize >= 4
  /\ stage = "checks" =>
       /\ ins.w => ins.opSize = 8
       /\ Default64 /\ ~ins.opSizePrefix => ins.opSize >= 4
  /\ AtOperand({"Ib", "Iw", "Iz", "Iv"}) => Size(kind) <= ins.opSize
  /\ AtOperand({"M", "E", "Es", "Ep", "Q", "W", "G", "S", "P", "V", "C", "D", "R", "PR", "VR"})
       => ins.hasModRM
  /\ AtOperand({"M", "E"}) /\ Mod(ins.modrm) # 3 => ~ins.dst
  /\ stage = "checks" /\ ins.opLen = 3 /\ ins.opcode = \h0F => ins.len >= 4 + Len(ins.prefixes)

-------------------------------------------------------------------------------
(* The decoder and the encoding of the processor manuals *)

F == INSTANCE InstructionFormat

(* What X86_GetInstruction gets wrong: the fences of 0F AE and 0F B9 have no operands, so *)
(* nothing reads their ModRM; for 3DNow! SetOperands adds the length of the operands     *)
(* twice; a rex prefix behind a rex prefix is taken for the inc or dec it once was. *)
Misread(f) ==
  \/ f.map = 2 /\ f.opcode = \hAE /\ F!reg(f) \in 5..7
  \/ f.map = 2 /\ f.opcode \in {\hB9, \h0F}
  \/ ins.opLen = 1 /\ ins.opcode \in \h40..\h4F /\ mode = "x64"

(* GetInstruction finds the length that the processor manuals give the instruction: *)
(* the next one is looked for where it starts.                                       *)
LengthIsISA ==
  Accepted =>
    LET f == F!Fields(mode, text) IN
    Misread(f) \/ ins.len = F!InstructionLength(mode, text)

(* DisassembleAndSkip never lets through an instruction that would do something else *)
(* where the trampoline is: no branch with an offset, no operand relative to rip that  *)
(* is not put down to be corrected.  loopcc and jecxz it does let through on x86.      *)
NothingRelativeMoved ==
  stage = "moved" =>
    LET f == F!Fields(mode, text) IN
    \/ Misread(f)
    \/ mode = "x86" /\ f.map = 1 /\ f.opcode \in \hE0..\hE3
    \/ ~F!RelativeBranch(f) /\ ~F!RipRelative(mode, f)

(* The displacement that FixupIPRelativeAddressing will correct lies where           *)
(* DisassembleAndSkip says, behind three bytes, when they are rex, opcode and ModRM;   *)
(* a longer opcode or a further prefix it does not allow for.                          *)
PatchedPlace ==
  stage = "patched" =>
    LET f == F!Fields(mode, text) IN
    /\ F!RipRelative(mode, f)
    /\ f.map = 1 /\ F!PrefixCount(mode, text) = 1 => F!DisplacementAt(f) = PatchOffset
    /\ ins.len >= PatchOffset + 4
===============================================================================
