--------------------------- MODULE InstructionFormat ---------------------------
(***************************************************************************)
(* How long an instruction is and whether it is relative to its address,   *)
(* as the processor manuals lay it down, for the instructions up to SSE3   *)
(* (no VEX, no three-byte opcodes): prefixes, opcode, ModRM, SIB,          *)
(* displacement, immediate.  With 66 a near branch of x64 has a 16-bit     *)
(* offset, as in the AMD64 manual.  This is what the decoder is compared   *)
(* with; it says nothing of which opcodes exist.                           *)
(***************************************************************************)
EXTENDS Integers, Sequences

At(text, i) == IF i <= Len(text) THEN text[i] ELSE 0

LegacyPrefixes == {\h26, \h2E, \h36, \h3E, \h64, \h65, \h66, \h67, \hF0, \hF2, \hF3}

PrefixByte(mode, b) == b \in LegacyPrefixes \/ (mode = "x64" /\ b \in \h40..\h4F)

(* How many prefixes an instruction has *)
PrefixCount(mode, text) ==
  CHOOSE n \in 0..Len(text) :
    /\ \A i \in 1..n : PrefixByte(mode, text[i])
    /\ n < Len(text) => ~PrefixByte(mode, text[n + 1])

(* The fields of an instruction.  A rex prefix counts where it comes last. *)
Fields(mode, text) ==
  LET n == PrefixCount(mode, text)
      prefixes == {text[i] : i \in 1..n}
      rex == IF mode = "x64" /\ n > 0 /\ text[n] \in \h40..\h4F THEN text[n] ELSE 0
      two == At(text, n + 1) = \h0F
      opcode == At(text, IF two THEN n + 2 ELSE n + 1)
      modrmAt == IF two THEN n + 3 ELSE n + 2 IN
  [map |-> IF two THEN 2 ELSE 1, opcode |-> opcode, modrmAt |-> modrmAt,
   modrm |-> At(text, modrmAt), sib |-> At(text, modrmAt + 1),
   size |-> IF rex >= \h48 THEN 8 ELSE IF \h66 \in prefixes THEN 2 ELSE 4,
   addr |-> IF mode = "x64" THEN (IF \h67 \in prefixes THEN 4 ELSE 8)
            ELSE IF \h67 \in prefixes THEN 2 ELSE 4]

HasModRM(f) ==
  IF f.map = 1
  THEN \/ f.opcode < \h40 /\ f.opcode % 8 < 4
       \/ f.opcode \in (\h80..\h8F) \union (\hD0..\hD3) \union (\hD8..\hDF)
       \/ f.opcode \in {\h62, \h63, \h69, \h6B, \hC0, \hC1, \hC4, \hC5, \hC6, \hC7,
                        \hF6, \hF7, \hFE, \hFF}
  ELSE f.opcode \notin
         {\h05, \h06, \h07, \h08, \h09, \h0B, \h0E, \h77} \union (\h30..\h37) \union (\h80..\h8F)
           \union {\hA0, \hA1, \hA2, \hA8, \hA9, \hAA} \union (\hC8..\hCF)

mod(f) == f.modrm \div 64
reg(f) == (f.modrm \div 8) % 8
rm(f) == f.modrm % 8

SIBPresent(f) == HasModRM(f) /\ f.addr # 2 /\ mod(f) # 3 /\ rm(f) = 4

DisplacementBytes(f) ==
  IF ~HasModRM(f) \/ mod(f) = 3 THEN 0
  ELSE LET word == IF f.addr = 2 THEN 2 ELSE 4
           base == IF SIBPresent(f) THEN f.sib % 8 ELSE rm(f)
           none == IF f.addr = 2 THEN 6 ELSE 5 IN   \* with mod 0: a displacement, no base
       IF mod(f) = 1 THEN 1 ELSE IF mod(f) = 2 \/ base = none THEN word ELSE 0

WordBytes(f) == IF f.size = 2 THEN 2 ELSE 4

Immediate8(f) ==
  IF f.map = 1
  THEN \/ f.opcode < \h40 /\ f.opcode % 8 = 4
       \/ f.opcode \in (\h70..\h7F) \union (\hB0..\hB7) \union (\hE0..\hE7)
       \/ f.opcode \in {\h6A, \h6B, \h80, \h82, \h83, \hA8, \hC0, \hC1, \hC6, \hCD, \hD4, \hD5, \hEB}
       \/ f.opcode = \hF6 /\ reg(f) < 2
  ELSE f.opcode \in (\h70..\h73) \union {\hA4, \hAC, \hBA, \hC2, \hC4, \hC5, \hC6}
       \/ f.opcode = \h0F                              \* the suffix of 3DNow!

ImmediateWord(f) ==
  IF f.map = 1
  THEN \/ f.opcode < \h40 /\ f.opcode % 8 = 5
       \/ f.opcode \in {\h68, \h69, \h81, \hA9, \hC7, \hE8, \hE9}
       \/ f.opcode = \hF7 /\ reg(f) < 2
  ELSE f.opcode \in \h80..\h8F

ImmediateBytes(f) ==
  IF Immediate8(f) THEN 1
  ELSE IF ImmediateWord(f) THEN WordBytes(f)
  ELSE IF f.map = 2 THEN 0
  ELSE CASE f.opcode \in \hB8..\hBF -> f.size
         [] f.opcode \in \hA0..\hA3 -> f.addr
         [] f.opcode \in {\hC2, \hCA} -> 2
         [] f.opcode = \hC8 -> 3
         [] f.opcode \in {\h9A, \hEA} -> WordBytes(f) + 2
         [] OTHER -> 0

DisplacementAt(f) == f.modrmAt + (IF SIBPresent(f) THEN 1 ELSE 0)   \* counted from 0

InstructionLength(mode, text) ==
  LET f == Fields(mode, text) IN
  f.modrmAt - 1 + (IF HasModRM(f) THEN 1 ELSE 0) + (IF SIBPresent(f) THEN 1 ELSE 0)
    + DisplacementBytes(f) + ImmediateBytes(f)

(* A branch with an offset, or on x64 an operand at a displacement from the next instruction *)
RelativeBranch(f) ==
  IF f.map = 1 THEN f.opcode \in (\h70..\h7F) \union (\hE0..\hE3) \union {\hE8, \hE9, \hEB}
  ELSE f.opcode \in \h80..\h8F

RipRelative(mode, f) == mode = "x64" /\ HasModRM(f) /\ mod(f) = 0 /\ rm(f) = 5
===============================================================================
