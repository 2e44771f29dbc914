------------------------------- MODULE MCDecoder -------------------------------
(***************************************************************************)
(* Every one-byte and two-byte opcode with no prefix, and the opcodes that *)
(* prefixes act on with lists of them, each with ModRM bytes of every kind *)
(* of operand; the decoder is compared with InstructionFormat.             *)
(***************************************************************************)
EXTENDS Decoder

(* ModRM: a register and an instruction of every group, each form of memory operand *)
ModRMs == {\hC0 + 8 * r + 1 : r \in 0..7} \union {8 * r : r \in 0..7}
            \union {\h04, \h05, \h06, \h44, \h45, \h84, \h86}
FewModRMs == {\h00, \h05, \h04, \h0E, \h45, \hC1, \hF8}
SIBs == {\h24, \h25}

(* An opcode with the bytes behind it *)
Tails(opcode, modrms) ==
  IF ~F!HasModRM([map |-> Len(opcode), opcode |-> opcode[Len(opcode)]])
  THEN {opcode}
  ELSE {opcode \o <<m>> : m \in {n \in modrms : n % 8 # 4 \/ n >= \hC0}}
         \union {opcode \o <<m, s>> : m \in {n \in modrms : n % 8 = 4 /\ n < \hC0}, s \in SIBs}

Suffixed == {<<\h0F, \h0F, m, \hB4>> : m \in {\hC1, \h00, \h04}}
              \union {<<\h0F, \h0F, \h05, 0, 0, 0, 0, \hB4>>}

AllOpcodes == {<<b>> : b \in (0..255) \ {\h0F}} \union {<<\h0F, b>> : b \in 0..255}

PrefixedOpcodes ==
  {<<b>> : b \in {\h00, \h05, \h06, \h38, \h63, \h68, \h69, \h6A, \h81, \h87, \h8B, \h8D, \h8F, \h90,
                  \h9A, \hA1, \hA4, \hB8, \hC2, \hC4, \hC7, \hC8, \hD9, \hDB, \hDD, \hE0, \hE3, \hE8,
                  \hEB, \hF7, \hFF}}
  \union
  {<<\h0F, b>> : b \in {\h00, \h01, \h10, \h13, \h18, \h20, \h2A, \h34, \h50, \h6E, \h6F, \h70,
                        \h71, \h77, \h7E, \h84, \hA2, \hAB, \hAE, \hB1, \hB6, \hB9, \hBA, \hC4, \hC7,
                        \hC8, \hD6, \hD7, \hF0, \hF7}}

Prefixes ==
  {<<b>> : b \in {\h66, \h67, \hF2, \hF3, \hF0, \h2E, \h64, \h40, \h41, \h44, \h48}}
  \union {<<\h66, \h66>>, <<\h67, \h67>>, <<\h66, \h48>>, <<\h48, \h66>>, <<\h66, \h40>>, <<\h66, \hF2>>,
          <<\hF2, \h66>>, <<\hF3, \hF2>>, <<\h66, \h67>>, <<\h67, \h48>>, <<\hF0, \h66>>,
          <<\hF0, \h48>>, <<\h64, \h2E>>, <<\h4D, \h48>>}
  \union {<<\h66, \hF3, \h48>>, <<\hF2, \h66, \h66>>, <<\h64, \h66, \hF3>>,
          <<\h2E, \h66, \h67, \hF0>>, <<\h2E, \h66, \h67, \h64, \h49>>}

Nops(n) == [i \in 1..n |-> \h2E]

MCTexts ==
  UNION {Tails(op, ModRMs) : op \in AllOpcodes} \union Suffixed
    \union UNION {{p \o t : t \in UNION {Tails(op, FewModRMs) : op \in PrefixedOpcodes} \union Suffixed}
                    : p \in Prefixes}
    \union {Nops(n) \o t : n \in {4, 5, 13, 14, 15, 16}, t \in {<<\h90>>, <<\h48, \h8B, \h05>>}}
===============================================================================
