---------------------------- MODULE DecoderTables ----------------------------
(***************************************************************************)
(* The opcode tables of the instruction decoder                            *)
(* (mhook-lib/disasm_x86_tables.h).  Of a table entry the model keeps what *)
(* the length of an instruction, its acceptance and its treatment by the   *)
(* hook engine depend on: the unit, the type as far as it is asked for,    *)
(* the operands, and whether the entry is for x64 only.                    *)
(*                                                                         *)
(* An operand is named by its addressing mode, with its size where the     *)
(* size is that of bytes in the instruction: Ib, Iw, Iz, Iv immediates, Jb *)
(* and Jz relative offsets, O an offset, A a far address.  E, Es, Ep, M, Q *)
(* and W may be memory (Es is only read, Ep is a far pointer); G, P, V, S, *)
(* C, D are registers of the reg field; R, PR and VR registers of the rm   *)
(* field; r is a register or constant the opcode implies; X, Y and xlat    *)
(* are memory it implies.                                                  *)
(***************************************************************************)
EXTENDS Integers

Row == [is |-> "instr", unit |-> "int", type |-> "other", ops |-> <<>>, only64 |-> FALSE]

Alu(type, ops) == [Row EXCEPT !.type = type, !.ops = ops]
Fpu(type, ops) == [Row EXCEPT !.unit = "fpu", !.type = type, !.ops = ops]
Simd(ops) == [Row EXCEPT !.unit = "simd", !.ops = ops]
Only64(row) == [row EXCEPT !.only64 = TRUE]

Prefix == [is |-> "prefix"]
Group(table) == [is |-> "group", table |-> table]     \* by the reg field of ModRM
Esc(table) == [is |-> "fpu", table |-> table]         \* ITYPE_EXT_FPU
ByModRM(table) == [is |-> "modrm", table |-> table]   \* ITYPE_EXT_MODRM
Suffix(table) == [is |-> "suffix", table |-> table]   \* ITYPE_EXT_SUFFIX
Ext64(table) == [is |-> "ext64", table |-> table]     \* ITYPE_EXT_64

(* The array whose entries are listed by index; the indices left out are invalid. *)
Table(rows) ==
  [b \in UNION {r[1] : r \in rows} |-> (CHOOSE r \in rows : b \in r[1])[2]]

-------------------------------------------------------------------------------
(* The opcode groups: the reg field of ModRM selects the instruction. *)

Group_1_80 == Table({
  <<\h00..\h06, Alu("other", <<"E", "Ib">>)>>,
  <<{\h07}, Alu("other", <<"Es", "Ib">>)>>})
Group_1_81 == Table({
  <<\h00..\h06, Alu("other", <<"E", "Iz">>)>>,
  <<{\h07}, Alu("other", <<"Es", "Iz">>)>>})
Group_1_82 == Table({
  <<\h00..\h06, Alu("other", <<"E", "Ib">>)>>,
  <<{\h07}, Alu("other", <<"Es", "Ib">>)>>})
Group_1_83 == Table({
  <<\h00..\h06, Alu("other", <<"E", "Ib">>)>>,
  <<{\h07}, Alu("other", <<"Es", "Ib">>)>>})
Group_2_C0 == Table({<<\h00..\h07, Alu("other", <<"E", "Ib">>)>>})
Group_2_C1 == Table({<<\h00..\h07, Alu("other", <<"E", "Ib">>)>>})
Group_2_D0 == Table({<<\h00..\h07, Alu("other", <<"E", "r">>)>>})
Group_2_D1 == Table({<<\h00..\h07, Alu("other", <<"E", "r">>)>>})
Group_2_D2 == Table({<<\h00..\h07, Alu("other", <<"E", "r">>)>>})
Group_2_D3 == Table({<<\h00..\h07, Alu("other", <<"E", "r">>)>>})
Group_3_F6 == Table({
  <<{\h00, \h01}, Alu("other", <<"Es", "Ib">>)>>,
  <<{\h02, \h03}, Alu("other", <<"E">>)>>,
  <<\h04..\h07, Alu("other", <<"r", "Es", "r">>)>>})
Group_3_F7 == Table({
  <<{\h00, \h01}, Alu("other", <<"Es", "Iz">>)>>,
  <<{\h02, \h03}, Alu("other", <<"E">>)>>,
  <<\h04..\h07, Alu("other", <<"r", "Es", "r">>)>>})
Group_4 == Table({<<{\h00, \h01}, Alu("other", <<"E">>)>>})
Group_5 == Table({
  <<{\h00, \h01}, Alu("other", <<"E">>)>>,
  <<{\h02}, Alu("call", <<"Es">>)>>,
  <<{\h03}, Alu("call", <<"Ep">>)>>,
  <<{\h04}, Alu("branch", <<"Es">>)>>,
  <<{\h05}, Alu("branch", <<"Ep">>)>>,
  <<{\h06}, Alu("stack", <<"Es">>)>>})
Group_6 == Table({
  <<{\h00, \h01}, Alu("system", <<"E">>)>>,
  <<\h02..\h05, Alu("system", <<"Es">>)>>,
  <<{\h06}, Only64(Alu("branch", <<"Es">>))>>})
Group_7 == Table({
  <<(\h00..\h03) \union {\h07}, Alu("system", <<"M">>)>>,
  <<{\h04}, Alu("system", <<"E", "r">>)>>,
  <<{\h06}, Alu("system", <<"r", "Es">>)>>})
Group_8 == Table({<<\h04..\h07, Alu("other", <<"E", "Ib">>)>>})
Group_9 == Table({<<{\h01}, Alu("other", <<"M", "r", "r">>)>>})
Group_10 == Table({<<{\h00}, Alu("stack", <<"E">>)>>})
Group_11 == Table({<<\h00..\h07, Alu("other", <<>>)>>})
Group_12_C6 == Table({<<{\h00}, Alu("mov", <<"E", "Ib">>)>>})
Group_12_C7 == Table({<<{\h00}, Alu("mov", <<"E", "Iz">>)>>})
Group_13 == Table({<<{\h02, \h04, \h06}, Simd(<<"PR", "Ib">>)>>})
Group_14 == Table({<<{\h02, \h04, \h06}, Simd(<<"PR", "Ib">>)>>})
Group_15 == Table({<<{\h02, \h03, \h06, \h07}, Simd(<<"PR", "Ib">>)>>})
Group_16 == Table({
  <<{\h00, \h01}, Fpu("other", <<"M">>)>>,
  <<{\h02, \h03}, Simd(<<"M">>)>>,
  <<\h05..\h07, Alu("system", <<>>)>>})
Group_17 == Table({<<\h00..\h07, Alu("system", <<"Es">>)>>})
Group_P == Table({<<{\h00, \h01}, Alu("other", <<"Es">>)>>})

(* The coprocessor escapes D8 to DF: entries 00 to 07 are the reg field of a memory   *)
(* form, 08 to 47 are the register forms, indexed by the low six bits of ModRM. *)

ESC_0 == Table({
  <<(\h04..\h07) \union {\h00, \h01}, Fpu("other", <<"r", "M">>)>>,
  <<{\h02, \h03}, Fpu("other", <<"M", "r">>)>>,
  <<\h08..\h47, Fpu("other", <<"r", "r">>)>>})
ESC_1 == Table({
  <<{\h00, \h06}, Fpu("other", <<"M">>)>>,
  <<{\h02, \h03, \h07}, Fpu("other", <<"M", "r">>)>>,
  <<{\h04}, Fpu("fenv", <<"M">>)>>,
  <<{\h05}, Fpu("other", <<"r", "M">>)>>,
  <<(\h08..\h0F) \union (\h30..\h36) \union (\h42..\h44) \union {\h28, \h29, \h2D, \h38, \h3A,
    \h46, \h47}, Fpu("other", <<"r">>)>>,
  <<(\h10..\h17) \union (\h3B..\h3D) \union {\h2C, \h39, \h40, \h41, \h45}, Fpu("other", <<"r",
    "r">>)>>,
  <<{\h18, \h3E, \h3F}, Fpu("other", <<>>)>>})
ESC_2 == Table({
  <<(\h04..\h07) \union {\h00, \h01}, Fpu("other", <<"r", "M">>)>>,
  <<{\h02, \h03}, Fpu("other", <<"M", "r">>)>>,
  <<(\h08..\h27) \union {\h31}, Fpu("other", <<"r", "r">>)>>})
ESC_3 == Table({
  <<{\h00, \h01, \h05}, Fpu("other", <<"M">>)>>,
  <<{\h02, \h03, \h07}, Fpu("other", <<"M", "r">>)>>,
  <<(\h08..\h27) \union (\h30..\h3F), Fpu("other", <<"r", "r">>)>>,
  <<{\h2A, \h2B}, Fpu("other", <<"r">>)>>})
ESC_4 == Table({
  <<(\h04..\h07) \union {\h00, \h01}, Fpu("other", <<"r", "M">>)>>,
  <<{\h02, \h03}, Fpu("other", <<"M", "r">>)>>,
  <<(\h08..\h17) \union (\h28..\h47), Fpu("other", <<"r", "r">>)>>})
ESC_5 == Table({
  <<{\h00}, Fpu("other", <<"M">>)>>,
  <<(\h01..\h03) \union {\h07}, Fpu("other", <<"M", "r">>)>>,
  <<{\h04, \h06}, Fpu("fenv", <<"M">>)>>,
  <<(\h08..\h0F) \union (\h18..\h37), Fpu("other", <<"r", "r">>)>>})
ESC_6 == Table({
  <<(\h04..\h07) \union {\h00, \h01}, Fpu("other", <<"r", "M">>)>>,
  <<{\h02, \h03}, Fpu("other", <<"M", "r">>)>>,
  <<(\h08..\h17) \union (\h28..\h47) \union {\h21}, Fpu("other", <<"r", "r">>)>>})
ESC_7 == Table({
  <<{\h00, \h04, \h05}, Fpu("other", <<"M">>)>>,
  <<(\h01..\h03) \union {\h06, \h07}, Fpu("other", <<"M", "r">>)>>,
  <<(\h30..\h3F) \union {\h28}, Fpu("other", <<"r", "r">>)>>})

(* Instructions that 66, F2 or F3 turns into another one. *)

SSE2_Group_13 == Table({<<{\h02, \h04, \h06}, Simd(<<"VR", "Ib">>)>>})
SSE2_Group_14 == Table({<<{\h02, \h04, \h06}, Simd(<<"VR", "Ib">>)>>})
SSE2_Group_15 == Table({<<{\h02, \h03, \h06, \h07}, Simd(<<"VR", "Ib">>)>>})

SSE_66 == Table({
  <<(\h54..\h6D) \union (\h74..\h76) \union (\hD0..\hD5) \union (\hD8..\hE6) \union (\hE8..\hEF)
    \union (\hF1..\hF6) \union (\hF8..\hFE) \union {\h10, \h14, \h15, \h28, \h2E, \h2F, \h51,
    \h6F, \h7C, \h7D, \h7F}, Simd(<<"V", "W">>)>>,
  <<{\h11, \h29, \hD6}, Simd(<<"W", "V">>)>>,
  <<{\h12, \h16}, Simd(<<"V", "M">>)>>,
  <<{\h13, \h17, \h2B, \hE7}, Simd(<<"M", "V">>)>>,
  <<{\h2A}, Simd(<<"V", "Q">>)>>,
  <<{\h2C, \h2D}, Simd(<<"P", "W">>)>>,
  <<{\h50, \hD7}, Simd(<<"G", "VR">>)>>,
  <<{\h6E}, Simd(<<"V", "Es">>)>>,
  <<{\h70, \hC2, \hC6}, Simd(<<"V", "W", "Ib">>)>>,
  <<{\h71}, Group(SSE2_Group_13)>>,
  <<{\h72}, Group(SSE2_Group_14)>>,
  <<{\h73}, Group(SSE2_Group_15)>>,
  <<{\h7E}, Simd(<<"E", "V">>)>>,
  <<{\hC4}, Simd(<<"V", "Es", "Ib">>)>>,
  <<{\hC5}, Simd(<<"G", "VR", "Ib">>)>>,
  <<{\hF7}, Simd(<<"V", "VR">>)>>})

SSE_F2 == Table({
  <<(\h58..\h5A) \union (\h5C..\h5F) \union {\h10, \h12, \h51, \h6F, \h7C, \h7D, \hD0, \hE6},
    Simd(<<"V", "W">>)>>,
  <<{\h11}, Simd(<<"W", "V">>)>>,
  <<{\h2A}, Simd(<<"V", "Es">>)>>,
  <<{\h2C, \h2D}, Simd(<<"G", "W">>)>>,
  <<{\h70, \hC2}, Simd(<<"V", "W", "Ib">>)>>,
  <<{\hD6}, Simd(<<"P", "VR">>)>>,
  <<{\hF0}, Simd(<<"V", "M">>)>>})

SSE_F3 == Table({
  <<(\h51..\h53) \union (\h58..\h5F) \union {\h10, \h12, \h16, \h6F, \h7E, \hE6}, Simd(<<"V",
    "W">>)>>,
  <<{\h11, \h7F}, Simd(<<"W", "V">>)>>,
  <<{\h2A}, Simd(<<"V", "Es">>)>>,
  <<{\h2C, \h2D}, Simd(<<"G", "W">>)>>,
  <<{\h70, \hC2}, Simd(<<"V", "W", "Ib">>)>>,
  <<{\hD6}, Simd(<<"V", "PR">>)>>})

(* Opcodes that are one of two instructions depending on the mode: entry 1 on x64. *)

Opcode_63 == Table({
  <<{\h00}, Alu("system", <<"Es", "G">>)>>,
  <<{\h01}, Only64(Alu("mov", <<"G", "Es">>))>>})
Opcode_0F05 == Table({
  <<{\h00}, Alu("other", <<"r", "r", "r">>)>>,
  <<{\h01}, Only64(Alu("other", <<"r", "r", "r">>))>>})

(* The suffix byte of 0F 0F, and the ModRM byte of 0F 01. *)

T_3DNOW_0F == Table({
  <<{\h0C, \h0D, \h1C, \h1D, \h8A, \h8E, \h90, \h94, \h96, \h97, \h9A, \h9E, \hA0, \hA4, \hA6,
    \hA7, \hAA, \hAE, \hB0, \hB4, \hB6, \hB7, \hBB, \hBF}, Alu("other", <<"P", "Q">>)>>})
T_0F01_ModRM == Table({
  <<(\h00..\hC7) \union (\hCA..\hF7) \union (\hF9..\hFF), Group(Group_7)>>,
  <<{\hC8, \hC9}, Alu("system", <<>>)>>,
  <<{\hF8}, Only64(Alu("system", <<"r">>))>>})

(* The one-byte and the two-byte opcodes, in halves. *)

Opcodes_2_low == {
  <<{\h00}, Group(Group_6)>>,
  <<{\h01}, ByModRM(T_0F01_ModRM)>>,
  <<{\h02, \h03}, Alu("system", <<"G", "Es">>)>>,
  <<{\h05}, Ext64(Opcode_0F05)>>,
  <<{\h06}, Alu("system", <<"r">>)>>,
  <<{\h07, \h0E}, Alu("other", <<"r">>)>>,
  <<{\h08, \h09}, Alu("system", <<>>)>>,
  <<{\h0B}, Alu("other", <<>>)>>,
  <<{\h0D}, Group(Group_P)>>,
  <<{\h0F}, Suffix(T_3DNOW_0F)>>,
  <<(\h14..\h16) \union (\h51..\h5F) \union {\h10, \h12, \h28, \h2E, \h2F}, Simd(<<"V", "W">>)>>,
  <<{\h11, \h29}, Simd(<<"W", "V">>)>>,
  <<{\h13, \h17, \h2B}, Simd(<<"M", "V">>)>>,
  <<{\h18}, Group(Group_17)>>,
  <<{\h20}, Alu("mov", <<"R", "C">>)>>,
  <<{\h21}, Alu("mov", <<"R", "D">>)>>,
  <<{\h22}, Alu("mov", <<"C", "R">>)>>,
  <<{\h23}, Alu("mov", <<"D", "R">>)>>,
  <<{\h2A}, Simd(<<"V", "Q">>)>>,
  <<{\h2C, \h2D}, Simd(<<"P", "W">>)>>,
  <<\h30..\h32, Alu("system", <<"r", "r">>)>>,
  <<{\h33}, Alu("other", <<"r", "r">>)>>,
  <<{\h34, \h35}, Alu("other", <<"r", "r", "r">>)>>,
  <<\h40..\h4F, Alu("other", <<"G", "Es">>)>>,
  <<{\h50}, Simd(<<"G", "VR">>)>>,
  <<(\h60..\h6B) \union (\h74..\h76) \union {\h6F}, Simd(<<"P", "Q">>)>>,
  <<{\h6E}, Simd(<<"P", "Es">>)>>,
  <<{\h70}, Simd(<<"P", "Q", "Ib">>)>>,
  <<{\h71}, Group(Group_13)>>,
  <<{\h72}, Group(Group_14)>>,
  <<{\h73}, Group(Group_15)>>,
  <<{\h77}, Simd(<<"r">>)>>,
  <<{\h7E}, Simd(<<"E", "P">>)>>,
  <<{\h7F}, Simd(<<"Q", "P">>)>>}

Opcodes_2_high == {
  <<\h80..\h8F, Alu("branchcc", <<"Jz">>)>>,
  <<\h90..\h9F, Alu("other", <<"E", "r", "r">>)>>,
  <<{\hA0, \hA1, \hA8, \hA9}, Alu("stack", <<"r">>)>>,
  <<{\hA2}, Alu("other", <<"r", "r">>)>>,
  <<{\hA3, \hAB, \hB3, \hBB}, Alu("other", <<"Es", "G">>)>>,
  <<{\hA4, \hAC}, Alu("other", <<"E", "G", "Ib">>)>>,
  <<{\hA5, \hAD}, Alu("other", <<"E", "G", "r">>)>>,
  <<{\hAA}, Alu("system", <<>>)>>,
  <<{\hAE}, Group(Group_16)>>,
  <<{\hAF, \hBC, \hBD}, Alu("other", <<"G", "Es">>)>>,
  <<{\hB0, \hB1}, Alu("other", <<"E", "r", "G">>)>>,
  <<{\hB2, \hB4, \hB5}, Alu("mov", <<"G", "M">>)>>,
  <<{\hB6, \hB7, \hBE, \hBF}, Alu("mov", <<"G", "Es">>)>>,
  <<{\hB9}, Group(Group_11)>>,
  <<{\hBA}, Group(Group_8)>>,
  <<{\hC0, \hC1}, Alu("other", <<"E", "G">>)>>,
  <<{\hC2, \hC6}, Simd(<<"V", "W", "Ib">>)>>,
  <<{\hC3}, Simd(<<"M", "G">>)>>,
  <<{\hC4}, Simd(<<"P", "Es", "Ib">>)>>,
  <<{\hC5}, Simd(<<"G", "PR", "Ib">>)>>,
  <<{\hC7}, Group(Group_9)>>,
  <<\hC8..\hCF, Alu("other", <<"r">>)>>,
  <<(\hD1..\hD5) \union (\hD8..\hE5) \union (\hE8..\hEF) \union (\hF1..\hF6) \union
    (\hF8..\hFE), Simd(<<"P", "Q">>)>>,
  <<{\hD7}, Simd(<<"G", "PR">>)>>,
  <<{\hE7}, Simd(<<"M", "P">>)>>,
  <<{\hF7}, Simd(<<"P", "PR">>)>>}

Opcodes_2 == Table(Opcodes_2_low \union Opcodes_2_high)

Opcodes_1_low == {
  <<{\h00, \h01, \h08, \h09, \h10, \h11, \h18, \h19, \h20, \h21, \h28, \h29, \h30, \h31},
    Alu("other", <<"E", "G">>)>>,
  <<{\h02, \h03, \h0A, \h0B, \h12, \h13, \h1A, \h1B, \h22, \h23, \h2A, \h2B, \h32, \h33, \h3A,
    \h3B}, Alu("other", <<"G", "Es">>)>>,
  <<{\h04, \h0C, \h14, \h1C, \h24, \h2C, \h34, \h3C}, Alu("other", <<"r", "Ib">>)>>,
  <<{\h05, \h0D, \h15, \h1D, \h25, \h2D, \h35, \h3D}, Alu("other", <<"r", "Iz">>)>>,
  <<(\h50..\h5F) \union {\h06, \h07, \h0E, \h16, \h17, \h1E, \h1F}, Alu("stack", <<"r">>)>>,
  <<{\h0F}, Group(Opcodes_2)>>,
  <<(\h64..\h67) \union {\h26, \h2E, \h36, \h3E}, Prefix>>,
  <<(\h3F..\h4F) \union {\h27, \h2F, \h37}, Alu("other", <<"r">>)>>,
  <<{\h38, \h39}, Alu("other", <<"Es", "G">>)>>,
  <<{\h60, \h61}, Alu("other", <<>>)>>,
  <<{\h62}, Alu("other", <<"G", "M">>)>>,
  <<{\h63}, Ext64(Opcode_63)>>,
  <<{\h68}, Alu("stack", <<"Iz">>)>>,
  <<{\h69}, Alu("other", <<"G", "Es", "Iz">>)>>,
  <<{\h6A}, Alu("stack", <<"Ib">>)>>,
  <<{\h6B}, Alu("other", <<"G", "Es", "Ib">>)>>,
  <<{\h6C, \h6D}, Alu("other", <<"Y", "r">>)>>,
  <<{\h6E, \h6F}, Alu("other", <<"r", "X">>)>>,
  <<\h70..\h7F, Alu("branchcc", <<"Jb">>)>>}

Opcodes_1_high == {
  <<{\h80}, Group(Group_1_80)>>,
  <<{\h81}, Group(Group_1_81)>>,
  <<{\h82}, Group(Group_1_82)>>,
  <<{\h83}, Group(Group_1_83)>>,
  <<{\h84, \h85}, Alu("other", <<"Es", "G">>)>>,
  <<{\h86, \h87}, Alu("other", <<"E", "G">>)>>,
  <<{\h88, \h89}, Alu("mov", <<"E", "G">>)>>,
  <<{\h8A, \h8B}, Alu("mov", <<"G", "Es">>)>>,
  <<{\h8C}, Alu("mov", <<"E", "S">>)>>,
  <<{\h8D}, Alu("lea", <<"G", "M">>)>>,
  <<{\h8E}, Alu("mov", <<"S", "Es">>)>>,
  <<{\h8F}, Group(Group_10)>>,
  <<{\h90, \hCC, \hCE, \hCF, \hF1, \hF4}, Alu("other", <<>>)>>,
  <<(\h91..\h99) \union (\hEC..\hEF), Alu("other", <<"r", "r">>)>>,
  <<{\h9A}, Alu("call", <<"A">>)>>,
  <<{\h9B}, Alu("system", <<>>)>>,
  <<{\h9C, \h9D, \hC9}, Alu("stack", <<"r">>)>>,
  <<{\h9E, \h9F}, Alu("mov", <<"r", "r">>)>>,
  <<{\hA0, \hA1}, Alu("mov", <<"r", "O">>)>>,
  <<{\hA2, \hA3}, Alu("mov", <<"O", "r">>)>>,
  <<{\hA4, \hA5}, Alu("other", <<"Y", "X">>)>>,
  <<{\hA6, \hA7}, Alu("other", <<"X", "Y">>)>>,
  <<{\hA8, \hD4, \hD5, \hE4, \hE5}, Alu("other", <<"r", "Ib">>)>>,
  <<{\hA9}, Alu("other", <<"r", "Iz">>)>>,
  <<{\hAA, \hAB}, Alu("other", <<"Y", "r">>)>>,
  <<{\hAC, \hAD}, Alu("other", <<"r", "X">>)>>,
  <<{\hAE, \hAF}, Alu("other", <<"r", "Y">>)>>,
  <<\hB0..\hB7, Alu("mov", <<"r", "Ib">>)>>,
  <<\hB8..\hBF, Alu("mov", <<"r", "Iv">>)>>,
  <<{\hC0}, Group(Group_2_C0)>>,
  <<{\hC1}, Group(Group_2_C1)>>,
  <<{\hC2, \hCA}, Alu("ret", <<"Iw">>)>>,
  <<{\hC3, \hCB}, Alu("ret", <<>>)>>,
  <<{\hC4, \hC5}, Alu("mov", <<"G", "M">>)>>,
  <<{\hC6}, Group(Group_12_C6)>>,
  <<{\hC7}, Group(Group_12_C7)>>,
  <<{\hC8}, Alu("stack", <<"r", "Iw", "Ib">>)>>,
  <<{\hCD}, Alu("other", <<"Ib">>)>>,
  <<{\hD0}, Group(Group_2_D0)>>,
  <<{\hD1}, Group(Group_2_D1)>>,
  <<{\hD2}, Group(Group_2_D2)>>,
  <<{\hD3}, Group(Group_2_D3)>>,
  <<{\hD6}, Alu("other", <<"r", "r", "r">>)>>,
  <<{\hD7}, Alu("other", <<"r", "xlat">>)>>,
  <<{\hD8}, Esc(ESC_0)>>,
  <<{\hD9}, Esc(ESC_1)>>,
  <<{\hDA}, Esc(ESC_2)>>,
  <<{\hDB}, Esc(ESC_3)>>,
  <<{\hDC}, Esc(ESC_4)>>,
  <<{\hDD}, Esc(ESC_5)>>,
  <<{\hDE}, Esc(ESC_6)>>,
  <<{\hDF}, Esc(ESC_7)>>,
  <<\hE0..\hE3, Alu("loopcc", <<"Jb">>)>>,
  <<{\hE6, \hE7}, Alu("other", <<"Ib", "r">>)>>,
  <<{\hE8}, Alu("call", <<"Jz">>)>>,
  <<{\hE9}, Alu("branch", <<"Jz">>)>>,
  <<{\hEA}, Alu("branch", <<"A">>)>>,
  <<{\hEB}, Alu("branch", <<"Jb">>)>>,
  <<{\hF0, \hF2, \hF3}, Prefix>>,
  <<(\hF8..\hFD) \union {\hF5}, Alu("other", <<"r">>)>>,
  <<{\hF6}, Group(Group_3_F6)>>,
  <<{\hF7}, Group(Group_3_F7)>>,
  <<{\hFE}, Group(Group_4)>>,
  <<{\hFF}, Group(Group_5)>>}

Opcodes_1 == Table(Opcodes_1_low \union Opcodes_1_high)
-------------------------------------------------------------------------------
(* The opcodes that ModRM follows. *)

ModRM_1 ==
  {b \in \h00..\h3F : b % 8 < 4} \union (\h80..\h8F) \union (\hD0..\hD3) \union (\hD8..\hDF)
    \union {\h62, \h63, \h69, \h6B, \hC0, \hC1, \hC4, \hC5, \hC6, \hC7, \hF6, \hF7, \hFE, \hFF}

ModRM_2 ==
  (\h00..\hFE) \ ((\h04..\h0C) \union (\h19..\h1F) \union (\h30..\h3F) \union (\h77..\h7B)
    \union (\h80..\h8F) \union (\hA0..\hA2) \union (\hA8..\hAA) \union (\hC8..\hCF)
    \union {\h0E, \h25, \h27, \hA6, \hB8, \hB9})

(* The opcodes that lock may precede, of all and of some instructions of a group; the    *)
(* instructions of a group by number. *)

LockPrefix_1 == {b \in \h00..\h33 : b % 8 < 4} \union {\h86, \h87}
LockPrefix_1_Groups == (\h80..\h83) \union {\hF6, \hF7, \hFE, \hFF}
LockPrefix_2 == {\hAB, \hB0, \hB1, \hB3, \hBB, \hC0, \hC1}
LockPrefix_2_Groups == {\hBA, \hC7}

LockPrefix_Groups ==
  [g \in 1..17 |-> CASE g = 1 -> 0..6
                     [] g = 3 -> {2, 3}
                     [] g \in {4, 5} -> {0, 1}
                     [] g = 8 -> 4..7
                     [] g = 9 -> {1}
                     [] OTHER -> {}]

Groups_1 == Table({
  <<\h80..\h83, 1>>, <<{\h8F}, 10>>, <<(\hD0..\hD3) \union {\hC0, \hC1}, 2>>,
  <<{\hC6, \hC7}, 12>>, <<{\hF6, \hF7}, 3>>, <<{\hFE}, 4>>, <<{\hFF}, 5>>})

Groups_2 == Table({
  <<{\h00}, 6>>, <<{\h01}, 7>>, <<{\h0D}, 18>>, <<{\h0F}, 19>>, <<{\h18}, 17>>, <<{\h71}, 13>>,
  <<{\h72}, 14>>, <<{\h73}, 15>>, <<{\hAE}, 16>>, <<{\hB9}, 11>>, <<{\hBA}, 8>>, <<{\hC7}, 9>>})

(* The opcodes that 16-bit operands or 64-bit addresses make invalid. *)

Invalid_Op16_1 == {}
Invalid_Op16_2 == \hC8..\hCF

Invalid_Addr64_1 ==
  (\h60..\h62) \union {\h06, \h07, \h0E, \h16, \h1E, \h27, \h2F, \h37, \h3F, \h9A,
                       \hC4, \hC5, \hCE, \hD4, \hD5, \hEA}

Invalid_Addr64_2 == {\h34, \h35}

===============================================================================
