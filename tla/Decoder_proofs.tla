---------------------------- MODULE Decoder_proofs ----------------------------
(***************************************************************************)
(* Proofs about the decoder, for texts of any bytes.                       *)
(*                                                                         *)
(* By itself: the list of prefixes never overflows, no instruction longer  *)
(* than the processor takes is accepted, and what the code asserts of      *)
(* sizes and of ModRM holds, since the tables are as they are (DecoderInv).*)
(*                                                                         *)
(* Beside InstructionFormat: the length that is found is that of the       *)
(* manuals, and what is moved is not relative to its address (IsaInv).     *)
(* The tables are compared with the manuals row by row, by the shape of    *)
(* the instruction: whether it has ModRM, which immediate, whether it is a *)
(* branch.  Then the stages of the decoder are followed, prefix by prefix  *)
(* and operand by operand.                                                 *)
(***************************************************************************)
EXTENDS Decoder, TLAPS

-------------------------------------------------------------------------------
(* The tables.  The lists of operands that occur in them: those with an operand that
   ModRM encodes, and those without.                                               *)

ModRMLists ==
  {<<"E">>, <<"Ep">>, <<"Es">>, <<"M">>, <<"C", "R">>, <<"D", "R">>, <<"E", "G">>,
  <<"E", "Ib">>, <<"E", "Iz">>, <<"E", "P">>, <<"E", "S">>, <<"E", "V">>, <<"E", "r">>,
  <<"Es", "G">>, <<"Es", "Ib">>, <<"Es", "Iz">>, <<"G", "Es">>, <<"G", "M">>, <<"G", "PR">>,
  <<"G", "VR">>, <<"G", "W">>, <<"M", "G">>, <<"M", "P">>, <<"M", "V">>, <<"M", "r">>,
  <<"P", "Es">>, <<"P", "PR">>, <<"P", "Q">>, <<"P", "VR">>, <<"P", "W">>, <<"PR", "Ib">>,
  <<"Q", "P">>, <<"R", "C">>, <<"R", "D">>, <<"S", "Es">>, <<"V", "Es">>, <<"V", "M">>,
  <<"V", "PR">>, <<"V", "Q">>, <<"V", "VR">>, <<"V", "W">>, <<"VR", "Ib">>, <<"W", "V">>,
  <<"r", "Es">>, <<"r", "M">>, <<"E", "G", "Ib">>, <<"E", "G", "r">>, <<"E", "r", "G">>,
  <<"E", "r", "r">>, <<"G", "Es", "Ib">>, <<"G", "Es", "Iz">>, <<"G", "PR", "Ib">>,
  <<"G", "VR", "Ib">>, <<"M", "r", "r">>, <<"P", "Es", "Ib">>, <<"P", "Q", "Ib">>,
  <<"V", "Es", "Ib">>, <<"V", "W", "Ib">>, <<"r", "Es", "r">>}

PlainLists ==
  {<<>>, <<"A">>, <<"Ib">>, <<"Iw">>, <<"Iz">>, <<"Jb">>, <<"Jz">>, <<"r">>, <<"Ib", "r">>,
  <<"O", "r">>, <<"X", "Y">>, <<"Y", "X">>, <<"Y", "r">>, <<"r", "Ib">>, <<"r", "Iv">>,
  <<"r", "Iz">>, <<"r", "O">>, <<"r", "X">>, <<"r", "Y">>, <<"r", "r">>, <<"r", "xlat">>,
  <<"r", "Iw", "Ib">>, <<"r", "r", "r">>}

Lists == ModRMLists \union PlainLists

GoodRow(row) == row.is = "instr" /\ row.ops \in Lists
GoodTable(t) == \A b \in DOMAIN t : GoodRow(t[b])

PlainRow(row) == row.is = "instr" /\ row.ops \in PlainLists
PlainTable(t) == \A b \in DOMAIN t : PlainRow(t[b])

(* A row of the SSE tables, whose operand size is not that of the prefixes any more *)
QuietRow(row) == GoodRow(row) /\ row.type = "other"
QuietTable(t) == \A b \in DOMAIN t : QuietRow(t[b])

(* What Table returns is the entry of a row whose opcodes have the index. *)
LEMMA Listed ==
  \A rows, b : b \in DOMAIN Table(rows) => \E r \in rows : b \in r[1] /\ Table(rows)[b] = r[2]
BY DEF Table

(* A table is good, plain or quiet if its rows are. *)
LEMMA TableByRows ==
  \A rows : /\ (\A r \in rows : GoodRow(r[2])) => GoodTable(Table(rows))
            /\ (\A r \in rows : PlainRow(r[2])) => PlainTable(Table(rows))
            /\ (\A r \in rows : QuietRow(r[2])) => QuietTable(Table(rows))
BY Listed DEF GoodTable, PlainTable, QuietTable

(* The forms in which rows are written have the operands they name. *)
LEMMA Rows ==
  \A t, o : o \in Lists =>
    /\ GoodRow(Alu(t, o)) /\ GoodRow(Fpu(t, o)) /\ GoodRow(Only64(Alu(t, o)))
    /\ GoodRow(Simd(o)) /\ QuietRow(Simd(o))
BY DEF Alu, Fpu, Simd, Only64, Row, GoodRow, QuietRow

(* ... also those without ModRM. *)
LEMMA PlainRows ==
  \A t, o : o \in PlainLists =>
    PlainRow(Alu(t, o)) /\ PlainRow(Simd(o)) /\ PlainRow(Only64(Alu(t, o)))
BY DEF Alu, Simd, Only64, Row, PlainRow

(* Every table of rows that an entry may lead to is good. *)
LEMMA GroupsGood ==
  /\ GoodTable(Group_1_80)
  /\ GoodTable(Group_1_81)
  /\ GoodTable(Group_1_82)
  /\ GoodTable(Group_1_83)
  /\ GoodTable(Group_2_C0)
  /\ GoodTable(Group_2_C1)
  /\ GoodTable(Group_2_D0)
  /\ GoodTable(Group_2_D1)
  /\ GoodTable(Group_2_D2)
  /\ GoodTable(Group_2_D3)
  /\ GoodTable(Group_3_F6)
  /\ GoodTable(Group_3_F7)
  /\ GoodTable(Group_4)
  /\ GoodTable(Group_5)
  /\ GoodTable(Group_6)
  /\ GoodTable(Group_7)
  /\ GoodTable(Group_8)
  /\ GoodTable(Group_9)
  /\ GoodTable(Group_10)
  /\ GoodTable(Group_11)
  /\ GoodTable(Group_12_C6)
  /\ GoodTable(Group_12_C7)
  /\ GoodTable(Group_13)
  /\ GoodTable(Group_14)
  /\ GoodTable(Group_15)
  /\ GoodTable(Group_16)
  /\ GoodTable(Group_17)
  /\ GoodTable(Group_P)
<1>1. GoodTable(Group_1_80)
  BY TableByRows, Rows DEF Group_1_80, Lists, PlainLists, ModRMLists
<1>2. GoodTable(Group_1_81)
  BY TableByRows, Rows DEF Group_1_81, Lists, PlainLists, ModRMLists
<1>3. GoodTable(Group_1_82)
  BY TableByRows, Rows DEF Group_1_82, Lists, PlainLists, ModRMLists
<1>4. GoodTable(Group_1_83)
  BY TableByRows, Rows DEF Group_1_83, Lists, PlainLists, ModRMLists
<1>5. GoodTable(Group_2_C0)
  BY TableByRows, Rows DEF Group_2_C0, Lists, PlainLists, ModRMLists
<1>6. GoodTable(Group_2_C1)
  BY TableByRows, Rows DEF Group_2_C1, Lists, PlainLists, ModRMLists
<1>7. GoodTable(Group_2_D0)
  BY TableByRows, Rows DEF Group_2_D0, Lists, PlainLists, ModRMLists
<1>8. GoodTable(Group_2_D1)
  BY TableByRows, Rows DEF Group_2_D1, Lists, PlainLists, ModRMLists
<1>9. GoodTable(Group_2_D2)
  BY TableByRows, Rows DEF Group_2_D2, Lists, PlainLists, ModRMLists
<1>10. GoodTable(Group_2_D3)
  BY TableByRows, Rows DEF Group_2_D3, Lists, PlainLists, ModRMLists
<1>11. GoodTable(Group_3_F6)
  BY TableByRows, Rows DEF Group_3_F6, Lists, PlainLists, ModRMLists
<1>12. GoodTable(Group_3_F7)
  BY TableByRows, Rows DEF Group_3_F7, Lists, PlainLists, ModRMLists
<1>13. GoodTable(Group_4)
  BY TableByRows, Rows DEF Group_4, Lists, PlainLists, ModRMLists
<1>14. GoodTable(Group_5)
  BY TableByRows, Rows DEF Group_5, Lists, PlainLists, ModRMLists
<1>15. GoodTable(Group_6)
  BY TableByRows, Rows DEF Group_6, Lists, PlainLists, ModRMLists
<1>16. GoodTable(Group_7)
  BY TableByRows, Rows DEF Group_7, Lists, PlainLists, ModRMLists
<1>17. GoodTable(Group_8)
  BY TableByRows, Rows DEF Group_8, Lists, PlainLists, ModRMLists
<1>18. GoodTable(Group_9)
  BY TableByRows, Rows DEF Group_9, Lists, PlainLists, ModRMLists
<1>19. GoodTable(Group_10)
  BY TableByRows, Rows DEF Group_10, Lists, PlainLists, ModRMLists
<1>20. GoodTable(Group_11)
  BY TableByRows, Rows DEF Group_11, Lists, PlainLists, ModRMLists
<1>21. GoodTable(Group_12_C6)
  BY TableByRows, Rows DEF Group_12_C6, Lists, PlainLists, ModRMLists
<1>22. GoodTable(Group_12_C7)
  BY TableByRows, Rows DEF Group_12_C7, Lists, PlainLists, ModRMLists
<1>23. GoodTable(Group_13)
  BY TableByRows, Rows DEF Group_13, Lists, PlainLists, ModRMLists
<1>24. GoodTable(Group_14)
  BY TableByRows, Rows DEF Group_14, Lists, PlainLists, ModRMLists
<1>25. GoodTable(Group_15)
  BY TableByRows, Rows DEF Group_15, Lists, PlainLists, ModRMLists
<1>26. GoodTable(Group_16)
  BY TableByRows, Rows DEF Group_16, Lists, PlainLists, ModRMLists
<1>27. GoodTable(Group_17)
  BY TableByRows, Rows DEF Group_17, Lists, PlainLists, ModRMLists
<1>28. GoodTable(Group_P)
  BY TableByRows, Rows DEF Group_P, Lists, PlainLists, ModRMLists
<1>. QED
  BY <1>1, <1>2, <1>3, <1>4, <1>5, <1>6, <1>7, <1>8, <1>9, <1>10, <1>11, <1>12, <1>13, <1>14,
     <1>15, <1>16, <1>17, <1>18, <1>19, <1>20, <1>21, <1>22, <1>23, <1>24, <1>25, <1>26, <1>27, <1>28

(* ... those of the floating-point escapes too. *)
LEMMA EscapesGood ==
  /\ GoodTable(ESC_0)
  /\ GoodTable(ESC_1)
  /\ GoodTable(ESC_2)
  /\ GoodTable(ESC_3)
  /\ GoodTable(ESC_4)
  /\ GoodTable(ESC_5)
  /\ GoodTable(ESC_6)
  /\ GoodTable(ESC_7)
<1>1. GoodTable(ESC_0)
  BY TableByRows, Rows DEF ESC_0, Lists, PlainLists, ModRMLists
<1>2. GoodTable(ESC_1)
  BY TableByRows, Rows DEF ESC_1, Lists, PlainLists, ModRMLists
<1>3. GoodTable(ESC_2)
  BY TableByRows, Rows DEF ESC_2, Lists, PlainLists, ModRMLists
<1>4. GoodTable(ESC_3)
  BY TableByRows, Rows DEF ESC_3, Lists, PlainLists, ModRMLists
<1>5. GoodTable(ESC_4)
  BY TableByRows, Rows DEF ESC_4, Lists, PlainLists, ModRMLists
<1>6. GoodTable(ESC_5)
  BY TableByRows, Rows DEF ESC_5, Lists, PlainLists, ModRMLists
<1>7. GoodTable(ESC_6)
  BY TableByRows, Rows DEF ESC_6, Lists, PlainLists, ModRMLists
<1>8. GoodTable(ESC_7)
  BY TableByRows, Rows DEF ESC_7, Lists, PlainLists, ModRMLists
<1>. QED
  BY <1>1, <1>2, <1>3, <1>4, <1>5, <1>6, <1>7, <1>8

(* Opcodes that the mode decides, and the group of the opcodes that are never valid *)
LEMMA OthersGood ==
  /\ GoodTable(Opcode_63) /\ GoodTable(Opcode_0F05)
  /\ PlainTable(Opcode_0F05) /\ PlainTable(Group_11)
<1>1. GoodTable(Opcode_63)
  BY TableByRows, Rows DEF Opcode_63, Lists, PlainLists, ModRMLists
<1>2. GoodTable(Opcode_0F05) /\ PlainTable(Opcode_0F05)
  BY TableByRows, Rows, PlainRows DEF Opcode_0F05, Lists, PlainLists
<1>3. PlainTable(Group_11)
  BY TableByRows, PlainRows DEF Group_11, PlainLists
<1>. QED BY <1>1, <1>2, <1>3

(* The suffixes of 3DNow! are all of one kind. *)
LEMMA Suffixes == \A b \in DOMAIN T_3DNOW_0F : T_3DNOW_0F[b] = Alu("other", <<"P", "Q">>)
BY Listed DEF T_3DNOW_0F

-------------------------------------------------------------------------------
(* An entry leads to rows of the tables; ... *)
Sound(e) ==
  \/ GoodRow(e)
  \/ \E t : GoodTable(t) /\ e \in {Group(t), Esc(t), Ext64(t)}
  \/ e = ByModRM(T_0F01_ModRM)

(* ... to such without ModRM; ... *)
Plain(e) == PlainRow(e) \/ \E t : PlainTable(t) /\ e \in {Group(t), Ext64(t)}

(* ... to such whose type is of no consequence. *)
Quiet(e) == QuietRow(e) \/ \E t : QuietTable(t) /\ e = Group(t)

(* The opcodes of the entries whose operands ModRM encodes *)

Addressed_1_low ==
  {{\h00, \h01, \h08, \h09, \h10, \h11, \h18, \h19, \h20, \h21, \h28, \h29, \h30, \h31},
  {\h02, \h03, \h0A, \h0B, \h12, \h13, \h1A, \h1B, \h22, \h23, \h2A, \h2B, \h32, \h33, \h3A,
  \h3B}, {\h38, \h39}, {\h62}, {\h63}, {\h69}, {\h6B}}

Addressed_1_high ==
  {{\h84, \h85}, {\h86, \h87}, {\h88, \h89}, {\h8A, \h8B}, {\hC4, \hC5}, {\h80}, {\h81},
  {\h82}, {\h83}, {\h8C}, {\h8D}, {\h8E}, {\h8F}, {\hC0}, {\hC1}, {\hC6}, {\hC7}, {\hD0},
  {\hD1}, {\hD2}, {\hD3}, {\hD8}, {\hD9}, {\hDA}, {\hDB}, {\hDC}, {\hDD}, {\hDE}, {\hDF},
  {\hF6}, {\hF7}, {\hFE}, {\hFF}}

Addressed_2_low ==
  {{\h02, \h03}, (\h14..\h16) \union (\h51..\h5F) \union {\h10, \h12, \h28, \h2E, \h2F},
  {\h11, \h29}, {\h13, \h17, \h2B}, {\h2C, \h2D}, \h40..\h4F,
  (\h60..\h6B) \union (\h74..\h76) \union {\h6F}, {\h00}, {\h01}, {\h0D}, {\h18}, {\h20},
  {\h21}, {\h22}, {\h23}, {\h2A}, {\h50}, {\h6E}, {\h70}, {\h71}, {\h72}, {\h73}, {\h7E},
  {\h7F}}

Addressed_2_high ==
  {\h90..\h9F, {\hA3, \hAB, \hB3, \hBB}, {\hA4, \hAC}, {\hA5, \hAD}, {\hAF, \hBC, \hBD},
  {\hB0, \hB1}, {\hB2, \hB4, \hB5}, {\hB6, \hB7, \hBE, \hBF}, {\hC0, \hC1}, {\hC2, \hC6},
  (\hD1..\hD5) \union (\hD8..\hE5) \union (\hE8..\hEF) \union (\hF1..\hF6) \union
  (\hF8..\hFE), {\hAE}, {\hBA}, {\hC3}, {\hC4}, {\hC5}, {\hC7}, {\hD7}, {\hE7}, {\hF7}}

(* The entries without ModRM *)

PlainEntries ==
  {Group(Group_11), Ext64(Opcode_0F05), Alu("branch", <<"A">>), Alu("branch", <<"Jb">>),
  Alu("branch", <<"Jz">>), Alu("branchcc", <<"Jb">>), Alu("branchcc", <<"Jz">>),
  Alu("call", <<"A">>), Alu("call", <<"Jz">>), Alu("loopcc", <<"Jb">>),
  Alu("mov", <<"O", "r">>), Alu("mov", <<"r", "Ib">>), Alu("mov", <<"r", "Iv">>),
  Alu("mov", <<"r", "O">>), Alu("mov", <<"r", "r">>), Alu("other", <<"Ib", "r">>),
  Alu("other", <<"Ib">>), Alu("other", <<"X", "Y">>), Alu("other", <<"Y", "X">>),
  Alu("other", <<"Y", "r">>), Alu("other", <<"r", "Ib">>), Alu("other", <<"r", "Iz">>),
  Alu("other", <<"r", "X">>), Alu("other", <<"r", "Y">>), Alu("other", <<"r", "r", "r">>),
  Alu("other", <<"r", "r">>), Alu("other", <<"r", "xlat">>), Alu("other", <<"r">>),
  Alu("other", <<>>), Alu("ret", <<"Iw">>), Alu("ret", <<>>), Alu("stack", <<"Ib">>),
  Alu("stack", <<"Iz">>), Alu("stack", <<"r", "Iw", "Ib">>), Alu("stack", <<"r">>),
  Alu("system", <<"r", "r">>), Alu("system", <<"r">>), Alu("system", <<>>), Simd(<<"r">>)}

(* X86_ModRM_1 and X86_ModRM_2 have all of them. *)
LEMMA AddressedHaveModRM ==
  /\ \A S \in Addressed_1_low \union Addressed_1_high : S \subseteq ModRM_1
  /\ \A S \in Addressed_2_low \union Addressed_2_high : S \subseteq ModRM_2
<1>1. \A S \in Addressed_1_low : S \subseteq ModRM_1
  BY DEF Addressed_1_low, ModRM_1
<1>2. \A S \in Addressed_1_high : S \subseteq ModRM_1
  BY DEF Addressed_1_high, ModRM_1
<1>3. \A S \in Addressed_2_low : S \subseteq ModRM_2
  BY DEF Addressed_2_low, ModRM_2
<1>4. \A S \in Addressed_2_high : S \subseteq ModRM_2
  BY DEF Addressed_2_high, ModRM_2
<1>. QED BY <1>1, <1>2, <1>3, <1>4

LEMMA PlainEntriesPlain == \A e \in PlainEntries : Plain(e)
<1>1. Plain(Group(Group_11)) /\ Plain(Ext64(Opcode_0F05))
  BY OthersGood DEF Plain
<1>2. \A t, o : o \in PlainLists => Plain(Alu(t, o)) /\ Plain(Simd(o))
  BY PlainRows DEF Plain
<1>. QED BY <1>1, <1>2 DEF PlainEntries, PlainLists

(* Every row of the opcode tables is of one kind or the other. *)
LEMMA Divided1 ==
  ASSUME NEW S, NEW e, <<S, e>> \in Opcodes_1_low \union Opcodes_1_high
  PROVE  \/ S \in Addressed_1_low \union Addressed_1_high
         \/ e \in PlainEntries \union {Prefix}
         \/ S = {\h0F}
<1>1. CASE <<S, e>> \in Opcodes_1_low
  <2>1. S \in Addressed_1_low \union {{\h0F}} \/ e \in PlainEntries \union {Prefix}
    BY <1>1, ZenonT(60) DEF Opcodes_1_low, Addressed_1_low, PlainEntries
  <2>. QED BY <2>1
<1>2. CASE <<S, e>> \in Opcodes_1_high
  <2>1. S \in Addressed_1_high \/ e \in PlainEntries \union {Prefix}
    BY <1>2, SMTT(60) DEF Opcodes_1_high, Addressed_1_high, PlainEntries
  <2>. QED BY <2>1
<1>. QED BY <1>1, <1>2

LEMMA Divided2 ==
  ASSUME NEW S, NEW e, <<S, e>> \in Opcodes_2_low \union Opcodes_2_high
  PROVE  \/ S \in Addressed_2_low \union Addressed_2_high
         \/ e \in PlainEntries \union {Suffix(T_3DNOW_0F)}
<1>1. CASE <<S, e>> \in Opcodes_2_low
  <2>1. S \in Addressed_2_low \/ e \in PlainEntries \union {Suffix(T_3DNOW_0F)}
    BY <1>1, ZenonT(60) DEF Opcodes_2_low, Addressed_2_low, PlainEntries
  <2>. QED BY <2>1
<1>2. CASE <<S, e>> \in Opcodes_2_high
  <2>1. S \in Addressed_2_high \/ e \in PlainEntries
    BY <1>2, ZenonT(60) DEF Opcodes_2_high, Addressed_2_high, PlainEntries
  <2>. QED BY <2>1
<1>. QED BY <1>1, <1>2

(* The rows are pairs. *)
LEMMA Pairs ==
  \A r \in Opcodes_1_low \union Opcodes_1_high \union Opcodes_2_low \union Opcodes_2_high :
    r = <<r[1], r[2]>>
<1>1. \A r \in Opcodes_1_low : r = <<r[1], r[2]>>
  BY SMTT(30) DEF Opcodes_1_low
<1>2. \A r \in Opcodes_1_high : r = <<r[1], r[2]>>
  BY SMTT(30) DEF Opcodes_1_high
<1>3. \A r \in Opcodes_2_low : r = <<r[1], r[2]>>
  BY SMTT(30) DEF Opcodes_2_low
<1>4. \A r \in Opcodes_2_high : r = <<r[1], r[2]>>
  BY SMTT(30) DEF Opcodes_2_high
<1>. QED BY <1>1, <1>2, <1>3, <1>4

(* What the entries of the opcode tables lead to. *)
LEMMA Leading ==
  /\ \A r \in Opcodes_1_low \union Opcodes_1_high : r[2] = Prefix \/ r[1] = {\h0F} \/ Sound(r[2])
  /\ \A r \in Opcodes_2_low \union Opcodes_2_high : r[2] = Suffix(T_3DNOW_0F) \/ Sound(r[2])
<1>1. /\ \A t, o : o \in Lists => Sound(Alu(t, o))
      /\ \A o : o \in Lists => Sound(Simd(o))
      /\ \A t : GoodTable(t) => Sound(Group(t)) /\ Sound(Esc(t))
      /\ Sound(Ext64(Opcode_63)) /\ Sound(Ext64(Opcode_0F05)) /\ Sound(ByModRM(T_0F01_ModRM))
  BY Rows, OthersGood DEF Sound, QuietRow
<1>2. \A r \in Opcodes_1_low : r[2] = Prefix \/ r[1] = {\h0F} \/ Sound(r[2])
  BY <1>1 DEF Opcodes_1_low, Lists, PlainLists, ModRMLists
<1>3. \A r \in Opcodes_1_high : r[2] = Prefix \/ Sound(r[2])
  BY <1>1, GroupsGood, EscapesGood DEF Opcodes_1_high, Lists, PlainLists, ModRMLists
<1>4. \A r \in Opcodes_2_low : r[2] = Suffix(T_3DNOW_0F) \/ Sound(r[2])
  BY <1>1, GroupsGood DEF Opcodes_2_low, Lists, PlainLists, ModRMLists
<1>5. \A r \in Opcodes_2_high : Sound(r[2])
  BY <1>1, GroupsGood DEF Opcodes_2_high, Lists, PlainLists, ModRMLists
<1>. QED BY <1>2, <1>3, <1>4, <1>5

(* An opcode is a prefix, or leads to rows whose operands need ModRM only if it is one of
   those that have it.                                                                   *)
LEMMA OneByte ==
  ASSUME NEW b \in DOMAIN Opcodes_1, b # \h0F, Opcodes_1[b] # Prefix
  PROVE  Sound(Opcodes_1[b]) /\ (b \in ModRM_1 \/ Plain(Opcodes_1[b]))
<1>1. PICK r \in Opcodes_1_low \union Opcodes_1_high : b \in r[1] /\ Opcodes_1[b] = r[2]
  BY Listed DEF Opcodes_1
<1>2. <<r[1], r[2]>> \in Opcodes_1_low \union Opcodes_1_high
  BY Pairs
<1>3. r[1] \in Addressed_1_low \union Addressed_1_high \/ r[2] \in PlainEntries
  BY <1>1, <1>2, Divided1
<1>. QED BY <1>1, <1>2, <1>3, Leading, AddressedHaveModRM, PlainEntriesPlain

(* It is the same with the second byte of an opcode. *)
LEMMA TwoByte ==
  ASSUME NEW b \in DOMAIN Opcodes_2, Opcodes_2[b] # Suffix(T_3DNOW_0F)
  PROVE  Sound(Opcodes_2[b]) /\ (b \in ModRM_2 \/ Plain(Opcodes_2[b]))
<1>1. PICK r \in Opcodes_2_low \union Opcodes_2_high : b \in r[1] /\ Opcodes_2[b] = r[2]
  BY Listed DEF Opcodes_2
<1>2. <<r[1], r[2]>> \in Opcodes_2_low \union Opcodes_2_high
  BY Pairs
<1>3. r[1] \in Addressed_2_low \union Addressed_2_high \/ r[2] \in PlainEntries
  BY <1>1, <1>2, Divided2
<1>. QED BY <1>1, <1>2, <1>3, Leading, AddressedHaveModRM, PlainEntriesPlain

(* Instructions that a prefix turns into others *)
LEMMA SSETables ==
  /\ \A T \in {SSE_66, SSE_F2, SSE_F3} : \A b \in DOMAIN T : Quiet(T[b])
  /\ DOMAIN SSE_66 \subseteq ModRM_2 /\ \h0F \notin DOMAIN SSE_66
<1>1. QuietTable(SSE2_Group_13) /\ QuietTable(SSE2_Group_14) /\ QuietTable(SSE2_Group_15)
  BY TableByRows, Rows DEF SSE2_Group_13, SSE2_Group_14, SSE2_Group_15, Lists, ModRMLists
<1>2. /\ \A o : o \in Lists => Quiet(Simd(o))
      /\ \A t : QuietTable(t) => Quiet(Group(t))
  BY Rows DEF Quiet
<1>3. \A b \in DOMAIN SSE_66 : Quiet(SSE_66[b])
  BY <1>1, <1>2, Listed DEF SSE_66, Lists, ModRMLists
<1>4. \A b \in DOMAIN SSE_F2 : Quiet(SSE_F2[b])
  BY <1>2, Listed DEF SSE_F2, Lists, ModRMLists
<1>5. \A b \in DOMAIN SSE_F3 : Quiet(SSE_F3[b])
  BY <1>2, Listed DEF SSE_F3, Lists, ModRMLists
<1>6. \A b \in DOMAIN SSE_66 : b \in ModRM_2 /\ b # \h0F
  <2>1. \A b \in DOMAIN SSE_66 : b \in (\h10..\h17) \union (\h28..\h2F) \union (\h50..\h76)
                                       \union (\h7C..\h7F) \union (\hC2..\hC6) \union (\hD0..\hFE)
    BY Listed DEF SSE_66
  <2>. QED BY <2>1 DEF ModRM_2
<1>. QED BY <1>3, <1>4, <1>5, <1>6

-------------------------------------------------------------------------------
(* What is reached through groups and other tables *)

LEMMA Kinds ==
  /\ \A t : Group(t).is = "group" /\ Group(t).table = t
  /\ \A t : Esc(t).is = "fpu" /\ Esc(t).table = t
  /\ \A t : ByModRM(t).is = "modrm" /\ ByModRM(t).table = t
  /\ \A t : Suffix(t).is = "suffix"
  /\ \A t : Ext64(t).is = "ext64" /\ Ext64(t).table = t
  /\ Prefix.is = "prefix"
BY DEF Group, Esc, ByModRM, Suffix, Ext64, Prefix

(* The cases of Resolve, one by one *)
LEMMA Resolving ==
  ASSUME NEW e, NEW m
  PROVE  /\ e.is = "instr" => Resolve(e, m) = {e}
         /\ e.is = "group" => Resolve(e, m) = Entry(e.table, Reg(m))
         /\ e.is = "fpu" => Resolve(e, m) = Entry(e.table, IF m < \hC0 THEN Reg(m) ELSE 8 + (m % 64))
         /\ e.is = "modrm" =>
              Resolve(e, m) = UNION {IF f.is = "group" THEN Entry(f.table, Reg(m)) ELSE {f}
                                       : f \in Entry(e.table, m)}
         /\ e.is = "ext64" => Resolve(e, m) = Entry(e.table, IF mode = "x64" THEN 1 ELSE 0)
BY Zenon DEF Resolve

LEMMA FromTable ==
  ASSUME NEW t, NEW i
  PROVE  /\ GoodTable(t) => \A row \in Entry(t, i) : GoodRow(row)
         /\ PlainTable(t) => \A row \in Entry(t, i) : PlainRow(row)
         /\ QuietTable(t) => \A row \in Entry(t, i) : QuietRow(row)
BY DEF Entry, GoodTable, PlainTable, QuietTable

(* 0F 01, whose instructions the whole of ModRM selects *)
LEMMA ByModRMGood ==
  ASSUME NEW m, NEW row \in Resolve(ByModRM(T_0F01_ModRM), m)
  PROVE  GoodRow(row)
<1>1. PICK f \in Entry(T_0F01_ModRM, m) :
        row \in IF f.is = "group" THEN Entry(f.table, Reg(m)) ELSE {f}
  BY Resolving, Kinds
<1>2. f = Group(Group_7) \/ GoodRow(f)
  <2>1. m \in DOMAIN T_0F01_ModRM /\ f = T_0F01_ModRM[m]
    BY DEF Entry
  <2>. QED BY <2>1, Listed, Rows DEF T_0F01_ModRM, Lists, PlainLists
<1>3. GoodRow(f) => f.is # "group"
  BY DEF GoodRow
<1>. QED BY <1>1, <1>2, <1>3, Kinds, FromTable, GroupsGood

(* What an entry leads to, through whatever tables *)
LEMMA Resolved ==
  ASSUME NEW e, NEW m, NEW row \in Resolve(e, m)
  PROVE  /\ Sound(e) => GoodRow(row)
         /\ Plain(e) => PlainRow(row)
         /\ Quiet(e) => QuietRow(row)
<1>1. ASSUME Sound(e) PROVE GoodRow(row)
  <2>1. CASE GoodRow(e)
    BY <2>1, Resolving DEF GoodRow
  <2>2. ASSUME NEW t, GoodTable(t), e \in {Group(t), Esc(t), Ext64(t)} PROVE GoodRow(row)
    BY <2>2, Resolving, Kinds, FromTable
  <2>3. CASE e = ByModRM(T_0F01_ModRM)
    BY <2>3, ByModRMGood
  <2>. QED BY <1>1, <2>1, <2>2, <2>3 DEF Sound
<1>2. ASSUME Plain(e) PROVE PlainRow(row)
  <2>1. CASE PlainRow(e)
    BY <2>1, Resolving DEF PlainRow
  <2>2. ASSUME NEW t, PlainTable(t), e \in {Group(t), Ext64(t)} PROVE PlainRow(row)
    BY <2>2, Resolving, Kinds, FromTable
  <2>. QED BY <1>2, <2>1, <2>2 DEF Plain
<1>3. ASSUME Quiet(e) PROVE QuietRow(row)
  <2>1. CASE QuietRow(e)
    BY <2>1, Resolving DEF QuietRow, GoodRow
  <2>2. ASSUME NEW t, QuietTable(t), e = Group(t) PROVE QuietRow(row)
    BY <2>2, Resolving, Kinds, FromTable
  <2>. QED BY <1>3, <2>1, <2>2 DEF Quiet
<1>. QED BY <1>1, <1>2, <1>3

(* A list without ModRM is not one with it. *)
LEMMA Apart == \A o \in PlainLists : o \notin ModRMLists
BY DEF PlainLists, ModRMLists

-------------------------------------------------------------------------------
(* The invariant *)

Fields ==
  {"len", "at", "prefixes", "anomaly", "sse", "rep", "segment", "lock", "opSizePrefix",
   "addrSizePrefix", "opSize", "addrSize", "w", "r", "b", "opLen", "opcode", "hasModRM", "modrm",
   "row", "suffix", "modrmAt", "operand", "ipRel", "dst"}

Opening == stage \in {"prefixes", "opcode"}

Wide == IF mode = "x64" THEN 8 ELSE 4

(* While prefixes are read the sizes are what the prefixes make of them; and the byte
   behind a rex prefix is none.                                                       *)
OpeningOK ==
  /\ ins.row = Row /\ ins.operand = 1 /\ ~ins.dst /\ ~ins.suffix
  /\ ins.sse # 0 => ins.prefixes # <<>>
  /\ Len(ins.prefixes) <= ins.len
  /\ ins.opSize = IF ins.w THEN 8 ELSE IF ins.opSizePrefix THEN 2 ELSE 4
  /\ ins.w => ~ins.opSizePrefix /\ stage = "opcode"
  /\ ins.addrSize = IF ins.addrSizePrefix THEN Wide \div 2 ELSE Wide
  /\ stage = "opcode" => ~IsPrefix(this)

(* The instruction found is one of the tables, and has ModRM if an operand needs it. *)
RowOK ==
  /\ ins.row.ops \in Lists
  /\ ins.row.ops \in ModRMLists => ins.hasModRM

ChecksOK ==
  /\ ins.operand = 1 /\ ~ins.dst /\ ~ins.suffix
  /\ ins.w => ins.opSize = 8
  /\ IF ins.opSizePrefix THEN ins.opSize = 2 ELSE ins.opSize >= 4 \/ ins.row.type = "other"
  /\ ins.opLen = 3 /\ ins.opcode = \h0F => ins.len >= 4 + Len(ins.prefixes)

(* The operands of a 3DNow! instruction come before its last byte. *)
SuffixOK ==
  /\ ins.row.ops = <<"P", "Q">> /\ ~ins.dst
  /\ ~ins.opSizePrefix /\ ins.opSize >= 4 /\ (ins.w => ins.opSize = 8)
  /\ ins.len >= 3 + Len(ins.prefixes)

OperandsOK ==
  /\ ins.operand \in DOMAIN ins.row.ops
  /\ ins.opSizePrefix => ins.opSize = 2 \/ \A n \in DOMAIN ins.row.ops : ins.row.ops[n] # "O"
  /\ ins.dst => \E n \in 1 .. ins.operand - 1 : ins.row.ops[n] \in {"M", "E"}

StagesOK ==
  /\ mode = "x64" => ins.addrSize >= 4
  /\ Opening => OpeningOK
  /\ stage \in {"checks", "operands", "suffix"} => RowOK
  /\ stage = "checks" => ChecksOK
  /\ stage = "suffix" \/ (stage = "operands" /\ ins.suffix) => SuffixOK
  /\ stage = "operands" => OperandsOK

(* j is i but for the fields of S. *)
Agree(i, j, S) == DOMAIN j = Fields /\ \A f \in Fields \ S : j[f] = i[f]

Octets == 0..255

(* The types of the fields but row *)
Types ==
  [len |-> Nat, at |-> Nat, prefixes |-> Seq(Octets), anomaly |-> BOOLEAN,
   sse |-> {0, \h66, \hF2, \hF3}, rep |-> {0, \hF2, \hF3}, segment |-> BOOLEAN, lock |-> BOOLEAN,
   opSizePrefix |-> BOOLEAN, addrSizePrefix |-> BOOLEAN, opSize |-> {2, 4, 8}, addrSize |-> {2, 4, 8},
   w |-> BOOLEAN, r |-> BOOLEAN, b |-> BOOLEAN, opLen |-> Nat, opcode |-> Octets,
   hasModRM |-> BOOLEAN, modrm |-> Octets, suffix |-> BOOLEAN, modrmAt |-> Nat, operand |-> Nat,
   ipRel |-> SUBSET Nat, dst |-> BOOLEAN]

Typed(i) == \A f \in Fields \ {"row"} : i[f] \in Types[f]

GivenOK == mode \in {"x86", "x64"} /\ mode \in Modes /\ text \in Seq(Octets)

StageOK ==
  stage \in {"prefixes", "opcode", "suffix", "checks", "operands", "last checks",
             "decoded", "rejected", "moved", "patched", "stopped"}

DecoderInv ==
  /\ GivenOK /\ StageOK
  /\ DOMAIN ins = Fields /\ Typed(ins)
  /\ Bounded
  /\ StagesOK

(* The types, one by one *)
LEMMA TypesAre ==
  /\ Types.len = Nat /\ Types.at = Nat /\ Types.opLen = Nat /\ Types.modrmAt = Nat /\ Types.operand = Nat
  /\ Types.opcode = Octets /\ Types.modrm = Octets /\ Types.prefixes = Seq(Octets)
  /\ Types.opSize = {2, 4, 8} /\ Types.addrSize = {2, 4, 8}
  /\ Types.sse = {0, \h66, \hF2, \hF3} /\ Types.rep = {0, \hF2, \hF3} /\ Types.ipRel = SUBSET Nat
  /\ Types.anomaly = BOOLEAN /\ Types.segment = BOOLEAN /\ Types.lock = BOOLEAN
  /\ Types.opSizePrefix = BOOLEAN /\ Types.addrSizePrefix = BOOLEAN
  /\ Types.w = BOOLEAN /\ Types.r = BOOLEAN /\ Types.b = BOOLEAN
  /\ Types.hasModRM = BOOLEAN /\ Types.suffix = BOOLEAN /\ Types.dst = BOOLEAN
BY DEF Types

(* The types of the fields that are no flags *)
LEMMA Numbers ==
  ASSUME NEW i, Typed(i)
  PROVE  /\ i.len \in Nat /\ i.at \in Nat /\ i.opLen \in Nat /\ i.modrmAt \in Nat /\ i.operand \in Nat
         /\ i.opSize \in {2, 4, 8} /\ i.addrSize \in {2, 4, 8}
         /\ i.opcode \in Octets /\ i.modrm \in Octets /\ i.prefixes \in Seq(Octets)
         /\ i.sse \in {0, \h66, \hF2, \hF3} /\ i.rep \in {0, \hF2, \hF3} /\ i.ipRel \subseteq Nat
<1>1. i.len \in Nat /\ i.at \in Nat /\ i.opLen \in Nat /\ i.modrmAt \in Nat /\ i.operand \in Nat
  BY TypesAre DEF Typed, Fields
<1>2. i.opSize \in {2, 4, 8} /\ i.addrSize \in {2, 4, 8}
  BY TypesAre DEF Typed, Fields
<1>3. i.opcode \in Octets /\ i.modrm \in Octets /\ i.prefixes \in Seq(Octets)
  BY TypesAre DEF Typed, Fields
<1>4. i.sse \in {0, \h66, \hF2, \hF3} /\ i.rep \in {0, \hF2, \hF3} /\ i.ipRel \subseteq Nat
  BY TypesAre DEF Typed, Fields
<1>. QED BY <1>1, <1>2, <1>3, <1>4

Flags ==
  {"anomaly", "segment", "lock", "opSizePrefix", "addrSizePrefix", "w", "r", "b", "hasModRM",
   "suffix", "dst"}

LEMMA FlagsAre == ASSUME NEW i, Typed(i) PROVE \A f \in Flags : i[f] \in BOOLEAN
<1>1. \A f \in Flags : f \in Fields \ {"row"}
  BY DEF Fields, Flags
<1>2. \A f \in Flags : Types[f] = BOOLEAN
  BY TypesAre DEF Flags
<1>. QED BY <1>1, <1>2 DEF Typed

LEMMA TypesFollow == DecoderInv => TypeOK
<1> SUFFICES ASSUME DecoderInv PROVE TypeOK
  OBVIOUS
<1>1. Typed(ins) /\ GivenOK /\ StageOK
  BY DEF DecoderInv
<1>2. {ins.anomaly, ins.segment, ins.lock, ins.opSizePrefix, ins.addrSizePrefix,
       ins.w, ins.r, ins.b, ins.hasModRM, ins.suffix, ins.dst} \subseteq BOOLEAN
  BY <1>1, FlagsAre, Zenon DEF Flags
<1>3. /\ {ins.len, ins.at, ins.opLen, ins.modrmAt, ins.operand} \subseteq Nat
      /\ {ins.opcode, ins.modrm} \subseteq 0..255 /\ {ins.opSize, ins.addrSize} \subseteq {2, 4, 8}
  BY <1>1, Numbers DEF Octets
<1>4. /\ ins.prefixes \in Seq(0..255) /\ ins.sse \in {0, \h66, \hF2, \hF3}
      /\ ins.rep \in {0, \hF2, \hF3} /\ ins.ipRel \subseteq Nat
  BY <1>1, Numbers DEF Octets
<1>. QED BY <1>1, <1>2, <1>3, <1>4 DEF GivenOK, StageOK, TypeOK, Octets

(* Fields that stay keep their types. *)
LEMMA Retyped ==
  ASSUME NEW i, NEW j, NEW S, Typed(i), Agree(i, j, S), \A f \in S \ {"row"} : j[f] \in Types[f]
  PROVE  Typed(j)
BY DEF Typed, Agree

(* INSTR_INC changes Length and Address. *)
LEMMA Advanced ==
  ASSUME NEW i, DOMAIN i = Fields, NEW n
  PROVE  /\ Agree(i, Advance(i, n), {"len", "at"})
         /\ Advance(i, n).len = i.len + n /\ Advance(i, n).at = i.at + n
BY DEF Advance, Agree, Fields

(* The bytes of a text *)
LEMMA Element == ASSUME NEW S, NEW t \in Seq(S), NEW n \in 1 .. Len(t) PROVE t[n] \in S
OBVIOUS

(* A prefix that is put at the end of the list, and one that is removed from its front *)
LEMMA Appended ==
  ASSUME NEW S, NEW s \in Seq(S), NEW e \in S
  PROVE  Append(s, e) \in Seq(S) /\ Append(s, e) # <<>> /\ Len(Append(s, e)) = Len(s) + 1
<1>1. Append(s, e) \in Seq(S) /\ Len(Append(s, e)) = Len(s) + 1
  OBVIOUS
<1>2. Len(s) \in Nat /\ Len(<<>>) = 0
  OBVIOUS
<1>3. Append(s, e) = <<>> => Len(s) + 1 = 0
  BY <1>1, <1>2
<1>. QED BY <1>1, <1>2, <1>3

LEMMA Bytes == ASSUME GivenOK, NEW n \in Nat \ {0} PROVE Byte(n) \in Octets
<1>1. text \in Seq(Octets)
  BY DEF GivenOK
<1>2. ASSUME n <= Len(text) PROVE text[n] \in Octets
  <2>1. n \in 1 .. Len(text)
    BY <1>1, <1>2
  <2>. QED BY <1>1, <2>1, Element
<1>3. 0 \in Octets
  BY DEF Octets
<1>. QED BY <1>2, <1>3 DEF Byte

(* What is rejected stays as it is. *)
LEMMA Rejected == DecoderInv /\ Reject => DecoderInv'
<1> SUFFICES ASSUME DecoderInv, Reject PROVE DecoderInv'
  OBVIOUS
<1>1. ins' = ins /\ mode' = mode /\ text' = text /\ stage' = "rejected"
  BY DEF Reject, given
<1>2. Bounded'
  BY <1>1 DEF DecoderInv, Bounded, Accepted
<1>3. StagesOK'
  BY <1>1 DEF DecoderInv, StagesOK, Opening
<1>. QED BY <1>1, <1>2, <1>3 DEF DecoderInv, GivenOK, StageOK

(* X86_InitInstruction *)
LEMMA InitOK == Init => DecoderInv
<1> SUFFICES ASSUME Init PROVE DecoderInv
  OBVIOUS
<1>1. DOMAIN ins = Fields
  BY DEF Init, Fields
<1>2. Typed(ins)
  <2>1. \A f \in Flags : ins[f] = FALSE
    BY DEF Init, Flags
  <2>2. \A f \in Flags : ins[f] \in Types[f]
    <3>1. \A f \in Flags : Types[f] = BOOLEAN
      BY TypesAre DEF Flags
    <3>. QED BY <2>1, <3>1
  <2>3. /\ ins.len = 0 /\ ins.at = 0 /\ ins.opLen = 0 /\ ins.modrmAt = 0 /\ ins.operand = 1
        /\ ins.opcode = 0 /\ ins.modrm = 0 /\ ins.prefixes = <<>> /\ ins.opSize = 4
        /\ ins.addrSize = IF mode = "x64" THEN 8 ELSE 4
        /\ ins.sse = 0 /\ ins.rep = 0 /\ ins.ipRel = {}
    BY DEF Init
  <2>4. 0 \in Octets /\ <<>> \in Seq(Octets)
    BY DEF Octets
  <2>5. \A f \in {"len", "at", "opLen", "modrmAt", "operand", "opcode", "modrm", "prefixes",
                  "opSize", "addrSize", "sse", "rep", "ipRel"} : ins[f] \in Types[f]
    <3>1. \A f \in {"len", "at", "opLen", "modrmAt", "operand"} : ins[f] \in Types[f]
      BY <2>3, TypesAre
    <3>2. \A f \in {"opcode", "modrm"} : ins[f] \in Types[f]
      BY <2>3, <2>4, TypesAre
    <3>3. ins.prefixes \in Types.prefixes
      BY <2>3, <2>4, TypesAre, Zenon
    <3>4. ins.ipRel \in Types.ipRel
      <4>1. {} \in SUBSET Nat
        OBVIOUS
      <4>. QED BY <2>3, <4>1, TypesAre, Zenon
    <3>5. \A f \in {"opSize", "addrSize", "sse", "rep"} : ins[f] \in Types[f]
      BY <2>3, TypesAre
    <3>. QED BY <3>1, <3>2, <3>3, <3>4, <3>5
  <2>6. Fields \ {"row"} \subseteq Flags \union {"len", "at", "opLen", "modrmAt", "operand", "opcode",
              "modrm", "prefixes", "opSize", "addrSize", "sse", "rep", "ipRel"}
    BY DEF Fields, Flags
  <2>. QED BY <2>2, <2>5, <2>6 DEF Typed
<1>3. Bounded
  <2>1. ins.prefixes = <<>> /\ stage = "prefixes"
    BY DEF Init
  <2>. QED BY <2>1 DEF Bounded, Accepted, MaxLength
<1>4. StagesOK
  BY DecoderAssumption DEF Init, StagesOK, Opening, OpeningOK, Wide
<1>5. GivenOK /\ StageOK
  BY DecoderAssumption DEF Init, GivenOK, StageOK, Octets
<1>. QED BY <1>1, <1>2, <1>3, <1>4, <1>5 DEF DecoderInv

-------------------------------------------------------------------------------
(* Prefixes *)

LEMMA MisplacedRexStep == DecoderInv /\ MisplacedRex => DecoderInv'
<1> SUFFICES ASSUME DecoderInv, MisplacedRex PROVE DecoderInv'
  OBVIOUS
<1>1. /\ Agree(ins, ins', {"len", "at", "anomaly"})
      /\ ins'.len = ins.len + 1 /\ ins'.at = ins.at + 1 /\ ins'.anomaly = TRUE
  BY Advanced DEF MisplacedRex, DecoderInv, Agree, Fields
<1>2. stage = "prefixes" /\ stage' = stage /\ mode' = mode /\ text' = text
  BY DEF MisplacedRex, given
<1>3. Typed(ins')
  <2>1. ins'.len \in Nat /\ ins'.at \in Nat
    BY <1>1, Numbers DEF DecoderInv
  <2>2. \A f \in {"len", "at", "anomaly"} \ {"row"} : ins'[f] \in Types[f]
    BY <1>1, <2>1, TypesAre
  <2>. QED BY <1>1, <2>2, Retyped DEF DecoderInv
<1>4. Bounded'
  BY <1>1, <1>2 DEF DecoderInv, Bounded, Accepted, Agree, Fields
<1>5. StagesOK'
  BY <1>1, <1>2, Numbers DEF DecoderInv, StagesOK, Opening, OpeningOK, Wide, Agree, Fields
<1>. QED BY <1>1, <1>2, <1>3, <1>4, <1>5 DEF DecoderInv, Agree, GivenOK, StageOK

(* A prefix is taken, and i has an effect that is as OpeningOK says. *)
LEMMA PrefixTaken ==
  ASSUME DecoderInv, NEW p \in Octets, NEW conflict, NEW i, Typed(i),
         Agree(ins, i, {"sse", "rep", "segment", "lock", "opSizePrefix", "opSize",
                        "addrSizePrefix", "addrSize"}),
         i.opSize = IF i.opSizePrefix THEN 2 ELSE 4,
         i.addrSize = IF i.addrSizePrefix THEN Wide \div 2 ELSE Wide,
         TakePrefix(p, conflict, i)
  PROVE  DecoderInv'
<1>1. CASE Reject
  BY <1>1, Rejected
<1>2. CASE Len(ins.prefixes) < MaxLength /\ ~Reject
  <2>1. /\ stage = "prefixes" /\ stage' = stage /\ mode' = mode /\ text' = text
        /\ ins' = [Advance(i, 1) EXCEPT
                     !.anomaly = \/ @ \/ conflict
                                 \/ \E n \in DOMAIN ins.prefixes : ins.prefixes[n] = p
                                 \/ Len(ins.prefixes) = MaxPrefixes,
                     !.prefixes = Append(@, p)]
    BY <1>2 DEF TakePrefix, given
  <2>2. DOMAIN i = Fields /\ DOMAIN Advance(i, 1) = Fields
    BY Advanced DEF Agree
  <2>3. /\ Agree(Advance(i, 1), ins', {"anomaly", "prefixes"})
        /\ ins'.prefixes = Append(Advance(i, 1).prefixes, p)
    BY <2>1, <2>2 DEF Agree, Fields
  <2>4. ins'.anomaly \in BOOLEAN
    BY <2>1, <2>2 DEF Fields
  <2>5. /\ Agree(i, ins', {"len", "at", "anomaly", "prefixes"})
        /\ ins'.len = i.len + 1 /\ ins'.at = i.at + 1 /\ ins'.prefixes = Append(i.prefixes, p)
    BY <2>2, <2>3, Advanced DEF Agree, Fields
  <2>6. i.len \in Nat /\ i.at \in Nat /\ i.prefixes \in Seq(Octets)
    BY Numbers
  <2>7. Typed(ins')
    <3>1. ins'.len \in Nat /\ ins'.at \in Nat /\ ins'.prefixes \in Seq(Octets)
      BY <2>5, <2>6
    <3>2. \A f \in {"len", "at", "anomaly", "prefixes"} \ {"row"} : ins'[f] \in Types[f]
      BY <2>4, <3>1, TypesAre
    <3>. QED BY <2>5, <3>2, Retyped
  <2>8. /\ ins'.prefixes # <<>> /\ Len(ins'.prefixes) = Len(ins.prefixes) + 1
        /\ ins'.len = ins.len + 1 /\ Len(ins.prefixes) \in Nat
    <3>1. i.prefixes = ins.prefixes /\ i.len = ins.len
      BY DEF Agree, Fields
    <3>. QED BY <2>5, <2>6, <3>1, Appended
  <2>9. Bounded'
    BY <1>2, <2>1, <2>8 DEF Bounded, Accepted, MaxLength
  <2>10. OpeningOK'
    <3>1. OpeningOK /\ ins.len \in Nat
      BY <2>1, Numbers DEF DecoderInv, StagesOK, Opening
    <3>2. /\ ins'.row = ins.row /\ ins'.operand = ins.operand /\ ins'.dst = ins.dst
          /\ ins'.suffix = ins.suffix /\ ins'.w = ins.w
      BY <2>5 DEF Agree, Fields
    <3>3. /\ ins'.opSizePrefix = i.opSizePrefix /\ ins'.opSize = i.opSize
          /\ ins'.addrSizePrefix = i.addrSizePrefix /\ ins'.addrSize = i.addrSize
      BY <2>5 DEF Agree, Fields
    <3>4. ~ins.w
      BY <2>1, <3>1 DEF OpeningOK
    <3>. QED BY <2>1, <2>8, <3>1, <3>2, <3>3, <3>4 DEF OpeningOK, Wide
  <2>11. mode' = "x64" => ins'.addrSize >= 4
    BY <2>1, <2>10 DEF OpeningOK, Wide
  <2>12. StagesOK'
    BY <2>1, <2>10, <2>11 DEF StagesOK
  <2>. QED BY <2>1, <2>5, <2>7, <2>9, <2>12 DEF DecoderInv, Agree, GivenOK, StageOK
<1>3. Len(ins.prefixes) \in Nat
  BY Numbers DEF DecoderInv
<1>. QED BY <1>1, <1>2, <1>3 DEF TakePrefix, MaxLength

(* What holds while prefixes are read *)
LEMMA OpeningFacts ==
  ASSUME DecoderInv, Opening
  PROVE  /\ OpeningOK /\ Typed(ins) /\ DOMAIN ins = Fields
         /\ stage = "prefixes" => ins.opSize = IF ins.opSizePrefix THEN 2 ELSE 4
BY DEF DecoderInv, StagesOK, OpeningOK

(* Each prefix sets flags and sizes as OpeningOK says. *)
LEMMA RepeatPrefixStep == DecoderInv /\ RepeatPrefix => DecoderInv'
<1> SUFFICES ASSUME DecoderInv, NEW p \in {\hF2, \hF3},
                    TakePrefix(p, ins.rep \notin {0, p}, [ins EXCEPT !.sse = p, !.rep = p])
             PROVE DecoderInv'
  BY DEF RepeatPrefix
<1> DEFINE i == [ins EXCEPT !.sse = p, !.rep = p]
<1>1. OpeningOK /\ Typed(ins) /\ DOMAIN ins = Fields /\ stage = "prefixes"
  BY OpeningFacts DEF TakePrefix, Opening
<1>2. Agree(ins, i, {"sse", "rep"}) /\ i.sse = p /\ i.rep = p
  BY <1>1 DEF Agree, Fields
<1>7. TakePrefix(p, ins.rep \notin {0, p}, i)
  OBVIOUS
<1> HIDE DEF i
<1>3. Typed(i)
  <2>1. \A f \in {"sse", "rep"} \ {"row"} : i[f] \in Types[f]
    BY <1>2, TypesAre
  <2>. QED BY <1>1, <1>2, <2>1, Retyped
<1>4. /\ i.opSize = IF i.opSizePrefix THEN 2 ELSE 4
      /\ i.addrSize = IF i.addrSizePrefix THEN Wide \div 2 ELSE Wide
  BY <1>1, <1>2, OpeningFacts DEF Agree, Fields, Opening, OpeningOK
<1>5. Agree(ins, i, {"sse", "rep", "segment", "lock", "opSizePrefix", "opSize",
                     "addrSizePrefix", "addrSize"})
  BY <1>2 DEF Agree
<1>6. p \in Octets
  BY DEF Octets
<1>. QED BY <1>3, <1>4, <1>5, <1>6, <1>7, PrefixTaken

LEMMA OperandSizePrefixStep == DecoderInv /\ OperandSizePrefix => DecoderInv'
<1> SUFFICES ASSUME DecoderInv, OperandSizePrefix PROVE DecoderInv'
  OBVIOUS
<1> DEFINE i == [ins EXCEPT !.sse = \h66, !.opSizePrefix = TRUE,
                            !.opSize = IF ins.opSizePrefix THEN @ ELSE 6 - @]
<1>1. OpeningOK /\ Typed(ins) /\ DOMAIN ins = Fields /\ stage = "prefixes"
  BY OpeningFacts DEF OperandSizePrefix, TakePrefix, Opening
<1>2. /\ Agree(ins, i, {"sse", "opSizePrefix", "opSize"}) /\ i.sse = \h66 /\ i.opSizePrefix = TRUE
      /\ i.opSize = IF ins.opSizePrefix THEN ins.opSize ELSE 6 - ins.opSize
  BY <1>1 DEF Agree, Fields
<1>8. TakePrefix(\h66, ins.opSizePrefix, i)
  BY DEF OperandSizePrefix
<1> HIDE DEF i
<1>3. i.opSize = 2
  BY <1>1, <1>2, OpeningFacts DEF Opening
<1>4. Typed(i)
  <2>1. i.sse \in Types.sse /\ i.opSize \in Types.opSize
    BY <1>2, <1>3, TypesAre
  <2>2. i.opSizePrefix \in Types.opSizePrefix
    BY <1>2, TypesAre, Zenon
  <2>. QED BY <1>1, <1>2, <2>1, <2>2, Retyped
<1>5. i.addrSize = IF i.addrSizePrefix THEN Wide \div 2 ELSE Wide
  BY <1>1, <1>2 DEF Agree, Fields, OpeningOK
<1>6. Agree(ins, i, {"sse", "rep", "segment", "lock", "opSizePrefix", "opSize",
                     "addrSizePrefix", "addrSize"})
  BY <1>2 DEF Agree
<1>7. \h66 \in Octets
  BY DEF Octets
<1>. QED BY <1>2, <1>3, <1>4, <1>5, <1>6, <1>7, <1>8, PrefixTaken

LEMMA AddressSizePrefixStep == DecoderInv /\ AddressSizePrefix => DecoderInv'
<1> SUFFICES ASSUME DecoderInv, AddressSizePrefix PROVE DecoderInv'
  OBVIOUS
<1> DEFINE i == [ins EXCEPT !.addrSizePrefix = TRUE,
                            !.addrSize = IF ins.addrSizePrefix THEN @ ELSE @ \div 2]
<1>1. OpeningOK /\ Typed(ins) /\ DOMAIN ins = Fields /\ stage = "prefixes"
  BY OpeningFacts DEF AddressSizePrefix, TakePrefix, Opening
<1>2. /\ Agree(ins, i, {"addrSizePrefix", "addrSize"}) /\ i.addrSizePrefix = TRUE
      /\ i.addrSize = IF ins.addrSizePrefix THEN ins.addrSize ELSE ins.addrSize \div 2
  BY <1>1 DEF Agree, Fields
<1>8. TakePrefix(\h67, ins.addrSizePrefix, i)
  BY DEF AddressSizePrefix
<1> HIDE DEF i
<1>3. i.addrSize = Wide \div 2 /\ i.addrSize \in {2, 4}
  BY <1>1, <1>2 DEF OpeningOK, Wide
<1>4. Typed(i)
  <2>1. i.addrSize \in Types.addrSize
    BY <1>3, TypesAre
  <2>2. i.addrSizePrefix \in Types.addrSizePrefix
    BY <1>2, TypesAre, Zenon
  <2>. QED BY <1>1, <1>2, <2>1, <2>2, Retyped
<1>5. i.opSize = IF i.opSizePrefix THEN 2 ELSE 4
  BY <1>1, <1>2, OpeningFacts DEF Agree, Fields, Opening
<1>6. Agree(ins, i, {"sse", "rep", "segment", "lock", "opSizePrefix", "opSize",
                     "addrSizePrefix", "addrSize"})
  BY <1>2 DEF Agree
<1>7. \h67 \in Octets
  BY DEF Octets
<1>. QED BY <1>2, <1>3, <1>4, <1>5, <1>6, <1>7, <1>8, PrefixTaken

(* A segment or lock prefix only puts down that it was seen. *)
LEMMA FlagPrefixTaken ==
  ASSUME DecoderInv, NEW p \in Octets, NEW conflict, NEW f \in {"segment", "lock"}, NEW i,
         Agree(ins, i, {f}), i[f] \in BOOLEAN, TakePrefix(p, conflict, i)
  PROVE  DecoderInv'
<1>1. (OpeningOK /\ Typed(ins) /\ DOMAIN ins = Fields /\ stage = "prefixes") \/ Reject
  BY OpeningFacts DEF TakePrefix, Opening
<1>2. CASE Reject
  BY <1>2, Rejected
<1>3. CASE OpeningOK /\ Typed(ins) /\ DOMAIN ins = Fields /\ stage = "prefixes"
  <2>1. Typed(i)
    <3>1. \A g \in {f} \ {"row"} : i[g] \in Types[g]
      BY TypesAre
    <3>. QED BY <1>3, <3>1, Retyped
  <2>2. /\ i.opSize = ins.opSize /\ i.opSizePrefix = ins.opSizePrefix
        /\ i.addrSize = ins.addrSize /\ i.addrSizePrefix = ins.addrSizePrefix
    BY DEF Agree, Fields
  <2>3. /\ i.opSize = IF i.opSizePrefix THEN 2 ELSE 4
        /\ i.addrSize = IF i.addrSizePrefix THEN Wide \div 2 ELSE Wide
    BY <1>3, <2>2, OpeningFacts DEF Opening, OpeningOK
  <2>4. Agree(ins, i, {"sse", "rep", "segment", "lock", "opSizePrefix", "opSize",
                       "addrSizePrefix", "addrSize"})
    BY DEF Agree
  <2>. QED BY <2>1, <2>3, <2>4, PrefixTaken
<1>. QED BY <1>1, <1>2, <1>3

LEMMA SegmentPrefixStep == DecoderInv /\ SegmentPrefix => DecoderInv'
<1> SUFFICES ASSUME DecoderInv, NEW p \in {\h26, \h2E, \h36, \h3E, \h64, \h65}, NEW meant, NEW conflict,
                    TakePrefix(p, conflict, [ins EXCEPT !.segment = @ \/ meant])
             PROVE DecoderInv'
  BY DEF SegmentPrefix
<1> DEFINE i == [ins EXCEPT !.segment = @ \/ meant]
<1>1. DOMAIN ins = Fields
  BY DEF DecoderInv
<1>2. Agree(ins, i, {"segment"}) /\ i["segment"] \in BOOLEAN
  BY <1>1 DEF Agree, Fields
<1>3. p \in Octets
  BY DEF Octets
<1>. QED BY <1>2, <1>3, FlagPrefixTaken

LEMMA LockPrefixStep == DecoderInv /\ LockPrefix => DecoderInv'
<1> SUFFICES ASSUME DecoderInv, LockPrefix PROVE DecoderInv'
  OBVIOUS
<1> DEFINE i == [ins EXCEPT !.lock = TRUE]
<1>1. DOMAIN ins = Fields
  BY DEF DecoderInv
<1>2. Agree(ins, i, {"lock"}) /\ i["lock"] \in BOOLEAN
  BY <1>1 DEF Agree, Fields
<1>3. \hF0 \in Octets
  BY DEF Octets
<1>4. TakePrefix(\hF0, ins.lock, i)
  BY DEF LockPrefix
<1>. QED BY <1>2, <1>3, <1>4, FlagPrefixTaken

(* A rex prefix is the last one, and the byte behind it is none. *)
LEMMA RexPrefixStep == DecoderInv /\ RexPrefix => DecoderInv'
<1> SUFFICES ASSUME DecoderInv, RexPrefix PROVE DecoderInv'
  OBVIOUS
<1>1. /\ OpeningOK /\ Typed(ins) /\ DOMAIN ins = Fields /\ stage = "prefixes"
      /\ ins.opSize = IF ins.opSizePrefix THEN 2 ELSE 4
  BY OpeningFacts DEF RexPrefix, Opening
<1>2. Len(ins.prefixes) \in Nat /\ ins.len \in Nat /\ ins.at \in Nat /\ ins.prefixes \in Seq(Octets)
  BY <1>1, Numbers
<1>3. CASE Reject
  BY <1>3, Rejected
<1>4. CASE Len(ins.prefixes) < MaxLength /\ ~Reject
  <2> DEFINE w == this % 16 >= 8
  <2>1. /\ ins' = [Advance(ins, 1) EXCEPT
                     !.prefixes = Append(@, this),
                     !.anomaly = \/ @ \/ Len(ins.prefixes) = MaxPrefixes64
                                 \/ (this = \h40 /\ ~ins.opSizePrefix),
                     !.w = w, !.r = (this \div 4) % 2 = 1, !.b = this % 2 = 1,
                     !.opSize = IF w THEN 8 ELSE @,
                     !.opSizePrefix = @ /\ ~w]
        /\ stage' = "opcode" /\ mode' = mode /\ text' = text
    BY <1>2, <1>4 DEF RexPrefix, given, MaxLength
  <2>2. DOMAIN Advance(ins, 1) = Fields
    BY <1>1, Advanced DEF Agree
  <2>3. /\ Agree(Advance(ins, 1), ins', {"prefixes", "anomaly", "w", "r", "b", "opSize", "opSizePrefix"})
        /\ ins'.prefixes = Append(Advance(ins, 1).prefixes, this)
        /\ ins'.opSize = IF w THEN 8 ELSE Advance(ins, 1).opSize
    BY <2>1, <2>2 DEF Agree, Fields
  <2>4. /\ ins'.anomaly \in BOOLEAN /\ ins'.w \in BOOLEAN /\ ins'.r \in BOOLEAN
        /\ ins'.b \in BOOLEAN /\ ins'.opSizePrefix \in BOOLEAN
    BY <2>1, <2>2 DEF Fields
  <2>5. ins'.w = w /\ ins'.opSizePrefix = (Advance(ins, 1).opSizePrefix /\ ~w)
    BY <2>1, <2>2 DEF Fields
  <2> HIDE DEF w
  <2>6. Advance(ins, 1).opSizePrefix = ins.opSizePrefix
    BY <1>1, Advanced DEF Agree, Fields
  <2>7. /\ Agree(ins, ins', {"len", "at", "prefixes", "anomaly", "w", "r", "b", "opSize", "opSizePrefix"})
        /\ ins'.len = ins.len + 1 /\ ins'.at = ins.at + 1 /\ ins'.prefixes = Append(ins.prefixes, this)
        /\ ins'.opSize = IF w THEN 8 ELSE ins.opSize
    BY <1>1, <2>3, Advanced DEF Agree, Fields
  <2>8. this \in Octets
    BY <1>2, Bytes DEF DecoderInv, this
  <2>9. /\ ins'.prefixes \in Seq(Octets) /\ ins'.prefixes # <<>>
        /\ Len(ins'.prefixes) = Len(ins.prefixes) + 1
    BY <1>2, <2>7, <2>8, Appended
  <2>10. ins'.opSize \in {2, 4, 8}
    BY <1>1, <2>7
  <2>11. Typed(ins')
    <3>1. ins'.len \in Types.len /\ ins'.at \in Types.at /\ ins'.prefixes \in Types.prefixes
      BY <1>2, <2>7, <2>9, TypesAre
    <3>2. ins'.opSize \in Types.opSize
      BY <2>10, TypesAre
    <3>3. /\ ins'.anomaly \in Types.anomaly /\ ins'.w \in Types.w /\ ins'.r \in Types.r
          /\ ins'.b \in Types.b /\ ins'.opSizePrefix \in Types.opSizePrefix
      BY <2>4, TypesAre, Zenon
    <3>. QED BY <1>1, <2>7, <3>1, <3>2, <3>3, Retyped
  <2>12. Bounded'
    BY <1>2, <1>4, <2>1, <2>9 DEF Bounded, Accepted, MaxLength
  <2>13. ~IsPrefix(this)'
    <3>1. ~Misplaced /\ IsRex(this)
      BY DEF RexPrefix
    <3>2. ~IsPrefix(Byte(ins.at + 2))
      BY <3>1 DEF Misplaced
    <3>3. this' = Byte(ins.at + 2)
      BY <1>2, <2>1, <2>7 DEF this, Byte
    <3>. QED BY <3>2, <3>3 DEF IsPrefix
  <2>14. OpeningOK'
    <3>1. /\ ins'.row = ins.row /\ ins'.operand = ins.operand /\ ins'.dst = ins.dst
          /\ ins'.suffix = ins.suffix /\ ins'.addrSize = ins.addrSize
          /\ ins'.addrSizePrefix = ins.addrSizePrefix
      BY <2>7 DEF Agree, Fields
    <3>2. ins'.row = Row /\ ins'.operand = 1 /\ ~ins'.dst /\ ~ins'.suffix
      BY <1>1, <3>1 DEF OpeningOK
    <3>3. Len(ins'.prefixes) <= ins'.len
      BY <1>1, <1>2, <2>7, <2>9 DEF OpeningOK
    <3>4. ins'.opSize = IF ins'.w THEN 8 ELSE IF ins'.opSizePrefix THEN 2 ELSE 4
      BY <1>1, <2>5, <2>6, <2>7
    <3>5. ins'.w => ~ins'.opSizePrefix
      BY <2>5
    <3>6. ins'.addrSize = IF ins'.addrSizePrefix THEN Wide' \div 2 ELSE Wide'
      BY <1>1, <2>1, <3>1 DEF OpeningOK, Wide
    <3>. QED BY <2>1, <2>9, <2>13, <3>2, <3>3, <3>4, <3>5, <3>6 DEF OpeningOK
  <2>15. mode' = "x64" => ins'.addrSize >= 4
    BY <2>14, <2>1 DEF OpeningOK, Wide
  <2>16. StagesOK'
    BY <2>1, <2>14, <2>15 DEF StagesOK
  <2>. QED BY <2>1, <2>7, <2>11, <2>12, <2>16 DEF DecoderInv, Agree, GivenOK, StageOK
<1>. QED BY <1>2, <1>3, <1>4 DEF RexPrefix, MaxLength

-------------------------------------------------------------------------------
(* Opcodes *)

(* What an instruction has to be for its prefixes to be checked *)
Checkable(i, row) ==
  /\ GoodRow(row) /\ (row.ops \in ModRMLists => i.hasModRM)
  /\ i.opSizePrefix \/ i.opSize >= 4 \/ row.type = "other"

(* One of the rows that were found is taken. *)
LEMMA Selected ==
  ASSUME DecoderInv, NEW i, NEW rows, Select(i, rows),
         DOMAIN i = Fields, Typed(i), i.operand = 1, ~i.dst,
         Len(i.prefixes) <= MaxLength, mode = "x64" => i.addrSize >= 4,
         i.w => i.opSize = 8, i.opSizePrefix => i.opSize = 2,
         i.opLen = 3 /\ i.opcode = \h0F => i.len >= 4 + Len(i.prefixes),
         \A row \in rows : Checkable(i, row)
  PROVE  DecoderInv'
<1>1. CASE Reject
  BY <1>1, Rejected
<1>2. CASE ~Reject
  <2>1. PICK row \in rows : ins' = [i EXCEPT !.row = row, !.suffix = FALSE] /\ stage' = "checks"
    BY <1>2 DEF Select
  <2>2. mode' = mode /\ text' = text
    BY DEF Select, given
  <2>3. Agree(i, ins', {"row", "suffix"}) /\ ins'.row = row /\ ins'.suffix = FALSE
    BY <2>1 DEF Agree, Fields
  <2>4. Typed(ins')
    <3>1. ins'.suffix \in Types.suffix
      BY <2>3, TypesAre, Zenon
    <3>. QED BY <2>3, <3>1, Retyped
  <2>5. /\ ins'.operand = i.operand /\ ins'.dst = i.dst /\ ins'.prefixes = i.prefixes
        /\ ins'.addrSize = i.addrSize /\ ins'.w = i.w /\ ins'.opSize = i.opSize
        /\ ins'.opSizePrefix = i.opSizePrefix /\ ins'.opLen = i.opLen
        /\ ins'.opcode = i.opcode /\ ins'.len = i.len /\ ins'.hasModRM = i.hasModRM
    BY <2>3 DEF Agree, Fields
  <2>6. Bounded'
    BY <2>1, <2>5 DEF Bounded, Accepted
  <2>7. RowOK'
    BY <2>3, <2>5 DEF RowOK, Checkable, GoodRow
  <2>8. ChecksOK'
    <3>1. ins'.opSizePrefix \/ ins'.opSize >= 4 \/ ins'.row.type = "other"
      BY <2>3, <2>5 DEF Checkable
    <3>2. ~ins'.dst /\ ~ins'.suffix
      BY <2>3, <2>5
    <3>. QED BY <2>5, <3>1, <3>2 DEF ChecksOK
  <2>9. StagesOK'
    BY <2>1, <2>2, <2>5, <2>7, <2>8 DEF StagesOK, Opening
  <2>. QED BY <2>1, <2>2, <2>3, <2>4, <2>6, <2>9 DEF DecoderInv, Agree, GivenOK, StageOK
<1>. QED BY <1>1, <1>2

(* What holds where an opcode is looked for *)
LEMMA AtOpcodeFacts ==
  ASSUME DecoderInv, AtOpcode
  PROVE  /\ OpeningOK /\ Typed(ins) /\ DOMAIN ins = Fields /\ ~IsPrefix(this)
         /\ Len(ins.prefixes) <= MaxLength /\ Len(ins.prefixes) \in Nat /\ ins.prefixes \in Seq(Octets)
         /\ ins.len \in Nat /\ ins.at \in Nat
         /\ mode = "x64" => ins.addrSize >= 4
         /\ ins.w => ins.opSize = 8
         /\ ins.opSizePrefix => ins.opSize = 2
         /\ ins.opSizePrefix \/ ins.opSize >= 4
<1>1. OpeningOK /\ Typed(ins) /\ DOMAIN ins = Fields /\ ~IsPrefix(this)
  BY OpeningFacts DEF AtOpcode, Opening, OpeningOK
<1>2. /\ Len(ins.prefixes) <= MaxLength /\ Len(ins.prefixes) \in Nat /\ ins.prefixes \in Seq(Octets)
      /\ ins.len \in Nat /\ ins.at \in Nat
  BY <1>1, Numbers DEF DecoderInv, Bounded
<1>3. mode = "x64" => ins.addrSize >= 4
  BY DEF DecoderInv, StagesOK
<1>. QED BY <1>1, <1>2, <1>3 DEF OpeningOK

(* The instruction after its opcode, all but the table's row *)
LEMMA OpenedFacts ==
  ASSUME DecoderInv, AtOpcode, NEW n \in {1, 2}, NEW op \in Octets, NEW has \in BOOLEAN
  PROVE  /\ Agree(ins, Opened(n, op, has), {"len", "at", "opLen", "opcode", "hasModRM", "modrmAt", "modrm"})
         /\ Typed(Opened(n, op, has)) /\ DOMAIN Opened(n, op, has) = Fields
         /\ Opened(n, op, has).opLen = n /\ Opened(n, op, has).hasModRM = has
         /\ Opened(n, op, has).len = ins.len + n
         /\ Opened(n, op, has).at = ins.at + n
         /\ Opened(n, op, has).opcode = op
<1> DEFINE i == Opened(n, op, has)
<1>1. Typed(ins) /\ DOMAIN ins = Fields /\ ins.len \in Nat /\ ins.at \in Nat
  BY AtOpcodeFacts
<1>2. DOMAIN Advance(ins, n) = Fields
  BY <1>1, Advanced DEF Agree
<1>3. /\ Agree(Advance(ins, n), i, {"opLen", "opcode", "hasModRM", "modrmAt", "modrm"})
      /\ i.opLen = n /\ i.opcode = op /\ i.modrmAt = ins.at + n
      /\ i.modrm = IF has THEN Byte(ins.at + n + 1) ELSE 0
  BY <1>2 DEF Opened, Agree, Fields
<1>4. i.hasModRM = has
  BY <1>2 DEF Opened, Fields
<1> HIDE DEF i
<1>5. /\ Agree(ins, i, {"len", "at", "opLen", "opcode", "hasModRM", "modrmAt", "modrm"})
      /\ i.len = ins.len + n /\ i.at = ins.at + n
  BY <1>1, <1>3, Advanced DEF Agree, Fields
<1>6. i.modrm \in Octets
  <2>1. Byte(ins.at + n + 1) \in Octets
    BY <1>1, Bytes DEF DecoderInv
  <2>2. 0 \in Octets
    BY DEF Octets
  <2>. QED BY <1>3, <2>1, <2>2
<1>7. Typed(i)
  <2>1. i.len \in Types.len /\ i.at \in Types.at /\ i.opLen \in Types.opLen /\ i.modrmAt \in Types.modrmAt
    BY <1>1, <1>3, <1>5, TypesAre
  <2>2. i.opcode \in Types.opcode /\ i.modrm \in Types.modrm
    BY <1>3, <1>6, TypesAre
  <2>3. i.hasModRM \in Types.hasModRM
    BY <1>4, TypesAre, Zenon
  <2>. QED BY <1>1, <1>5, <2>1, <2>2, <2>3, Retyped
<1>. QED BY <1>3, <1>4, <1>5, <1>7 DEF i, Agree

(* The byte ModRM that is part of the opcode may be passed over. *)
LEMMA PastFacts ==
  ASSUME NEW i, DOMAIN i = Fields, Typed(i), NEW e, NEW rows
  PROVE  /\ Agree(i, PastModRM(i, e, rows), {"len", "at"})
         /\ Typed(PastModRM(i, e, rows)) /\ DOMAIN PastModRM(i, e, rows) = Fields
<1>1. CASE PastModRM(i, e, rows) = i
  BY <1>1 DEF Agree
<1>2. CASE PastModRM(i, e, rows) = Advance(i, 1)
  <2>1. /\ Agree(i, Advance(i, 1), {"len", "at"})
        /\ Advance(i, 1).len = i.len + 1 /\ Advance(i, 1).at = i.at + 1
    BY Advanced
  <2>2. Advance(i, 1).len \in Types.len /\ Advance(i, 1).at \in Types.at
    BY <2>1, Numbers, TypesAre
  <2>. QED BY <1>2, <2>1, <2>2, Retyped DEF Agree
<1>. QED BY <1>1, <1>2 DEF PastModRM

(* An opcode of one or two bytes whose entry leads to rows without ModRM unless it has it *)
LEMMA OpcodeTaken ==
  ASSUME DecoderInv, AtOpcode, NEW n \in {1, 2}, NEW op \in Octets, NEW has \in BOOLEAN,
         NEW e, Sound(e), has \/ Plain(e),
         NEW rows, rows = Resolve(e, Opened(n, op, has).modrm),
         Select(PastModRM(Opened(n, op, has), e, rows), rows)
  PROVE  DecoderInv'
<1> DEFINE i == Opened(n, op, has)
           j == PastModRM(i, e, rows)
<1>1. /\ Agree(ins, i, {"len", "at", "opLen", "opcode", "hasModRM", "modrmAt", "modrm"})
      /\ Typed(i) /\ DOMAIN i = Fields /\ i.opLen = n /\ i.hasModRM = has
  BY OpenedFacts
<1>2. Agree(i, j, {"len", "at"}) /\ Typed(j) /\ DOMAIN j = Fields
  BY <1>1, PastFacts
<1>3. Select(j, rows) /\ rows = Resolve(e, i.modrm)
  OBVIOUS
<1> HIDE DEF i, j
<1>4. /\ j.operand = ins.operand /\ j.dst = ins.dst /\ j.prefixes = ins.prefixes
      /\ j.addrSize = ins.addrSize /\ j.w = ins.w /\ j.opSize = ins.opSize
      /\ j.opSizePrefix = ins.opSizePrefix
  BY <1>1, <1>2 DEF Agree, Fields
<1>5. j.opLen = n /\ j.hasModRM = has
  BY <1>1, <1>2 DEF Agree, Fields
<1>6. \A row \in rows : Checkable(j, row)
  <2> SUFFICES ASSUME NEW row \in rows PROVE Checkable(j, row)
    OBVIOUS
  <2>1. GoodRow(row) /\ (Plain(e) => PlainRow(row))
    BY <1>3, Resolved
  <2>2. row.ops \in ModRMLists => j.hasModRM
    BY <1>5, <2>1, Apart DEF PlainRow
  <2>3. j.opSizePrefix \/ j.opSize >= 4
    BY <1>4, AtOpcodeFacts
  <2>. QED BY <2>1, <2>2, <2>3 DEF Checkable
<1>7. j.operand = 1 /\ ~j.dst
  BY <1>4, AtOpcodeFacts DEF OpeningOK
<1>8. /\ Len(j.prefixes) <= MaxLength /\ (mode = "x64" => j.addrSize >= 4)
      /\ (j.w => j.opSize = 8) /\ (j.opSizePrefix => j.opSize = 2)
  BY <1>4, AtOpcodeFacts
<1>. QED BY <1>2, <1>3, <1>5, <1>6, <1>7, <1>8, Selected

LEMMA OneByteOpcodeStep == DecoderInv /\ OneByteOpcode => DecoderInv'
<1> SUFFICES ASSUME DecoderInv, OneByteOpcode PROVE DecoderInv'
  OBVIOUS
<1>1. AtOpcode /\ this # \h0F
  BY DEF OneByteOpcode
<1>2. CASE Reject
  BY <1>2, Rejected
<1>3. CASE ~Reject
  <2> DEFINE e == Opcodes_1[this]
             has == this \in ModRM_1
             rows == Resolve(e, Opened(1, this, has).modrm)
  <2>1. /\ Entry(Opcodes_1, this) # {}
        /\ Select(PastModRM(Opened(1, this, has), e, rows), rows)
    BY <1>3 DEF OneByteOpcode
  <2>2. this \in DOMAIN Opcodes_1 /\ e # Prefix
    <3>1. this \in DOMAIN Opcodes_1 /\ Entry(Opcodes_1, this) = {e}
      BY <2>1 DEF Entry
    <3>. QED BY <1>1, <3>1, AtOpcodeFacts, Kinds DEF IsPrefix
  <2>3. Sound(e) /\ (has \/ Plain(e))
    BY <1>1, <2>2, OneByte
  <2>4. this \in Octets
    BY <1>1, AtOpcodeFacts, Bytes DEF DecoderInv, this
  <2>5. has \in BOOLEAN
    OBVIOUS
  <2> HIDE DEF e, has
  <2>. QED BY <1>1, <2>1, <2>3, <2>4, <2>5, OpcodeTaken
<1>. QED BY <1>2, <1>3

LEMMA SecondByte == ASSUME DecoderInv, AtOpcode PROVE second \in Octets
BY AtOpcodeFacts, Bytes DEF DecoderInv, second

LEMMA TwoByteOpcodeStep == DecoderInv /\ TwoByteOpcode => DecoderInv'
<1> SUFFICES ASSUME DecoderInv, TwoByteOpcode PROVE DecoderInv'
  OBVIOUS
<1> DEFINE e == Opcodes_2[second]
           has == second \in ModRM_2
           rows == Resolve(e, Opened(2, second, has).modrm)
<1>1. /\ AtOpcode /\ second \in DOMAIN Opcodes_2 /\ e.is # "suffix"
      /\ Select(PastModRM(Opened(2, second, has), e, rows), rows)
  BY DEF TwoByteOpcode, TwoBytes, Invalid2, Entry
<1>2. Sound(e) /\ (has \/ Plain(e))
  BY <1>1, TwoByte, Kinds
<1>3. second \in Octets /\ has \in BOOLEAN
  BY <1>1, SecondByte
<1> HIDE DEF e, has
<1>. QED BY <1>1, <1>2, <1>3, OpcodeTaken

(* The rows of the SSE tables, which a prefix selects *)
LEMMA SSERows ==
  ASSUME NEW T \in {SSE_66, SSE_F2, SSE_F3}, NEW b, NEW m,
         NEW row \in UNION {Resolve(e, m) : e \in Entry(T, b)}
  PROVE  QuietRow(row)
<1>1. PICK e \in Entry(T, b) : row \in Resolve(e, m)
  OBVIOUS
<1>2. b \in DOMAIN T /\ e = T[b]
  BY DEF Entry
<1>3. Quiet(e)
  BY <1>2, SSETables
<1>. QED BY <1>1, <1>3, Resolved

LEMMA Shorter ==
  ASSUME NEW S, NEW s \in Seq(S), s # <<>>
  PROVE  Tail(s) \in Seq(S) /\ Len(Tail(s)) = Len(s) - 1
OBVIOUS

LEMMA SSEOpcodeStep == DecoderInv /\ SSEOpcode => DecoderInv'
<1> SUFFICES ASSUME DecoderInv, SSEOpcode PROVE DecoderInv'
  OBVIOUS
<1> DEFINE o == Opened(2, second, second \in ModRM_2)
           i == [o EXCEPT
                   !.opLen = 3, !.prefixes = Tail(@), !.rep = 0, !.opSizePrefix = FALSE,
                   !.opSize = IF ins.sse # \h66 THEN @ ELSE IF ins.w THEN 8 ELSE 4]
           table == CASE ins.sse = \h66 -> SSE_66
                      [] ins.sse = \hF2 -> SSE_F2
                      [] ins.sse = \hF3 -> SSE_F3
           rows == UNION {Resolve(e, i.modrm) : e \in Entry(table, second)}
<1>1. AtOpcode /\ ins.sse # 0 /\ second \in DOMAIN SSE_66 /\ Select(i, rows)
  BY DEF SSEOpcode, TwoBytes, IsSSE
<1>2. /\ OpeningOK /\ Typed(ins) /\ ins.prefixes \in Seq(Octets) /\ ins.prefixes # <<>>
      /\ Len(ins.prefixes) <= MaxLength /\ (mode = "x64" => ins.addrSize >= 4)
      /\ ins.sse \in {\h66, \hF2, \hF3}
  <2>1. /\ OpeningOK /\ Typed(ins) /\ ins.prefixes \in Seq(Octets)
        /\ Len(ins.prefixes) <= MaxLength /\ (mode = "x64" => ins.addrSize >= 4)
    BY <1>1, AtOpcodeFacts
  <2>2. ins.prefixes # <<>>
    BY <1>1, <2>1 DEF OpeningOK
  <2>3. ins.sse \in {\h66, \hF2, \hF3}
    BY <1>1, <2>1, Numbers
  <2>. QED BY <2>1, <2>2, <2>3
<1>3. second \in ModRM_2 /\ second # \h0F
  BY <1>1, SSETables
<1>4. /\ Agree(ins, o, {"len", "at", "opLen", "opcode", "hasModRM", "modrmAt", "modrm"})
      /\ Typed(o) /\ DOMAIN o = Fields /\ o.hasModRM = TRUE /\ o.opcode = second
  <2>1. second \in Octets /\ (second \in ModRM_2) \in BOOLEAN /\ (second \in ModRM_2) = TRUE
    BY <1>1, <1>3, SecondByte
  <2>. QED BY <1>1, <2>1, OpenedFacts
<1> HIDE DEF o
<1>5. /\ Agree(o, i, {"opLen", "prefixes", "rep", "opSizePrefix", "opSize"})
      /\ i.opLen = 3 /\ i.prefixes = Tail(o.prefixes) /\ i.rep = 0
      /\ i.opSize = IF ins.sse # \h66 THEN o.opSize ELSE IF ins.w THEN 8 ELSE 4
  BY <1>4 DEF Agree, Fields
<1>6. i.opSizePrefix = FALSE
  BY <1>4 DEF Fields
<1>7. table \in {SSE_66, SSE_F2, SSE_F3}
  <2>1. CASE ins.sse = \h66
    BY <2>1, Zenon
  <2>2. CASE ins.sse = \hF2
    <3>1. ins.sse # \h66
      BY <2>2
    <3>. QED BY <2>2, <3>1, Zenon
  <2>3. CASE ins.sse = \hF3
    <3>1. ins.sse # \h66 /\ ins.sse # \hF2
      BY <2>3
    <3>. QED BY <2>3, <3>1, Zenon
  <2>. QED BY <1>2, <2>1, <2>2, <2>3
<1> HIDE DEF i, table
<1>8. /\ i.operand = ins.operand /\ i.dst = ins.dst /\ i.addrSize = ins.addrSize /\ i.w = ins.w
      /\ o.prefixes = ins.prefixes /\ o.opSize = ins.opSize
  BY <1>4, <1>5 DEF Agree, Fields
<1>9. i.hasModRM = TRUE /\ i.opcode = second
  BY <1>4, <1>5 DEF Agree, Fields
<1>10. i.prefixes \in Seq(Octets) /\ Len(i.prefixes) <= MaxLength
  BY <1>2, <1>5, <1>8, Shorter DEF MaxLength
<1>11. i.opSize \in {2, 4, 8} /\ (i.w => i.opSize = 8)
  <2>1. ins.opSize \in {2, 4, 8} /\ (ins.w => ins.opSize = 8)
    BY <1>1, <1>2, AtOpcodeFacts, Numbers
  <2>. QED BY <1>5, <1>8, <2>1
<1>12. Typed(i) /\ DOMAIN i = Fields
  <2>1. i.opLen \in Types.opLen /\ i.opSize \in Types.opSize /\ i.rep \in Types.rep
    BY <1>5, <1>11, TypesAre
  <2>2. i.prefixes \in Types.prefixes
    BY <1>10, TypesAre
  <2>3. i.opSizePrefix \in Types.opSizePrefix
    BY <1>6, TypesAre, Zenon
  <2>4. \A f \in {"opLen", "prefixes", "rep", "opSizePrefix", "opSize"} \ {"row"} : i[f] \in Types[f]
    BY <2>1, <2>2, <2>3
  <2>5. DOMAIN i = Fields
    BY <1>5 DEF Agree
  <2>. QED BY <1>4, <1>5, <2>4, <2>5, Retyped
<1>13. \A row \in rows : Checkable(i, row)
  BY <1>7, <1>9, SSERows DEF Checkable, QuietRow
<1>14. i.operand = 1 /\ ~i.dst /\ (mode = "x64" => i.addrSize >= 4)
  BY <1>2, <1>8 DEF OpeningOK
<1>15. ~(i.opLen = 3 /\ i.opcode = \h0F)
  BY <1>3, <1>9
<1>. QED BY <1>1, <1>6, <1>10, <1>11, <1>12, <1>13, <1>14, <1>15, Selected

LEMMA SuffixOpcodeStep == DecoderInv /\ SuffixOpcode => DecoderInv'
<1> SUFFICES ASSUME DecoderInv, SuffixOpcode PROVE DecoderInv'
  OBVIOUS
<1> DEFINE o == Opened(2, second, TRUE)
           a == Advance(o, 1)
<1>1. /\ AtOpcode /\ stage' = "operands" /\ mode' = mode /\ text' = text
      /\ ins' = [a EXCEPT
                   !.row.ops = <<"P", "Q">>, !.suffix = TRUE,
                   !.opSize = IF ins.opSizePrefix THEN 4 ELSE @, !.opSizePrefix = FALSE]
  BY DEF SuffixOpcode, TwoBytes, given
<1>2. /\ Agree(ins, o, {"len", "at", "opLen", "opcode", "hasModRM", "modrmAt", "modrm"})
      /\ Typed(o) /\ DOMAIN o = Fields /\ o.hasModRM = TRUE /\ o.len = ins.len + 2
  <2>1. second \in Octets
    BY <1>1, SecondByte
  <2>. QED BY <1>1, <2>1, OpenedFacts
<1> HIDE DEF o
<1>3. /\ Agree(o, a, {"len", "at"}) /\ a.len = o.len + 1 /\ a.at = o.at + 1 /\ DOMAIN a = Fields
  BY <1>2, Advanced DEF Agree
<1> HIDE DEF a
<1>4. /\ Agree(a, ins', {"row", "suffix", "opSize", "opSizePrefix"})
      /\ ins'.opSize = IF ins.opSizePrefix THEN 4 ELSE a.opSize
  BY <1>1, <1>3 DEF Agree, Fields
<1>5. ins'.suffix = TRUE /\ ins'.opSizePrefix = FALSE
  BY <1>1, <1>3 DEF Fields
<1>6. ins'.row = [a.row EXCEPT !.ops = <<"P", "Q">>]
  BY <1>1, <1>3 DEF Fields
<1>7. /\ OpeningOK /\ Typed(ins) /\ Len(ins.prefixes) <= MaxLength /\ Len(ins.prefixes) \in Nat
      /\ ins.len \in Nat /\ (mode = "x64" => ins.addrSize >= 4) /\ ins.opSize \in {2, 4, 8}
  BY <1>1, AtOpcodeFacts, Numbers
<1>8. /\ ins'.operand = ins.operand /\ ins'.dst = ins.dst /\ ins'.addrSize = ins.addrSize
      /\ ins'.w = ins.w /\ ins'.prefixes = ins.prefixes /\ a.opSize = ins.opSize /\ a.row = ins.row
  BY <1>2, <1>3, <1>4 DEF Agree, Fields
<1>9. ins'.hasModRM = TRUE
  BY <1>2, <1>3, <1>4 DEF Agree, Fields
<1>10. ins'.len = ins.len + 3 /\ ins'.at = o.at + 1
  <2>1. ins'.len = a.len /\ ins'.at = a.at
    BY <1>4 DEF Agree, Fields
  <2>. QED BY <1>2, <1>3, <1>7, <2>1
<1>11. ins'.row.ops = <<"P", "Q">>
  <2>1. ins.row = Row
    BY <1>7 DEF OpeningOK
  <2>. QED BY <1>6, <1>8, <2>1 DEF Row
<1>12. Typed(ins')
  <2>1. ins'.len \in Nat /\ ins'.at \in Nat
    BY <1>2, <1>7, <1>10, Numbers
  <2>2. ins'.opSize \in {2, 4, 8}
    BY <1>4, <1>7, <1>8
  <2>3. ins'.len \in Types.len /\ ins'.at \in Types.at /\ ins'.opSize \in Types.opSize
    BY <2>1, <2>2, TypesAre
  <2>4. ins'.suffix \in Types.suffix /\ ins'.opSizePrefix \in Types.opSizePrefix
    BY <1>5, TypesAre, Zenon
  <2>5. Agree(o, ins', {"len", "at", "row", "suffix", "opSize", "opSizePrefix"})
    BY <1>3, <1>4 DEF Agree
  <2>. QED BY <1>2, <2>3, <2>4, <2>5, Retyped
<1>13. Bounded'
  BY <1>1, <1>7, <1>8 DEF Bounded, Accepted
<1>14. RowOK'
  BY <1>9, <1>11 DEF RowOK, Lists, ModRMLists
<1>15. SuffixOK'
  <2>1. ins'.opSize >= 4 /\ (ins'.w => ins'.opSize = 8)
    BY <1>4, <1>7, <1>8 DEF OpeningOK
  <2>2. ins'.len >= 3 + Len(ins'.prefixes)
    BY <1>7, <1>8, <1>10 DEF OpeningOK
  <2>3. ~ins'.dst
    BY <1>7, <1>8 DEF OpeningOK
  <2>. QED BY <1>5, <1>11, <2>1, <2>2, <2>3 DEF SuffixOK
<1>16. OperandsOK'
  BY <1>5, <1>7, <1>8, <1>11 DEF OpeningOK, OperandsOK
<1>17. StagesOK'
  BY <1>1, <1>7, <1>8, <1>14, <1>15, <1>16 DEF StagesOK, Opening
<1>. QED BY <1>1, <1>4, <1>12, <1>13, <1>17 DEF DecoderInv, Agree, GivenOK, StageOK

LEMMA SuffixByteStep == DecoderInv /\ SuffixByte => DecoderInv'
<1> SUFFICES ASSUME DecoderInv, SuffixByte PROVE DecoderInv'
  OBVIOUS
<1> DEFINE i == [ins EXCEPT !.len = @ + 1, !.at = ins.modrmAt, !.opLen = 3, !.operand = 1]
           rows == Entry(T_3DNOW_0F, Byte(ins.len + 1))
<1>1. stage = "suffix" /\ Select(i, rows)
  BY DEF SuffixByte
<1>2. /\ Typed(ins) /\ DOMAIN ins = Fields /\ SuffixOK /\ RowOK
      /\ Len(ins.prefixes) <= MaxLength /\ (mode = "x64" => ins.addrSize >= 4)
  BY <1>1 DEF DecoderInv, StagesOK, Bounded
<1>3. /\ ins.len \in Nat /\ ins.modrmAt \in Nat /\ ins.opSize \in {2, 4, 8}
      /\ Len(ins.prefixes) \in Nat
  BY <1>2, Numbers
<1>4. /\ Agree(ins, i, {"len", "at", "opLen", "operand"})
      /\ i.len = ins.len + 1 /\ i.at = ins.modrmAt /\ i.opLen = 3 /\ i.operand = 1
  BY <1>2 DEF Agree, Fields
<1> HIDE DEF i
<1>5. Typed(i) /\ DOMAIN i = Fields
  <2>1. i.len \in Types.len /\ i.at \in Types.at /\ i.opLen \in Types.opLen /\ i.operand \in Types.operand
    BY <1>3, <1>4, TypesAre
  <2>2. DOMAIN i = Fields
    BY <1>4 DEF Agree
  <2>. QED BY <1>2, <1>4, <2>1, <2>2, Retyped
<1>6. /\ i.dst = ins.dst /\ i.prefixes = ins.prefixes /\ i.addrSize = ins.addrSize /\ i.w = ins.w
      /\ i.opSize = ins.opSize /\ i.opSizePrefix = ins.opSizePrefix /\ i.hasModRM = ins.hasModRM
  BY <1>4 DEF Agree, Fields
<1>7. \A row \in rows : Checkable(i, row)
  <2> SUFFICES ASSUME NEW row \in rows PROVE Checkable(i, row)
    OBVIOUS
  <2>1. row = Alu("other", <<"P", "Q">>)
    BY Suffixes DEF Entry
  <2>2. <<"P", "Q">> \in ModRMLists /\ <<"P", "Q">> \in Lists
    BY DEF ModRMLists, Lists
  <2>3. GoodRow(row)
    BY <2>1, <2>2, Rows
  <2>4. i.hasModRM
    BY <1>2, <1>6, <2>2 DEF SuffixOK, RowOK
  <2>5. i.opSizePrefix \/ i.opSize >= 4
    BY <1>2, <1>6 DEF SuffixOK
  <2>. QED BY <2>3, <2>4, <2>5 DEF Checkable
<1>8. ~i.dst /\ (i.w => i.opSize = 8) /\ (i.opSizePrefix => i.opSize = 2)
  BY <1>2, <1>6 DEF SuffixOK
<1>9. i.len >= 4 + Len(i.prefixes)
  BY <1>2, <1>3, <1>4, <1>6 DEF SuffixOK
<1>10. i.operand = 1 /\ Len(i.prefixes) <= MaxLength /\ (mode = "x64" => i.addrSize >= 4)
  BY <1>2, <1>4, <1>6
<1>. QED BY <1>1, <1>5, <1>7, <1>8, <1>9, <1>10, Selected

-------------------------------------------------------------------------------
(* The lists of operands *)

(* The operands that ModRM encodes *)
Encoded == {"M", "E", "Es", "Ep", "Q", "W", "G", "S", "P", "V", "C", "D", "R", "PR", "VR"}

(* They have at most three operands. *)
LEMMA Lengths == \A o \in Lists : Len(o) \in 0..3 /\ DOMAIN o = 1 .. Len(o) /\ (Len(o) = 0 => o = <<>>)
<1>1. \A o \in ModRMLists : Len(o) \in 1..3 /\ DOMAIN o = 1 .. Len(o)
  BY DEF ModRMLists
<1>2. \A o \in PlainLists : Len(o) \in 0..3 /\ DOMAIN o = 1 .. Len(o) /\ (Len(o) = 0 => o = <<>>)
  BY DEF PlainLists
<1>. QED BY <1>1, <1>2 DEF Lists

LEMMA PlainNotEncoded == \A o \in PlainLists : \A n \in DOMAIN o : o[n] \notin Encoded
BY DEF PlainLists, Encoded

(* An instruction has at most one operand in memory. *)
LEMMA OneInMemory ==
  \A o \in Lists : \A n, m \in DOMAIN o : o[n] \in {"M", "E"} /\ o[m] \in {"M", "E"} => n = m
<1>1. \A o \in ModRMLists : \A n, m \in DOMAIN o : o[n] \in {"M", "E"} /\ o[m] \in {"M", "E"} => n = m
  BY DEF ModRMLists
<1>2. \A o \in PlainLists : \A n \in DOMAIN o : o[n] \notin {"M", "E"}
  BY DEF PlainLists
<1>. QED BY <1>1, <1>2 DEF Lists

(* An offset does not stand beside an operand that ModRM encodes. *)
LEMMA OffsetsAlone == \A o \in ModRMLists : \A n \in DOMAIN o : o[n] # "O"
BY DEF ModRMLists

-------------------------------------------------------------------------------
(* Prefixes and sizes, once the instruction is known *)

LEMMA CheckPrefixesStep == DecoderInv /\ CheckPrefixes => DecoderInv'
<1> SUFFICES ASSUME DecoderInv, CheckPrefixes PROVE DecoderInv'
  OBVIOUS
<1>1. CASE Reject
  BY <1>1, Rejected
<1>2. CASE ~Reject
  <2> DEFINE opSizePrefix == ins.opSizePrefix /\ ~Refused66 /\ ~(ins.w /\ Has(\h66))
             sized == [ins EXCEPT
                         !.opSizePrefix = opSizePrefix, !.w = @ /\ ~Default64,
                         !.anomaly = @ \/ (ins.rep # 0 /\ ~StringOperands),
                         !.opSize = IF Default64 /\ ~opSizePrefix THEN 8 ELSE @]
  <2>1. /\ stage = "checks" /\ mode' = mode /\ text' = text
        /\ IF ins.row.ops = <<>>
           THEN ins' = sized /\ stage' = "last checks"
           ELSE /\ ins' = IF ins.hasModRM THEN Advance(sized, 1) ELSE sized
                /\ stage' = "operands"
    BY <1>2 DEF CheckPrefixes, given
  <2>2. /\ DOMAIN ins = Fields /\ Typed(ins) /\ RowOK /\ ChecksOK
        /\ Len(ins.prefixes) <= MaxLength /\ (mode = "x64" => ins.addrSize >= 4)
        /\ ins.len \in Nat /\ ins.at \in Nat /\ ins.opSize \in {2, 4, 8}
    BY <2>1, Numbers DEF DecoderInv, StagesOK, Bounded
  <2>3. /\ Agree(ins, sized, {"opSizePrefix", "w", "anomaly", "opSize"})
        /\ sized.opSize = IF Default64 /\ ~opSizePrefix THEN 8 ELSE ins.opSize
    BY <2>2 DEF Agree, Fields
  <2>4. sized.opSizePrefix \in BOOLEAN /\ sized.w \in BOOLEAN /\ sized.anomaly \in BOOLEAN
    BY <2>2 DEF Fields
  <2>5. sized.opSizePrefix = opSizePrefix
    BY <2>2 DEF Fields
  <2> HIDE DEF sized
  <2>6. Typed(sized) /\ DOMAIN sized = Fields
    <3>1. sized.opSize \in Types.opSize
      BY <2>2, <2>3, TypesAre
    <3>2. /\ sized.opSizePrefix \in Types.opSizePrefix /\ sized.w \in Types.w
          /\ sized.anomaly \in Types.anomaly
      BY <2>4, TypesAre, Zenon
    <3>3. \A f \in {"opSizePrefix", "w", "anomaly", "opSize"} \ {"row"} : sized[f] \in Types[f]
      BY <3>1, <3>2
    <3>4. DOMAIN sized = Fields
      BY <2>3 DEF Agree
    <3>. QED BY <2>2, <2>3, <3>3, <3>4, Retyped
  <2>7. sized.opSizePrefix => sized.opSize = 2
    BY <2>2, <2>3, <2>5 DEF ChecksOK
  <2>8. Agree(sized, ins', {"len", "at"}) /\ Typed(ins')
    <3>1. CASE ins' = sized
      BY <2>6, <3>1 DEF Agree
    <3>2. CASE ins' = Advance(sized, 1)
      <4>1. Agree(sized, ins', {"len", "at"}) /\ ins'.len = sized.len + 1 /\ ins'.at = sized.at + 1
        BY <2>6, <3>2, Advanced
      <4>2. ins'.len \in Types.len /\ ins'.at \in Types.at
        BY <2>6, <4>1, Numbers, TypesAre
      <4>. QED BY <2>6, <4>1, <4>2, Retyped
    <3>. QED BY <2>1, <3>1, <3>2
  <2>9. /\ ins'.row = ins.row /\ ins'.hasModRM = ins.hasModRM /\ ins'.operand = ins.operand
        /\ ins'.dst = ins.dst /\ ins'.suffix = ins.suffix /\ ins'.addrSize = ins.addrSize
        /\ ins'.prefixes = ins.prefixes
    BY <2>3, <2>8 DEF Agree, Fields
  <2>10. ins'.opSizePrefix = sized.opSizePrefix /\ ins'.opSize = sized.opSize
    BY <2>8 DEF Agree, Fields
  <2>11. Bounded'
    <3>1. stage' \in {"last checks", "operands"}
      BY <2>1
    <3>. QED BY <2>2, <2>9, <3>1 DEF Bounded, Accepted
  <2>12. RowOK'
    BY <2>2, <2>9 DEF RowOK
  <2>13. stage' = "operands" => OperandsOK'
    <3> SUFFICES ASSUME stage' = "operands" PROVE OperandsOK'
      OBVIOUS
    <3>1. ins.row.ops # <<>> /\ ins.row.ops \in Lists
      BY <2>1, <2>2 DEF RowOK
    <3>2. 1 \in DOMAIN ins.row.ops
      BY <3>1, Lengths
    <3>3. ins'.operand \in DOMAIN ins'.row.ops
      BY <2>2, <2>9, <3>2 DEF ChecksOK
    <3>4. ~ins'.dst
      BY <2>2, <2>9 DEF ChecksOK
    <3>. QED BY <2>7, <2>10, <3>3, <3>4 DEF OperandsOK
  <2>14. StagesOK'
    <3>1. stage' \in {"last checks", "operands"} /\ ~ins'.suffix
      BY <2>1, <2>2, <2>9 DEF ChecksOK
    <3>. QED BY <2>1, <2>2, <2>9, <2>12, <2>13, <3>1 DEF StagesOK, Opening
  <2>. QED BY <2>1, <2>8, <2>11, <2>14 DEF DecoderInv, Agree, GivenOK, StageOK
<1>. QED BY <1>1, <1>2

-------------------------------------------------------------------------------
(* Operands *)

LEMMA OperandFacts ==
  ASSUME DecoderInv, stage = "operands"
  PROVE  /\ DOMAIN ins = Fields /\ Typed(ins) /\ RowOK /\ OperandsOK
         /\ Len(ins.prefixes) <= MaxLength /\ Len(ins.prefixes) \in Nat
         /\ (mode = "x64" => ins.addrSize >= 4) /\ (ins.suffix => SuffixOK)
         /\ ins.len \in Nat /\ ins.at \in Nat /\ ins.operand \in Nat
         /\ ins.opSize \in {2, 4, 8} /\ ins.addrSize \in {2, 4, 8}
         /\ ins.row.ops \in Lists /\ ins.operand \in DOMAIN ins.row.ops
<1>1. /\ DOMAIN ins = Fields /\ Typed(ins) /\ RowOK /\ OperandsOK
      /\ Len(ins.prefixes) <= MaxLength
      /\ (mode = "x64" => ins.addrSize >= 4) /\ (ins.suffix => SuffixOK)
  BY DEF DecoderInv, StagesOK, Bounded
<1>2. /\ ins.len \in Nat /\ ins.at \in Nat /\ ins.operand \in Nat /\ Len(ins.prefixes) \in Nat
      /\ ins.opSize \in {2, 4, 8} /\ ins.addrSize \in {2, 4, 8}
  BY <1>1, Numbers
<1>. QED BY <1>1, <1>2 DEF RowOK, OperandsOK

(* i is ins with the effect of its operand; the next one follows, or the last checks. *)
LEMMA OperandTaken ==
  ASSUME DecoderInv, stage = "operands", NEW i, OperandDone(i), Typed(i),
         Agree(ins, i, {"len", "at", "anomaly", "opSizePrefix", "opSize", "addrSizePrefix",
                        "addrSize", "ipRel", "dst"}),
         i.len >= ins.len, mode = "x64" => i.addrSize >= 4,
         i.opSizePrefix => i.opSize = 2 \/ \A n \in DOMAIN ins.row.ops : ins.row.ops[n] # "O",
         i.dst => ins.dst \/ kind \in {"M", "E"},
         ins.suffix => i.opSizePrefix = ins.opSizePrefix /\ i.opSize = ins.opSize
  PROVE  DecoderInv'
<1>1. /\ ins' = [i EXCEPT !.operand = @ + 1] /\ mode' = mode /\ text' = text
      /\ stage' = IF ins.operand < Len(ins.row.ops) THEN stage
                  ELSE IF ins.suffix THEN "suffix" ELSE "last checks"
  BY DEF OperandDone, given
<1>2. DOMAIN i = Fields
  BY DEF Agree
<1>3. Agree(i, ins', {"operand"}) /\ ins'.operand = i.operand + 1
  BY <1>1, <1>2 DEF Agree, Fields
<1>4. /\ i.operand = ins.operand /\ i.row = ins.row /\ i.hasModRM = ins.hasModRM
      /\ i.suffix = ins.suffix /\ i.prefixes = ins.prefixes /\ i.w = ins.w
  BY DEF Agree, Fields
<1>5. /\ ins'.row = ins.row /\ ins'.hasModRM = ins.hasModRM /\ ins'.suffix = ins.suffix
      /\ ins'.prefixes = ins.prefixes /\ ins'.w = ins.w
  BY <1>3, <1>4 DEF Agree, Fields
<1>6. /\ ins'.len = i.len /\ ins'.addrSize = i.addrSize /\ ins'.opSizePrefix = i.opSizePrefix
      /\ ins'.opSize = i.opSize /\ ins'.dst = i.dst
  BY <1>3 DEF Agree, Fields
<1>7. ins'.operand = ins.operand + 1 /\ ins.operand \in Nat
  BY <1>3, <1>4, OperandFacts
<1>8. Typed(ins')
  <2>1. ins'.operand \in Types.operand
    BY <1>7, TypesAre
  <2>. QED BY <1>3, <2>1, Retyped
<1>9. stage' \in {"operands", "suffix", "last checks"}
  BY <1>1
<1>10. Bounded'
  BY <1>5, <1>9, OperandFacts DEF Bounded, Accepted
<1>11. RowOK'
  BY <1>5, OperandFacts DEF RowOK
<1>12. ASSUME ins.suffix PROVE SuffixOK'
  <2>1. SuffixOK /\ i.opSizePrefix = ins.opSizePrefix /\ i.opSize = ins.opSize
    BY <1>12, OperandFacts
  <2>2. ins.row.ops = <<"P", "Q">>
    BY <2>1 DEF SuffixOK
  <2>3. kind \notin {"M", "E"}
    <3>1. ins.operand \in {1, 2}
      BY <2>2, OperandFacts
    <3>. QED BY <2>2, <3>1 DEF kind
  <2>4. ~ins'.dst
    BY <1>6, <2>1, <2>3 DEF SuffixOK
  <2>5. ins'.len >= 3 + Len(ins'.prefixes)
    <3>1. i.len \in Nat /\ ins.len \in Nat /\ Len(ins.prefixes) \in Nat
      BY OperandFacts, Numbers
    <3>. QED BY <1>5, <1>6, <2>1, <3>1 DEF SuffixOK
  <2>6. ~ins'.opSizePrefix
    BY <1>6, <2>1 DEF SuffixOK
  <2>7. ins'.opSize >= 4 /\ (ins'.w => ins'.opSize = 8)
    BY <1>5, <1>6, <2>1 DEF SuffixOK
  <2>. QED BY <1>5, <2>2, <2>4, <2>5, <2>6, <2>7 DEF SuffixOK
<1>13. ASSUME stage' = "operands" PROVE OperandsOK'
  <2>1. ins.operand < Len(ins.row.ops)
    BY <1>1, <1>13
  <2>2. ins'.operand \in DOMAIN ins'.row.ops
    BY <1>5, <1>7, <2>1, OperandFacts, Lengths
  <2>3. ins'.opSizePrefix => ins'.opSize = 2 \/ \A n \in DOMAIN ins'.row.ops : ins'.row.ops[n] # "O"
    BY <1>5, <1>6
  <2>4. ASSUME ins'.dst PROVE \E n \in 1 .. ins'.operand - 1 : ins'.row.ops[n] \in {"M", "E"}
    <3>1. CASE ins.dst
      <4>1. PICK n \in 1 .. ins.operand - 1 : ins.row.ops[n] \in {"M", "E"}
        BY <3>1, OperandFacts DEF OperandsOK
      <4>. QED BY <1>5, <1>7, <4>1
    <3>2. CASE kind \in {"M", "E"}
      <4>1. ins.operand \in 1 .. ins'.operand - 1
        BY <1>7, OperandFacts, Lengths
      <4>. QED BY <1>5, <3>2, <4>1 DEF kind
    <3>. QED BY <1>6, <2>4, <3>1, <3>2
  <2>. QED BY <2>2, <2>3, <2>4 DEF OperandsOK
<1>14. mode' = "x64" => ins'.addrSize >= 4
  BY <1>1, <1>6
<1>15. stage' = "suffix" \/ (stage' = "operands" /\ ins'.suffix) => SuffixOK'
  BY <1>1, <1>5, <1>12
<1>16. StagesOK'
  BY <1>9, <1>11, <1>13, <1>14, <1>15 DEF StagesOK, Opening
<1>. QED BY <1>1, <1>3, <1>8, <1>9, <1>10, <1>16 DEF DecoderInv, Agree, GivenOK, StageOK

(* Bytes that are passed over *)
LEMMA Passed ==
  ASSUME DecoderInv, stage = "operands", NEW n \in Nat
  PROVE  /\ Agree(ins, Advance(ins, n), {"len", "at"}) /\ Typed(Advance(ins, n))
         /\ DOMAIN Advance(ins, n) = Fields /\ Advance(ins, n).len = ins.len + n
         /\ Advance(ins, n).len >= ins.len
<1>1. /\ Agree(ins, Advance(ins, n), {"len", "at"})
      /\ Advance(ins, n).len = ins.len + n /\ Advance(ins, n).at = ins.at + n
  BY OperandFacts, Advanced
<1>2. Advance(ins, n).len \in Nat /\ Advance(ins, n).at \in Nat /\ ins.len + n >= ins.len
  BY <1>1, OperandFacts
<1>3. Advance(ins, n).len \in Types.len /\ Advance(ins, n).at \in Types.at
  BY <1>2, TypesAre
<1>4. Typed(Advance(ins, n))
  BY <1>1, <1>3, OperandFacts, Retyped
<1>. QED BY <1>1, <1>2, <1>4 DEF Agree

(* An operand that changes nothing but how far the instruction has come *)
LEMMA PlainOperandTaken ==
  ASSUME DecoderInv, stage = "operands", NEW i, OperandDone(i), Typed(i), i.len >= ins.len,
         Agree(ins, i, {"len", "at"})
  PROVE  DecoderInv'
<1>1. /\ i.opSizePrefix = ins.opSizePrefix /\ i.opSize = ins.opSize /\ i.addrSize = ins.addrSize
      /\ i.dst = ins.dst
  BY DEF Agree, Fields
<1>2. Agree(ins, i, {"len", "at", "anomaly", "opSizePrefix", "opSize", "addrSizePrefix",
                     "addrSize", "ipRel", "dst"})
  BY DEF Agree
<1>3. i.opSizePrefix => i.opSize = 2 \/ \A n \in DOMAIN ins.row.ops : ins.row.ops[n] # "O"
  BY <1>1, OperandFacts DEF OperandsOK
<1>4. mode = "x64" => i.addrSize >= 4
  BY <1>1, OperandFacts
<1>. QED BY <1>1, <1>2, <1>3, <1>4, OperandTaken

LEMMA Unchanged ==
  ASSUME DecoderInv, stage = "operands", OperandDone(ins)
  PROVE  DecoderInv'
<1>1. Typed(ins) /\ ins.len >= ins.len /\ Agree(ins, ins, {"len", "at"})
  BY OperandFacts DEF Agree
<1>. QED BY <1>1, PlainOperandTaken

LEMMA ImpliedOperandStep == DecoderInv /\ ImpliedOperand => DecoderInv'
BY Unchanged DEF ImpliedOperand, AtOperand

(* The cases of Size *)
LEMMA Sizes ==
  /\ Size("Ib") = 1 /\ Size("Jb") = 1 /\ Size("Iw") = 2 /\ Size("O") = ins.addrSize
  /\ Size("Iz") = (IF ins.opSize = 2 THEN 2 ELSE 4) /\ Size("Jz") = (IF ins.opSize = 2 THEN 2 ELSE 4)
  /\ Size("Iv") = ins.opSize /\ Size("A") = (IF ins.opSize = 2 THEN 4 ELSE 6)
<1>1. Size("Ib") = 1 /\ Size("Jb") = 1
  BY Zenon DEF Size
<1>2. Size("Iw") = 2
  BY Zenon DEF Size
<1>3. Size("Iz") = (IF ins.opSize = 2 THEN 2 ELSE 4) /\ Size("Jz") = (IF ins.opSize = 2 THEN 2 ELSE 4)
  BY Zenon DEF Size
<1>4. Size("Iv") = ins.opSize
  BY Zenon DEF Size
<1>5. Size("O") = ins.addrSize
  BY Zenon DEF Size
<1>6. Size("A") = (IF ins.opSize = 2 THEN 4 ELSE 6)
  BY Zenon DEF Size
<1>. QED BY <1>1, <1>2, <1>3, <1>4, <1>5, <1>6

LEMMA SizesNatural ==
  ASSUME DecoderInv, stage = "operands"
  PROVE  \A k \in {"Ib", "Jb", "Iw", "Iz", "Jz", "Iv", "O", "A"} : Size(k) \in Nat
<1>1. ins.opSize \in Nat /\ ins.addrSize \in Nat
  BY OperandFacts
<1>. QED BY <1>1, Sizes

LEMMA ImmediateStep == DecoderInv /\ Immediate => DecoderInv'
<1> SUFFICES ASSUME DecoderInv, Immediate PROVE DecoderInv'
  OBVIOUS
<1>1. stage = "operands" /\ kind \in {"Ib", "Iw", "Iz", "Iv"} /\ OperandDone(Advance(ins, Size(kind)))
  BY DEF Immediate, AtOperand
<1>2. Size(kind) \in Nat
  BY <1>1, SizesNatural
<1>3. /\ Agree(ins, Advance(ins, Size(kind)), {"len", "at"}) /\ Typed(Advance(ins, Size(kind)))
      /\ Advance(ins, Size(kind)).len >= ins.len
  BY <1>1, <1>2, Passed
<1>. QED BY <1>1, <1>3, PlainOperandTaken

(* A branch does not use the address size, which is then that of the mode. *)
LEMMA OwnSize ==
  ASSUME NEW i, DOMAIN i = Fields, Typed(i)
  PROVE  /\ Agree(i, OwnAddressSize(i), {"anomaly", "addrSizePrefix", "addrSize"})
         /\ Typed(OwnAddressSize(i)) /\ DOMAIN OwnAddressSize(i) = Fields
         /\ mode = "x64" => OwnAddressSize(i).addrSize >= 4
<1> DEFINE j == OwnAddressSize(i)
<1>1. /\ Agree(i, j, {"anomaly", "addrSizePrefix", "addrSize"})
      /\ j.addrSize = IF mode = "x64" THEN 8 ELSE 4
  BY DEF OwnAddressSize, Agree, Fields
<1>2. j.anomaly \in BOOLEAN /\ j.addrSizePrefix \in BOOLEAN
  BY DEF OwnAddressSize, Fields
<1> HIDE DEF j
<1>3. j.addrSize \in Types.addrSize
  BY <1>1, TypesAre
<1>4. j.anomaly \in Types.anomaly /\ j.addrSizePrefix \in Types.addrSizePrefix
  BY <1>2, TypesAre, Zenon
<1>5. Typed(j)
  BY <1>1, <1>3, <1>4, Retyped
<1>. QED BY <1>1, <1>5 DEF j, Agree

LEMMA FarAddressStep == DecoderInv /\ FarAddress => DecoderInv'
<1> SUFFICES ASSUME DecoderInv, FarAddress PROVE DecoderInv'
  OBVIOUS
<1> DEFINE a == Advance(ins, Size("A"))
           i == OwnAddressSize(a)
<1>1. stage = "operands" /\ OperandDone(i)
  BY DEF FarAddress, AtOperand
<1>2. Size("A") \in Nat
  BY <1>1, SizesNatural
<1>3. Agree(ins, a, {"len", "at"}) /\ Typed(a) /\ DOMAIN a = Fields /\ a.len >= ins.len
  BY <1>1, <1>2, Passed
<1> HIDE DEF a
<1>4. /\ Agree(a, i, {"anomaly", "addrSizePrefix", "addrSize"}) /\ Typed(i)
      /\ mode = "x64" => i.addrSize >= 4
  BY <1>3, OwnSize
<1> HIDE DEF i
<1>5. /\ i.len = a.len /\ i.opSizePrefix = ins.opSizePrefix /\ i.opSize = ins.opSize
      /\ i.dst = ins.dst
  BY <1>3, <1>4 DEF Agree, Fields
<1>6. Agree(ins, i, {"len", "at", "anomaly", "opSizePrefix", "opSize", "addrSizePrefix",
                     "addrSize", "ipRel", "dst"})
  BY <1>3, <1>4 DEF Agree
<1>7. i.opSizePrefix => i.opSize = 2 \/ \A n \in DOMAIN ins.row.ops : ins.row.ops[n] # "O"
  BY <1>1, <1>5, OperandFacts DEF OperandsOK
<1>8. i.len >= ins.len
  BY <1>3, <1>5
<1>. QED BY <1>1, <1>4, <1>5, <1>6, <1>7, <1>8, OperandTaken

LEMMA RelativeOffsetStep == DecoderInv /\ RelativeOffset => DecoderInv'
<1> SUFFICES ASSUME DecoderInv, RelativeOffset PROVE DecoderInv'
  OBVIOUS
<1> DEFINE a == Advance(ins, Size(kind))
           o == OwnAddressSize(a)
           i == [o EXCEPT !.ipRel = @ \union {ins.operand}]
<1>1. stage = "operands" /\ kind \in {"Jb", "Jz"} /\ OperandDone(i)
  BY DEF RelativeOffset, AtOperand
<1>2. Size(kind) \in Nat
  BY <1>1, SizesNatural
<1>3. Agree(ins, a, {"len", "at"}) /\ Typed(a) /\ DOMAIN a = Fields /\ a.len >= ins.len
  BY <1>1, <1>2, Passed
<1> HIDE DEF a
<1>4. /\ Agree(a, o, {"anomaly", "addrSizePrefix", "addrSize"}) /\ Typed(o) /\ DOMAIN o = Fields
      /\ mode = "x64" => o.addrSize >= 4
  BY <1>3, OwnSize
<1> HIDE DEF o
<1>5. Agree(o, i, {"ipRel"}) /\ i.ipRel = o.ipRel \union {ins.operand}
  BY <1>4 DEF Agree, Fields
<1> HIDE DEF i
<1>6. Typed(i)
  <2>1. o.ipRel \subseteq Nat /\ ins.operand \in Nat
    BY <1>1, <1>4, Numbers, OperandFacts
  <2>2. i.ipRel \subseteq Nat
    BY <1>5, <2>1
  <2>3. i.ipRel \in Types.ipRel
    BY <2>2, TypesAre, Zenon
  <2>. QED BY <1>4, <1>5, <2>3, Retyped
<1>7. /\ i.len = a.len /\ i.opSizePrefix = ins.opSizePrefix /\ i.opSize = ins.opSize
      /\ i.dst = ins.dst /\ i.addrSize = o.addrSize
  BY <1>3, <1>4, <1>5 DEF Agree, Fields
<1>8. Agree(ins, i, {"len", "at", "anomaly", "opSizePrefix", "opSize", "addrSizePrefix",
                     "addrSize", "ipRel", "dst"})
  BY <1>3, <1>4, <1>5 DEF Agree
<1>9. i.opSizePrefix => i.opSize = 2 \/ \A n \in DOMAIN ins.row.ops : ins.row.ops[n] # "O"
  BY <1>1, <1>7, OperandFacts DEF OperandsOK
<1>10. i.len >= ins.len /\ (mode = "x64" => i.addrSize >= 4)
  BY <1>3, <1>4, <1>7
<1>. QED BY <1>1, <1>6, <1>7, <1>8, <1>9, <1>10, OperandTaken

(* An operand-size prefix that changes nothing is taken back before an offset. *)
LEMMA OffsetStep == DecoderInv /\ Offset => DecoderInv'
<1> SUFFICES ASSUME DecoderInv, Offset PROVE DecoderInv'
  OBVIOUS
<1> DEFINE unexpected == ins.opSizePrefix /\ ~ins.anomaly
           a == Advance(ins, Size("O"))
           i == [a EXCEPT !.anomaly = @ \/ unexpected, !.opSizePrefix = @ /\ ~unexpected,
                          !.opSize = IF unexpected THEN 6 - @ ELSE @]
<1>1. stage = "operands" /\ kind = "O" /\ OperandDone(i)
  BY DEF Offset, AtOperand
<1>2. Size("O") \in Nat
  BY <1>1, SizesNatural
<1>3. Agree(ins, a, {"len", "at"}) /\ Typed(a) /\ DOMAIN a = Fields /\ a.len >= ins.len
  BY <1>1, <1>2, Passed
<1> HIDE DEF a
<1>4. /\ Agree(a, i, {"anomaly", "opSizePrefix", "opSize"})
      /\ i.opSize = IF unexpected THEN 6 - a.opSize ELSE a.opSize
  BY <1>3 DEF Agree, Fields
<1>5. i.anomaly \in BOOLEAN /\ i.opSizePrefix \in BOOLEAN
  BY <1>3 DEF Fields
<1>6. i.opSizePrefix = (a.opSizePrefix /\ ~unexpected)
  BY <1>3 DEF Fields
<1> HIDE DEF i
<1>7. a.opSize = ins.opSize /\ a.opSizePrefix = ins.opSizePrefix /\ i.len = a.len
  BY <1>3, <1>4 DEF Agree, Fields
<1>8. i.addrSize = ins.addrSize /\ i.dst = ins.dst
  BY <1>3, <1>4 DEF Agree, Fields
<1>9. ins.opSizePrefix => ins.opSize = 2
  BY <1>1, OperandFacts DEF OperandsOK, kind
<1>10. i.opSize \in {2, 4, 8} /\ (i.opSizePrefix => i.opSize = 2)
  <2>1. unexpected => ins.opSize = 2
    BY <1>9
  <2>2. i.opSizePrefix => ~unexpected /\ ins.opSize = 2
    BY <1>6, <1>7, <1>9
  <2>3. ins.opSize \in {2, 4, 8}
    BY <1>1, OperandFacts
  <2> HIDE DEF unexpected
  <2>. QED BY <1>4, <1>7, <2>1, <2>2, <2>3
<1>11. Typed(i)
  <2>1. i.opSize \in Types.opSize
    BY <1>10, TypesAre
  <2>2. i.anomaly \in Types.anomaly /\ i.opSizePrefix \in Types.opSizePrefix
    BY <1>5, TypesAre, Zenon
  <2>. QED BY <1>3, <1>4, <2>1, <2>2, Retyped
<1>12. Agree(ins, i, {"len", "at", "anomaly", "opSizePrefix", "opSize", "addrSizePrefix",
                      "addrSize", "ipRel", "dst"})
  BY <1>3, <1>4 DEF Agree
<1>13. ~ins.suffix
  <2>1. ins.suffix => ins.row.ops = <<"P", "Q">>
    BY <1>1, OperandFacts DEF SuffixOK
  <2>2. <<"P", "Q">> \in ModRMLists
    BY DEF ModRMLists
  <2>. QED BY <1>1, <2>1, <2>2, OffsetsAlone, OperandFacts DEF kind
<1>14. i.len >= ins.len /\ (mode = "x64" => i.addrSize >= 4)
  BY <1>1, <1>3, <1>7, <1>8, OperandFacts
<1>. QED BY <1>1, <1>8, <1>10, <1>11, <1>12, <1>13, <1>14, OperandTaken

LEMMA RegOperandStep == DecoderInv /\ RegOperand => DecoderInv'
<1> SUFFICES ASSUME DecoderInv, RegOperand PROVE DecoderInv'
  OBVIOUS
<1> DEFINE i == [ins EXCEPT !.opSize = IF kind \in {"C", "D"} /\ mode = "x64" THEN 8 ELSE @]
<1>1. stage = "operands" /\ kind \in {"G", "S", "P", "V", "C", "D"}
  BY DEF RegOperand, AtOperand
<1>2. CASE Reject
  BY <1>2, Rejected
<1>3. CASE OperandDone(i)
  <2>1. /\ Typed(ins) /\ DOMAIN ins = Fields /\ ins.opSize \in {2, 4, 8} /\ OperandsOK
        /\ ins.row.ops \in Lists /\ ins.operand \in DOMAIN ins.row.ops
        /\ (mode = "x64" => ins.addrSize >= 4) /\ ins.len \in Nat
    BY <1>1, OperandFacts
  <2>2. /\ Agree(ins, i, {"opSize"})
        /\ i.opSize = IF kind \in {"C", "D"} /\ mode = "x64" THEN 8 ELSE ins.opSize
    BY <2>1 DEF Agree, Fields
  <2> HIDE DEF i
  <2>3. i.opSize \in {2, 4, 8}
    BY <2>1, <2>2
  <2>4. Typed(i)
    <3>1. i.opSize \in Types.opSize
      BY <2>3, TypesAre
    <3>. QED BY <2>1, <2>2, <3>1, Retyped
  <2>5. /\ i.len = ins.len /\ i.opSizePrefix = ins.opSizePrefix /\ i.dst = ins.dst
        /\ i.addrSize = ins.addrSize
    BY <2>2 DEF Agree, Fields
  <2>6. Agree(ins, i, {"len", "at", "anomaly", "opSizePrefix", "opSize", "addrSizePrefix",
                       "addrSize", "ipRel", "dst"})
    BY <2>2 DEF Agree
  <2>7. ins.row.ops \in ModRMLists
    <3>1. ins.row.ops[ins.operand] \in Encoded
      BY <1>1 DEF kind, Encoded
    <3>. QED BY <2>1, <3>1, PlainNotEncoded DEF Lists
  <2>8. \A n \in DOMAIN ins.row.ops : ins.row.ops[n] # "O"
    BY <2>7, OffsetsAlone
  <2>9. ins.suffix => i.opSize = ins.opSize
    <3>1. ASSUME ins.suffix PROVE kind \notin {"C", "D"}
      <4>1. ins.row.ops = <<"P", "Q">>
        BY <1>1, <3>1, OperandFacts DEF SuffixOK
      <4>2. ins.operand \in {1, 2}
        BY <2>1, <4>1
      <4>. QED BY <4>1, <4>2 DEF kind
    <3>. QED BY <2>2, <3>1
  <2>10. i.len >= ins.len
    BY <2>1, <2>5
  <2>. QED BY <1>1, <1>3, <2>1, <2>4, <2>5, <2>6, <2>8, <2>9, <2>10, OperandTaken
<1>. QED BY <1>2, <1>3 DEF RegOperand

LEMMA RMOperandStep == DecoderInv /\ RMOperand => DecoderInv'
BY Unchanged, Rejected DEF RMOperand, AtOperand

(* The fields of ModRM *)
LEMMA Modes4 == ASSUME NEW m \in Octets PROVE Mod(m) \in 0..3
BY DEF Mod, Octets

LEMMA AddressBytes ==
  ASSUME DecoderInv, stage = "operands", Mod(ins.modrm) # 3
  PROVE  ModRM16Bytes \in Nat /\ ModRM32Bytes \in Nat
<1>1. Mod(ins.modrm) \in {0, 1, 2}
  <2>1. Mod(ins.modrm) \in 0..3
    BY OperandFacts, Numbers, Modes4
  <2>. QED BY <2>1
<1>2. /\ Mod(ins.modrm) = 0 => ModRM16Bytes = IF RM(ins.modrm) = 6 THEN 2 ELSE 0
      /\ Mod(ins.modrm) = 1 => ModRM16Bytes = 1
      /\ Mod(ins.modrm) = 2 => ModRM16Bytes = 2
  BY DEF ModRM16Bytes
<1>3. /\ Mod(ins.modrm) = 0 => SIBBytes \in {5, 1}
      /\ Mod(ins.modrm) = 1 => SIBBytes = 2
      /\ Mod(ins.modrm) = 2 => SIBBytes = 5
  BY DEF SIBBytes
<1>4. /\ RM(ins.modrm) = 4 => ModRM32Bytes = SIBBytes
      /\ RM(ins.modrm) # 4 =>
           /\ Mod(ins.modrm) = 0 => ModRM32Bytes = IF NoBase THEN 4 ELSE 0
           /\ Mod(ins.modrm) = 1 => ModRM32Bytes = 1
           /\ Mod(ins.modrm) = 2 => ModRM32Bytes = 4
  BY DEF ModRM32Bytes
<1>. QED BY <1>1, <1>2, <1>3, <1>4

LEMMA MemoryOperandStep == DecoderInv /\ MemoryOperand => DecoderInv'
<1> SUFFICES ASSUME DecoderInv, MemoryOperand PROVE DecoderInv'
  OBVIOUS
<1> DEFINE register == Mod(ins.modrm) = 3
           bytes == IF register THEN 0
                    ELSE IF ins.addrSize = 2 THEN ModRM16Bytes ELSE ModRM32Bytes
           a == Advance(ins, bytes)
           i == [a EXCEPT !.ipRel = IF mode = "x64" /\ NoBase THEN @ \union {ins.operand} ELSE @,
                          !.dst = @ \/ (~register /\ kind \in {"M", "E"})]
<1>1. stage = "operands"
  BY DEF MemoryOperand, AtOperand
<1>2. CASE Reject
  BY <1>2, Rejected
<1>3. CASE OperandDone(i)
  <2>1. bytes \in Nat
    BY <1>1, AddressBytes
  <2> HIDE DEF bytes
  <2>2. Agree(ins, a, {"len", "at"}) /\ Typed(a) /\ DOMAIN a = Fields /\ a.len >= ins.len
    BY <1>1, <2>1, Passed
  <2> HIDE DEF a
  <2>3. /\ Agree(a, i, {"ipRel", "dst"})
        /\ i.ipRel = IF mode = "x64" /\ NoBase THEN a.ipRel \union {ins.operand} ELSE a.ipRel
    BY <2>2 DEF Agree, Fields
  <2>4. i.dst \in BOOLEAN /\ (i.dst => a.dst \/ kind \in {"M", "E"})
    BY <2>2 DEF Fields
  <2> HIDE DEF i
  <2>5. Typed(i)
    <3>1. a.ipRel \subseteq Nat /\ ins.operand \in Nat
      BY <1>1, <2>2, Numbers, OperandFacts
    <3>2. i.ipRel \subseteq Nat
      BY <2>3, <3>1
    <3>3. i.ipRel \in Types.ipRel
      BY <3>2, TypesAre, Zenon
    <3>4. i.dst \in Types.dst
      BY <2>4, TypesAre, Zenon
    <3>. QED BY <2>2, <2>3, <3>3, <3>4, Retyped
  <2>6. /\ i.len = a.len /\ i.opSizePrefix = ins.opSizePrefix /\ i.opSize = ins.opSize
        /\ a.dst = ins.dst /\ i.addrSize = ins.addrSize
    BY <2>2, <2>3 DEF Agree, Fields
  <2>7. Agree(ins, i, {"len", "at", "anomaly", "opSizePrefix", "opSize", "addrSizePrefix",
                       "addrSize", "ipRel", "dst"})
    BY <2>2, <2>3 DEF Agree
  <2>8. i.opSizePrefix => i.opSize = 2 \/ \A n \in DOMAIN ins.row.ops : ins.row.ops[n] # "O"
    BY <1>1, <2>6, OperandFacts DEF OperandsOK
  <2>9. i.dst => ins.dst \/ kind \in {"M", "E"}
    BY <2>4, <2>6
  <2>10. i.len >= ins.len /\ (mode = "x64" => i.addrSize >= 4)
    BY <1>1, <2>2, <2>6, OperandFacts
  <2>. QED BY <1>1, <1>3, <2>5, <2>6, <2>7, <2>8, <2>9, <2>10, OperandTaken
<1>. QED BY <1>2, <1>3 DEF MemoryOperand

-------------------------------------------------------------------------------
(* The end of an instruction *)

LEMMA LastChecksStep == DecoderInv /\ LastChecks => DecoderInv'
<1> SUFFICES ASSUME DecoderInv, LastChecks PROVE DecoderInv'
  OBVIOUS
<1>1. CASE Reject
  BY <1>1, Rejected
<1>2. CASE ~Reject
  <2>1. /\ ~TooLong /\ stage' = "decoded" /\ mode' = mode /\ text' = text /\ ins' = ins
    BY <1>2 DEF LastChecks, given
  <2>2. ins.len \in Nat
    BY Numbers DEF DecoderInv
  <2>3. Bounded'
    BY <2>1, <2>2 DEF DecoderInv, Bounded, TooLong, MaxLength
  <2>4. StagesOK'
    BY <2>1 DEF DecoderInv, StagesOK, Opening
  <2>. QED BY <2>1, <2>3, <2>4 DEF DecoderInv, GivenOK, StageOK
<1>. QED BY <1>1, <1>2

LEMMA ExamineStep == DecoderInv /\ Examine => DecoderInv'
<1> SUFFICES ASSUME DecoderInv, Examine PROVE DecoderInv'
  OBVIOUS
<1>1. /\ stage = "decoded" /\ stage' \in {"stopped", "moved", "patched"}
      /\ mode' = mode /\ text' = text /\ ins' = ins
  BY DEF Examine, given
<1>2. Bounded'
  BY <1>1 DEF DecoderInv, Bounded, Accepted
<1>3. StagesOK'
  BY <1>1 DEF DecoderInv, StagesOK, Opening
<1>. QED BY <1>1, <1>2, <1>3 DEF DecoderInv, GivenOK, StageOK

LEMMA StutterStep == DecoderInv /\ UNCHANGED vars => DecoderInv'
<1> SUFFICES ASSUME DecoderInv, UNCHANGED vars PROVE DecoderInv'
  OBVIOUS
<1>1. mode' = mode /\ text' = text /\ stage' = stage /\ ins' = ins
  BY DEF vars
<1>2. Bounded' /\ GivenOK' /\ StageOK'
  BY <1>1 DEF DecoderInv, Bounded, Accepted, GivenOK, StageOK
<1>3. StagesOK'
  <2>1. /\ Opening' = Opening /\ RowOK' = RowOK /\ ChecksOK' = ChecksOK /\ SuffixOK' = SuffixOK
        /\ OperandsOK' = OperandsOK
    BY <1>1 DEF Opening, RowOK, ChecksOK, SuffixOK, OperandsOK
  <2>2. OpeningOK' = OpeningOK
    BY <1>1 DEF OpeningOK, Wide, IsPrefix, this, Byte
  <2>. QED BY <1>1, <2>1, <2>2 DEF DecoderInv, StagesOK
<1>. QED BY <1>1, <1>2, <1>3 DEF DecoderInv

-------------------------------------------------------------------------------
(* The theorems *)

LEMMA StepOK == DecoderInv /\ [Next]_vars => DecoderInv'
<1> SUFFICES ASSUME DecoderInv, [Next]_vars PROVE DecoderInv'
  OBVIOUS
<1>1. CASE MisplacedRex
  BY <1>1, MisplacedRexStep
<1>2. CASE RepeatPrefix
  BY <1>2, RepeatPrefixStep
<1>3. CASE OperandSizePrefix
  BY <1>3, OperandSizePrefixStep
<1>4. CASE AddressSizePrefix
  BY <1>4, AddressSizePrefixStep
<1>5. CASE SegmentPrefix
  BY <1>5, SegmentPrefixStep
<1>6. CASE LockPrefix
  BY <1>6, LockPrefixStep
<1>7. CASE RexPrefix
  BY <1>7, RexPrefixStep
<1>8. CASE OneByteOpcode
  BY <1>8, OneByteOpcodeStep
<1>9. CASE InvalidOpcode
  BY <1>9, Rejected DEF InvalidOpcode
<1>10. CASE TwoByteOpcode
  BY <1>10, TwoByteOpcodeStep
<1>11. CASE SSEOpcode
  BY <1>11, SSEOpcodeStep
<1>12. CASE SuffixOpcode
  BY <1>12, SuffixOpcodeStep
<1>13. CASE SuffixByte
  BY <1>13, SuffixByteStep
<1>14. CASE CheckPrefixes
  BY <1>14, CheckPrefixesStep
<1>15. CASE ImpliedOperand
  BY <1>15, ImpliedOperandStep
<1>16. CASE Immediate
  BY <1>16, ImmediateStep
<1>17. CASE FarAddress
  BY <1>17, FarAddressStep
<1>18. CASE Offset
  BY <1>18, OffsetStep
<1>19. CASE RelativeOffset
  BY <1>19, RelativeOffsetStep
<1>20. CASE RegOperand
  BY <1>20, RegOperandStep
<1>21. CASE RMOperand
  BY <1>21, RMOperandStep
<1>22. CASE MemoryOperand
  BY <1>22, MemoryOperandStep
<1>23. CASE LastChecks
  BY <1>23, LastChecksStep
<1>24. CASE Examine
  BY <1>24, ExamineStep
<1>25. CASE Returned \/ UNCHANGED vars
  BY <1>25, StutterStep DEF Returned
<1>. QED
  BY <1>1, <1>2, <1>3, <1>4, <1>5, <1>6, <1>7, <1>8, <1>9, <1>10, <1>11, <1>12, <1>13, <1>14,
     <1>15, <1>16, <1>17, <1>18, <1>19, <1>20, <1>21, <1>22, <1>23, <1>24, <1>25 DEF Next

(* What the code asserts follows from the invariant. *)
LEMMA AssertionsFollow == DecoderInv => AssertionsHold
<1> SUFFICES ASSUME DecoderInv PROVE AssertionsHold
  OBVIOUS
<1>1. ins.opSizePrefix /\ (stage \in {"prefixes", "opcode", "checks"} \/ AtOperand({"O"}))
        => ins.opSize = 2
  <2>1. CASE stage \in {"prefixes", "opcode"}
    BY <2>1 DEF DecoderInv, StagesOK, Opening, OpeningOK
  <2>2. CASE stage = "checks"
    BY <2>2 DEF DecoderInv, StagesOK, ChecksOK
  <2>3. CASE AtOperand({"O"})
    BY <2>3 DEF DecoderInv, StagesOK, OperandsOK, AtOperand, kind
  <2>. QED BY <2>1, <2>2, <2>3
<1>2. mode = "x64" => ins.addrSize >= 4
  BY DEF DecoderInv, StagesOK
<1>3. stage = "checks" =>
        /\ ins.w => ins.opSize = 8
        /\ Default64 /\ ~ins.opSizePrefix => ins.opSize >= 4
  BY DEF DecoderInv, StagesOK, ChecksOK, Default64
<1>4. AtOperand({"Ib", "Iw", "Iz", "Iv"}) => Size(kind) <= ins.opSize
  <2> SUFFICES ASSUME stage = "operands", kind \in {"Ib", "Iw", "Iz", "Iv"}
               PROVE Size(kind) <= ins.opSize
    BY DEF AtOperand
  <2>1. ins.opSize \in {2, 4, 8}
    BY OperandFacts
  <2>. QED BY <2>1, Sizes
<1>5. AtOperand({"M", "E", "Es", "Ep", "Q", "W", "G", "S", "P", "V", "C", "D", "R", "PR", "VR"})
        => ins.hasModRM
  <2> SUFFICES ASSUME stage = "operands", kind \in Encoded PROVE ins.hasModRM
    BY DEF AtOperand, Encoded
  <2>1. ins.row.ops \in ModRMLists
    BY OperandFacts, PlainNotEncoded DEF kind, Lists
  <2>. QED BY <2>1, OperandFacts DEF RowOK
<1>6. AtOperand({"M", "E"}) /\ Mod(ins.modrm) # 3 => ~ins.dst
  <2> SUFFICES ASSUME stage = "operands", kind \in {"M", "E"}, ins.dst PROVE FALSE
    BY DEF AtOperand
  <2>1. PICK n \in 1 .. ins.operand - 1 : ins.row.ops[n] \in {"M", "E"}
    BY OperandFacts DEF OperandsOK
  <2>2. n \in DOMAIN ins.row.ops /\ n # ins.operand
    BY OperandFacts, Lengths
  <2>. QED BY <2>1, <2>2, OperandFacts, OneInMemory DEF kind
<1>7. stage = "checks" /\ ins.opLen = 3 /\ ins.opcode = \h0F => ins.len >= 4 + Len(ins.prefixes)
  BY DEF DecoderInv, StagesOK, ChecksOK
<1>. QED BY <1>1, <1>2, <1>3, <1>4, <1>5, <1>6, <1>7 DEF AssertionsHold

(* The invariant holds, whatever bytes lie there. *)
THEOREM Invariant == Spec => []DecoderInv
BY InitOK, StepOK, PTL DEF Spec

(* The fields of INSTRUCTION and of X86_INSTRUCTION have their types. *)
THEOREM TypeCorrect == Spec => []TypeOK
BY Invariant, TypesFollow, PTL

(* The list of prefixes never overflows, and no instruction is accepted that is longer than
   X86_MAX_INSTRUCTION_LEN.                                                              *)
THEOREM LengthsBounded == Spec => []Bounded
<1>1. DecoderInv => Bounded
  BY DEF DecoderInv
<1>. QED BY <1>1, Invariant, PTL

(* No assertion of the decoder about sizes, ModRM and the destination can fail. *)
THEOREM NoAssertionFails == Spec => []AssertionsHold
BY Invariant, AssertionsFollow, PTL

-------------------------------------------------------------------------------
(* The decoder and the encoding of the manuals: the invariant.  While prefixes are read it
   says what they have been (PrefixesRead); from the opcode on, that the row found is as the
   manuals have the instruction (RowFits), that what has been read and what the operands to
   come will take make its length, and that OP_IPREL marks what is relative (Matched); or
   that the instruction is one of those misread, and will not be corrected (Excused).      *)

(* The instruction as the manuals read it *)
manual == F!Fields(mode, text)

(* The fields of an instruction: bytes, sizes and a place, which with rex.w is behind a prefix *)
Sane(f) ==
  /\ f.map \in {1, 2} /\ f.opcode \in Octets /\ f.modrm \in Octets /\ f.sib \in Octets
  /\ f.size \in {2, 4, 8} /\ f.addr \in {2, 4, 8} /\ f.modrmAt \in Nat
  /\ f.size = 8 => f.modrmAt >= 3

(* The operands that mod and rm encode *)
Addressing == {"M", "E", "Es", "Ep", "Q", "W", "R", "PR", "VR"}

(* What they take besides ModRM: SIB and the displacement *)
MemoryBytes(f) == (IF F!SIBPresent(f) THEN 1 ELSE 0) + F!DisplacementBytes(f)

(* What an operand takes behind ModRM *)
BytesOf(k, f) ==
  CASE k \in Addressing -> MemoryBytes(f)
    [] k \in {"Ib", "Jb"} -> 1
    [] k = "Iw" -> 2
    [] k \in {"Iz", "Jz"} -> F!WordBytes(f)
    [] k = "Iv" -> f.size
    [] k = "O" -> f.addr
    [] k = "A" -> F!WordBytes(f) + 2
    [] OTHER -> 0

(* What the operands of a list take from the n-th on; no list has more than three. *)
NthBytes(o, n, m, f) == IF n <= m /\ m <= Len(o) THEN BytesOf(o[m], f) ELSE 0
Rest(o, n, f) == NthBytes(o, n, 1, f) + NthBytes(o, n, 2, f) + NthBytes(o, n, 3, f)

Branches == {<<"Jb">>, <<"Jz">>}
Sized == {<<"A">>, <<"Iz">>, <<"Jz">>, <<"r", "Iv">>, <<"r", "Iz">>, <<"E", "Iz">>, <<"Es", "Iz">>,
          <<"G", "Es", "Iz">>}
Control == {<<"R", "C">>, <<"C", "R">>, <<"R", "D">>, <<"D", "R">>}

Movable(row) == row.type \in {"mov", "lea"} /\ row.ops \in ModRMLists \ Control

(* A row of the tables is as the manuals have the instruction. *)
RowFits(row, f) ==
  /\ row.ops \in Lists
  /\ row.ops \in ModRMLists => F!HasModRM(f)
  /\ row.ops \in PlainLists /\ F!HasModRM(f) => F!mod(f) = 3
  /\ Rest(row.ops, 1, f) = F!ImmediateBytes(f) + (IF row.ops \in ModRMLists THEN MemoryBytes(f) ELSE 0)
  /\ row.ops \in Branches <=> F!RelativeBranch(f)
  /\ F!RelativeBranch(f) =>
       \/ row.type \in {"branch", "branchcc", "call"}
       \/ row.type = "loopcc" /\ f.map = 1 /\ f.opcode \in \hE0..\hE3
  /\ row.ops \in Sized => row.unit = "int"
  /\ row.ops = <<"r", "Iv">> => row.type = "mov"
  /\ row.type \in {"mov", "lea"} => row.unit = "int"

Seen == {text[i] : i \in 1..ins.len}

(* What has been read so far are prefixes, and the sizes are what they make of them. *)
PrefixesRead ==
  /\ ins.at = ins.len /\ ins.len <= Len(text)
  /\ \A i \in 1..ins.len : F!PrefixByte(mode, text[i])
  /\ \h67 \in Seen <=> ins.addrSizePrefix
  /\ ~ins.w => (\h66 \in Seen <=> ins.opSizePrefix)
  /\ stage = "opcode" =>
       ins.len > 0 /\ IsRex(text[ins.len]) /\ (ins.w <=> text[ins.len] >= \h48)
  /\ stage = "prefixes" => ~ins.w /\ (ins.len > 0 /\ IsRex(text[ins.len]) => IsPrefix(this))
  /\ ins.ipRel = {}

(* An operand that mod and rm encode is still to come. *)
Pending == \E n \in DOMAIN ins.row.ops : n >= ins.operand /\ ins.row.ops[n] \in Addressing

(* OP_IPREL is set for what is relative to the next instruction, and for nothing else. *)
Marked ==
  /\ F!RipRelative(mode, manual) => ins.ipRel # {} \/ Pending
  /\ ins.row.ops \in Branches /\ ins.operand > 1 => ins.ipRel # {}
  /\ ins.ipRel # {} => F!RelativeBranch(manual) \/ F!RipRelative(mode, manual)
  /\ ins.row.ops \in Control => ins.ipRel = {}

Done == {"last checks", "decoded", "moved", "patched", "stopped"}

(* Where the opcode ends, and the sizes, before the prefixes are checked *)
OpcodeRead ==
  /\ ins.len + (IF F!HasModRM(manual) /\ ins.row.ops # <<>> THEN 1 ELSE 0)
       + Rest(ins.row.ops, 1, manual) = F!InstructionLength(mode, text)
  /\ ins.row.ops # <<>> => ins.at + 1 = manual.modrmAt /\ (ins.hasModRM <=> F!HasModRM(manual))
  /\ ins.ipRel = {}
  /\ ins.addrSize = manual.addr
  /\ ins.row.ops \in Sized \/ Movable(ins.row) =>
       ins.opSize = manual.size /\ (ins.opSizePrefix <=> manual.size = 2)

(* What the operands to come will take, and the sizes they go by *)
OperandsRead ==
  /\ ins.len + Rest(ins.row.ops, ins.operand, manual) = F!InstructionLength(mode, text)
  /\ Pending => ins.at = manual.modrmAt
  /\ ins.addrSize = manual.addr
  /\ ins.row.ops \in Sized => (ins.opSize = 2 <=> manual.size = 2)
  /\ ins.row.ops = <<"r", "Iv">> => ins.opSize = manual.size

Matched ==
  /\ Sane(manual) /\ RowFits(ins.row, manual) /\ Marked
  /\ ins.hasModRM => ins.modrm = manual.modrm
  /\ stage = "checks" => OpcodeRead
  /\ stage = "operands" => OperandsRead
  /\ stage \in {"operands"} \union Done /\ Movable(ins.row) => ins.opSize = manual.size
  /\ stage \in Done =>
       ins.len = F!InstructionLength(mode, text) /\ ins.operand > Len(ins.row.ops)

Excused == Misread(manual) /\ ins.row.type \notin {"mov", "lea"}
Reads3DNow == manual.map = 2 /\ manual.opcode = \h0F /\ ins.row.type \notin {"mov", "lea"}

IsaInv ==
  /\ Opening => PrefixesRead
  /\ stage = "suffix" \/ (stage = "operands" /\ ins.suffix) => Reads3DNow
  /\ stage \in {"checks", "operands"} \union Done => Matched \/ Excused
  /\ stage = "moved" => ~Leaves /\ (mode = "x86" \/ ins.ipRel = {})
  /\ stage = "patched" => mode # "x86" /\ Patchable

-------------------------------------------------------------------------------
(* The bytes that lists of operands take *)

(* The lists with an immediate of one byte, and those of each other kind *)
ModRMByteLists ==
  {<<"E", "Ib">>, <<"Es", "Ib">>, <<"PR", "Ib">>, <<"VR", "Ib">>, <<"E", "G", "Ib">>,
   <<"G", "Es", "Ib">>, <<"G", "PR", "Ib">>, <<"G", "VR", "Ib">>, <<"P", "Es", "Ib">>,
   <<"P", "Q", "Ib">>, <<"V", "Es", "Ib">>, <<"V", "W", "Ib">>}
ModRMWordLists == {<<"E", "Iz">>, <<"Es", "Iz">>, <<"G", "Es", "Iz">>}
ModRMBareLists ==
  {<<"E">>, <<"Ep">>, <<"Es">>, <<"M">>, <<"C", "R">>, <<"D", "R">>, <<"E", "G">>,
   <<"E", "P">>, <<"E", "S">>, <<"E", "V">>, <<"E", "r">>, <<"Es", "G">>, <<"G", "Es">>,
   <<"G", "M">>, <<"G", "PR">>, <<"G", "VR">>, <<"G", "W">>, <<"M", "G">>, <<"M", "P">>,
   <<"M", "V">>, <<"M", "r">>, <<"P", "Es">>, <<"P", "PR">>, <<"P", "Q">>, <<"P", "VR">>,
   <<"P", "W">>, <<"Q", "P">>, <<"R", "C">>, <<"R", "D">>, <<"S", "Es">>, <<"V", "Es">>,
   <<"V", "M">>, <<"V", "PR">>, <<"V", "Q">>, <<"V", "VR">>, <<"V", "W">>, <<"W", "V">>,
   <<"r", "Es">>, <<"r", "M">>, <<"E", "G", "r">>, <<"E", "r", "G">>, <<"E", "r", "r">>,
   <<"M", "r", "r">>, <<"r", "Es", "r">>}
PlainByteLists == {<<"Ib">>, <<"Jb">>, <<"Ib", "r">>, <<"r", "Ib">>}
PlainWordLists == {<<"Iz">>, <<"Jz">>, <<"r", "Iz">>}
OffsetLists == {<<"O", "r">>, <<"r", "O">>}
BareLists ==
  {<<>>, <<"r">>, <<"X", "Y">>, <<"Y", "X">>, <<"Y", "r">>, <<"r", "X">>, <<"r", "Y">>, <<"r", "r">>,
   <<"r", "xlat">>, <<"r", "r", "r">>}

LEMMA MemoryBytesNatural == ASSUME NEW f, Sane(f) PROVE MemoryBytes(f) \in Nat
BY DEF Sane, MemoryBytes, F!SIBPresent, F!DisplacementBytes

(* The cases of BytesOf *)
LEMMA OperandBytes ==
  ASSUME NEW f
  PROVE  /\ \A k \in Addressing : BytesOf(k, f) = MemoryBytes(f)
         /\ BytesOf("Ib", f) = 1 /\ BytesOf("Jb", f) = 1 /\ BytesOf("Iw", f) = 2
         /\ BytesOf("Iz", f) = F!WordBytes(f) /\ BytesOf("Jz", f) = F!WordBytes(f)
         /\ BytesOf("Iv", f) = f.size /\ BytesOf("O", f) = f.addr
         /\ BytesOf("A", f) = F!WordBytes(f) + 2
         /\ \A k \in {"r", "X", "Y", "xlat", "G", "S", "P", "V", "C", "D"} : BytesOf(k, f) = 0
<1>1. \A k \in Addressing : BytesOf(k, f) = MemoryBytes(f)
  BY Zenon DEF BytesOf, Addressing
<1>2. BytesOf("Ib", f) = 1 /\ BytesOf("Jb", f) = 1
  BY Zenon DEF BytesOf, Addressing
<1>3. BytesOf("Iw", f) = 2
  BY Zenon DEF BytesOf, Addressing
<1>4. BytesOf("Iz", f) = F!WordBytes(f) /\ BytesOf("Jz", f) = F!WordBytes(f)
  BY Zenon DEF BytesOf, Addressing
<1>5. BytesOf("Iv", f) = f.size
  BY Zenon DEF BytesOf, Addressing
<1>6. BytesOf("O", f) = f.addr
  BY Zenon DEF BytesOf, Addressing
<1>7. BytesOf("A", f) = F!WordBytes(f) + 2
  BY Zenon DEF BytesOf, Addressing
<1>8. \A k \in {"r", "X", "Y", "xlat", "G", "S", "P", "V", "C", "D"} : BytesOf(k, f) = 0
  BY Zenon DEF BytesOf, Addressing
<1>. QED BY <1>1, <1>2, <1>3, <1>4, <1>5, <1>6, <1>7, <1>8

(* A list with ModRM takes the bytes of its one operand that mod and rm encode and its
   immediate.                                                                          *)
LEMMA ModRMListBytes ==
  ASSUME NEW f, Sane(f)
  PROVE  /\ \A o \in ModRMBareLists : Rest(o, 1, f) = MemoryBytes(f)
         /\ \A o \in ModRMByteLists : Rest(o, 1, f) = MemoryBytes(f) + 1
         /\ \A o \in ModRMWordLists : Rest(o, 1, f) = MemoryBytes(f) + F!WordBytes(f)
<1>1. MemoryBytes(f) \in Nat /\ F!WordBytes(f) \in Nat
  BY MemoryBytesNatural DEF F!WordBytes
<1>2. ASSUME NEW o \in ModRMBareLists PROVE Rest(o, 1, f) = MemoryBytes(f)
  <2>1. \/ Len(o) = 1 /\ o[1] \in Addressing
        \/ /\ Len(o) = 2
           /\ \/ o[1] \in Addressing /\ o[2] \in {"r", "G", "S", "P", "V", "C", "D"}
              \/ o[2] \in Addressing /\ o[1] \in {"r", "G", "S", "P", "V", "C", "D"}
        \/ /\ Len(o) = 3 /\ o[3] \in {"r", "G"}
           /\ \/ o[1] \in Addressing /\ o[2] \in {"r", "G"}
              \/ o[2] \in Addressing /\ o[1] = "r"
    BY SMTT(60) DEF ModRMBareLists, Addressing
  <2>2. CASE Len(o) = 1 /\ o[1] \in Addressing
    BY <1>1, <2>2, OperandBytes DEF Rest, NthBytes
  <2>3. CASE Len(o) = 2
    BY <1>1, <2>1, <2>3, OperandBytes DEF Rest, NthBytes
  <2>4. CASE Len(o) = 3
    BY <1>1, <2>1, <2>4, OperandBytes DEF Rest, NthBytes
  <2>. QED BY <2>1, <2>2, <2>3, <2>4
<1>3. ASSUME NEW o \in ModRMByteLists PROVE Rest(o, 1, f) = MemoryBytes(f) + 1
  <2>1. \/ Len(o) = 2 /\ o[1] \in Addressing /\ o[2] = "Ib"
        \/ /\ Len(o) = 3 /\ o[3] = "Ib"
           /\ \/ o[1] \in Addressing /\ o[2] = "G"
              \/ o[2] \in Addressing /\ o[1] \in {"G", "P", "V"}
    BY DEF ModRMByteLists, Addressing
  <2>. QED BY <1>1, <2>1, OperandBytes DEF Rest, NthBytes
<1>4. ASSUME NEW o \in ModRMWordLists PROVE Rest(o, 1, f) = MemoryBytes(f) + F!WordBytes(f)
  <2>1. \/ Len(o) = 2 /\ o[1] \in Addressing /\ o[2] = "Iz"
        \/ Len(o) = 3 /\ o[1] = "G" /\ o[2] \in Addressing /\ o[3] = "Iz"
    BY DEF ModRMWordLists, Addressing
  <2>. QED BY <1>1, <2>1, OperandBytes DEF Rest, NthBytes
<1>. QED BY <1>2, <1>3, <1>4

(* What a list without ModRM takes are its immediates and offsets. *)
LEMMA PlainListBytes ==
  ASSUME NEW f, Sane(f)
  PROVE  /\ \A o \in BareLists : Rest(o, 1, f) = 0
         /\ \A o \in PlainByteLists : Rest(o, 1, f) = 1
         /\ \A o \in PlainWordLists : Rest(o, 1, f) = F!WordBytes(f)
         /\ \A o \in OffsetLists : Rest(o, 1, f) = f.addr
         /\ Rest(<<"r", "Iv">>, 1, f) = f.size
         /\ Rest(<<"Iw">>, 1, f) = 2
         /\ Rest(<<"r", "Iw", "Ib">>, 1, f) = 3
         /\ Rest(<<"A">>, 1, f) = F!WordBytes(f) + 2
<1>1. F!WordBytes(f) \in Nat /\ f.size \in Nat /\ f.addr \in Nat
  BY DEF F!WordBytes, Sane
<1>2. \A o \in BareLists : Rest(o, 1, f) = 0
  <2>1. \A o \in BareLists : Len(o) \in 0..3 /\ \A n \in 1 .. Len(o) : o[n] \in {"r", "X", "Y", "xlat"}
    BY DEF BareLists
  <2>2. \A o \in BareLists : \A n \in 1..3 : NthBytes(o, 1, n, f) = 0
    BY <2>1, OperandBytes DEF NthBytes
  <2>. QED BY <2>2 DEF Rest
<1>3. \A o \in PlainByteLists : Rest(o, 1, f) = 1
  <2>1. Rest(<<"Ib">>, 1, f) = 1 /\ Rest(<<"Jb">>, 1, f) = 1
    BY OperandBytes DEF Rest, NthBytes
  <2>2. Rest(<<"Ib", "r">>, 1, f) = 1 /\ Rest(<<"r", "Ib">>, 1, f) = 1
    BY OperandBytes DEF Rest, NthBytes
  <2>. QED BY <2>1, <2>2 DEF PlainByteLists
<1>4. \A o \in PlainWordLists : Rest(o, 1, f) = F!WordBytes(f)
  <2>1. Rest(<<"Iz">>, 1, f) = F!WordBytes(f) /\ Rest(<<"Jz">>, 1, f) = F!WordBytes(f)
    BY <1>1, OperandBytes DEF Rest, NthBytes
  <2>2. Rest(<<"r", "Iz">>, 1, f) = F!WordBytes(f)
    BY <1>1, OperandBytes DEF Rest, NthBytes
  <2>. QED BY <2>1, <2>2 DEF PlainWordLists
<1>5. \A o \in OffsetLists : Rest(o, 1, f) = f.addr
  BY <1>1, OperandBytes DEF Rest, NthBytes, OffsetLists
<1>6. Rest(<<"r", "Iv">>, 1, f) = f.size /\ Rest(<<"Iw">>, 1, f) = 2 /\ Rest(<<"r", "Iw", "Ib">>, 1, f) = 3
  BY <1>1, OperandBytes DEF Rest, NthBytes
<1>7. Rest(<<"A">>, 1, f) = F!WordBytes(f) + 2
  BY <1>1, OperandBytes DEF Rest, NthBytes
<1>. QED BY <1>2, <1>3, <1>4, <1>5, <1>6, <1>7

-------------------------------------------------------------------------------
(* Rows and instructions of each shape *)

(* The one-byte opcodes with an immediate of some other kind *)
Others_1 == (\hB8..\hBF) \union (\hA0..\hA3) \union {\hC2, \hCA, \hC8, \h9A, \hEA}

NoImmediate(f) == ~F!Immediate8(f) /\ ~F!ImmediateWord(f) /\ (f.map = 1 => f.opcode \notin Others_1)
WordImmediate(f) == ~F!Immediate8(f) /\ F!ImmediateWord(f)

(* An immediate of an opcode of Others_1 *)
OtherImmediate(f) == f.map = 1 /\ ~F!Immediate8(f) /\ ~F!ImmediateWord(f)

(* The cases of ImmediateBytes *)
LEMMA Immediates ==
  ASSUME NEW f, Sane(f)
  PROVE  /\ NoImmediate(f) => F!ImmediateBytes(f) = 0
         /\ F!Immediate8(f) => F!ImmediateBytes(f) = 1
         /\ WordImmediate(f) => F!ImmediateBytes(f) = F!WordBytes(f)
         /\ OtherImmediate(f) =>
              /\ f.opcode \in \hB8..\hBF => F!ImmediateBytes(f) = f.size
              /\ f.opcode \in \hA0..\hA3 => F!ImmediateBytes(f) = f.addr
              /\ f.opcode \in {\hC2, \hCA} => F!ImmediateBytes(f) = 2
              /\ f.opcode = \hC8 => F!ImmediateBytes(f) = 3
              /\ f.opcode \in {\h9A, \hEA} => F!ImmediateBytes(f) = F!WordBytes(f) + 2
<1>1. F!Immediate8(f) => F!ImmediateBytes(f) = 1
  BY Zenon DEF F!ImmediateBytes
<1>2. WordImmediate(f) => F!ImmediateBytes(f) = F!WordBytes(f)
  BY Zenon DEF F!ImmediateBytes, WordImmediate
<1>3. f.opcode \in Nat
  BY DEF Sane, Octets
<1>4. NoImmediate(f) => F!ImmediateBytes(f) = 0
  <2>1. CASE f.map = 2
    BY <2>1, Zenon DEF F!ImmediateBytes, NoImmediate
  <2>2. CASE f.map = 1
    BY <1>3, <2>2 DEF F!ImmediateBytes, NoImmediate, Others_1
  <2>. QED BY <2>1, <2>2 DEF Sane
<1>5. OtherImmediate(f) /\ f.opcode \in \hB8..\hBF => F!ImmediateBytes(f) = f.size
  BY <1>3 DEF F!ImmediateBytes, OtherImmediate
<1>6. OtherImmediate(f) /\ f.opcode \in \hA0..\hA3 => F!ImmediateBytes(f) = f.addr
  BY <1>3 DEF F!ImmediateBytes, OtherImmediate
<1>7. OtherImmediate(f) /\ f.opcode \in {\hC2, \hCA} => F!ImmediateBytes(f) = 2
  BY <1>3 DEF F!ImmediateBytes, OtherImmediate
<1>8. OtherImmediate(f) /\ f.opcode = \hC8 => F!ImmediateBytes(f) = 3
  BY <1>3 DEF F!ImmediateBytes, OtherImmediate
<1>9. OtherImmediate(f) /\ f.opcode \in {\h9A, \hEA} => F!ImmediateBytes(f) = F!WordBytes(f) + 2
  BY <1>3 DEF F!ImmediateBytes, OtherImmediate
<1>. QED BY <1>1, <1>2, <1>4, <1>5, <1>6, <1>7, <1>8, <1>9

(* An instruction with ModRM, of the bytes that its list of operands takes *)
ModRMFits(o, f) ==
  /\ F!HasModRM(f) /\ ~F!RelativeBranch(f)
  /\ \/ o \in ModRMBareLists /\ NoImmediate(f)
     \/ o \in ModRMByteLists /\ F!Immediate8(f)
     \/ o \in ModRMWordLists /\ WordImmediate(f)

(* An instruction without ModRM that is not relative; or one of the coprocessor's that
   works on registers                                                                  *)
PlainFits(o, f) ==
  /\ F!HasModRM(f) => F!mod(f) = 3
  /\ ~F!RelativeBranch(f)
  /\ \/ o \in BareLists /\ NoImmediate(f)
     \/ o \in PlainByteLists \ Branches /\ F!Immediate8(f)
     \/ o \in PlainWordLists \ Branches /\ WordImmediate(f)
     \/ o \in OffsetLists /\ OtherImmediate(f) /\ f.opcode \in \hA0..\hA3
     \/ o = <<"Iw">> /\ OtherImmediate(f) /\ f.opcode \in {\hC2, \hCA}
     \/ o = <<"r", "Iw", "Ib">> /\ OtherImmediate(f) /\ f.opcode = \hC8
     \/ o = <<"A">> /\ OtherImmediate(f) /\ f.opcode \in {\h9A, \hEA}

(* The shapes of the lists exclude one another. *)
LEMMA Disjoint ==
  /\ ModRMBareLists \union ModRMByteLists \union ModRMWordLists = ModRMLists
  /\ \A o \in BareLists \union PlainByteLists \union PlainWordLists \union OffsetLists
                \union {<<"Iw">>, <<"r", "Iw", "Ib">>, <<"A">>, <<"r", "Iv">>} : o \in PlainLists
  /\ Branches \intersect ModRMLists = {}
  /\ Branches \intersect (BareLists \union OffsetLists
                          \union {<<"Iw">>, <<"r", "Iw", "Ib">>, <<"A">>, <<"r", "Iv">>}) = {}
  /\ Sized \intersect (ModRMBareLists \union ModRMByteLists) = {}
  /\ <<"r", "Iv">> \notin ModRMLists
  /\ <<"r", "Iv">> \notin BareLists \union PlainByteLists \union PlainWordLists \union OffsetLists
                \union {<<"Iw">>, <<"r", "Iw", "Ib">>, <<"A">>}
  /\ Sized \intersect BareLists = {}
<1>1. ModRMBareLists \union ModRMByteLists \union ModRMWordLists = ModRMLists
  BY SMTT(30) DEF ModRMBareLists, ModRMByteLists, ModRMWordLists, ModRMLists
<1>2. \A o \in BareLists \union PlainByteLists \union PlainWordLists \union OffsetLists
                \union {<<"Iw">>, <<"r", "Iw", "Ib">>, <<"A">>, <<"r", "Iv">>} : o \in PlainLists
  BY DEF BareLists, PlainByteLists, PlainWordLists, OffsetLists, PlainLists
<1>3. \A o \in Branches : o \notin ModRMLists
  BY Apart DEF Branches, PlainLists
<1>4. \A o \in Branches : o \notin BareLists \union OffsetLists
                                  \union {<<"Iw">>, <<"r", "Iw", "Ib">>, <<"A">>, <<"r", "Iv">>}
  BY DEF Branches, BareLists, OffsetLists
<1>5. \A o \in Sized : o \notin ModRMBareLists \union ModRMByteLists
  BY SMTT(30) DEF Sized, ModRMBareLists, ModRMByteLists
<1>6. <<"r", "Iv">> \notin ModRMLists
  BY Apart DEF PlainLists
<1>7. <<"r", "Iv">> \notin BareLists \union PlainByteLists \union PlainWordLists \union OffsetLists
                \union {<<"Iw">>, <<"r", "Iw", "Ib">>, <<"A">>}
  BY DEF BareLists, PlainByteLists, PlainWordLists, OffsetLists
<1>8. \A o \in Sized : o \notin BareLists
  BY DEF Sized, BareLists
<1>. QED BY <1>1, <1>2, <1>3, <1>4, <1>5, <1>6, <1>7, <1>8

(* A row of one of the shapes is as the manuals have the instruction. *)
LEMMA ModRMRowFits ==
  ASSUME NEW f, Sane(f), NEW row, ModRMFits(row.ops, f),
         row.unit = "int" \/ (row.ops \notin Sized /\ row.type \notin {"mov", "lea"})
  PROVE  RowFits(row, f)
<1>1. row.ops \in ModRMLists
  BY Disjoint DEF ModRMFits
<1>2. Rest(row.ops, 1, f) = F!ImmediateBytes(f) + MemoryBytes(f)
  <2>1. MemoryBytes(f) \in Nat /\ F!WordBytes(f) \in Nat
    BY MemoryBytesNatural DEF F!WordBytes
  <2>. QED BY <2>1, ModRMListBytes, Immediates DEF ModRMFits
<1>3. row.ops \notin Branches /\ row.ops # <<"r", "Iv">> /\ row.ops \notin PlainLists
  BY <1>1, Disjoint, Apart
<1>. QED BY <1>1, <1>2, <1>3 DEF RowFits, ModRMFits, Lists

(* ... so is one without ModRM. *)
LEMMA PlainRowFits ==
  ASSUME NEW f, Sane(f), NEW row, PlainFits(row.ops, f),
         row.unit = "int" \/ (row.ops \notin Sized /\ row.type \notin {"mov", "lea"})
  PROVE  RowFits(row, f)
<1>1. row.ops \in PlainLists /\ row.ops \notin ModRMLists
  BY Disjoint, Apart DEF PlainFits
<1>2. Rest(row.ops, 1, f) = F!ImmediateBytes(f)
  BY PlainListBytes, Immediates DEF PlainFits
<1>3. F!ImmediateBytes(f) \in Nat
  BY Immediates DEF PlainFits, Sane, F!WordBytes
<1>4. row.ops \notin Branches /\ row.ops # <<"r", "Iv">>
  BY Disjoint DEF PlainFits
<1>. QED BY <1>1, <1>2, <1>3, <1>4 DEF RowFits, PlainFits, Lists

(* Branches with an offset, and the instruction with an immediate as wide as its register *)
LEMMA BranchRowFits ==
  ASSUME NEW f, Sane(f), NEW row, row.unit = "int",
         ~F!HasModRM(f), F!RelativeBranch(f),
         \/ row.ops = <<"Jb">> /\ F!Immediate8(f)
         \/ row.ops = <<"Jz">> /\ WordImmediate(f),
         \/ row.type \in {"branch", "branchcc", "call"}
         \/ row.type = "loopcc" /\ f.map = 1 /\ f.opcode \in \hE0..\hE3
  PROVE  RowFits(row, f)
<1>1. row.ops \in Branches /\ row.ops \in PlainByteLists \union PlainWordLists
  BY DEF Branches, PlainByteLists, PlainWordLists
<1>2. row.ops \in PlainLists /\ row.ops \notin ModRMLists
  BY <1>1, Disjoint
<1>3. Rest(row.ops, 1, f) = F!ImmediateBytes(f)
  BY PlainListBytes, Immediates DEF PlainByteLists, PlainWordLists
<1>4. F!ImmediateBytes(f) \in Nat
  BY Immediates DEF F!WordBytes
<1>5. row.ops # <<"r", "Iv">>
  BY <1>1, Disjoint
<1>. QED BY <1>1, <1>2, <1>3, <1>4, <1>5 DEF RowFits, Lists

(* ... the one whose immediate is as wide as its register *)
LEMMA WideRowFits ==
  ASSUME NEW f, Sane(f), NEW row, row.unit = "int", row.type = "mov", row.ops = <<"r", "Iv">>,
         ~F!HasModRM(f), ~F!RelativeBranch(f), OtherImmediate(f), f.opcode \in \hB8..\hBF
  PROVE  RowFits(row, f)
<1>1. row.ops \in PlainLists /\ row.ops \notin ModRMLists
  BY Disjoint
<1>2. Rest(row.ops, 1, f) = F!ImmediateBytes(f) /\ F!ImmediateBytes(f) \in Nat
  BY PlainListBytes, Immediates DEF Sane
<1>3. row.ops \notin Branches
  BY Disjoint
<1>. QED BY <1>1, <1>2, <1>3 DEF RowFits, Lists

(* What an entry leads to is as the manuals have the instruction; and where it has no
   operands, ModRM is passed over with the opcode or is not there.                    *)
Fits(e, f) ==
  \A row \in Resolve(e, f.modrm) :
    RowFits(row, f) /\ (row.ops = <<>> => (F!HasModRM(f) <=> e.is \in {"fpu", "modrm"}))

(* Whatever the row, it is none that DisassembleAndSkip would correct. *)
Harmless(e) == \A m : \A row \in Resolve(e, m) : row.type \notin {"mov", "lea"}

(* The forms in which rows are written *)
LEMMA Forms ==
  \A t, o :
    /\ Alu(t, o).is = "instr" /\ Alu(t, o).unit = "int" /\ Alu(t, o).type = t /\ Alu(t, o).ops = o
    /\ Fpu(t, o).is = "instr" /\ Fpu(t, o).unit = "fpu" /\ Fpu(t, o).type = t /\ Fpu(t, o).ops = o
    /\ Simd(o).is = "instr" /\ Simd(o).unit = "simd" /\ Simd(o).type = "other" /\ Simd(o).ops = o
    /\ Only64(Alu(t, o)).is = "instr" /\ Only64(Alu(t, o)).unit = "int"
    /\ Only64(Alu(t, o)).type = t /\ Only64(Alu(t, o)).ops = o
BY DEF Alu, Fpu, Simd, Only64, Row

(* Alone, a row of one of these forms is as the manuals have the instruction. *)
LEMMA FormsFit ==
  ASSUME NEW f, Sane(f)
  PROVE  /\ \A t, o : ModRMFits(o, f) \/ PlainFits(o, f) =>
              RowFits(Alu(t, o), f) /\ RowFits(Only64(Alu(t, o)), f)
         /\ \A t, o : t \notin {"mov", "lea"} /\ o \in ModRMBareLists \union BareLists =>
              (ModRMFits(o, f) \/ PlainFits(o, f) => RowFits(Fpu(t, o), f))
         /\ \A o : o \in ModRMBareLists \union BareLists \union ModRMByteLists =>
              (ModRMFits(o, f) \/ PlainFits(o, f) => RowFits(Simd(o), f))
<1>1. \A t, o : ModRMFits(o, f) \/ PlainFits(o, f) =>
              RowFits(Alu(t, o), f) /\ RowFits(Only64(Alu(t, o)), f)
  BY Forms, ModRMRowFits, PlainRowFits
<1>2. \A o \in ModRMBareLists \union BareLists \union ModRMByteLists : o \notin Sized
  BY Disjoint
<1>3. \A t, o : t \notin {"mov", "lea"} /\ o \in ModRMBareLists \union BareLists =>
              (ModRMFits(o, f) \/ PlainFits(o, f) => RowFits(Fpu(t, o), f))
  BY <1>2, Forms, ModRMRowFits, PlainRowFits
<1>4. \A o : o \in ModRMBareLists \union BareLists \union ModRMByteLists =>
              (ModRMFits(o, f) \/ PlainFits(o, f) => RowFits(Simd(o), f))
  BY <1>2, Forms, ModRMRowFits, PlainRowFits
<1>. QED BY <1>1, <1>3, <1>4

(* Entries of one row, of the rows of a group, and of the rows of an escape *)
LEMMA EntriesFit ==
  ASSUME NEW f
  PROVE  /\ \A e : e.is = "instr" /\ RowFits(e, f) /\ (e.ops \in ModRMLists \/ ~F!HasModRM(f)) => Fits(e, f)
         /\ \A t : (\A i \in DOMAIN t : i = Reg(f.modrm) => RowFits(t[i], f) /\ t[i].ops \in ModRMLists)
              => Fits(Group(t), f)
<1>1. \A o \in ModRMLists : o # <<>>
  BY Apart DEF PlainLists
<1>2. \A e : e.is = "instr" /\ RowFits(e, f) /\ (e.ops \in ModRMLists \/ ~F!HasModRM(f)) => Fits(e, f)
  BY <1>1, Resolving DEF Fits
<1>3. \A t : (\A i \in DOMAIN t : i = Reg(f.modrm) => RowFits(t[i], f) /\ t[i].ops \in ModRMLists)
         => Fits(Group(t), f)
  BY <1>1, Resolving, Kinds DEF Fits, Entry
<1>. QED BY <1>2, <1>3

(* What is to be known of an instruction for the rows of each shape *)
ModRMBare(f) == F!HasModRM(f) /\ ~F!RelativeBranch(f) /\ NoImmediate(f)
ModRMByte(f) == F!HasModRM(f) /\ ~F!RelativeBranch(f) /\ F!Immediate8(f)
ModRMWord(f) == F!HasModRM(f) /\ ~F!RelativeBranch(f) /\ WordImmediate(f)
PlainBare(f) == ~F!HasModRM(f) /\ ~F!RelativeBranch(f) /\ NoImmediate(f)
PlainByte(f) == ~F!HasModRM(f) /\ ~F!RelativeBranch(f) /\ F!Immediate8(f)
PlainWord(f) == ~F!HasModRM(f) /\ ~F!RelativeBranch(f) /\ WordImmediate(f)
PlainOther(f) == ~F!HasModRM(f) /\ ~F!RelativeBranch(f) /\ OtherImmediate(f)
ByteBranch(f) == ~F!HasModRM(f) /\ F!RelativeBranch(f) /\ F!Immediate8(f)
WordBranch(f) == ~F!HasModRM(f) /\ F!RelativeBranch(f) /\ WordImmediate(f)

(* An instruction of a shape fits the lists of that shape. *)
LEMMA ShapesFit ==
  ASSUME NEW f, Sane(f)
  PROVE  /\ ModRMBare(f) => \A o \in ModRMBareLists : ModRMFits(o, f)
         /\ ModRMByte(f) => \A o \in ModRMByteLists : ModRMFits(o, f)
         /\ ModRMWord(f) => \A o \in ModRMWordLists : ModRMFits(o, f)
         /\ PlainBare(f) => \A o \in BareLists : PlainFits(o, f)
         /\ PlainByte(f) => \A o \in {<<"Ib">>, <<"Ib", "r">>, <<"r", "Ib">>} : PlainFits(o, f)
         /\ PlainWord(f) => \A o \in {<<"Iz">>, <<"r", "Iz">>} : PlainFits(o, f)
         /\ PlainOther(f) =>
              /\ f.opcode \in \hA0..\hA3 => \A o \in OffsetLists : PlainFits(o, f)
              /\ f.opcode \in {\hC2, \hCA} => PlainFits(<<"Iw">>, f)
              /\ f.opcode = \hC8 => PlainFits(<<"r", "Iw", "Ib">>, f)
              /\ f.opcode \in {\h9A, \hEA} => PlainFits(<<"A">>, f)
<1>1. /\ ModRMBare(f) => \A o \in ModRMBareLists : ModRMFits(o, f)
      /\ ModRMByte(f) => \A o \in ModRMByteLists : ModRMFits(o, f)
      /\ ModRMWord(f) => \A o \in ModRMWordLists : ModRMFits(o, f)
  BY DEF ModRMFits, ModRMBare, ModRMByte, ModRMWord
<1>2. PlainBare(f) => \A o \in BareLists : PlainFits(o, f)
  BY DEF PlainBare, PlainFits
<1>3. PlainByte(f) => \A o \in {<<"Ib">>, <<"Ib", "r">>, <<"r", "Ib">>} : PlainFits(o, f)
  BY DEF PlainByte, PlainFits, PlainByteLists, Branches
<1>4. PlainWord(f) => \A o \in {<<"Iz">>, <<"r", "Iz">>} : PlainFits(o, f)
  BY DEF PlainWord, PlainFits, PlainWordLists, Branches
<1>5. PlainOther(f) =>
              /\ f.opcode \in \hA0..\hA3 => \A o \in OffsetLists : PlainFits(o, f)
              /\ f.opcode \in {\hC2, \hCA} => PlainFits(<<"Iw">>, f)
              /\ f.opcode = \hC8 => PlainFits(<<"r", "Iw", "Ib">>, f)
              /\ f.opcode \in {\h9A, \hEA} => PlainFits(<<"A">>, f)
  BY DEF PlainOther, PlainFits
<1>. QED BY <1>1, <1>2, <1>3, <1>4, <1>5

(* The one-byte and the two-byte opcodes of each shape *)
ModRMBare_1 ==
    (\h00..\h03) \union (\h08..\h0B) \union (\h10..\h13) \union (\h18..\h1B) \union (\h20..\h23)
    \union (\h28..\h2B) \union (\h30..\h33) \union (\h38..\h3B) \union (\h84..\h8F)
    \union (\hD0..\hD3) \union (\hD8..\hDF) \union {\h62, \h63, \hC4, \hC5, \hFE, \hFF}
ModRMByte_1 == {\h6B, \h80, \h82, \h83, \hC0, \hC1, \hC6}
ModRMWord_1 == {\h69, \h81, \hC7}
PlainBare_1 ==
    (\h3F..\h61) \union (\h6C..\h6F) \union (\h90..\h99) \union (\h9B..\h9F)
    \union (\hA4..\hA7) \union (\hAA..\hAF) \union (\hEC..\hEF) \union (\hF8..\hFD)
    \union {\h06, \h07, \h0E, \h16, \h17, \h1E, \h1F, \h27, \h2F, \h37, \hC3, \hC9, \hCB, \hCC,
            \hCE, \hCF, \hD6, \hD7, \hF1, \hF4, \hF5}
PlainByte_1 ==
    (\hB0..\hB7) \union (\hE4..\hE7)
    \union {\h04, \h0C, \h14, \h1C, \h24, \h2C, \h34, \h3C, \h6A, \hA8, \hCD, \hD4, \hD5}
PlainWord_1 == {\h05, \h0D, \h15, \h1D, \h25, \h2D, \h35, \h3D, \h68, \hA9}
PlainOther_1 == (\hA0..\hA3) \union (\hB8..\hBF) \union {\h9A, \hC2, \hC8, \hCA, \hEA}
ByteBranch_1 == (\h70..\h7F) \union (\hE0..\hE3) \union {\hEB}
WordBranch_1 == {\hE8, \hE9}
ModRMBare_2 ==
    (\h00..\h03) \union (\h10..\h17) \union (\h20..\h23) \union (\h28..\h2F) \union (\h40..\h6B)
    \union (\h90..\h9F) \union (\hAF..\hB7) \union (\hBB..\hC1) \union (\hD1..\hD5) \union (\hD7..\hEF)
    \union (\hF1..\hFE) \union {\h0D, \h18, \h6E, \h6F, \h74, \h75, \h76, \h7E, \h7F, \hA3, \hA5,
            \hAB, \hAD, \hAE, \hC3, \hC7}
ModRMByte_2 == (\h70..\h73) \union {\hA4, \hAC, \hBA, \hC2, \hC4, \hC5, \hC6}
PlainBare_2 ==
    (\h05..\h09) \union (\h30..\h35) \union (\hC8..\hCF)
    \union {\h0B, \h0E, \h77, \hA0, \hA1, \hA2, \hA8, \hA9, \hAA}
WordBranch_2 == \h80..\h8F

(* The opcodes of each shape are of the shape in the manuals. *)
LEMMA Shapes1 ==
  ASSUME NEW f, Sane(f), f.map = 1
  PROVE  /\ f.opcode \in ModRMBare_1 => ModRMBare(f)
         /\ f.opcode \in ModRMByte_1 => ModRMByte(f)
         /\ f.opcode \in ModRMWord_1 => ModRMWord(f)
         /\ f.opcode \in PlainBare_1 => PlainBare(f)
         /\ f.opcode \in PlainByte_1 => PlainByte(f)
         /\ f.opcode \in PlainWord_1 => PlainWord(f)
         /\ f.opcode \in PlainOther_1 => PlainOther(f)
         /\ f.opcode \in ByteBranch_1 => ByteBranch(f)
         /\ f.opcode \in WordBranch_1 => WordBranch(f)
         /\ f.opcode \in {\hF6, \hF7} => F!HasModRM(f) /\ ~F!RelativeBranch(f)
<1> USE DEF F!HasModRM, F!RelativeBranch, F!Immediate8, F!ImmediateWord, NoImmediate, WordImmediate,
            OtherImmediate, Others_1
<1>1. f.opcode \in Int
  BY DEF Sane, Octets
<1>2. f.opcode \in ModRMBare_1 => ModRMBare(f)
  BY <1>1 DEF ModRMBare, ModRMBare_1
<1>3. f.opcode \in ModRMByte_1 => ModRMByte(f)
  BY <1>1 DEF ModRMByte, ModRMByte_1
<1>4. f.opcode \in ModRMWord_1 => ModRMWord(f)
  BY <1>1 DEF ModRMWord, ModRMWord_1
<1>5. f.opcode \in PlainBare_1 => PlainBare(f)
  BY <1>1 DEF PlainBare, PlainBare_1
<1>6. f.opcode \in PlainByte_1 => PlainByte(f)
  BY <1>1 DEF PlainByte, PlainByte_1
<1>7. f.opcode \in PlainWord_1 => PlainWord(f)
  BY <1>1 DEF PlainWord, PlainWord_1
<1>8. f.opcode \in PlainOther_1 => PlainOther(f)
  BY <1>1 DEF PlainOther, PlainOther_1
<1>9. f.opcode \in ByteBranch_1 => ByteBranch(f)
  BY <1>1 DEF ByteBranch, ByteBranch_1
<1>10. f.opcode \in WordBranch_1 => WordBranch(f)
  BY <1>1 DEF WordBranch, WordBranch_1
<1>11. f.opcode \in {\hF6, \hF7} => F!HasModRM(f) /\ ~F!RelativeBranch(f)
  BY <1>1
<1>. QED BY <1>2, <1>3, <1>4, <1>5, <1>6, <1>7, <1>8, <1>9, <1>10, <1>11

(* ... those of two bytes too *)
LEMMA Shapes2 ==
  ASSUME NEW f, Sane(f), f.map = 2
  PROVE  /\ f.opcode \in ModRMBare_2 => ModRMBare(f)
         /\ f.opcode \in ModRMByte_2 => ModRMByte(f)
         /\ f.opcode \in PlainBare_2 => PlainBare(f)
         /\ f.opcode \in WordBranch_2 => WordBranch(f)
<1> USE DEF F!HasModRM, F!RelativeBranch, F!Immediate8, F!ImmediateWord, NoImmediate, WordImmediate,
            OtherImmediate, Others_1
<1>1. f.opcode \in Int
  BY DEF Sane, Octets
<1>2. f.opcode \in ModRMBare_2 => ModRMBare(f)
  BY <1>1 DEF ModRMBare, ModRMBare_2
<1>3. f.opcode \in ModRMByte_2 => ModRMByte(f)
  BY <1>1 DEF ModRMByte, ModRMByte_2
<1>4. f.opcode \in PlainBare_2 => PlainBare(f)
  BY <1>1 DEF PlainBare, PlainBare_2
<1>5. f.opcode \in WordBranch_2 => WordBranch(f)
  BY <1>1 DEF WordBranch, WordBranch_2
<1>. QED BY <1>2, <1>3, <1>4, <1>5

(* The rows of each shape, of instructions of that shape *)
LEMMA ShapedRows ==
  ASSUME NEW f, Sane(f)
  PROVE  /\ ModRMBare(f) =>
              \A t : \A o \in ModRMBareLists : RowFits(Alu(t, o), f) /\ RowFits(Only64(Alu(t, o)), f)
         /\ ModRMByte(f) => \A t : \A o \in ModRMByteLists : RowFits(Alu(t, o), f)
         /\ ModRMWord(f) => \A t : \A o \in ModRMWordLists : RowFits(Alu(t, o), f)
         /\ PlainBare(f) =>
              \A t : \A o \in BareLists : RowFits(Alu(t, o), f) /\ RowFits(Only64(Alu(t, o)), f)
         /\ PlainByte(f) => \A t : \A o \in {<<"Ib">>, <<"Ib", "r">>, <<"r", "Ib">>} : RowFits(Alu(t, o), f)
         /\ PlainWord(f) => \A t : \A o \in {<<"Iz">>, <<"r", "Iz">>} : RowFits(Alu(t, o), f)
         /\ PlainOther(f) =>
              /\ f.opcode \in \hA0..\hA3 => \A o \in OffsetLists : RowFits(Alu("mov", o), f)
              /\ f.opcode \in {\hC2, \hCA} => RowFits(Alu("ret", <<"Iw">>), f)
              /\ f.opcode = \hC8 => RowFits(Alu("stack", <<"r", "Iw", "Ib">>), f)
              /\ f.opcode \in {\h9A, \hEA} => \A t : RowFits(Alu(t, <<"A">>), f)
              /\ f.opcode \in \hB8..\hBF => RowFits(Alu("mov", <<"r", "Iv">>), f)
         /\ ByteBranch(f) =>
              /\ \A t \in {"branch", "branchcc"} : RowFits(Alu(t, <<"Jb">>), f)
              /\ f.map = 1 /\ f.opcode \in \hE0..\hE3 => RowFits(Alu("loopcc", <<"Jb">>), f)
         /\ WordBranch(f) => \A t \in {"branch", "branchcc", "call"} : RowFits(Alu(t, <<"Jz">>), f)
<1>1. \A t, o : ModRMFits(o, f) \/ PlainFits(o, f) =>
        RowFits(Alu(t, o), f) /\ RowFits(Only64(Alu(t, o)), f)
  BY FormsFit
<1>2. /\ ModRMBare(f) =>
           \A t : \A o \in ModRMBareLists : RowFits(Alu(t, o), f) /\ RowFits(Only64(Alu(t, o)), f)
      /\ ModRMByte(f) => \A t : \A o \in ModRMByteLists : RowFits(Alu(t, o), f)
      /\ ModRMWord(f) => \A t : \A o \in ModRMWordLists : RowFits(Alu(t, o), f)
  BY <1>1, ShapesFit
<1>3. /\ PlainBare(f) => \A t : \A o \in BareLists : RowFits(Alu(t, o), f) /\ RowFits(Only64(Alu(t, o)), f)
      /\ PlainByte(f) => \A t : \A o \in {<<"Ib">>, <<"Ib", "r">>, <<"r", "Ib">>} : RowFits(Alu(t, o), f)
      /\ PlainWord(f) => \A t : \A o \in {<<"Iz">>, <<"r", "Iz">>} : RowFits(Alu(t, o), f)
  BY <1>1, ShapesFit
<1>4. PlainOther(f) =>
        /\ f.opcode \in \hA0..\hA3 => \A o \in OffsetLists : RowFits(Alu("mov", o), f)
        /\ f.opcode \in {\hC2, \hCA} => RowFits(Alu("ret", <<"Iw">>), f)
        /\ f.opcode = \hC8 => RowFits(Alu("stack", <<"r", "Iw", "Ib">>), f)
        /\ f.opcode \in {\h9A, \hEA} => \A t : RowFits(Alu(t, <<"A">>), f)
  BY <1>1, ShapesFit
<1>5. PlainOther(f) => (f.opcode \in \hB8..\hBF => RowFits(Alu("mov", <<"r", "Iv">>), f))
  BY Forms, WideRowFits DEF PlainOther
<1>6. ByteBranch(f) =>
        /\ \A t \in {"branch", "branchcc"} : RowFits(Alu(t, <<"Jb">>), f)
        /\ f.map = 1 /\ f.opcode \in \hE0..\hE3 => RowFits(Alu("loopcc", <<"Jb">>), f)
  BY Forms, BranchRowFits DEF ByteBranch
<1>7. WordBranch(f) => \A t \in {"branch", "branchcc", "call"} : RowFits(Alu(t, <<"Jz">>), f)
  BY Forms, BranchRowFits DEF WordBranch
<1>. QED BY <1>2, <1>3, <1>4, <1>5, <1>6, <1>7

(* ... and those of the coprocessor, and of MMX and SSE *)
LEMMA OtherUnits ==
  ASSUME NEW f, Sane(f)
  PROVE  /\ ModRMBare(f) =>
              /\ \A o \in ModRMBareLists : RowFits(Simd(o), f)
              /\ \A t \in {"other", "fenv"} : \A o \in ModRMBareLists : RowFits(Fpu(t, o), f)
              /\ F!mod(f) = 3 => \A o \in BareLists : RowFits(Fpu("other", o), f)
         /\ ModRMByte(f) => \A o \in ModRMByteLists : RowFits(Simd(o), f)
         /\ PlainBare(f) => \A o \in BareLists : RowFits(Simd(o), f)
<1>1. ModRMBare(f) =>
        /\ \A o \in ModRMBareLists : RowFits(Simd(o), f)
        /\ \A t \in {"other", "fenv"} : \A o \in ModRMBareLists : RowFits(Fpu(t, o), f)
  BY FormsFit, ShapesFit
<1>2. ModRMBare(f) /\ F!mod(f) = 3 => \A o \in BareLists : RowFits(Fpu("other", o), f)
  <2>1. ModRMBare(f) /\ F!mod(f) = 3 => \A o \in BareLists : PlainFits(o, f)
    BY DEF ModRMBare, PlainFits
  <2>. QED BY <2>1, FormsFit
<1>3. ModRMByte(f) => \A o \in ModRMByteLists : RowFits(Simd(o), f)
  BY FormsFit, ShapesFit
<1>4. PlainBare(f) => \A o \in BareLists : RowFits(Simd(o), f)
  BY FormsFit, ShapesFit
<1>. QED BY <1>1, <1>2, <1>3, <1>4

(* The entries that are such rows themselves *)
LEMMA ShapedEntries ==
  ASSUME NEW f, Sane(f)
  PROVE  /\ ModRMBare(f) => \A o \in ModRMBareLists : Fits(Simd(o), f) /\ \A t : Fits(Alu(t, o), f)
         /\ ModRMByte(f) => \A o \in ModRMByteLists : Fits(Simd(o), f) /\ \A t : Fits(Alu(t, o), f)
         /\ ModRMWord(f) => \A t : \A o \in ModRMWordLists : Fits(Alu(t, o), f)
         /\ PlainBare(f) => \A o \in BareLists : Fits(Simd(o), f) /\ \A t : Fits(Alu(t, o), f)
         /\ PlainByte(f) => \A t : \A o \in {<<"Ib">>, <<"Ib", "r">>, <<"r", "Ib">>} : Fits(Alu(t, o), f)
         /\ PlainWord(f) => \A t : \A o \in {<<"Iz">>, <<"r", "Iz">>} : Fits(Alu(t, o), f)
         /\ PlainOther(f) =>
              /\ f.opcode \in \hA0..\hA3 => \A o \in OffsetLists : Fits(Alu("mov", o), f)
              /\ f.opcode \in {\hC2, \hCA} => Fits(Alu("ret", <<"Iw">>), f)
              /\ f.opcode = \hC8 => Fits(Alu("stack", <<"r", "Iw", "Ib">>), f)
              /\ f.opcode \in {\h9A, \hEA} => \A t : Fits(Alu(t, <<"A">>), f)
              /\ f.opcode \in \hB8..\hBF => Fits(Alu("mov", <<"r", "Iv">>), f)
         /\ ByteBranch(f) =>
              /\ \A t \in {"branch", "branchcc"} : Fits(Alu(t, <<"Jb">>), f)
              /\ f.map = 1 /\ f.opcode \in \hE0..\hE3 => Fits(Alu("loopcc", <<"Jb">>), f)
         /\ WordBranch(f) => \A t \in {"branch", "branchcc", "call"} : Fits(Alu(t, <<"Jz">>), f)
<1>1. \A t, o : o \in ModRMLists \/ ~F!HasModRM(f) =>
        /\ RowFits(Alu(t, o), f) => Fits(Alu(t, o), f)
        /\ RowFits(Simd(o), f) => Fits(Simd(o), f)
  BY Forms, EntriesFit
<1>2. \A o \in ModRMBareLists \union ModRMByteLists \union ModRMWordLists : o \in ModRMLists
  BY Disjoint
<1>3. ModRMBare(f) => \A o \in ModRMBareLists : Fits(Simd(o), f) /\ \A t : Fits(Alu(t, o), f)
  BY <1>1, <1>2, ShapedRows, OtherUnits
<1>4. ModRMByte(f) => \A o \in ModRMByteLists : Fits(Simd(o), f) /\ \A t : Fits(Alu(t, o), f)
  BY <1>1, <1>2, ShapedRows, OtherUnits
<1>5. ModRMWord(f) => \A t : \A o \in ModRMWordLists : Fits(Alu(t, o), f)
  BY <1>1, <1>2, ShapedRows
<1>6. PlainBare(f) => \A o \in BareLists : Fits(Simd(o), f) /\ \A t : Fits(Alu(t, o), f)
  BY <1>1, ShapedRows, OtherUnits DEF PlainBare
<1>7. /\ PlainByte(f) => \A t : \A o \in {<<"Ib">>, <<"Ib", "r">>, <<"r", "Ib">>} : Fits(Alu(t, o), f)
      /\ PlainWord(f) => \A t : \A o \in {<<"Iz">>, <<"r", "Iz">>} : Fits(Alu(t, o), f)
  BY <1>1, ShapedRows DEF PlainByte, PlainWord
<1>8. PlainOther(f) =>
        /\ f.opcode \in \hA0..\hA3 => \A o \in OffsetLists : Fits(Alu("mov", o), f)
        /\ f.opcode \in {\hC2, \hCA} => Fits(Alu("ret", <<"Iw">>), f)
        /\ f.opcode = \hC8 => Fits(Alu("stack", <<"r", "Iw", "Ib">>), f)
        /\ f.opcode \in {\h9A, \hEA} => \A t : Fits(Alu(t, <<"A">>), f)
        /\ f.opcode \in \hB8..\hBF => Fits(Alu("mov", <<"r", "Iv">>), f)
  BY <1>1, ShapedRows DEF PlainOther
<1>9. /\ ByteBranch(f) =>
           /\ \A t \in {"branch", "branchcc"} : Fits(Alu(t, <<"Jb">>), f)
           /\ f.map = 1 /\ f.opcode \in \hE0..\hE3 => Fits(Alu("loopcc", <<"Jb">>), f)
      /\ WordBranch(f) => \A t \in {"branch", "branchcc", "call"} : Fits(Alu(t, <<"Jz">>), f)
  BY <1>1, ShapedRows DEF ByteBranch, WordBranch
<1>. QED BY <1>3, <1>4, <1>5, <1>6, <1>7, <1>8, <1>9

(* A group fits if the row of the reg field does; an escape if the memory forms do, and with
   mod 3 the register forms, whose indices are 08 to 47.                                    *)
LEMMA GroupFits ==
  ASSUME NEW f, NEW rows,
         \A r \in rows : Reg(f.modrm) \in r[1] => RowFits(r[2], f) /\ r[2].ops \in ModRMLists
  PROVE  Fits(Group(Table(rows)), f)
BY EntriesFit, Listed

LEMMA EscapeFits ==
  ASSUME NEW f, Sane(f), F!HasModRM(f), NEW rows,
         \A r \in rows : \/ RowFits(r[2], f)
                         \/ (F!mod(f) = 3 => RowFits(r[2], f)) /\ \A b \in r[1] : b \in \h08..\h47
  PROVE  Fits(Esc(Table(rows)), f)
<1> DEFINE n == IF f.modrm < \hC0 THEN Reg(f.modrm) ELSE 8 + (f.modrm % 64)
<1> SUFFICES ASSUME NEW row \in Entry(Table(rows), n) PROVE RowFits(row, f)
  BY Resolving, Kinds DEF Fits
<1>1. PICK r \in rows : n \in r[1] /\ row = r[2]
  BY Listed DEF Entry
<1>2. n \in \h08..\h47 => F!mod(f) = 3
  <2>1. f.modrm \in 0..255
    BY DEF Sane, Octets
  <2>2. Reg(f.modrm) \in 0..7
    BY <2>1 DEF Reg
  <2>3. f.modrm >= \hC0 => f.modrm \div 64 = 3
    BY <2>1
  <2>. QED BY <2>1, <2>2, <2>3 DEF F!mod
<1>. QED BY <1>1, <1>2

(* A row of the table of an escape: of a memory form, or of register forms *)
EscapeRow(r, f) ==
  \/ RowFits(r[2], f)
  \/ (F!mod(f) = 3 => RowFits(r[2], f)) /\ \A b \in r[1] : b \in \h08..\h47

(* The escapes *)
LEMMA EscapeEntries ==
  ASSUME NEW f, Sane(f), ModRMBare(f)
  PROVE  /\ Fits(Esc(ESC_0), f) /\ Fits(Esc(ESC_1), f) /\ Fits(Esc(ESC_2), f) /\ Fits(Esc(ESC_3), f)
         /\ Fits(Esc(ESC_4), f) /\ Fits(Esc(ESC_5), f) /\ Fits(Esc(ESC_6), f) /\ Fits(Esc(ESC_7), f)
<1>1. \A S : /\ EscapeRow(<<S, Fpu("other", <<"r", "M">>)>>, f)
             /\ EscapeRow(<<S, Fpu("other", <<"M", "r">>)>>, f)
             /\ EscapeRow(<<S, Fpu("other", <<"M">>)>>, f) /\ EscapeRow(<<S, Fpu("fenv", <<"M">>)>>, f)
  BY OtherUnits DEF ModRMBareLists, EscapeRow
<1>2. F!mod(f) = 3 => /\ RowFits(Fpu("other", <<"r", "r">>), f) /\ RowFits(Fpu("other", <<"r">>), f)
                      /\ RowFits(Fpu("other", <<>>), f)
  BY OtherUnits DEF BareLists
<1>3. \A rows : (\A r \in rows : EscapeRow(r, f)) => Fits(Esc(Table(rows)), f)
  BY EscapeFits DEF ModRMBare, EscapeRow
<1>4. Fits(Esc(ESC_0), f)
  <2>1. /\ EscapeRow(<<(\h04..\h07) \union {\h00, \h01}, Fpu("other", <<"r", "M">>)>>, f)
        /\ EscapeRow(<<{\h02, \h03}, Fpu("other", <<"M", "r">>)>>, f)
    BY <1>1
  <2>2. EscapeRow(<<\h08..\h47, Fpu("other", <<"r", "r">>)>>, f)
    BY <1>2 DEF EscapeRow
  <2>. QED BY <1>3, <2>1, <2>2 DEF ESC_0
<1>5. Fits(Esc(ESC_1), f)
  <2>1. /\ EscapeRow(<<{\h00, \h06}, Fpu("other", <<"M">>)>>, f)
        /\ EscapeRow(<<{\h02, \h03, \h07}, Fpu("other", <<"M", "r">>)>>, f)
        /\ EscapeRow(<<{\h04}, Fpu("fenv", <<"M">>)>>, f)
        /\ EscapeRow(<<{\h05}, Fpu("other", <<"r", "M">>)>>, f)
    BY <1>1
  <2>2. EscapeRow(<<(\h08..\h0F) \union (\h30..\h36) \union (\h42..\h44) \union {\h28, \h29, \h2D,
             \h38, \h3A, \h46, \h47}, Fpu("other", <<"r">>)>>, f)
    BY <1>2 DEF EscapeRow
  <2>3. EscapeRow(<<(\h10..\h17) \union (\h3B..\h3D) \union {\h2C, \h39, \h40, \h41, \h45},
             Fpu("other", <<"r", "r">>)>>, f)
    BY <1>2 DEF EscapeRow
  <2>4. EscapeRow(<<{\h18, \h3E, \h3F}, Fpu("other", <<>>)>>, f)
    BY <1>2 DEF EscapeRow
  <2>. QED BY <1>3, <2>1, <2>2, <2>3, <2>4 DEF ESC_1
<1>6. Fits(Esc(ESC_2), f)
  <2>1. /\ EscapeRow(<<(\h04..\h07) \union {\h00, \h01}, Fpu("other", <<"r", "M">>)>>, f)
        /\ EscapeRow(<<{\h02, \h03}, Fpu("other", <<"M", "r">>)>>, f)
    BY <1>1
  <2>2. EscapeRow(<<(\h08..\h27) \union {\h31}, Fpu("other", <<"r", "r">>)>>, f)
    BY <1>2 DEF EscapeRow
  <2>. QED BY <1>3, <2>1, <2>2 DEF ESC_2
<1>7. Fits(Esc(ESC_3), f)
  <2>1. /\ EscapeRow(<<{\h00, \h01, \h05}, Fpu("other", <<"M">>)>>, f)
        /\ EscapeRow(<<{\h02, \h03, \h07}, Fpu("other", <<"M", "r">>)>>, f)
    BY <1>1
  <2>2. EscapeRow(<<(\h08..\h27) \union (\h30..\h3F), Fpu("other", <<"r", "r">>)>>, f)
    BY <1>2 DEF EscapeRow
  <2>3. EscapeRow(<<{\h2A, \h2B}, Fpu("other", <<"r">>)>>, f)
    BY <1>2 DEF EscapeRow
  <2>. QED BY <1>3, <2>1, <2>2, <2>3 DEF ESC_3
<1>8. Fits(Esc(ESC_4), f)
  <2>1. /\ EscapeRow(<<(\h04..\h07) \union {\h00, \h01}, Fpu("other", <<"r", "M">>)>>, f)
        /\ EscapeRow(<<{\h02, \h03}, Fpu("other", <<"M", "r">>)>>, f)
    BY <1>1
  <2>2. EscapeRow(<<(\h08..\h17) \union (\h28..\h47), Fpu("other", <<"r", "r">>)>>, f)
    BY <1>2 DEF EscapeRow
  <2>. QED BY <1>3, <2>1, <2>2 DEF ESC_4
<1>9. Fits(Esc(ESC_5), f)
  <2>1. /\ EscapeRow(<<{\h00}, Fpu("other", <<"M">>)>>, f)
        /\ EscapeRow(<<(\h01..\h03) \union {\h07}, Fpu("other", <<"M", "r">>)>>, f)
        /\ EscapeRow(<<{\h04, \h06}, Fpu("fenv", <<"M">>)>>, f)
    BY <1>1
  <2>2. EscapeRow(<<(\h08..\h0F) \union (\h18..\h37), Fpu("other", <<"r", "r">>)>>, f)
    BY <1>2 DEF EscapeRow
  <2>. QED BY <1>3, <2>1, <2>2 DEF ESC_5
<1>10. Fits(Esc(ESC_6), f)
  <2>1. /\ EscapeRow(<<(\h04..\h07) \union {\h00, \h01}, Fpu("other", <<"r", "M">>)>>, f)
        /\ EscapeRow(<<{\h02, \h03}, Fpu("other", <<"M", "r">>)>>, f)
    BY <1>1
  <2>2. EscapeRow(<<(\h08..\h17) \union (\h28..\h47) \union {\h21}, Fpu("other", <<"r", "r">>)>>,
             f)
    BY <1>2 DEF EscapeRow
  <2>. QED BY <1>3, <2>1, <2>2 DEF ESC_6
<1>11. Fits(Esc(ESC_7), f)
  <2>1. /\ EscapeRow(<<{\h00, \h04, \h05}, Fpu("other", <<"M">>)>>, f)
        /\ EscapeRow(<<(\h01..\h03) \union {\h06, \h07}, Fpu("other", <<"M", "r">>)>>, f)
    BY <1>1
  <2>2. EscapeRow(<<(\h30..\h3F) \union {\h28}, Fpu("other", <<"r", "r">>)>>, f)
    BY <1>2 DEF EscapeRow
  <2>. QED BY <1>3, <2>1, <2>2 DEF ESC_7
<1>. QED BY <1>4, <1>5, <1>6, <1>7, <1>8, <1>9, <1>10, <1>11

(* The groups, by the shape of their instructions *)
LEMMA GroupEntries ==
  ASSUME NEW f, Sane(f)
  PROVE  /\ ModRMByte(f) =>
              \A t \in {Group_1_80, Group_1_82, Group_1_83, Group_2_C0, Group_2_C1, Group_8, Group_12_C6,
                        Group_13, Group_14, Group_15, SSE2_Group_13, SSE2_Group_14, SSE2_Group_15} :
                Fits(Group(t), f)
         /\ ModRMWord(f) => \A t \in {Group_1_81, Group_12_C7} : Fits(Group(t), f)
         /\ ModRMBare(f) =>
              /\ \A t \in {Group_2_D0, Group_2_D1, Group_2_D2, Group_2_D3, Group_4, Group_5, Group_6, Group_7,
                           Group_9, Group_10, Group_17, Group_P} : Fits(Group(t), f)
              /\ Fits(Ext64(Opcode_63), f) /\ Fits(ByModRM(T_0F01_ModRM), f)
         /\ PlainBare(f) => Fits(Ext64(Opcode_0F05), f)
<1>1. \A o \in ModRMBareLists \union ModRMByteLists \union ModRMWordLists : o \in ModRMLists
  BY Disjoint
<1>2. ModRMByte(f) =>
        /\ \A t : /\ RowFits(Alu(t, <<"E", "Ib">>), f) /\ RowFits(Alu(t, <<"Es", "Ib">>), f)
                  /\ Alu(t, <<"E", "Ib">>).ops \in ModRMLists /\ Alu(t, <<"Es", "Ib">>).ops \in ModRMLists
        /\ RowFits(Simd(<<"PR", "Ib">>), f) /\ RowFits(Simd(<<"VR", "Ib">>), f)
        /\ Simd(<<"PR", "Ib">>).ops \in ModRMLists /\ Simd(<<"VR", "Ib">>).ops \in ModRMLists
  BY <1>1, ShapedRows, OtherUnits, Forms DEF ModRMByteLists
<1>3. ModRMByte(f) =>
        /\ Fits(Group(Group_1_80), f) /\ Fits(Group(Group_1_82), f) /\ Fits(Group(Group_1_83), f)
        /\ Fits(Group(Group_2_C0), f) /\ Fits(Group(Group_2_C1), f) /\ Fits(Group(Group_8), f)
        /\ Fits(Group(Group_12_C6), f) /\ Fits(Group(Group_13), f) /\ Fits(Group(Group_14), f)
        /\ Fits(Group(Group_15), f) /\ Fits(Group(SSE2_Group_13), f) /\ Fits(Group(SSE2_Group_14), f)
        /\ Fits(Group(SSE2_Group_15), f)
  BY <1>2, GroupFits DEF Group_1_80, Group_1_82, Group_1_83, Group_2_C0, Group_2_C1, Group_8, Group_12_C6,
       Group_13, Group_14, Group_15, SSE2_Group_13, SSE2_Group_14, SSE2_Group_15
<1>4. ModRMWord(f) =>
        \A t : /\ RowFits(Alu(t, <<"E", "Iz">>), f) /\ RowFits(Alu(t, <<"Es", "Iz">>), f)
               /\ Alu(t, <<"E", "Iz">>).ops \in ModRMLists /\ Alu(t, <<"Es", "Iz">>).ops \in ModRMLists
  BY <1>1, ShapedRows, Forms DEF ModRMWordLists
<1>5. ModRMWord(f) => Fits(Group(Group_1_81), f) /\ Fits(Group(Group_12_C7), f)
  BY <1>4, GroupFits DEF Group_1_81, Group_12_C7
<1>6. ModRMBare(f) =>
        \A t : \A o \in {<<"E">>, <<"Es">>, <<"Ep">>, <<"M">>, <<"E", "r">>, <<"r", "Es">>, <<"M", "r", "r">>,
                         <<"G", "Es">>, <<"Es", "G">>} :
          /\ RowFits(Alu(t, o), f) /\ RowFits(Only64(Alu(t, o)), f)
          /\ Alu(t, o).ops \in ModRMLists /\ Only64(Alu(t, o)).ops \in ModRMLists
  <2>1. ModRMBare(f) =>
          \A t : \A o \in ModRMBareLists :
            /\ RowFits(Alu(t, o), f) /\ RowFits(Only64(Alu(t, o)), f)
            /\ Alu(t, o).ops \in ModRMLists /\ Only64(Alu(t, o)).ops \in ModRMLists
    BY <1>1, ShapedRows, Forms
  <2>2. \A o \in {<<"E">>, <<"Es">>, <<"Ep">>, <<"M">>, <<"E", "r">>, <<"r", "Es">>, <<"M", "r", "r">>,
                  <<"G", "Es">>, <<"Es", "G">>} : o \in ModRMBareLists
    BY DEF ModRMBareLists
  <2>. QED BY <2>1, <2>2
<1>7. ModRMBare(f) =>
        /\ Fits(Group(Group_2_D0), f) /\ Fits(Group(Group_2_D1), f) /\ Fits(Group(Group_2_D2), f)
        /\ Fits(Group(Group_2_D3), f) /\ Fits(Group(Group_4), f) /\ Fits(Group(Group_9), f)
        /\ Fits(Group(Group_10), f) /\ Fits(Group(Group_17), f) /\ Fits(Group(Group_P), f)
  BY <1>6, GroupFits DEF Group_2_D0, Group_2_D1, Group_2_D2, Group_2_D3, Group_4, Group_9, Group_10, Group_17,
       Group_P
<1>8. ModRMBare(f) => Fits(Group(Group_5), f)
  BY <1>6, GroupFits DEF Group_5
<1>9. ModRMBare(f) => Fits(Group(Group_6), f)
  BY <1>6, GroupFits DEF Group_6
<1>10. ModRMBare(f) => Fits(Group(Group_7), f)
  BY <1>6, GroupFits DEF Group_7
<1>11. ModRMBare(f) => Fits(Ext64(Opcode_63), f)
  <2>1. \A o \in ModRMLists : o # <<>>
    BY Apart DEF PlainLists
  <2>2. ModRMBare(f) => \A b \in DOMAIN Opcode_63 : RowFits(Opcode_63[b], f) /\ Opcode_63[b].ops # <<>>
    BY <1>6, <2>1, Listed DEF Opcode_63
  <2>. QED BY <2>2, Resolving, Kinds DEF Fits, Entry
<1>12. PlainBare(f) => Fits(Ext64(Opcode_0F05), f)
  <2>1. PlainBare(f) => /\ RowFits(Alu("other", <<"r", "r", "r">>), f)
                        /\ RowFits(Only64(Alu("other", <<"r", "r", "r">>)), f)
    BY ShapedRows DEF BareLists
  <2>2. PlainBare(f) => \A b \in DOMAIN Opcode_0F05 : RowFits(Opcode_0F05[b], f)
    BY <2>1, Listed DEF Opcode_0F05
  <2>. QED BY <2>2, Resolving, Kinds DEF Fits, Entry, PlainBare
<1>13. ModRMBare(f) => Fits(ByModRM(T_0F01_ModRM), f)
  <2> SUFFICES ASSUME ModRMBare(f), NEW row \in Resolve(ByModRM(T_0F01_ModRM), f.modrm)
               PROVE  RowFits(row, f)
    BY Kinds DEF Fits, ModRMBare
  <2>1. PICK e \in Entry(T_0F01_ModRM, f.modrm) :
          row \in IF e.is = "group" THEN Entry(e.table, Reg(f.modrm)) ELSE {e}
    BY Resolving, Kinds
  <2>2. \/ e = Group(Group_7)
        \/ f.modrm \in {\hC8, \hC9, \hF8} /\ e \in {Alu("system", <<>>), Only64(Alu("system", <<"r">>))}
    BY <2>1, Listed DEF Entry, T_0F01_ModRM
  <2>3. CASE e = Group(Group_7)
    <3>1. row \in Resolve(Group(Group_7), f.modrm)
      BY <2>1, <2>3, Resolving, Kinds
    <3>. QED BY <1>10, <3>1 DEF Fits
  <2>4. CASE f.modrm \in {\hC8, \hC9, \hF8} /\ e \in {Alu("system", <<>>), Only64(Alu("system", <<"r">>))}
    <3>1. F!mod(f) = 3
      BY <2>4 DEF F!mod
    <3>2. PlainFits(<<>>, f) /\ PlainFits(<<"r">>, f)
      BY <3>1 DEF PlainFits, ModRMBare, BareLists
    <3>3. e.is # "group"
      BY <2>4, Forms
    <3>. QED BY <2>1, <2>4, <3>2, <3>3, FormsFit
  <2>. QED BY <2>2, <2>3, <2>4
<1>. QED BY <1>3, <1>5, <1>7, <1>8, <1>9, <1>10, <1>11, <1>12, <1>13

(* The groups whose instructions with an immediate are the first two *)
LEMMA Groups3 ==
  ASSUME NEW f, Sane(f), f.map = 1
  PROVE  /\ f.opcode = \hF6 => Fits(Group(Group_3_F6), f)
         /\ f.opcode = \hF7 => Fits(Group(Group_3_F7), f)
<1>1. F!reg(f) = Reg(f.modrm) /\ Reg(f.modrm) \in Int
  BY DEF F!reg, Reg, Sane, Octets
<1>2. f.opcode = \hF6 => IF Reg(f.modrm) < 2 THEN ModRMByte(f) ELSE ModRMBare(f)
  BY <1>1, Shapes1 DEF ModRMByte, ModRMBare, NoImmediate, F!Immediate8, F!ImmediateWord, Others_1
<1>3. f.opcode = \hF7 => IF Reg(f.modrm) < 2 THEN ModRMWord(f) ELSE ModRMBare(f)
  BY <1>1, Shapes1 DEF ModRMWord, ModRMBare, NoImmediate, WordImmediate, F!Immediate8, F!ImmediateWord, Others_1
<1>4. \A o \in ModRMBareLists \union ModRMByteLists \union ModRMWordLists : o \in ModRMLists
  BY Disjoint
<1>5. /\ ModRMByte(f) => RowFits(Alu("other", <<"Es", "Ib">>), f)
      /\ ModRMWord(f) => RowFits(Alu("other", <<"Es", "Iz">>), f)
      /\ ModRMBare(f) => RowFits(Alu("other", <<"E">>), f) /\ RowFits(Alu("other", <<"r", "Es", "r">>), f)
  BY ShapedRows DEF ModRMByteLists, ModRMWordLists, ModRMBareLists
<1>6. \A o \in {<<"Es", "Ib">>, <<"Es", "Iz">>, <<"E">>, <<"r", "Es", "r">>} :
        Alu("other", o).ops \in ModRMLists
  <2>1. \A o \in {<<"Es", "Ib">>, <<"Es", "Iz">>, <<"E">>, <<"r", "Es", "r">>} : o \in ModRMLists
    BY DEF ModRMLists
  <2>. QED BY <2>1, Forms
<1>7. f.opcode = \hF6 => Fits(Group(Group_3_F6), f)
  BY <1>1, <1>2, <1>5, <1>6, GroupFits DEF Group_3_F6
<1>8. f.opcode = \hF7 => Fits(Group(Group_3_F7), f)
  BY <1>1, <1>3, <1>5, <1>6, GroupFits DEF Group_3_F7
<1>. QED BY <1>7, <1>8

(* What the decoder misreads of the two-byte opcodes, but for 3DNow! *)
MisreadGroup(f) ==
  /\ f.map = 2
  /\ \/ f.opcode = \hAE /\ F!reg(f) \in 5..7
     \/ f.opcode = \hB9

(* What is misread has rows all the same, but none that would be corrected. *)
LEMMA MisreadGroups ==
  ASSUME NEW f, Sane(f), f.map = 2
  PROVE  /\ f.opcode = \hAE =>
              \/ Fits(Group(Group_16), f)
              \/ MisreadGroup(f) /\ Harmless(Group(Group_16))
         /\ f.opcode = \hB9 => MisreadGroup(f) /\ Harmless(Group(Group_11))
<1>1. F!reg(f) = Reg(f.modrm) /\ Reg(f.modrm) \in Int
  BY DEF F!reg, Reg, Sane, Octets
<1>2. \A t, o : t \in {"other", "system"} => Alu(t, o).type \notin {"mov", "lea"}
  BY Forms
<1>3. \A o : Fpu("other", o).type \notin {"mov", "lea"} /\ Simd(o).type \notin {"mov", "lea"}
  BY Forms
<1>4. Harmless(Group(Group_16))
  BY <1>2, <1>3, Resolving, Kinds, Listed DEF Harmless, Entry, Group_16
<1>5. Harmless(Group(Group_11))
  BY <1>2, Resolving, Kinds, Listed DEF Harmless, Entry, Group_11
<1>6. f.opcode = \hAE /\ Reg(f.modrm) \notin 5..7 => Fits(Group(Group_16), f)
  <2>1. f.opcode = \hAE => ModRMBare(f)
    BY Shapes2 DEF ModRMBare_2
  <2>2. <<"M">> \in ModRMBareLists /\ <<"M">> \in ModRMLists
    BY DEF ModRMBareLists, ModRMLists
  <2>3. ModRMBare(f) => RowFits(Fpu("other", <<"M">>), f) /\ RowFits(Simd(<<"M">>), f)
    BY <2>2, OtherUnits
  <2>4. Fpu("other", <<"M">>).ops \in ModRMLists /\ Simd(<<"M">>).ops \in ModRMLists
    BY <2>2, Forms
  <2>. QED BY <2>1, <2>3, <2>4, GroupFits DEF Group_16
<1>. QED BY <1>1, <1>4, <1>5, <1>6 DEF MisreadGroup

(* A row of the opcode tables is as the manuals have the instructions of its opcodes. *)
OpcodeFits(r, f) ==
  f.opcode \in r[1] =>
    \/ r[2] = Prefix
    \/ f.map = 2 /\ r[2] = Suffix(T_3DNOW_0F)
    \/ Fits(r[2], f)
    \/ MisreadGroup(f) /\ Harmless(r[2])

(* The one-byte opcodes, row by row of the table *)
LEMMA Low1 ==
  ASSUME NEW f, Sane(f), f.map = 1, f.opcode # \h0F
  PROVE  \A r \in Opcodes_1_low : OpcodeFits(r, f)
<1>1. f.opcode \in Int
  BY DEF Sane, Octets
<1>2. ModRMBare(f) =>
        /\ Fits(Alu("other", <<"E", "G">>), f) /\ Fits(Alu("other", <<"G", "Es">>), f)
        /\ Fits(Alu("other", <<"Es", "G">>), f) /\ Fits(Alu("other", <<"G", "M">>), f)
  BY ShapedEntries DEF ModRMBareLists
<1>3. /\ OpcodeFits(<<{\h00, \h01, \h08, \h09, \h10, \h11, \h18, \h19, \h20, \h21, \h28, \h29,
           \h30, \h31}, Alu("other", <<"E", "G">>)>>, f)
      /\ OpcodeFits(<<{\h02, \h03, \h0A, \h0B, \h12, \h13, \h1A, \h1B, \h22, \h23, \h2A, \h2B,
           \h32, \h33, \h3A, \h3B}, Alu("other", <<"G", "Es">>)>>, f)
      /\ OpcodeFits(<<{\h38, \h39}, Alu("other", <<"Es", "G">>)>>, f)
      /\ OpcodeFits(<<{\h62}, Alu("other", <<"G", "M">>)>>, f)
      /\ OpcodeFits(<<{\h63}, Ext64(Opcode_63)>>, f)
  BY <1>1, <1>2, GroupEntries, Shapes1 DEF OpcodeFits, ModRMBare_1
<1>4. PlainByte(f) =>
        /\ Fits(Alu("other", <<"r", "Ib">>), f) /\ Fits(Alu("stack", <<"Ib">>), f)
  BY ShapedEntries
<1>5. /\ OpcodeFits(<<{\h04, \h0C, \h14, \h1C, \h24, \h2C, \h34, \h3C}, Alu("other", <<"r",
           "Ib">>)>>, f)
      /\ OpcodeFits(<<{\h6A}, Alu("stack", <<"Ib">>)>>, f)
  BY <1>1, <1>4, Shapes1 DEF OpcodeFits, PlainByte_1
<1>6. PlainWord(f) =>
        /\ Fits(Alu("other", <<"r", "Iz">>), f) /\ Fits(Alu("stack", <<"Iz">>), f)
  BY ShapedEntries
<1>7. /\ OpcodeFits(<<{\h05, \h0D, \h15, \h1D, \h25, \h2D, \h35, \h3D}, Alu("other", <<"r",
           "Iz">>)>>, f)
      /\ OpcodeFits(<<{\h68}, Alu("stack", <<"Iz">>)>>, f)
  BY <1>1, <1>6, Shapes1 DEF OpcodeFits, PlainWord_1
<1>8. PlainBare(f) =>
        /\ Fits(Alu("stack", <<"r">>), f) /\ Fits(Alu("other", <<"r">>), f)
        /\ Fits(Alu("other", <<>>), f) /\ Fits(Alu("other", <<"Y", "r">>), f)
        /\ Fits(Alu("other", <<"r", "X">>), f)
  BY ShapedEntries DEF BareLists
<1>9. /\ OpcodeFits(<<(\h50..\h5F) \union {\h06, \h07, \h0E, \h16, \h17, \h1E, \h1F}, Alu("stack",
           <<"r">>)>>, f)
      /\ OpcodeFits(<<(\h3F..\h4F) \union {\h27, \h2F, \h37}, Alu("other", <<"r">>)>>, f)
      /\ OpcodeFits(<<{\h60, \h61}, Alu("other", <<>>)>>, f)
      /\ OpcodeFits(<<{\h6C, \h6D}, Alu("other", <<"Y", "r">>)>>, f)
      /\ OpcodeFits(<<{\h6E, \h6F}, Alu("other", <<"r", "X">>)>>, f)
  BY <1>1, <1>8, Shapes1 DEF OpcodeFits, PlainBare_1
<1>10. ModRMWord(f) =>
        /\ Fits(Alu("other", <<"G", "Es", "Iz">>), f)
  BY ShapedEntries DEF ModRMWordLists
<1>11. /\ OpcodeFits(<<{\h69}, Alu("other", <<"G", "Es", "Iz">>)>>, f)
  BY <1>1, <1>10, Shapes1 DEF OpcodeFits, ModRMWord_1
<1>12. ModRMByte(f) =>
        /\ Fits(Alu("other", <<"G", "Es", "Ib">>), f)
  BY ShapedEntries DEF ModRMByteLists
<1>13. /\ OpcodeFits(<<{\h6B}, Alu("other", <<"G", "Es", "Ib">>)>>, f)
  BY <1>1, <1>12, Shapes1 DEF OpcodeFits, ModRMByte_1
<1>14. /\ OpcodeFits(<<\h70..\h7F, Alu("branchcc", <<"Jb">>)>>, f)
  BY <1>1, ShapedEntries, Shapes1 DEF OpcodeFits, ByteBranch_1
<1>15. OpcodeFits(<<{\h0F}, Group(Opcodes_2)>>, f)
  BY DEF OpcodeFits
<1>16. OpcodeFits(<<(\h64..\h67) \union {\h26, \h2E, \h36, \h3E}, Prefix>>, f)
  BY DEF OpcodeFits
<1>. QED BY <1>3, <1>5, <1>7, <1>9, <1>11, <1>13, <1>14, <1>15, <1>16, ZenonT(60) DEF Opcodes_1_low

LEMMA High1 ==
  ASSUME NEW f, Sane(f), f.map = 1
  PROVE  \A r \in Opcodes_1_high : OpcodeFits(r, f)
<1> DEFINE
     R1 == <<{\h80}, Group(Group_1_80)>>
     R2 == <<{\h81}, Group(Group_1_81)>>
     R3 == <<{\h82}, Group(Group_1_82)>>
     R4 == <<{\h83}, Group(Group_1_83)>>
     R5 == <<{\h84, \h85}, Alu("other", <<"Es", "G">>)>>
     R6 == <<{\h86, \h87}, Alu("other", <<"E", "G">>)>>
     R7 == <<{\h88, \h89}, Alu("mov", <<"E", "G">>)>>
     R8 == <<{\h8A, \h8B}, Alu("mov", <<"G", "Es">>)>>
     R9 == <<{\h8C}, Alu("mov", <<"E", "S">>)>>
     R10 == <<{\h8D}, Alu("lea", <<"G", "M">>)>>
     R11 == <<{\h8E}, Alu("mov", <<"S", "Es">>)>>
     R12 == <<{\h8F}, Group(Group_10)>>
     R13 == <<{\h90, \hCC, \hCE, \hCF, \hF1, \hF4}, Alu("other", <<>>)>>
     R14 == <<(\h91..\h99) \union (\hEC..\hEF), Alu("other", <<"r", "r">>)>>
     R15 == <<{\h9A}, Alu("call", <<"A">>)>>
     R16 == <<{\h9B}, Alu("system", <<>>)>>
     R17 == <<{\h9C, \h9D, \hC9}, Alu("stack", <<"r">>)>>
     R18 == <<{\h9E, \h9F}, Alu("mov", <<"r", "r">>)>>
     R19 == <<{\hA0, \hA1}, Alu("mov", <<"r", "O">>)>>
     R20 == <<{\hA2, \hA3}, Alu("mov", <<"O", "r">>)>>
     R21 == <<{\hA4, \hA5}, Alu("other", <<"Y", "X">>)>>
     R22 == <<{\hA6, \hA7}, Alu("other", <<"X", "Y">>)>>
     R23 == <<{\hA8, \hD4, \hD5, \hE4, \hE5}, Alu("other", <<"r", "Ib">>)>>
     R24 == <<{\hA9}, Alu("other", <<"r", "Iz">>)>>
     R25 == <<{\hAA, \hAB}, Alu("other", <<"Y", "r">>)>>
     R26 == <<{\hAC, \hAD}, Alu("other", <<"r", "X">>)>>
     R27 == <<{\hAE, \hAF}, Alu("other", <<"r", "Y">>)>>
     R28 == <<\hB0..\hB7, Alu("mov", <<"r", "Ib">>)>>
     R29 == <<\hB8..\hBF, Alu("mov", <<"r", "Iv">>)>>
     R30 == <<{\hC0}, Group(Group_2_C0)>>
     R31 == <<{\hC1}, Group(Group_2_C1)>>
     R32 == <<{\hC2, \hCA}, Alu("ret", <<"Iw">>)>>
     R33 == <<{\hC3, \hCB}, Alu("ret", <<>>)>>
     R34 == <<{\hC4, \hC5}, Alu("mov", <<"G", "M">>)>>
     R35 == <<{\hC6}, Group(Group_12_C6)>>
     R36 == <<{\hC7}, Group(Group_12_C7)>>
     R37 == <<{\hC8}, Alu("stack", <<"r", "Iw", "Ib">>)>>
     R38 == <<{\hCD}, Alu("other", <<"Ib">>)>>
     R39 == <<{\hD0}, Group(Group_2_D0)>>
     R40 == <<{\hD1}, Group(Group_2_D1)>>
     R41 == <<{\hD2}, Group(Group_2_D2)>>
     R42 == <<{\hD3}, Group(Group_2_D3)>>
     R43 == <<{\hD6}, Alu("other", <<"r", "r", "r">>)>>
     R44 == <<{\hD7}, Alu("other", <<"r", "xlat">>)>>
     R45 == <<{\hD8}, Esc(ESC_0)>>
     R46 == <<{\hD9}, Esc(ESC_1)>>
     R47 == <<{\hDA}, Esc(ESC_2)>>
     R48 == <<{\hDB}, Esc(ESC_3)>>
     R49 == <<{\hDC}, Esc(ESC_4)>>
     R50 == <<{\hDD}, Esc(ESC_5)>>
     R51 == <<{\hDE}, Esc(ESC_6)>>
     R52 == <<{\hDF}, Esc(ESC_7)>>
     R53 == <<\hE0..\hE3, Alu("loopcc", <<"Jb">>)>>
     R54 == <<{\hE6, \hE7}, Alu("other", <<"Ib", "r">>)>>
     R55 == <<{\hE8}, Alu("call", <<"Jz">>)>>
     R56 == <<{\hE9}, Alu("branch", <<"Jz">>)>>
     R57 == <<{\hEA}, Alu("branch", <<"A">>)>>
     R58 == <<{\hEB}, Alu("branch", <<"Jb">>)>>
     R59 == <<{\hF0, \hF2, \hF3}, Prefix>>
     R60 == <<(\hF8..\hFD) \union {\hF5}, Alu("other", <<"r">>)>>
     R61 == <<{\hF6}, Group(Group_3_F6)>>
     R62 == <<{\hF7}, Group(Group_3_F7)>>
     R63 == <<{\hFE}, Group(Group_4)>>
     R64 == <<{\hFF}, Group(Group_5)>>
<1>1. f.opcode \in Int
  BY DEF Sane, Octets
<1>2. /\ OpcodeFits(R1, f) /\ OpcodeFits(R3, f) /\ OpcodeFits(R4, f) /\ OpcodeFits(R30, f)
      /\ OpcodeFits(R31, f) /\ OpcodeFits(R35, f)
  BY <1>1, ShapedEntries, GroupEntries, Shapes1 DEF OpcodeFits, ModRMByte_1
<1>3. /\ OpcodeFits(R2, f) /\ OpcodeFits(R36, f)
  BY <1>1, ShapedEntries, GroupEntries, Shapes1 DEF OpcodeFits, ModRMWord_1
<1>4. ModRMBare(f) =>
        /\ Fits(Alu("other", <<"Es", "G">>), f) /\ Fits(Alu("other", <<"E", "G">>), f)
        /\ Fits(Alu("mov", <<"E", "G">>), f) /\ Fits(Alu("mov", <<"G", "Es">>), f)
        /\ Fits(Alu("mov", <<"E", "S">>), f) /\ Fits(Alu("lea", <<"G", "M">>), f)
        /\ Fits(Alu("mov", <<"S", "Es">>), f) /\ Fits(Alu("mov", <<"G", "M">>), f)
  BY ShapedEntries DEF ModRMBareLists
<1>5. /\ OpcodeFits(R5, f) /\ OpcodeFits(R6, f) /\ OpcodeFits(R7, f) /\ OpcodeFits(R8, f)
      /\ OpcodeFits(R9, f) /\ OpcodeFits(R10, f) /\ OpcodeFits(R11, f) /\ OpcodeFits(R12, f)
      /\ OpcodeFits(R34, f) /\ OpcodeFits(R39, f) /\ OpcodeFits(R40, f) /\ OpcodeFits(R41, f)
      /\ OpcodeFits(R42, f) /\ OpcodeFits(R45, f) /\ OpcodeFits(R46, f) /\ OpcodeFits(R47, f)
      /\ OpcodeFits(R48, f) /\ OpcodeFits(R49, f) /\ OpcodeFits(R50, f) /\ OpcodeFits(R51, f)
      /\ OpcodeFits(R52, f) /\ OpcodeFits(R63, f) /\ OpcodeFits(R64, f)
  BY <1>1, <1>4, GroupEntries, EscapeEntries, Shapes1 DEF OpcodeFits, ModRMBare_1
<1>6. PlainBare(f) =>
        /\ Fits(Alu("other", <<>>), f) /\ Fits(Alu("other", <<"r", "r">>), f)
        /\ Fits(Alu("system", <<>>), f) /\ Fits(Alu("stack", <<"r">>), f)
        /\ Fits(Alu("mov", <<"r", "r">>), f) /\ Fits(Alu("other", <<"Y", "X">>), f)
        /\ Fits(Alu("other", <<"X", "Y">>), f) /\ Fits(Alu("other", <<"Y", "r">>), f)
        /\ Fits(Alu("other", <<"r", "X">>), f) /\ Fits(Alu("other", <<"r", "Y">>), f)
        /\ Fits(Alu("ret", <<>>), f) /\ Fits(Alu("other", <<"r", "r", "r">>), f)
        /\ Fits(Alu("other", <<"r", "xlat">>), f) /\ Fits(Alu("other", <<"r">>), f)
  BY ShapedEntries DEF BareLists
<1>7. /\ OpcodeFits(R13, f) /\ OpcodeFits(R14, f) /\ OpcodeFits(R16, f) /\ OpcodeFits(R17, f)
      /\ OpcodeFits(R18, f) /\ OpcodeFits(R21, f) /\ OpcodeFits(R22, f) /\ OpcodeFits(R25, f)
      /\ OpcodeFits(R26, f) /\ OpcodeFits(R27, f) /\ OpcodeFits(R33, f) /\ OpcodeFits(R43, f)
      /\ OpcodeFits(R44, f) /\ OpcodeFits(R60, f)
  BY <1>1, <1>6, Shapes1 DEF OpcodeFits, PlainBare_1
<1>8. /\ OpcodeFits(R15, f) /\ OpcodeFits(R19, f) /\ OpcodeFits(R20, f) /\ OpcodeFits(R29, f)
      /\ OpcodeFits(R32, f) /\ OpcodeFits(R37, f) /\ OpcodeFits(R57, f)
  <2>1. /\ OpcodeFits(R19, f) /\ OpcodeFits(R20, f)
    BY <1>1, ShapedEntries, Shapes1 DEF OpcodeFits, PlainOther_1, OffsetLists
  <2>2. /\ OpcodeFits(R15, f) /\ OpcodeFits(R29, f) /\ OpcodeFits(R32, f) /\ OpcodeFits(R37, f)
        /\ OpcodeFits(R57, f)
    BY <1>1, ShapedEntries, Shapes1 DEF OpcodeFits, PlainOther_1
  <2>. QED BY <2>1, <2>2
<1>9. PlainByte(f) =>
        /\ Fits(Alu("other", <<"r", "Ib">>), f) /\ Fits(Alu("mov", <<"r", "Ib">>), f)
        /\ Fits(Alu("other", <<"Ib">>), f) /\ Fits(Alu("other", <<"Ib", "r">>), f)
  BY ShapedEntries
<1>10. /\ OpcodeFits(R23, f) /\ OpcodeFits(R28, f) /\ OpcodeFits(R38, f) /\ OpcodeFits(R54, f)
  BY <1>1, <1>9, Shapes1 DEF OpcodeFits, PlainByte_1
<1>11. PlainWord(f) =>
        /\ Fits(Alu("other", <<"r", "Iz">>), f)
  BY ShapedEntries
<1>12. /\ OpcodeFits(R24, f)
  BY <1>1, <1>11, Shapes1 DEF OpcodeFits, PlainWord_1
<1>13. /\ OpcodeFits(R53, f) /\ OpcodeFits(R58, f)
  BY <1>1, ShapedEntries, Shapes1 DEF OpcodeFits, ByteBranch_1
<1>14. /\ OpcodeFits(R55, f) /\ OpcodeFits(R56, f)
  BY <1>1, ShapedEntries, Shapes1 DEF OpcodeFits, WordBranch_1
<1>15. OpcodeFits(R59, f)
  BY DEF OpcodeFits
<1>16. OpcodeFits(R61, f)
  BY Groups3 DEF OpcodeFits
<1>17. OpcodeFits(R62, f)
  BY Groups3 DEF OpcodeFits
<1>18. Opcodes_1_high = {R1, R2, R3, R4, R5, R6, R7, R8, R9, R10, R11, R12, R13, R14, R15, R16, R17,
       R18, R19, R20, R21, R22, R23, R24, R25, R26, R27, R28, R29, R30, R31, R32, R33, R34, R35, R36,
       R37, R38, R39, R40, R41, R42, R43, R44, R45, R46, R47, R48, R49, R50, R51, R52, R53, R54, R55,
       R56, R57, R58, R59, R60, R61, R62, R63, R64}
  BY DEF Opcodes_1_high
<1> HIDE DEF R1, R2, R3, R4, R5, R6, R7, R8, R9, R10, R11, R12, R13, R14, R15, R16, R17, R18, R19, R20,
      R21, R22, R23, R24, R25, R26, R27, R28, R29, R30, R31, R32, R33, R34, R35, R36, R37, R38, R39,
      R40, R41, R42, R43, R44, R45, R46, R47, R48, R49, R50, R51, R52, R53, R54, R55, R56, R57, R58,
      R59, R60, R61, R62, R63, R64
<1>. QED BY <1>2, <1>3, <1>5, <1>7, <1>8, <1>10, <1>12, <1>13, <1>14, <1>15, <1>16, <1>17, <1>18

(* The two-byte opcodes, row by row of the table *)
LEMMA Low2 ==
  ASSUME NEW f, Sane(f), f.map = 2
  PROVE  \A r \in Opcodes_2_low : OpcodeFits(r, f)
<1>1. f.opcode \in Int
  BY DEF Sane, Octets
<1>2. ModRMBare(f) =>
        /\ Fits(Alu("system", <<"G", "Es">>), f) /\ Fits(Simd(<<"V", "W">>), f)
        /\ Fits(Simd(<<"W", "V">>), f) /\ Fits(Simd(<<"M", "V">>), f)
        /\ Fits(Alu("mov", <<"R", "C">>), f) /\ Fits(Alu("mov", <<"R", "D">>), f)
        /\ Fits(Alu("mov", <<"C", "R">>), f) /\ Fits(Alu("mov", <<"D", "R">>), f)
        /\ Fits(Simd(<<"V", "Q">>), f) /\ Fits(Simd(<<"P", "W">>), f)
        /\ Fits(Alu("other", <<"G", "Es">>), f) /\ Fits(Simd(<<"G", "VR">>), f)
        /\ Fits(Simd(<<"P", "Q">>), f) /\ Fits(Simd(<<"P", "Es">>), f)
        /\ Fits(Simd(<<"E", "P">>), f) /\ Fits(Simd(<<"Q", "P">>), f)
  BY ShapedEntries DEF ModRMBareLists
<1>3. /\ OpcodeFits(<<{\h00}, Group(Group_6)>>, f)
      /\ OpcodeFits(<<{\h01}, ByModRM(T_0F01_ModRM)>>, f)
      /\ OpcodeFits(<<{\h02, \h03}, Alu("system", <<"G", "Es">>)>>, f)
      /\ OpcodeFits(<<{\h0D}, Group(Group_P)>>, f)
      /\ OpcodeFits(<<(\h14..\h16) \union (\h51..\h5F) \union {\h10, \h12, \h28, \h2E, \h2F},
           Simd(<<"V", "W">>)>>, f)
      /\ OpcodeFits(<<{\h11, \h29}, Simd(<<"W", "V">>)>>, f)
      /\ OpcodeFits(<<{\h13, \h17, \h2B}, Simd(<<"M", "V">>)>>, f)
      /\ OpcodeFits(<<{\h18}, Group(Group_17)>>, f)
      /\ OpcodeFits(<<{\h20}, Alu("mov", <<"R", "C">>)>>, f)
      /\ OpcodeFits(<<{\h21}, Alu("mov", <<"R", "D">>)>>, f)
      /\ OpcodeFits(<<{\h22}, Alu("mov", <<"C", "R">>)>>, f)
      /\ OpcodeFits(<<{\h23}, Alu("mov", <<"D", "R">>)>>, f)
      /\ OpcodeFits(<<{\h2A}, Simd(<<"V", "Q">>)>>, f)
      /\ OpcodeFits(<<{\h2C, \h2D}, Simd(<<"P", "W">>)>>, f)
      /\ OpcodeFits(<<\h40..\h4F, Alu("other", <<"G", "Es">>)>>, f)
      /\ OpcodeFits(<<{\h50}, Simd(<<"G", "VR">>)>>, f)
      /\ OpcodeFits(<<(\h60..\h6B) \union (\h74..\h76) \union {\h6F}, Simd(<<"P", "Q">>)>>, f)
      /\ OpcodeFits(<<{\h6E}, Simd(<<"P", "Es">>)>>, f)
      /\ OpcodeFits(<<{\h7E}, Simd(<<"E", "P">>)>>, f)
      /\ OpcodeFits(<<{\h7F}, Simd(<<"Q", "P">>)>>, f)
  BY <1>1, <1>2, GroupEntries, Shapes2 DEF OpcodeFits, ModRMBare_2
<1>4. PlainBare(f) =>
        /\ Fits(Alu("system", <<"r">>), f) /\ Fits(Alu("other", <<"r">>), f)
        /\ Fits(Alu("system", <<>>), f) /\ Fits(Alu("other", <<>>), f)
        /\ Fits(Alu("system", <<"r", "r">>), f) /\ Fits(Alu("other", <<"r", "r">>), f)
        /\ Fits(Alu("other", <<"r", "r", "r">>), f) /\ Fits(Simd(<<"r">>), f)
  BY ShapedEntries DEF BareLists
<1>5. /\ OpcodeFits(<<{\h05}, Ext64(Opcode_0F05)>>, f)
      /\ OpcodeFits(<<{\h06}, Alu("system", <<"r">>)>>, f)
      /\ OpcodeFits(<<{\h07, \h0E}, Alu("other", <<"r">>)>>, f)
      /\ OpcodeFits(<<{\h08, \h09}, Alu("system", <<>>)>>, f)
      /\ OpcodeFits(<<{\h0B}, Alu("other", <<>>)>>, f)
      /\ OpcodeFits(<<\h30..\h32, Alu("system", <<"r", "r">>)>>, f)
      /\ OpcodeFits(<<{\h33}, Alu("other", <<"r", "r">>)>>, f)
      /\ OpcodeFits(<<{\h34, \h35}, Alu("other", <<"r", "r", "r">>)>>, f)
      /\ OpcodeFits(<<{\h77}, Simd(<<"r">>)>>, f)
  BY <1>1, <1>4, GroupEntries, Shapes2 DEF OpcodeFits, PlainBare_2
<1>6. ModRMByte(f) =>
        /\ Fits(Simd(<<"P", "Q", "Ib">>), f)
  BY ShapedEntries DEF ModRMByteLists
<1>7. /\ OpcodeFits(<<{\h70}, Simd(<<"P", "Q", "Ib">>)>>, f)
      /\ OpcodeFits(<<{\h71}, Group(Group_13)>>, f)
      /\ OpcodeFits(<<{\h72}, Group(Group_14)>>, f)
      /\ OpcodeFits(<<{\h73}, Group(Group_15)>>, f)
  BY <1>1, <1>6, GroupEntries, Shapes2 DEF OpcodeFits, ModRMByte_2
<1>8. OpcodeFits(<<{\h0F}, Suffix(T_3DNOW_0F)>>, f)
  BY DEF OpcodeFits
<1>. QED BY <1>3, <1>5, <1>7, <1>8, ZenonT(60) DEF Opcodes_2_low

LEMMA High2 ==
  ASSUME NEW f, Sane(f), f.map = 2
  PROVE  \A r \in Opcodes_2_high : OpcodeFits(r, f)
<1> DEFINE
     R1 == <<\h80..\h8F, Alu("branchcc", <<"Jz">>)>>
     R2 == <<\h90..\h9F, Alu("other", <<"E", "r", "r">>)>>
     R3 == <<{\hA0, \hA1, \hA8, \hA9}, Alu("stack", <<"r">>)>>
     R4 == <<{\hA2}, Alu("other", <<"r", "r">>)>>
     R5 == <<{\hA3, \hAB, \hB3, \hBB}, Alu("other", <<"Es", "G">>)>>
     R6 == <<{\hA4, \hAC}, Alu("other", <<"E", "G", "Ib">>)>>
     R7 == <<{\hA5, \hAD}, Alu("other", <<"E", "G", "r">>)>>
     R8 == <<{\hAA}, Alu("system", <<>>)>>
     R9 == <<{\hAE}, Group(Group_16)>>
     R10 == <<{\hAF, \hBC, \hBD}, Alu("other", <<"G", "Es">>)>>
     R11 == <<{\hB0, \hB1}, Alu("other", <<"E", "r", "G">>)>>
     R12 == <<{\hB2, \hB4, \hB5}, Alu("mov", <<"G", "M">>)>>
     R13 == <<{\hB6, \hB7, \hBE, \hBF}, Alu("mov", <<"G", "Es">>)>>
     R14 == <<{\hB9}, Group(Group_11)>>
     R15 == <<{\hBA}, Group(Group_8)>>
     R16 == <<{\hC0, \hC1}, Alu("other", <<"E", "G">>)>>
     R17 == <<{\hC2, \hC6}, Simd(<<"V", "W", "Ib">>)>>
     R18 == <<{\hC3}, Simd(<<"M", "G">>)>>
     R19 == <<{\hC4}, Simd(<<"P", "Es", "Ib">>)>>
     R20 == <<{\hC5}, Simd(<<"G", "PR", "Ib">>)>>
     R21 == <<{\hC7}, Group(Group_9)>>
     R22 == <<\hC8..\hCF, Alu("other", <<"r">>)>>
     R23 == <<(\hD1..\hD5) \union (\hD8..\hE5) \union (\hE8..\hEF) \union (\hF1..\hF6) \union (\hF8..\hFE),
              Simd(<<"P", "Q">>)>>
     R24 == <<{\hD7}, Simd(<<"G", "PR">>)>>
     R25 == <<{\hE7}, Simd(<<"M", "P">>)>>
     R26 == <<{\hF7}, Simd(<<"P", "PR">>)>>
<1>1. f.opcode \in Int
  BY DEF Sane, Octets
<1>2. /\ OpcodeFits(R1, f)
  BY <1>1, ShapedEntries, Shapes2 DEF OpcodeFits, WordBranch_2
<1>3. ModRMBare(f) =>
        /\ Fits(Alu("other", <<"E", "r", "r">>), f) /\ Fits(Alu("other", <<"Es", "G">>), f)
        /\ Fits(Alu("other", <<"E", "G", "r">>), f) /\ Fits(Alu("other", <<"G", "Es">>), f)
        /\ Fits(Alu("other", <<"E", "r", "G">>), f) /\ Fits(Alu("mov", <<"G", "M">>), f)
        /\ Fits(Alu("mov", <<"G", "Es">>), f) /\ Fits(Alu("other", <<"E", "G">>), f)
        /\ Fits(Simd(<<"M", "G">>), f) /\ Fits(Simd(<<"P", "Q">>), f)
        /\ Fits(Simd(<<"G", "PR">>), f) /\ Fits(Simd(<<"M", "P">>), f)
        /\ Fits(Simd(<<"P", "PR">>), f)
  BY ShapedEntries DEF ModRMBareLists
<1>4. /\ OpcodeFits(R2, f) /\ OpcodeFits(R5, f) /\ OpcodeFits(R7, f) /\ OpcodeFits(R10, f)
      /\ OpcodeFits(R11, f) /\ OpcodeFits(R12, f) /\ OpcodeFits(R13, f) /\ OpcodeFits(R16, f)
      /\ OpcodeFits(R18, f) /\ OpcodeFits(R21, f) /\ OpcodeFits(R23, f) /\ OpcodeFits(R24, f)
      /\ OpcodeFits(R25, f) /\ OpcodeFits(R26, f)
  BY <1>1, <1>3, GroupEntries, Shapes2 DEF OpcodeFits, ModRMBare_2
<1>5. PlainBare(f) =>
        /\ Fits(Alu("stack", <<"r">>), f) /\ Fits(Alu("other", <<"r", "r">>), f)
        /\ Fits(Alu("system", <<>>), f) /\ Fits(Alu("other", <<"r">>), f)
  BY ShapedEntries DEF BareLists
<1>6. /\ OpcodeFits(R3, f) /\ OpcodeFits(R4, f) /\ OpcodeFits(R8, f) /\ OpcodeFits(R22, f)
  BY <1>1, <1>5, Shapes2 DEF OpcodeFits, PlainBare_2
<1>7. ModRMByte(f) =>
        /\ Fits(Alu("other", <<"E", "G", "Ib">>), f) /\ Fits(Simd(<<"V", "W", "Ib">>), f)
        /\ Fits(Simd(<<"P", "Es", "Ib">>), f) /\ Fits(Simd(<<"G", "PR", "Ib">>), f)
  BY ShapedEntries DEF ModRMByteLists
<1>8. /\ OpcodeFits(R6, f) /\ OpcodeFits(R15, f) /\ OpcodeFits(R17, f) /\ OpcodeFits(R19, f)
      /\ OpcodeFits(R20, f)
  BY <1>1, <1>7, GroupEntries, Shapes2 DEF OpcodeFits, ModRMByte_2
<1>9. OpcodeFits(R9, f)
  BY MisreadGroups DEF OpcodeFits
<1>10. OpcodeFits(R14, f)
  BY MisreadGroups DEF OpcodeFits
<1>11. Opcodes_2_high = {R1, R2, R3, R4, R5, R6, R7, R8, R9, R10, R11, R12, R13, R14, R15, R16, R17,
       R18, R19, R20, R21, R22, R23, R24, R25, R26}
  BY DEF Opcodes_2_high
<1> HIDE DEF R1, R2, R3, R4, R5, R6, R7, R8, R9, R10, R11, R12, R13, R14, R15, R16, R17, R18, R19, R20,
      R21, R22, R23, R24, R25, R26
<1>. QED BY <1>2, <1>4, <1>6, <1>8, <1>9, <1>10, <1>11

(* The bytes that are prefixes, and those that were inc and dec; what is not in the table
   of the two-byte opcodes                                                               *)
Listed1(r) ==
  \A b \in r[1] : /\ b \in F!LegacyPrefixes <=> r[2].is = "prefix"
                  /\ b \in \h40..\h4F => r[2].is = "instr" /\ r[2].type = "other"
                  /\ r[2].is \in {"group", "fpu", "modrm"} => b \in ModRM_1 \union {\h0F}

Unlisted_2 == (\h19..\h1F) \union (\h38..\h3F) \union (\h78..\h7B)
                \union {\h04, \h0A, \h0C, \h25, \h27, \hA6, \hB8, \hFF}
Listed2(r) ==
  /\ \A b \in r[1] : b \in Octets \ Unlisted_2
  /\ r[2].is \in {"group", "fpu", "modrm"} => \A b \in r[1] : b \in ModRM_2 \union {\hB9}
  /\ r[2].is = "suffix" => \A b \in r[1] : b = \h0F
  /\ \hB9 \in r[1] => r[2] = Group(Group_11)

(* What the rows list, for each half of each table *)
LEMMA Listed1Low == \A r \in Opcodes_1_low : Listed1(r)
<1> DEFINE
     R1 == <<{\h00, \h01, \h08, \h09, \h10, \h11, \h18, \h19, \h20, \h21, \h28, \h29, \h30, \h31},
             Alu("other", <<"E", "G">>)>>
     R2 == <<{\h02, \h03, \h0A, \h0B, \h12, \h13, \h1A, \h1B, \h22, \h23, \h2A, \h2B, \h32, \h33, \h3A, \h3B},
             Alu("other", <<"G", "Es">>)>>
     R3 == <<{\h04, \h0C, \h14, \h1C, \h24, \h2C, \h34, \h3C}, Alu("other", <<"r", "Ib">>)>>
     R4 == <<{\h05, \h0D, \h15, \h1D, \h25, \h2D, \h35, \h3D}, Alu("other", <<"r", "Iz">>)>>
     R5 == <<(\h50..\h5F) \union {\h06, \h07, \h0E, \h16, \h17, \h1E, \h1F}, Alu("stack", <<"r">>)>>
     R6 == <<{\h0F}, Group(Opcodes_2)>>
     R7 == <<(\h64..\h67) \union {\h26, \h2E, \h36, \h3E}, Prefix>>
     R8 == <<(\h3F..\h4F) \union {\h27, \h2F, \h37}, Alu("other", <<"r">>)>>
     R9 == <<{\h38, \h39}, Alu("other", <<"Es", "G">>)>>
     R10 == <<{\h60, \h61}, Alu("other", <<>>)>>
     R11 == <<{\h62}, Alu("other", <<"G", "M">>)>>
     R12 == <<{\h63}, Ext64(Opcode_63)>>
     R13 == <<{\h68}, Alu("stack", <<"Iz">>)>>
     R14 == <<{\h69}, Alu("other", <<"G", "Es", "Iz">>)>>
     R15 == <<{\h6A}, Alu("stack", <<"Ib">>)>>
     R16 == <<{\h6B}, Alu("other", <<"G", "Es", "Ib">>)>>
     R17 == <<{\h6C, \h6D}, Alu("other", <<"Y", "r">>)>>
     R18 == <<{\h6E, \h6F}, Alu("other", <<"r", "X">>)>>
     R19 == <<\h70..\h7F, Alu("branchcc", <<"Jb">>)>>
<1>1. Listed1(R1) /\ Listed1(R2) /\ Listed1(R3) /\ Listed1(R4) /\ Listed1(R5) /\ Listed1(R6) /\
      Listed1(R7)
  BY Kinds, Forms DEF Listed1, F!LegacyPrefixes, ModRM_1
<1>2. Listed1(R8) /\ Listed1(R9) /\ Listed1(R10) /\ Listed1(R11) /\ Listed1(R12) /\ Listed1(R13)
      /\ Listed1(R14)
  BY Kinds, Forms DEF Listed1, F!LegacyPrefixes, ModRM_1
<1>3. Listed1(R15) /\ Listed1(R16) /\ Listed1(R17) /\ Listed1(R18) /\ Listed1(R19)
  BY Kinds, Forms DEF Listed1, F!LegacyPrefixes, ModRM_1
<1>4. Opcodes_1_low = {R1, R2, R3, R4, R5, R6, R7, R8, R9, R10, R11, R12, R13, R14, R15, R16, R17,
       R18, R19}
  BY DEF Opcodes_1_low
<1> HIDE DEF R1, R2, R3, R4, R5, R6, R7, R8, R9, R10, R11, R12, R13, R14, R15, R16, R17, R18, R19
<1>. QED BY <1>1, <1>2, <1>3, <1>4

LEMMA Listed1High == \A r \in Opcodes_1_high : Listed1(r)
<1> DEFINE
     R1 == <<{\h80}, Group(Group_1_80)>>
     R2 == <<{\h81}, Group(Group_1_81)>>
     R3 == <<{\h82}, Group(Group_1_82)>>
     R4 == <<{\h83}, Group(Group_1_83)>>
     R5 == <<{\h84, \h85}, Alu("other", <<"Es", "G">>)>>
     R6 == <<{\h86, \h87}, Alu("other", <<"E", "G">>)>>
     R7 == <<{\h88, \h89}, Alu("mov", <<"E", "G">>)>>
     R8 == <<{\h8A, \h8B}, Alu("mov", <<"G", "Es">>)>>
     R9 == <<{\h8C}, Alu("mov", <<"E", "S">>)>>
     R10 == <<{\h8D}, Alu("lea", <<"G", "M">>)>>
     R11 == <<{\h8E}, Alu("mov", <<"S", "Es">>)>>
     R12 == <<{\h8F}, Group(Group_10)>>
     R13 == <<{\h90, \hCC, \hCE, \hCF, \hF1, \hF4}, Alu("other", <<>>)>>
     R14 == <<(\h91..\h99) \union (\hEC..\hEF), Alu("other", <<"r", "r">>)>>
     R15 == <<{\h9A}, Alu("call", <<"A">>)>>
     R16 == <<{\h9B}, Alu("system", <<>>)>>
     R17 == <<{\h9C, \h9D, \hC9}, Alu("stack", <<"r">>)>>
     R18 == <<{\h9E, \h9F}, Alu("mov", <<"r", "r">>)>>
     R19 == <<{\hA0, \hA1}, Alu("mov", <<"r", "O">>)>>
     R20 == <<{\hA2, \hA3}, Alu("mov", <<"O", "r">>)>>
     R21 == <<{\hA4, \hA5}, Alu("other", <<"Y", "X">>)>>
     R22 == <<{\hA6, \hA7}, Alu("other", <<"X", "Y">>)>>
     R23 == <<{\hA8, \hD4, \hD5, \hE4, \hE5}, Alu("other", <<"r", "Ib">>)>>
     R24 == <<{\hA9}, Alu("other", <<"r", "Iz">>)>>
     R25 == <<{\hAA, \hAB}, Alu("other", <<"Y", "r">>)>>
     R26 == <<{\hAC, \hAD}, Alu("other", <<"r", "X">>)>>
     R27 == <<{\hAE, \hAF}, Alu("other", <<"r", "Y">>)>>
     R28 == <<\hB0..\hB7, Alu("mov", <<"r", "Ib">>)>>
     R29 == <<\hB8..\hBF, Alu("mov", <<"r", "Iv">>)>>
     R30 == <<{\hC0}, Group(Group_2_C0)>>
     R31 == <<{\hC1}, Group(Group_2_C1)>>
     R32 == <<{\hC2, \hCA}, Alu("ret", <<"Iw">>)>>
     R33 == <<{\hC3, \hCB}, Alu("ret", <<>>)>>
     R34 == <<{\hC4, \hC5}, Alu("mov", <<"G", "M">>)>>
     R35 == <<{\hC6}, Group(Group_12_C6)>>
     R36 == <<{\hC7}, Group(Group_12_C7)>>
     R37 == <<{\hC8}, Alu("stack", <<"r", "Iw", "Ib">>)>>
     R38 == <<{\hCD}, Alu("other", <<"Ib">>)>>
     R39 == <<{\hD0}, Group(Group_2_D0)>>
     R40 == <<{\hD1}, Group(Group_2_D1)>>
     R41 == <<{\hD2}, Group(Group_2_D2)>>
     R42 == <<{\hD3}, Group(Group_2_D3)>>
     R43 == <<{\hD6}, Alu("other", <<"r", "r", "r">>)>>
     R44 == <<{\hD7}, Alu("other", <<"r", "xlat">>)>>
     R45 == <<{\hD8}, Esc(ESC_0)>>
     R46 == <<{\hD9}, Esc(ESC_1)>>
     R47 == <<{\hDA}, Esc(ESC_2)>>
     R48 == <<{\hDB}, Esc(ESC_3)>>
     R49 == <<{\hDC}, Esc(ESC_4)>>
     R50 == <<{\hDD}, Esc(ESC_5)>>
     R51 == <<{\hDE}, Esc(ESC_6)>>
     R52 == <<{\hDF}, Esc(ESC_7)>>
     R53 == <<\hE0..\hE3, Alu("loopcc", <<"Jb">>)>>
     R54 == <<{\hE6, \hE7}, Alu("other", <<"Ib", "r">>)>>
     R55 == <<{\hE8}, Alu("call", <<"Jz">>)>>
     R56 == <<{\hE9}, Alu("branch", <<"Jz">>)>>
     R57 == <<{\hEA}, Alu("branch", <<"A">>)>>
     R58 == <<{\hEB}, Alu("branch", <<"Jb">>)>>
     R59 == <<{\hF0, \hF2, \hF3}, Prefix>>
     R60 == <<(\hF8..\hFD) \union {\hF5}, Alu("other", <<"r">>)>>
     R61 == <<{\hF6}, Group(Group_3_F6)>>
     R62 == <<{\hF7}, Group(Group_3_F7)>>
     R63 == <<{\hFE}, Group(Group_4)>>
     R64 == <<{\hFF}, Group(Group_5)>>
<1>1. Listed1(R1) /\ Listed1(R2) /\ Listed1(R3) /\ Listed1(R4) /\ Listed1(R5) /\ Listed1(R6) /\
      Listed1(R7) /\ Listed1(R8) /\ Listed1(R9) /\ Listed1(R10)
  BY Kinds, Forms DEF Listed1, F!LegacyPrefixes, ModRM_1
<1>2. Listed1(R11) /\ Listed1(R12) /\ Listed1(R13) /\ Listed1(R14) /\ Listed1(R15) /\
      Listed1(R16) /\ Listed1(R17) /\ Listed1(R18) /\ Listed1(R19) /\ Listed1(R20)
  BY Kinds, Forms DEF Listed1, F!LegacyPrefixes, ModRM_1
<1>3. Listed1(R21) /\ Listed1(R22) /\ Listed1(R23) /\ Listed1(R24) /\ Listed1(R25) /\
      Listed1(R26) /\ Listed1(R27) /\ Listed1(R28) /\ Listed1(R29) /\ Listed1(R30)
  BY Kinds, Forms DEF Listed1, F!LegacyPrefixes, ModRM_1
<1>4. Listed1(R31) /\ Listed1(R32) /\ Listed1(R33) /\ Listed1(R34) /\ Listed1(R35) /\
      Listed1(R36) /\ Listed1(R37) /\ Listed1(R38) /\ Listed1(R39) /\ Listed1(R40)
  BY Kinds, Forms DEF Listed1, F!LegacyPrefixes, ModRM_1
<1>5. Listed1(R41) /\ Listed1(R42) /\ Listed1(R43) /\ Listed1(R44) /\ Listed1(R45) /\
      Listed1(R46) /\ Listed1(R47) /\ Listed1(R48) /\ Listed1(R49) /\ Listed1(R50)
  BY Kinds, Forms DEF Listed1, F!LegacyPrefixes, ModRM_1
<1>6. Listed1(R51) /\ Listed1(R52) /\ Listed1(R53) /\ Listed1(R54) /\ Listed1(R55) /\
      Listed1(R56) /\ Listed1(R57) /\ Listed1(R58) /\ Listed1(R59) /\ Listed1(R60)
  BY Kinds, Forms DEF Listed1, F!LegacyPrefixes, ModRM_1
<1>7. Listed1(R61) /\ Listed1(R62) /\ Listed1(R63) /\ Listed1(R64)
  BY Kinds, Forms DEF Listed1, F!LegacyPrefixes, ModRM_1
<1>8. Opcodes_1_high = {R1, R2, R3, R4, R5, R6, R7, R8, R9, R10, R11, R12, R13, R14, R15, R16, R17,
       R18, R19, R20, R21, R22, R23, R24, R25, R26, R27, R28, R29, R30, R31, R32, R33, R34, R35,
       R36, R37, R38, R39, R40, R41, R42, R43, R44, R45, R46, R47, R48, R49, R50, R51, R52, R53,
       R54, R55, R56, R57, R58, R59, R60, R61, R62, R63, R64}
  BY DEF Opcodes_1_high
<1> HIDE DEF R1, R2, R3, R4, R5, R6, R7, R8, R9, R10, R11, R12, R13, R14, R15, R16, R17, R18, R19,
       R20, R21, R22, R23, R24, R25, R26, R27, R28, R29, R30, R31, R32, R33, R34, R35, R36, R37,
       R38, R39, R40, R41, R42, R43, R44, R45, R46, R47, R48, R49, R50, R51, R52, R53, R54, R55,
       R56, R57, R58, R59, R60, R61, R62, R63, R64
<1>. QED BY <1>1, <1>2, <1>3, <1>4, <1>5, <1>6, <1>7, <1>8

LEMMA Listed2Low == \A r \in Opcodes_2_low : Listed2(r)
<1> DEFINE
     R1 == <<{\h00}, Group(Group_6)>>
     R2 == <<{\h01}, ByModRM(T_0F01_ModRM)>>
     R3 == <<{\h02, \h03}, Alu("system", <<"G", "Es">>)>>
     R4 == <<{\h05}, Ext64(Opcode_0F05)>>
     R5 == <<{\h06}, Alu("system", <<"r">>)>>
     R6 == <<{\h07, \h0E}, Alu("other", <<"r">>)>>
     R7 == <<{\h08, \h09}, Alu("system", <<>>)>>
     R8 == <<{\h0B}, Alu("other", <<>>)>>
     R9 == <<{\h0D}, Group(Group_P)>>
     R10 == <<{\h0F}, Suffix(T_3DNOW_0F)>>
     R11 == <<(\h14..\h16) \union (\h51..\h5F) \union {\h10, \h12, \h28, \h2E, \h2F}, Simd(<<"V", "W">>)>>
     R12 == <<{\h11, \h29}, Simd(<<"W", "V">>)>>
     R13 == <<{\h13, \h17, \h2B}, Simd(<<"M", "V">>)>>
     R14 == <<{\h18}, Group(Group_17)>>
     R15 == <<{\h20}, Alu("mov", <<"R", "C">>)>>
     R16 == <<{\h21}, Alu("mov", <<"R", "D">>)>>
     R17 == <<{\h22}, Alu("mov", <<"C", "R">>)>>
     R18 == <<{\h23}, Alu("mov", <<"D", "R">>)>>
     R19 == <<{\h2A}, Simd(<<"V", "Q">>)>>
     R20 == <<{\h2C, \h2D}, Simd(<<"P", "W">>)>>
     R21 == <<\h30..\h32, Alu("system", <<"r", "r">>)>>
     R22 == <<{\h33}, Alu("other", <<"r", "r">>)>>
     R23 == <<{\h34, \h35}, Alu("other", <<"r", "r", "r">>)>>
     R24 == <<\h40..\h4F, Alu("other", <<"G", "Es">>)>>
     R25 == <<{\h50}, Simd(<<"G", "VR">>)>>
     R26 == <<(\h60..\h6B) \union (\h74..\h76) \union {\h6F}, Simd(<<"P", "Q">>)>>
     R27 == <<{\h6E}, Simd(<<"P", "Es">>)>>
     R28 == <<{\h70}, Simd(<<"P", "Q", "Ib">>)>>
     R29 == <<{\h71}, Group(Group_13)>>
     R30 == <<{\h72}, Group(Group_14)>>
     R31 == <<{\h73}, Group(Group_15)>>
     R32 == <<{\h77}, Simd(<<"r">>)>>
     R33 == <<{\h7E}, Simd(<<"E", "P">>)>>
     R34 == <<{\h7F}, Simd(<<"Q", "P">>)>>
<1>1. Listed2(R1) /\ Listed2(R2) /\ Listed2(R3) /\ Listed2(R4)
  BY Kinds, Forms DEF Listed2, Unlisted_2, Octets, ModRM_2
<1>2. Listed2(R5) /\ Listed2(R6) /\ Listed2(R7) /\ Listed2(R8)
  BY Kinds, Forms DEF Listed2, Unlisted_2, Octets, ModRM_2
<1>3. Listed2(R9) /\ Listed2(R10) /\ Listed2(R11) /\ Listed2(R12)
  BY Kinds, Forms DEF Listed2, Unlisted_2, Octets, ModRM_2
<1>4. Listed2(R13) /\ Listed2(R14) /\ Listed2(R15) /\ Listed2(R16)
  BY Kinds, Forms DEF Listed2, Unlisted_2, Octets, ModRM_2
<1>5. Listed2(R17) /\ Listed2(R18) /\ Listed2(R19) /\ Listed2(R20)
  BY Kinds, Forms DEF Listed2, Unlisted_2, Octets, ModRM_2
<1>6. Listed2(R21) /\ Listed2(R22) /\ Listed2(R23) /\ Listed2(R24)
  BY Kinds, Forms DEF Listed2, Unlisted_2, Octets, ModRM_2
<1>7. Listed2(R25) /\ Listed2(R26) /\ Listed2(R27) /\ Listed2(R28)
  BY Kinds, Forms DEF Listed2, Unlisted_2, Octets, ModRM_2
<1>8. Listed2(R29) /\ Listed2(R30) /\ Listed2(R31) /\ Listed2(R32)
  BY Kinds, Forms DEF Listed2, Unlisted_2, Octets, ModRM_2
<1>9. Listed2(R33) /\ Listed2(R34)
  BY Kinds, Forms DEF Listed2, Unlisted_2, Octets, ModRM_2
<1>10. Opcodes_2_low = {R1, R2, R3, R4, R5, R6, R7, R8, R9, R10, R11, R12, R13, R14, R15, R16, R17,
       R18, R19, R20, R21, R22, R23, R24, R25, R26, R27, R28, R29, R30, R31, R32, R33, R34}
  BY DEF Opcodes_2_low
<1> HIDE DEF R1, R2, R3, R4, R5, R6, R7, R8, R9, R10, R11, R12, R13, R14, R15, R16, R17, R18, R19,
       R20, R21, R22, R23, R24, R25, R26, R27, R28, R29, R30, R31, R32, R33, R34
<1>. QED BY <1>1, <1>2, <1>3, <1>4, <1>5, <1>6, <1>7, <1>8, <1>9, <1>10

LEMMA Listed2High == \A r \in Opcodes_2_high : Listed2(r)
<1> DEFINE
     R1 == <<\h80..\h8F, Alu("branchcc", <<"Jz">>)>>
     R2 == <<\h90..\h9F, Alu("other", <<"E", "r", "r">>)>>
     R3 == <<{\hA0, \hA1, \hA8, \hA9}, Alu("stack", <<"r">>)>>
     R4 == <<{\hA2}, Alu("other", <<"r", "r">>)>>
     R5 == <<{\hA3, \hAB, \hB3, \hBB}, Alu("other", <<"Es", "G">>)>>
     R6 == <<{\hA4, \hAC}, Alu("other", <<"E", "G", "Ib">>)>>
     R7 == <<{\hA5, \hAD}, Alu("other", <<"E", "G", "r">>)>>
     R8 == <<{\hAA}, Alu("system", <<>>)>>
     R9 == <<{\hAE}, Group(Group_16)>>
     R10 == <<{\hAF, \hBC, \hBD}, Alu("other", <<"G", "Es">>)>>
     R11 == <<{\hB0, \hB1}, Alu("other", <<"E", "r", "G">>)>>
     R12 == <<{\hB2, \hB4, \hB5}, Alu("mov", <<"G", "M">>)>>
     R13 == <<{\hB6, \hB7, \hBE, \hBF}, Alu("mov", <<"G", "Es">>)>>
     R14 == <<{\hB9}, Group(Group_11)>>
     R15 == <<{\hBA}, Group(Group_8)>>
     R16 == <<{\hC0, \hC1}, Alu("other", <<"E", "G">>)>>
     R17 == <<{\hC2, \hC6}, Simd(<<"V", "W", "Ib">>)>>
     R18 == <<{\hC3}, Simd(<<"M", "G">>)>>
     R19 == <<{\hC4}, Simd(<<"P", "Es", "Ib">>)>>
     R20 == <<{\hC5}, Simd(<<"G", "PR", "Ib">>)>>
     R21 == <<{\hC7}, Group(Group_9)>>
     R22 == <<\hC8..\hCF, Alu("other", <<"r">>)>>
     R23 == <<(\hD1..\hD5) \union (\hD8..\hE5) \union (\hE8..\hEF) \union (\hF1..\hF6) \union (\hF8..\hFE),
              Simd(<<"P", "Q">>)>>
     R24 == <<{\hD7}, Simd(<<"G", "PR">>)>>
     R25 == <<{\hE7}, Simd(<<"M", "P">>)>>
     R26 == <<{\hF7}, Simd(<<"P", "PR">>)>>
<1>1. Listed2(R1) /\ Listed2(R2) /\ Listed2(R3) /\ Listed2(R4)
  BY Kinds, Forms DEF Listed2, Unlisted_2, Octets, ModRM_2
<1>2. Listed2(R5) /\ Listed2(R6) /\ Listed2(R7) /\ Listed2(R8)
  BY Kinds, Forms DEF Listed2, Unlisted_2, Octets, ModRM_2
<1>3. Listed2(R9) /\ Listed2(R10) /\ Listed2(R11) /\ Listed2(R12)
  BY Kinds, Forms DEF Listed2, Unlisted_2, Octets, ModRM_2
<1>4. Listed2(R13) /\ Listed2(R14) /\ Listed2(R15) /\ Listed2(R16)
  BY Kinds, Forms DEF Listed2, Unlisted_2, Octets, ModRM_2
<1>5. Listed2(R17) /\ Listed2(R18) /\ Listed2(R19) /\ Listed2(R20)
  BY Kinds, Forms DEF Listed2, Unlisted_2, Octets, ModRM_2
<1>6. Listed2(R21) /\ Listed2(R22) /\ Listed2(R23) /\ Listed2(R24)
  BY Kinds, Forms DEF Listed2, Unlisted_2, Octets, ModRM_2
<1>7. Listed2(R25) /\ Listed2(R26)
  BY Kinds, Forms DEF Listed2, Unlisted_2, Octets, ModRM_2
<1>8. Opcodes_2_high = {R1, R2, R3, R4, R5, R6, R7, R8, R9, R10, R11, R12, R13, R14, R15, R16, R17,
       R18, R19, R20, R21, R22, R23, R24, R25, R26}
  BY DEF Opcodes_2_high
<1> HIDE DEF R1, R2, R3, R4, R5, R6, R7, R8, R9, R10, R11, R12, R13, R14, R15, R16, R17, R18, R19,
       R20, R21, R22, R23, R24, R25, R26
<1>. QED BY <1>1, <1>2, <1>3, <1>4, <1>5, <1>6, <1>7, <1>8

(* The instructions that 66, F2 and F3 make of the two-byte opcodes *)
SSEFits(r, f) == f.opcode \in r[1] => Fits(r[2], f)

(* The rows of the tables that 66, F2 and F3 select *)
LEMMA SSEEntries ==
  ASSUME NEW f, Sane(f), f.map = 2, NEW T \in {SSE_66, SSE_F2, SSE_F3}, f.opcode \in DOMAIN T
  PROVE  Fits(T[f.opcode], f)
<1>1. f.opcode \in Int
  BY DEF Sane, Octets
<1>8. f.opcode \in {\h6C, \h6D, \h7C, \h7D, \hD0, \hD6, \hF0} => ModRMBare(f)
  BY <1>1 DEF ModRMBare, F!HasModRM, F!RelativeBranch, F!Immediate8, F!ImmediateWord, NoImmediate
<1>2. ModRMBare(f) =>
        \A o \in {<<"E", "V">>, <<"G", "VR">>, <<"G", "W">>, <<"M", "V">>, <<"P", "VR">>, <<"P", "W">>,
                 <<"V", "Es">>, <<"V", "M">>, <<"V", "PR">>, <<"V", "Q">>, <<"V", "VR">>, <<"V", "W">>,
                 <<"W", "V">>} : Fits(Simd(o), f)
  <2>1. \A o \in {<<"E", "V">>, <<"G", "VR">>, <<"G", "W">>, <<"M", "V">>, <<"P", "VR">>, <<"P", "W">>,
                   <<"V", "Es">>, <<"V", "M">>, <<"V", "PR">>, <<"V", "Q">>, <<"V", "VR">>, <<"V", "W">>,
                   <<"W", "V">>} : o \in ModRMBareLists
    BY DEF ModRMBareLists
  <2>. QED BY <2>1, ShapedEntries
<1>3. ModRMByte(f) =>
        /\ \A o \in {<<"G", "VR", "Ib">>, <<"V", "Es", "Ib">>, <<"V", "W", "Ib">>} : Fits(Simd(o), f)
        /\ \A t \in {SSE2_Group_13, SSE2_Group_14, SSE2_Group_15} : Fits(Group(t), f)
  <2>1. \A o \in {<<"G", "VR", "Ib">>, <<"V", "Es", "Ib">>, <<"V", "W", "Ib">>} : o \in ModRMByteLists
    BY DEF ModRMByteLists
  <2>. QED BY <2>1, ShapedEntries, GroupEntries
<1>4. \A rows :
        (\A r \in rows : SSEFits(r, f)) /\ f.opcode \in DOMAIN Table(rows)
          => Fits(Table(rows)[f.opcode], f)
  BY Listed DEF SSEFits
<1>5. f.opcode \in DOMAIN SSE_66 => Fits(SSE_66[f.opcode], f)
  <2> DEFINE
       R1 == <<(\h54..\h6D) \union (\h74..\h76) \union (\hD0..\hD5) \union (\hD8..\hE6) \union (\hE8..\hEF)
                 \union (\hF1..\hF6) \union (\hF8..\hFE)
                 \union {\h10, \h14, \h15, \h28, \h2E, \h2F, \h51, \h6F, \h7C, \h7D, \h7F},
               Simd(<<"V", "W">>)>>
       R2 == <<{\h11, \h29, \hD6}, Simd(<<"W", "V">>)>>
       R3 == <<{\h12, \h16}, Simd(<<"V", "M">>)>>
       R4 == <<{\h13, \h17, \h2B, \hE7}, Simd(<<"M", "V">>)>>
       R5 == <<{\h2A}, Simd(<<"V", "Q">>)>>
       R6 == <<{\h2C, \h2D}, Simd(<<"P", "W">>)>>
       R7 == <<{\h50, \hD7}, Simd(<<"G", "VR">>)>>
       R8 == <<{\h6E}, Simd(<<"V", "Es">>)>>
       R9 == <<{\h70, \hC2, \hC6}, Simd(<<"V", "W", "Ib">>)>>
       R10 == <<{\h71}, Group(SSE2_Group_13)>>
       R11 == <<{\h72}, Group(SSE2_Group_14)>>
       R12 == <<{\h73}, Group(SSE2_Group_15)>>
       R13 == <<{\h7E}, Simd(<<"E", "V">>)>>
       R14 == <<{\hC4}, Simd(<<"V", "Es", "Ib">>)>>
       R15 == <<{\hC5}, Simd(<<"G", "VR", "Ib">>)>>
       R16 == <<{\hF7}, Simd(<<"V", "VR">>)>>
  <2>1. SSEFits(R1, f) /\ SSEFits(R2, f) /\ SSEFits(R3, f) /\ SSEFits(R4, f) /\ SSEFits(R5, f) /\
         SSEFits(R6, f) /\ SSEFits(R7, f) /\ SSEFits(R8, f) /\ SSEFits(R13, f) /\ SSEFits(R16, f)
    BY <1>1, <1>2, <1>8, Shapes2 DEF SSEFits, ModRMBare_2
  <2>2. SSEFits(R9, f) /\ SSEFits(R10, f) /\ SSEFits(R11, f) /\ SSEFits(R12, f) /\ SSEFits(R14, f)
         /\ SSEFits(R15, f)
    BY <1>1, <1>3, Shapes2 DEF SSEFits, ModRMByte_2
  <2>3. SSE_66 = Table({R1, R2, R3, R4, R5, R6, R7, R8, R9, R10, R11, R12, R13, R14, R15, R16})
    BY DEF SSE_66
  <2> HIDE DEF R1, R2, R3, R4, R5, R6, R7, R8, R9, R10, R11, R12, R13, R14, R15, R16
  <2>. QED BY <1>4, <2>1, <2>2, <2>3
<1>6. f.opcode \in DOMAIN SSE_F2 => Fits(SSE_F2[f.opcode], f)
  <2> DEFINE
       R1 == <<(\h58..\h5A) \union (\h5C..\h5F) \union {\h10, \h12, \h51, \h6F, \h7C, \h7D, \hD0, \hE6},
               Simd(<<"V", "W">>)>>
       R2 == <<{\h11}, Simd(<<"W", "V">>)>>
       R3 == <<{\h2A}, Simd(<<"V", "Es">>)>>
       R4 == <<{\h2C, \h2D}, Simd(<<"G", "W">>)>>
       R5 == <<{\h70, \hC2}, Simd(<<"V", "W", "Ib">>)>>
       R6 == <<{\hD6}, Simd(<<"P", "VR">>)>>
       R7 == <<{\hF0}, Simd(<<"V", "M">>)>>
  <2>1. SSEFits(R1, f) /\ SSEFits(R2, f) /\ SSEFits(R3, f) /\ SSEFits(R4, f) /\ SSEFits(R6, f) /\
         SSEFits(R7, f)
    BY <1>1, <1>2, <1>8, Shapes2 DEF SSEFits, ModRMBare_2
  <2>2. SSEFits(R5, f)
    BY <1>1, <1>3, Shapes2 DEF SSEFits, ModRMByte_2
  <2>3. SSE_F2 = Table({R1, R2, R3, R4, R5, R6, R7})
    BY DEF SSE_F2
  <2> HIDE DEF R1, R2, R3, R4, R5, R6, R7
  <2>. QED BY <1>4, <2>1, <2>2, <2>3
<1>7. f.opcode \in DOMAIN SSE_F3 => Fits(SSE_F3[f.opcode], f)
  <2> DEFINE
       R1 == <<(\h51..\h53) \union (\h58..\h5F) \union {\h10, \h12, \h16, \h6F, \h7E, \hE6},
               Simd(<<"V", "W">>)>>
       R2 == <<{\h11, \h7F}, Simd(<<"W", "V">>)>>
       R3 == <<{\h2A}, Simd(<<"V", "Es">>)>>
       R4 == <<{\h2C, \h2D}, Simd(<<"G", "W">>)>>
       R5 == <<{\h70, \hC2}, Simd(<<"V", "W", "Ib">>)>>
       R6 == <<{\hD6}, Simd(<<"V", "PR">>)>>
  <2>1. SSEFits(R1, f) /\ SSEFits(R2, f) /\ SSEFits(R3, f) /\ SSEFits(R4, f) /\ SSEFits(R6, f)
    BY <1>1, <1>2, <1>8, Shapes2 DEF SSEFits, ModRMBare_2
  <2>2. SSEFits(R5, f)
    BY <1>1, <1>3, Shapes2 DEF SSEFits, ModRMByte_2
  <2>3. SSE_F3 = Table({R1, R2, R3, R4, R5, R6})
    BY DEF SSE_F3
  <2> HIDE DEF R1, R2, R3, R4, R5, R6
  <2>. QED BY <1>4, <2>1, <2>2, <2>3
<1>. QED BY <1>5, <1>6, <1>7

(* What the opcodes lead to. *)
LEMMA OneByteFits ==
  ASSUME NEW f, Sane(f), f.map = 1, f.opcode # \h0F,
         f.opcode \in DOMAIN Opcodes_1, Opcodes_1[f.opcode].is # "prefix"
  PROVE  Fits(Opcodes_1[f.opcode], f)
<1>1. PICK r \in Opcodes_1_low \union Opcodes_1_high : f.opcode \in r[1] /\ Opcodes_1[f.opcode] = r[2]
  BY Listed DEF Opcodes_1
<1>2. OpcodeFits(r, f)
  BY <1>1, Low1, High1
<1>. QED BY <1>1, <1>2, Kinds DEF OpcodeFits, MisreadGroup

LEMMA TwoByteFits ==
  ASSUME NEW f, Sane(f), f.map = 2, f.opcode \in DOMAIN Opcodes_2, Opcodes_2[f.opcode].is # "suffix"
  PROVE  \/ Fits(Opcodes_2[f.opcode], f)
         \/ MisreadGroup(f) /\ Harmless(Opcodes_2[f.opcode])
<1>1. PICK r \in Opcodes_2_low \union Opcodes_2_high : f.opcode \in r[1] /\ Opcodes_2[f.opcode] = r[2]
  BY Listed DEF Opcodes_2
<1>2. OpcodeFits(r, f)
  BY <1>1, Low2, High2
<1>3. r[2].is # "prefix"
  BY <1>1, Leading, Kinds, OthersGood DEF Sound, GoodRow
<1>. QED BY <1>1, <1>2, <1>3, Kinds DEF OpcodeFits

(* Where the decoder reads a byte ModRM the manuals have one. *)
LEMMA ModRMFollows ==
  ASSUME NEW f, Sane(f)
  PROVE  /\ f.map = 1 => (f.opcode \in ModRM_1 <=> F!HasModRM(f))
         /\ f.map = 2 /\ f.opcode \in DOMAIN Opcodes_2 /\ f.opcode # \hB9 =>
              (f.opcode \in ModRM_2 <=> F!HasModRM(f))
<1>1. f.opcode \in 0..255
  BY DEF Sane, Octets
<1>2. f.map = 1 => (f.opcode \in ModRM_1 <=> F!HasModRM(f))
  BY <1>1 DEF ModRM_1, F!HasModRM
<1>3. f.opcode \in DOMAIN Opcodes_2 => f.opcode \notin Unlisted_2
  BY Listed, Listed2Low, Listed2High DEF Opcodes_2, Listed2
<1>4. f.map = 2 /\ f.opcode \notin Unlisted_2 /\ f.opcode # \hB9 =>
        (f.opcode \in ModRM_2 <=> F!HasModRM(f))
  BY <1>1 DEF ModRM_2, F!HasModRM, Unlisted_2
<1>. QED BY <1>2, <1>3, <1>4

(* The suffix of 3DNow!, inc and dec of one byte *)
LEMMA SuffixIs0F == ASSUME NEW b \in DOMAIN Opcodes_2, Opcodes_2[b].is = "suffix" PROVE b = \h0F
BY Listed, Listed2Low, Listed2High DEF Opcodes_2, Listed2

LEMMA IncAndDec ==
  ASSUME NEW b \in DOMAIN Opcodes_1, b \in \h40..\h4F
  PROVE  Opcodes_1[b].is = "instr" /\ Opcodes_1[b].type = "other"
BY Listed, Listed1Low, Listed1High DEF Opcodes_1, Listed1

(* An entry that depends on ModRM is one of an opcode with ModRM. *)
LEMMA ByModRMOnly ==
  /\ \A b \in DOMAIN Opcodes_1 : Opcodes_1[b].is \in {"group", "fpu", "modrm"} => b \in ModRM_1 \union {\h0F}
  /\ \A b \in DOMAIN Opcodes_2 : Opcodes_2[b].is \in {"group", "fpu", "modrm"} => b \in ModRM_2 \union {\hB9}
<1>1. \A r \in Opcodes_1_low \union Opcodes_1_high :
        r[2].is \in {"group", "fpu", "modrm"} => \A b \in r[1] : b \in ModRM_1 \union {\h0F}
  BY Listed1Low, Listed1High DEF Listed1
<1>2. \A r \in Opcodes_2_low \union Opcodes_2_high :
        r[2].is \in {"group", "fpu", "modrm"} => \A b \in r[1] : b \in ModRM_2 \union {\hB9}
  BY Listed2Low, Listed2High DEF Listed2
<1>. QED BY <1>1, <1>2, Listed DEF Opcodes_1, Opcodes_2

(* What the table has as prefixes are the legacy prefixes of the manuals. *)
LEMMA PrefixesAre == ASSUME NEW b PROVE IsPrefix(b) <=> b \in F!LegacyPrefixes
<1>1. \A r \in Opcodes_1_low \union Opcodes_1_high :
        \A c \in r[1] : c \in F!LegacyPrefixes <=> r[2].is = "prefix"
  BY Listed1Low, Listed1High DEF Listed1
<1>2. b \in DOMAIN Opcodes_1 => (Opcodes_1[b].is = "prefix" <=> b \in F!LegacyPrefixes)
  BY <1>1, Listed DEF Opcodes_1
<1>3. /\ <<(\h64..\h67) \union {\h26, \h2E, \h36, \h3E}, Prefix>> \in Opcodes_1_low
      /\ <<{\hF0, \hF2, \hF3}, Prefix>> \in Opcodes_1_high
  BY DEF Opcodes_1_low, Opcodes_1_high
<1>4. \A rows : \A S, e : <<S, e>> \in rows => S \subseteq DOMAIN Table(rows)
  BY DEF Table
<1>5. F!LegacyPrefixes \subseteq DOMAIN Opcodes_1
  BY <1>3, <1>4 DEF Opcodes_1, F!LegacyPrefixes
<1>. QED BY <1>2, <1>5 DEF IsPrefix, Entry

-------------------------------------------------------------------------------
(* The prefixes *)

(* The prefixes end before the first byte that is none. *)
LEMMA PrefixCountIs ==
  ASSUME NEW n \in 0 .. Len(text), Len(text) \in Nat,
         \A i \in 1 .. n : F!PrefixByte(mode, text[i]),
         n < Len(text) => ~F!PrefixByte(mode, text[n + 1])
  PROVE  F!PrefixCount(mode, text) = n
<1> DEFINE Counts(m) == /\ \A i \in 1 .. m : F!PrefixByte(mode, text[i])
                        /\ m < Len(text) => ~F!PrefixByte(mode, text[m + 1])
           c == CHOOSE m \in 0 .. Len(text) : Counts(m)
<1>1. F!PrefixCount(mode, text) = c
  BY DEF F!PrefixCount
<1>2. n \in 0 .. Len(text) /\ Counts(n)
  OBVIOUS
<1>3. c \in 0 .. Len(text) /\ Counts(c)
  <2> HIDE DEF Counts
  <2>. QED BY <1>2
<1>4. \A m, k \in 0 .. Len(text) : Counts(m) /\ Counts(k) => ~(m < k)
  <2> SUFFICES ASSUME NEW m \in 0 .. Len(text), NEW k \in 0 .. Len(text), Counts(m), Counts(k), m < k
               PROVE  FALSE
    OBVIOUS
  <2>1. m + 1 \in 1 .. k /\ m < Len(text)
    OBVIOUS
  <2>. QED BY <2>1
<1> HIDE DEF Counts, c
<1>. QED BY <1>1, <1>2, <1>3, <1>4

(* One byte more is read, and it is a prefix. *)
LEMMA PrefixRead ==
  ASSUME DecoderInv, IsaInv, stage = "prefixes", F!PrefixByte(mode, this), mode' = mode, text' = text,
         ins'.len = ins.len + 1, ins'.at = ins.at + 1, ins'.ipRel = ins.ipRel
  PROVE  /\ ins'.at = ins'.len /\ ins'.len <= Len(text') /\ ins'.len > 0
         /\ \A i \in 1 .. ins'.len : F!PrefixByte(mode', text'[i])
         /\ Seen' = Seen \union {this} /\ text'[ins'.len] = this /\ ins'.ipRel = {}
         /\ this' = Byte(ins.at + 2)
<1>1. PrefixesRead /\ ins.len \in Nat /\ ins.at = ins.len /\ GivenOK
  BY Numbers DEF IsaInv, Opening, PrefixesRead, DecoderInv
<1>2. this # 0
  BY DEF F!PrefixByte, F!LegacyPrefixes
<1>3. Len(text) \in Nat
  BY <1>1 DEF GivenOK
<1>4. ins.len + 1 <= Len(text) /\ text[ins.len + 1] = this
  BY <1>1, <1>2, <1>3 DEF this, Byte
<1>5. \A i \in 1 .. ins.len + 1 : F!PrefixByte(mode, text[i])
  BY <1>1, <1>4 DEF PrefixesRead
<1>6. Seen' = Seen \union {this}
  <2>1. Seen' = {text[i] : i \in 1 .. ins.len + 1}
    BY DEF Seen
  <2>2. 1 .. ins.len + 1 = (1 .. ins.len) \union {ins.len + 1}
    BY <1>1
  <2>. QED BY <1>4, <2>1, <2>2 DEF Seen
<1>7. this' = Byte(ins.at + 2)
  BY <1>1 DEF this, Byte
<1>. QED BY <1>1, <1>4, <1>5, <1>6, <1>7 DEF PrefixesRead

(* What the flags and the stage have to be for PrefixesRead to go on holding *)
LEMMA PrefixKept ==
  ASSUME DecoderInv, IsaInv, stage = "prefixes", stage' = "prefixes", F!PrefixByte(mode, this),
         mode' = mode, text' = text,
         ins'.len = ins.len + 1, ins'.at = ins.at + 1, ins'.ipRel = ins.ipRel, ins'.w = ins.w,
         ins'.addrSizePrefix <=> ins.addrSizePrefix \/ this = \h67,
         ins'.opSizePrefix <=> ins.opSizePrefix \/ this = \h66,
         IsRex(this) => IsPrefix(Byte(ins.at + 2))
  PROVE  IsaInv'
<1>1. PrefixesRead /\ ~ins.w
  BY DEF IsaInv, Opening, PrefixesRead
<1>2. PrefixesRead'
  BY <1>1, PrefixRead DEF PrefixesRead, IsRex, IsPrefix
<1>. QED BY <1>2 DEF IsaInv, Done

(* Nothing is claimed of what is rejected. *)
LEMMA RejectedToo == ASSUME Reject PROVE IsaInv'
BY DEF Reject, IsaInv, Opening, Done

(* A rex prefix before another prefix is passed over. *)
LEMMA MisplacedRexRead == DecoderInv /\ IsaInv /\ MisplacedRex => IsaInv'
<1> SUFFICES ASSUME DecoderInv, IsaInv, MisplacedRex PROVE IsaInv'
  OBVIOUS
<1>1. /\ Agree(ins, ins', {"len", "at", "anomaly"})
      /\ ins'.len = ins.len + 1 /\ ins'.at = ins.at + 1
  BY Advanced DEF MisplacedRex, DecoderInv, Agree, Fields
<1>2. /\ stage = "prefixes" /\ stage' = "prefixes" /\ mode' = mode /\ text' = text
      /\ mode = "x64" /\ this \in \h40..\h4F /\ IsPrefix(Byte(ins.at + 2))
  BY DEF MisplacedRex, given, Misplaced, IsRex
<1>3. /\ ins'.ipRel = ins.ipRel /\ ins'.w = ins.w /\ ins'.addrSizePrefix = ins.addrSizePrefix
      /\ ins'.opSizePrefix = ins.opSizePrefix
  BY <1>1 DEF Agree, Fields
<1>4. this # \h66 /\ this # \h67 /\ F!PrefixByte(mode, this)
  BY <1>2 DEF F!PrefixByte
<1>. QED BY <1>1, <1>2, <1>3, <1>4, PrefixKept

(* A prefix is taken, and its effect on the flags is what i has. *)
LEMMA PrefixTakenRead ==
  ASSUME DecoderInv, IsaInv, NEW p \in F!LegacyPrefixes, NEW conflict, NEW i,
         DOMAIN i = Fields, i.len = ins.len, i.at = ins.at, i.ipRel = ins.ipRel, i.w = ins.w,
         i.addrSizePrefix <=> ins.addrSizePrefix \/ p = \h67,
         i.opSizePrefix <=> ins.opSizePrefix \/ p = \h66,
         TakePrefix(p, conflict, i)
  PROVE  IsaInv'
<1>1. CASE Reject
  BY <1>1, RejectedToo
<1>2. CASE ~Reject
  <2>1. /\ stage = "prefixes" /\ stage' = stage /\ mode' = mode /\ text' = text /\ this = p
        /\ ins' = [Advance(i, 1) EXCEPT
                     !.anomaly = \/ @ \/ conflict
                                 \/ \E n \in DOMAIN ins.prefixes : ins.prefixes[n] = p
                                 \/ Len(ins.prefixes) = MaxPrefixes,
                     !.prefixes = Append(@, p)]
    BY <1>2 DEF TakePrefix, given
  <2>2. DOMAIN Advance(i, 1) = Fields
    BY Advanced DEF Agree
  <2>3. Agree(Advance(i, 1), ins', {"anomaly", "prefixes"})
    BY <2>1, <2>2 DEF Agree, Fields
  <2>4. /\ Agree(i, ins', {"len", "at", "anomaly", "prefixes"})
        /\ ins'.len = i.len + 1 /\ ins'.at = i.at + 1
    BY <2>2, <2>3, Advanced DEF Agree, Fields
  <2>5. /\ ins'.ipRel = ins.ipRel /\ ins'.w = ins.w /\ ins'.addrSizePrefix = i.addrSizePrefix
        /\ ins'.opSizePrefix = i.opSizePrefix
    BY <2>4 DEF Agree, Fields
  <2>6. F!PrefixByte(mode, this) /\ ~IsRex(this)
    BY <2>1 DEF F!PrefixByte, F!LegacyPrefixes, IsRex
  <2>. QED BY <2>1, <2>4, <2>5, <2>6, PrefixKept
<1>. QED BY <1>1, <1>2

(* Each legacy prefix leaves the flags that the manuals make of it. *)
LEMMA LegacyPrefixRead ==
  ASSUME DecoderInv, IsaInv,
         RepeatPrefix \/ OperandSizePrefix \/ AddressSizePrefix \/ SegmentPrefix \/ LockPrefix
  PROVE  IsaInv'
<1>1. DOMAIN ins = Fields
  BY DEF DecoderInv
<1>2. CASE RepeatPrefix
  <2>1. PICK p \in {\hF2, \hF3} :
          TakePrefix(p, ins.rep \notin {0, p}, [ins EXCEPT !.sse = p, !.rep = p])
    BY <1>2 DEF RepeatPrefix
  <2> DEFINE i == [ins EXCEPT !.sse = p, !.rep = p]
  <2>2. /\ DOMAIN i = Fields /\ i.len = ins.len /\ i.at = ins.at /\ i.ipRel = ins.ipRel /\ i.w = ins.w
        /\ i.addrSizePrefix = ins.addrSizePrefix /\ i.opSizePrefix = ins.opSizePrefix
    BY <1>1 DEF Fields
  <2>3. p \in F!LegacyPrefixes /\ p # \h66 /\ p # \h67
    BY DEF F!LegacyPrefixes
  <2>4. TakePrefix(p, ins.rep \notin {0, p}, i)
    BY <2>1
  <2> HIDE DEF i
  <2>. QED BY <2>2, <2>3, <2>4, PrefixTakenRead
<1>3. CASE OperandSizePrefix
  <2> DEFINE i == [ins EXCEPT !.sse = \h66, !.opSizePrefix = TRUE,
                             !.opSize = IF ins.opSizePrefix THEN @ ELSE 6 - @]
  <2>1. TakePrefix(\h66, ins.opSizePrefix, i)
    BY <1>3 DEF OperandSizePrefix
  <2>2. /\ DOMAIN i = Fields /\ i.len = ins.len /\ i.at = ins.at /\ i.ipRel = ins.ipRel /\ i.w = ins.w
        /\ i.addrSizePrefix = ins.addrSizePrefix /\ i.opSizePrefix = TRUE
    BY <1>1 DEF Fields
  <2>3. \h66 \in F!LegacyPrefixes
    BY DEF F!LegacyPrefixes
  <2> HIDE DEF i
  <2>. QED BY <2>1, <2>2, <2>3, PrefixTakenRead
<1>4. CASE AddressSizePrefix
  <2> DEFINE i == [ins EXCEPT !.addrSizePrefix = TRUE,
                             !.addrSize = IF ins.addrSizePrefix THEN @ ELSE @ \div 2]
  <2>1. TakePrefix(\h67, ins.addrSizePrefix, i)
    BY <1>4 DEF AddressSizePrefix
  <2>2. /\ DOMAIN i = Fields /\ i.len = ins.len /\ i.at = ins.at /\ i.ipRel = ins.ipRel /\ i.w = ins.w
        /\ i.addrSizePrefix = TRUE /\ i.opSizePrefix = ins.opSizePrefix
    BY <1>1 DEF Fields
  <2>3. \h67 \in F!LegacyPrefixes
    BY DEF F!LegacyPrefixes
  <2> HIDE DEF i
  <2>. QED BY <2>1, <2>2, <2>3, PrefixTakenRead
<1>5. CASE SegmentPrefix
  <2>1. PICK p \in {\h26, \h2E, \h36, \h3E, \h64, \h65} :
          LET meant == mode = "x86" \/ p \in {\h64, \h65} IN
          TakePrefix(p, ins.segment \/ ~meant, [ins EXCEPT !.segment = @ \/ meant])
    BY <1>5 DEF SegmentPrefix
  <2> DEFINE meant == mode = "x86" \/ p \in {\h64, \h65}
             i == [ins EXCEPT !.segment = @ \/ meant]
  <2>2. /\ DOMAIN i = Fields /\ i.len = ins.len /\ i.at = ins.at /\ i.ipRel = ins.ipRel /\ i.w = ins.w
        /\ i.addrSizePrefix = ins.addrSizePrefix /\ i.opSizePrefix = ins.opSizePrefix
    BY <1>1 DEF Fields
  <2>3. p \in F!LegacyPrefixes /\ p # \h66 /\ p # \h67
    BY DEF F!LegacyPrefixes
  <2>4. TakePrefix(p, ins.segment \/ ~meant, i)
    BY <2>1
  <2> HIDE DEF i, meant
  <2>. QED BY <2>2, <2>3, <2>4, PrefixTakenRead
<1>6. CASE LockPrefix
  <2> DEFINE i == [ins EXCEPT !.lock = TRUE]
  <2>1. TakePrefix(\hF0, ins.lock, i)
    BY <1>6 DEF LockPrefix
  <2>2. /\ DOMAIN i = Fields /\ i.len = ins.len /\ i.at = ins.at /\ i.ipRel = ins.ipRel /\ i.w = ins.w
        /\ i.addrSizePrefix = ins.addrSizePrefix /\ i.opSizePrefix = ins.opSizePrefix
    BY <1>1 DEF Fields
  <2>3. \hF0 \in F!LegacyPrefixes
    BY DEF F!LegacyPrefixes
  <2> HIDE DEF i
  <2>. QED BY <2>1, <2>2, <2>3, PrefixTakenRead
<1>. QED BY <1>2, <1>3, <1>4, <1>5, <1>6

(* The last rex prefix makes the size, and the opcode follows. *)
LEMMA RexPrefixRead == DecoderInv /\ IsaInv /\ RexPrefix => IsaInv'
<1> SUFFICES ASSUME DecoderInv, IsaInv, RexPrefix PROVE IsaInv'
  OBVIOUS
<1>1. CASE Reject
  BY <1>1, RejectedToo
<1>2. CASE ~Reject
  <2> DEFINE w == this % 16 >= 8
  <2>1. /\ ins' = [Advance(ins, 1) EXCEPT
                     !.prefixes = Append(@, this),
                     !.anomaly = \/ @ \/ Len(ins.prefixes) = MaxPrefixes64
                                 \/ (this = \h40 /\ ~ins.opSizePrefix),
                     !.w = w, !.r = (this \div 4) % 2 = 1, !.b = this % 2 = 1,
                     !.opSize = IF w THEN 8 ELSE @,
                     !.opSizePrefix = @ /\ ~w]
        /\ stage = "prefixes" /\ stage' = "opcode" /\ mode' = mode /\ text' = text
        /\ mode = "x64" /\ this \in \h40..\h4F
    BY <1>2 DEF RexPrefix, given, IsRex
  <2>2. /\ DOMAIN Advance(ins, 1) = Fields /\ Advance(ins, 1).len = ins.len + 1
        /\ Advance(ins, 1).at = ins.at + 1 /\ Agree(ins, Advance(ins, 1), {"len", "at"})
    BY Advanced DEF Agree, DecoderInv
  <2>3. /\ ins'.len = Advance(ins, 1).len /\ ins'.at = Advance(ins, 1).at
        /\ ins'.ipRel = Advance(ins, 1).ipRel /\ ins'.addrSizePrefix = Advance(ins, 1).addrSizePrefix
        /\ ins'.w = w /\ ins'.opSizePrefix = (Advance(ins, 1).opSizePrefix /\ ~w)
    BY <2>1, <2>2 DEF Fields
  <2>4. /\ Advance(ins, 1).ipRel = ins.ipRel /\ Advance(ins, 1).addrSizePrefix = ins.addrSizePrefix
        /\ Advance(ins, 1).opSizePrefix = ins.opSizePrefix
    BY <2>2 DEF Agree, Fields
  <2>5. w <=> this >= \h48
    BY <2>1
  <2>6. F!PrefixByte(mode, this) /\ this # \h66 /\ this # \h67
    BY <2>1 DEF F!PrefixByte
  <2>7. PrefixesRead /\ ~ins.w
    BY <2>1 DEF IsaInv, Opening, PrefixesRead
  <2> HIDE DEF w
  <2>13. /\ ins'.w <=> this >= \h48
         /\ ~ins'.w => (ins'.opSizePrefix <=> ins.opSizePrefix)
    BY <2>3, <2>4, <2>5, Zenon
  <2>8. /\ ins'.at = ins'.len /\ ins'.len <= Len(text') /\ ins'.len > 0
        /\ \A i \in 1 .. ins'.len : F!PrefixByte(mode', text'[i])
        /\ Seen' = Seen \union {this} /\ text'[ins'.len] = this /\ ins'.ipRel = {}
    BY <2>1, <2>2, <2>3, <2>4, <2>6, PrefixRead
  <2>9. IsRex(text[ins.len])'
    BY <2>1, <2>8 DEF IsRex
  <2>10. ins'.w <=> text'[ins'.len] >= \h48
    BY <2>8, <2>13, Zenon
  <2>11. /\ \h67 \in Seen' <=> ins'.addrSizePrefix
         /\ ~ins'.w => (\h66 \in Seen' <=> ins'.opSizePrefix)
    <3>1. /\ \h67 \in Seen' <=> \h67 \in Seen
          /\ \h66 \in Seen' <=> \h66 \in Seen
      BY <2>6, <2>8
    <3>2. /\ \h67 \in Seen <=> ins.addrSizePrefix
          /\ \h66 \in Seen <=> ins.opSizePrefix
      BY <2>7 DEF PrefixesRead
    <3>. QED BY <2>3, <2>4, <2>13, <3>1, <3>2, Zenon
  <2>12. PrefixesRead'
    BY <2>1, <2>8, <2>9, <2>10, <2>11 DEF PrefixesRead
  <2>. QED BY <2>1, <2>12 DEF IsaInv, Done
<1>. QED BY <1>1, <1>2

-------------------------------------------------------------------------------
(* The fields of the instruction, once the prefixes are read *)

(* At the opcode, the decoder stands where the manuals have it, and with their sizes. *)
LEMMA Reading ==
  ASSUME DecoderInv, IsaInv, AtOpcode, ~IsRex(this)
  PROVE  /\ manual.map = IF this = \h0F THEN 2 ELSE 1
         /\ manual.opcode = IF this = \h0F THEN second ELSE this
         /\ manual.modrmAt = ins.len + (IF this = \h0F THEN 3 ELSE 2)
         /\ manual.addr = ins.addrSize /\ manual.size = ins.opSize
         /\ ins.opSizePrefix <=> manual.size = 2
         /\ ins.at = ins.len /\ ins.len \in Nat
<1>1. /\ OpeningOK /\ ~IsPrefix(this) /\ ins.len \in Nat /\ ins.at \in Nat
      /\ stage \in {"prefixes", "opcode"} /\ PrefixesRead /\ GivenOK
  BY AtOpcodeFacts DEF AtOpcode, IsaInv, Opening, DecoderInv
<1>2. Len(text) \in Nat /\ ins.at = ins.len /\ ins.len \in 0 .. Len(text)
  BY <1>1 DEF GivenOK, PrefixesRead
<1>3. ~F!PrefixByte(mode, this)
  BY <1>1, PrefixesAre DEF F!PrefixByte, IsRex
<1>4. F!PrefixCount(mode, text) = ins.len
  <2>1. ins.len < Len(text) => text[ins.len + 1] = this
    BY <1>2 DEF this, Byte
  <2>. QED BY <1>1, <1>2, <1>3, <2>1, PrefixCountIs DEF PrefixesRead
<1>5. \A i : F!At(text, i) = Byte(i)
  BY DEF F!At, Byte
<1>6. F!At(text, ins.len + 1) = this /\ F!At(text, ins.len + 2) = second
  BY <1>2, <1>5 DEF this, second
<1> DEFINE rex == IF mode = "x64" /\ ins.len > 0 /\ text[ins.len] \in \h40..\h4F THEN text[ins.len] ELSE 0
<1>7. /\ manual.map = IF this = \h0F THEN 2 ELSE 1
      /\ manual.opcode = IF this = \h0F THEN second ELSE this
      /\ manual.modrmAt = ins.len + (IF this = \h0F THEN 3 ELSE 2)
      /\ manual.size = IF rex >= \h48 THEN 8 ELSE IF \h66 \in Seen THEN 2 ELSE 4
      /\ manual.addr = IF mode = "x64" THEN (IF \h67 \in Seen THEN 4 ELSE 8)
                       ELSE IF \h67 \in Seen THEN 2 ELSE 4
  BY <1>4, <1>6 DEF manual, F!Fields, Seen
<1>8. rex >= \h48 <=> ins.w
  <2>1. CASE stage = "prefixes"
    <3>1. rex = 0 /\ ~ins.w
      BY <1>1, <2>1 DEF PrefixesRead, IsRex
    <3>. QED BY <3>1
  <2>2. CASE stage = "opcode"
    BY <1>1, <2>2 DEF PrefixesRead, IsRex
  <2>. QED BY <1>1, <2>1, <2>2
<1> HIDE DEF rex
<1>9. manual.size = ins.opSize /\ (ins.opSizePrefix <=> manual.size = 2)
  BY <1>1, <1>7, <1>8 DEF OpeningOK, PrefixesRead
<1>10. manual.addr = ins.addrSize
  BY <1>1, <1>7 DEF OpeningOK, PrefixesRead, Wide
<1>. QED BY <1>2, <1>7, <1>9, <1>10

(* ModRM and SIB are the bytes of the text that lie there. *)
LEMMA ManualModRM == manual.modrm = Byte(manual.modrmAt) /\ manual.sib = Byte(manual.modrmAt + 1)
<1>1. \A i : F!At(text, i) = Byte(i)
  BY DEF F!At, Byte
<1>. QED BY <1>1 DEF manual, F!Fields

(* The fields of the manuals are in their ranges. *)
LEMMA ManualSane ==
  ASSUME DecoderInv, IsaInv, AtOpcode, ~IsRex(this)
  PROVE  Sane(manual)
<1>1. /\ ins.len \in Nat /\ ins.at \in Nat /\ GivenOK
      /\ ins.opSize \in {2, 4, 8} /\ ins.addrSize \in {2, 4, 8}
  BY Numbers DEF DecoderInv
<1>2. this \in Octets /\ second \in Octets
  BY <1>1, Bytes, SecondByte DEF this
<1>3. manual.modrmAt \in Nat \ {0} /\ manual.modrmAt + 1 \in Nat \ {0}
  BY <1>1, Reading
<1>4. manual.modrm \in Octets /\ manual.sib \in Octets
  BY <1>1, <1>3, ManualModRM, Bytes
<1>5. manual.size = 8 => manual.modrmAt >= 3
  <2>1. ins.opSize = 8 => stage = "opcode"
    BY DEF AtOpcode, DecoderInv, StagesOK, Opening, OpeningOK
  <2>2. stage = "opcode" => ins.len > 0
    BY DEF IsaInv, Opening, PrefixesRead
  <2>. QED BY <1>1, <2>1, <2>2, Reading
<1>. QED BY <1>1, <1>2, <1>3, <1>4, <1>5, Reading DEF Sane

-------------------------------------------------------------------------------
(* The opcode *)

(* The length in the manuals is the sum of these parts. *)
LEMMA ManualLength ==
  F!InstructionLength(mode, text) =
    manual.modrmAt - 1 + (IF F!HasModRM(manual) THEN 1 ELSE 0) + (IF F!SIBPresent(manual) THEN 1 ELSE 0)
      + F!DisplacementBytes(manual) + F!ImmediateBytes(manual)
BY DEF F!InstructionLength, manual

LEMMA PartsNatural ==
  ASSUME NEW f, Sane(f)
  PROVE  F!DisplacementBytes(f) \in Nat /\ F!ImmediateBytes(f) \in Nat /\ F!WordBytes(f) \in {2, 4}
<1>1. F!DisplacementBytes(f) \in Nat /\ F!WordBytes(f) \in {2, 4}
  BY DEF F!DisplacementBytes, F!WordBytes
<1>2. \/ F!Immediate8(f) \/ WordImmediate(f) \/ NoImmediate(f)
      \/ OtherImmediate(f) /\ f.opcode \in Others_1
  BY DEF WordImmediate, NoImmediate, OtherImmediate
<1>3. F!ImmediateBytes(f) \in Nat
  BY <1>1, <1>2, Immediates DEF Others_1, Sane
<1>. QED BY <1>1, <1>3

(* An operand that mod and rm encode is in every list that ModRM encodes. *)
LEMMA SomeAddressing ==
  \A o \in ModRMLists : \E n \in DOMAIN o : n >= 1 /\ o[n] \in Addressing
<1>1. \A o \in ModRMLists : Len(o) \in 1 .. 3 /\ \E n \in 1 .. Len(o) : o[n] \in Addressing
  BY DEF ModRMLists, Addressing
<1>. QED BY <1>1, Lengths DEF Lists

(* The row that is found is as the manuals have the instruction, and ins stands behind the opcode. *)
LEMMA OpcodeMatched ==
  ASSUME DecoderInv, IsaInv, AtOpcode, ~IsRex(this), NEW row, RowFits(row, manual),
         NEW n \in {1, 2}, n = IF this = \h0F THEN 2 ELSE 1,
         NEW p \in {0, 1}, p = IF row.ops = <<>> /\ F!HasModRM(manual) THEN 1 ELSE 0,
         mode' = mode, text' = text, stage' = "checks", ins'.row = row, ins'.operand = 1,
         ins'.ipRel = ins.ipRel, ins'.addrSize = ins.addrSize,
         ins'.len = ins.len + n + p, ins'.at = ins.at + n + p,
         ins'.hasModRM <=> F!HasModRM(manual),
         ins'.hasModRM => ins'.modrm = manual.modrm,
         row.ops \in Sized \/ Movable(row) =>
           ins'.opSize = ins.opSize /\ (ins'.opSizePrefix <=> ins.opSizePrefix)
  PROVE  IsaInv'
<1>1. manual' = manual
  BY DEF manual
<1>2. Sane(manual) /\ ins.len \in Nat /\ ins.at = ins.len /\ manual.modrmAt = ins.len + n + 1
  BY ManualSane, Reading
<1>3. /\ manual.addr = ins.addrSize /\ manual.size = ins.opSize
      /\ ins.opSizePrefix <=> manual.size = 2
  BY Reading
<1>4. ins.ipRel = {}
  BY DEF IsaInv, AtOpcode, Opening, PrefixesRead
<1>5. F!HasModRM(manual) /\ F!mod(manual) # 3 => row.ops \in ModRMLists
  BY DEF RowFits, Lists
<1>6. F!RipRelative(mode, manual) => \E m \in DOMAIN row.ops : m >= 1 /\ row.ops[m] \in Addressing
  BY <1>5, SomeAddressing DEF F!RipRelative
<1>7. Marked'
  BY <1>1, <1>4, <1>6 DEF Marked, Pending
<1>8. F!InstructionLength(mode, text) =
        ins.len + n + (IF F!HasModRM(manual) THEN 1 ELSE 0) + Rest(row.ops, 1, manual)
  <2>1. MemoryBytes(manual) = (IF F!SIBPresent(manual) THEN 1 ELSE 0) + F!DisplacementBytes(manual)
    BY DEF MemoryBytes
  <2>2. row.ops \notin ModRMLists => ~F!SIBPresent(manual) /\ F!DisplacementBytes(manual) = 0
    BY <1>5 DEF F!SIBPresent, F!DisplacementBytes
  <2>3. Rest(row.ops, 1, manual) =
          F!ImmediateBytes(manual) + (IF row.ops \in ModRMLists THEN MemoryBytes(manual) ELSE 0)
    BY DEF RowFits
  <2>4. F!DisplacementBytes(manual) \in Nat /\ F!ImmediateBytes(manual) \in Nat
    BY <1>2, PartsNatural
  <2>5. MemoryBytes(manual) \in Nat
    BY <1>2, MemoryBytesNatural
  <2>6. manual.modrmAt - 1 = ins.len + n
    BY <1>2
  <2> DEFINE d == F!DisplacementBytes(manual)
             m == F!ImmediateBytes(manual)
             h == IF F!HasModRM(manual) THEN 1 ELSE 0
             s == IF F!SIBPresent(manual) THEN 1 ELSE 0
  <2>7. /\ F!InstructionLength(mode, text) = manual.modrmAt - 1 + h + s + d + m
        /\ MemoryBytes(manual) = s + d
        /\ row.ops \notin ModRMLists => s = 0 /\ d = 0
        /\ h \in {0, 1} /\ s \in {0, 1} /\ d \in Nat /\ m \in Nat
    BY <2>1, <2>2, <2>4, ManualLength
  <2>8. Rest(row.ops, 1, manual) = m + s + d
    <3> HIDE DEF d, m, s, h
    <3>. QED BY <2>3, <2>7 DEF m
  <2>9. F!InstructionLength(mode, text) = ins.len + n + h + (m + s + d)
    <3> HIDE DEF d, m, s, h
    <3>. QED BY <1>2, <2>6, <2>7
  <2>. QED BY <2>8, <2>9
<1>9. OpcodeRead'
  <2>1. Rest(row.ops, 1, manual) \in Nat
    BY <1>2, PartsNatural, MemoryBytesNatural DEF RowFits
  <2>2. ins'.len + (IF F!HasModRM(manual) /\ row.ops # <<>> THEN 1 ELSE 0) + Rest(row.ops, 1, manual)
          = F!InstructionLength(mode, text)
    BY <1>2, <1>8, <2>1
  <2>3. row.ops # <<>> => ins'.at + 1 = manual.modrmAt
    BY <1>2
  <2>. QED BY <1>1, <1>3, <1>4, <2>2, <2>3 DEF OpcodeRead
<1>10. Matched'
  BY <1>1, <1>2, <1>7, <1>9 DEF Matched, Done
<1>. QED BY <1>10 DEF IsaInv, Opening, Done

(* What the decoder misreads ends as no mov and no lea. *)
LEMMA OpcodeExcused ==
  ASSUME stage' = "checks", Misread(manual)', ins'.row.type \notin {"mov", "lea"}
  PROVE  IsaInv'
BY DEF IsaInv, Opening, Done, Excused

(* The ModRM byte that is kept is the one behind the opcode. *)
LEMMA OpenedModRM ==
  ASSUME DecoderInv, NEW n, NEW op, NEW has
  PROVE  Opened(n, op, has).modrm = IF has THEN Byte(ins.at + n + 1) ELSE 0
<1>1. DOMAIN Advance(ins, n) = Fields
  BY Advanced DEF DecoderInv, Agree
<1>. QED BY <1>1 DEF Opened, Fields

(* An entry leads to one row at most, and without ModRM to the same whatever ModRM. *)
LEMMA OneRow ==
  ASSUME NEW e, NEW m
  PROVE  /\ e.is \in {"fpu", "modrm"} => \A r, s \in Resolve(e, m) : r = s
         /\ e.is \in {"instr", "ext64"} => \A k : Resolve(e, k) = Resolve(e, m)
<1>1. e.is = "fpu" => \A r, s \in Resolve(e, m) : r = s
  BY Resolving DEF Entry
<1>2. e.is = "modrm" => \A r, s \in Resolve(e, m) : r = s
  <2> SUFFICES ASSUME e.is = "modrm", NEW r \in Resolve(e, m), NEW s \in Resolve(e, m) PROVE r = s
    OBVIOUS
  <2>1. \A x, y \in Entry(e.table, m) : x = y
    BY DEF Entry
  <2>2. \A x : \A y, z \in IF x.is = "group" THEN Entry(x.table, Reg(m)) ELSE {x} : y = z
    BY DEF Entry
  <2>3. PICK x \in Entry(e.table, m) : r \in IF x.is = "group" THEN Entry(x.table, Reg(m)) ELSE {x}
    BY Resolving
  <2>4. PICK y \in Entry(e.table, m) : s \in IF y.is = "group" THEN Entry(y.table, Reg(m)) ELSE {y}
    BY Resolving
  <2>5. x = y
    BY <2>1
  <2>. QED BY <2>2, <2>3, <2>4, <2>5
<1>3. ASSUME e.is \in {"instr", "ext64"}, NEW k PROVE Resolve(e, k) = Resolve(e, m)
  <2>1. CASE e.is = "instr"
    <3>1. Resolve(e, k) = {e} /\ Resolve(e, m) = {e}
      BY <2>1, Resolving
    <3>. QED BY <3>1
  <2>2. CASE e.is = "ext64"
    <3>1. /\ Resolve(e, k) = Entry(e.table, IF mode = "x64" THEN 1 ELSE 0)
          /\ Resolve(e, m) = Entry(e.table, IF mode = "x64" THEN 1 ELSE 0)
      BY <2>2, Resolving
    <3>. QED BY <3>1
  <2>. QED BY <1>3, <2>1, <2>2
<1>. QED BY <1>1, <1>2, <1>3

(* One of the rows of an entry of the opcode tables is taken. *)
LEMMA EntryTaken ==
  ASSUME DecoderInv, IsaInv, AtOpcode, ~IsRex(this), NEW e, NEW rows,
         NEW n \in {1, 2}, n = IF this = \h0F THEN 2 ELSE 1, NEW op \in Octets, NEW has \in BOOLEAN,
         \/ Fits(e, manual) /\ (has <=> F!HasModRM(manual)) /\ (has \/ e.is \in {"instr", "ext64"})
         \/ MisreadGroup(manual) /\ Harmless(e),
         rows = Resolve(e, Opened(n, op, has).modrm),
         Select(PastModRM(Opened(n, op, has), e, rows), rows)
  PROVE  IsaInv'
<1> DEFINE i == Opened(n, op, has)
           j == PastModRM(i, e, rows)
<1>1. CASE Reject
  BY <1>1, RejectedToo
<1>2. CASE ~Reject
  <2>1. PICK row \in rows : ins' = [j EXCEPT !.row = row, !.suffix = FALSE] /\ stage' = "checks"
    BY <1>2 DEF Select
  <2>2. mode' = mode /\ text' = text
    BY DEF Select, given
  <2>3. /\ Agree(ins, i, {"len", "at", "opLen", "opcode", "hasModRM", "modrmAt", "modrm"})
        /\ Typed(i) /\ DOMAIN i = Fields /\ i.hasModRM = has
        /\ i.len = ins.len + n /\ i.at = ins.at + n
    BY OpenedFacts
  <2>4. i.modrm = IF has THEN Byte(ins.at + n + 1) ELSE 0
    BY OpenedModRM
  <2>5. ins.at = ins.len /\ ins.len \in Nat /\ manual.modrmAt = ins.len + n + 1
    BY Reading
  <2>6. has => i.modrm = manual.modrm
    BY <2>4, <2>5, ManualModRM
  <2>7. rows = Resolve(e, i.modrm)
    OBVIOUS
  <2> HIDE DEF i
  <2>8. Agree(i, j, {"len", "at"}) /\ DOMAIN j = Fields
    BY <2>3, PastFacts
  <2>9. Agree(j, ins', {"row", "suffix"}) /\ ins'.row = row
    BY <2>1, <2>8 DEF Agree, Fields
  <2>11. CASE MisreadGroup(manual) /\ Harmless(e)
    <3>1. Misread(manual)'
      BY <2>2, <2>11 DEF MisreadGroup, Misread, manual
    <3>2. ins'.row.type \notin {"mov", "lea"}
      BY <2>9, <2>11 DEF Harmless
    <3>. QED BY <2>1, <3>1, <3>2, OpcodeExcused
  <2>12. CASE Fits(e, manual) /\ (has <=> F!HasModRM(manual)) /\ (has \/ e.is \in {"instr", "ext64"})
    <3>0. row \in Resolve(e, manual.modrm)
      BY <2>6, <2>7, <2>12, OneRow
    <3>1. RowFits(row, manual) /\ (row.ops = <<>> => (F!HasModRM(manual) <=> e.is \in {"fpu", "modrm"}))
      BY <2>12, <3>0 DEF Fits
    <3>2. e.is \in {"fpu", "modrm"} /\ (\E r \in rows : r.ops = <<>>) <=>
            row.ops = <<>> /\ F!HasModRM(manual)
      <4>1. e.is \in {"fpu", "modrm"} => \A r \in rows : r = row
        BY OneRow
      <4>. QED BY <3>1, <4>1
    <3> DEFINE p == IF row.ops = <<>> /\ F!HasModRM(manual) THEN 1 ELSE 0
    <3>3. j = IF row.ops = <<>> /\ F!HasModRM(manual) THEN Advance(i, 1) ELSE i
      BY <3>2 DEF PastModRM
    <3>4. Advance(i, 1).len = i.len + 1 /\ Advance(i, 1).at = i.at + 1
      BY <2>3, Advanced
    <3>5. j.len = ins.len + n + p /\ j.at = ins.at + n + p
      BY <2>3, <2>5, <3>3, <3>4
    <3> HIDE DEF j
    <3>6. ins'.len = ins.len + n + p /\ ins'.at = ins.at + n + p
      BY <2>9, <3>5 DEF Agree, Fields
    <3>7. /\ ins'.operand = ins.operand /\ ins'.ipRel = ins.ipRel /\ ins'.addrSize = ins.addrSize
          /\ ins'.opSize = ins.opSize /\ ins'.opSizePrefix = ins.opSizePrefix
          /\ ins'.hasModRM = i.hasModRM /\ ins'.modrm = i.modrm
      BY <2>3, <2>8, <2>9 DEF Agree, Fields
    <3>8. ins'.operand = 1
      BY <3>7, AtOpcodeFacts DEF OpeningOK
    <3>9. p \in {0, 1} /\ p = IF row.ops = <<>> /\ F!HasModRM(manual) THEN 1 ELSE 0
      OBVIOUS
    <3> HIDE DEF p
    <3>10. ins'.hasModRM <=> F!HasModRM(manual)
      BY <2>3, <2>12, <3>7
    <3>11. ins'.hasModRM => ins'.modrm = manual.modrm
      BY <2>3, <2>6, <3>7
    <3>. QED BY <2>1, <2>2, <2>9, <3>1, <3>6, <3>7, <3>8, <3>9, <3>10, <3>11, OpcodeMatched
  <2>. QED BY <2>11, <2>12
<1>. QED BY <1>1, <1>2

(* The tables are entered with the opcode of the manuals; a byte behind a rex prefix is none. *)
LEMMA OneByteRead == DecoderInv /\ IsaInv /\ OneByteOpcode => IsaInv'
<1> SUFFICES ASSUME DecoderInv, IsaInv, OneByteOpcode PROVE IsaInv'
  OBVIOUS
<1> DEFINE e == Opcodes_1[this]
           has == this \in ModRM_1
           rows == Resolve(e, Opened(1, this, has).modrm)
<1>1. AtOpcode /\ this # \h0F
  BY DEF OneByteOpcode
<1>2. this \in Octets /\ has \in BOOLEAN
  BY <1>1, AtOpcodeFacts, Bytes DEF DecoderInv, this
<1>3. CASE Reject
  BY <1>3, RejectedToo
<1>4. CASE ~Reject
  <2>1. /\ Entry(Opcodes_1, this) # {}
        /\ Select(PastModRM(Opened(1, this, has), e, rows), rows)
    BY <1>4 DEF OneByteOpcode
  <2>2. this \in DOMAIN Opcodes_1 /\ e.is # "prefix"
    <3>1. this \in DOMAIN Opcodes_1 /\ Entry(Opcodes_1, this) = {e}
      BY <2>1 DEF Entry
    <3>. QED BY <1>1, <3>1, AtOpcodeFacts DEF IsPrefix
  <2>3. CASE IsRex(this)
    <3>1. e.is = "instr" /\ e.type = "other"
      BY <2>2, <2>3, IncAndDec DEF IsRex
    <3> DEFINE i == Opened(1, this, has)
               j == PastModRM(i, e, rows)
    <3>2. rows = {e}
      BY <3>1, Resolving
    <3>3. PICK row \in rows : ins' = [j EXCEPT !.row = row, !.suffix = FALSE] /\ stage' = "checks"
      BY <1>4, <2>1 DEF Select
    <3>4. DOMAIN i = Fields /\ Typed(i) /\ i.opLen = 1 /\ i.opcode = this
      BY <1>1, <1>2, OpenedFacts
    <3> HIDE DEF i
    <3>5. Agree(i, j, {"len", "at"})
      BY <3>4, PastFacts
    <3> HIDE DEF j
    <3>6. ins'.opLen = 1 /\ ins'.opcode = this /\ ins'.row = row
      BY <3>3, <3>4, <3>5 DEF Agree, Fields
    <3>7. mode' = "x64" /\ this \in \h40..\h4F
      BY <2>1, <2>3 DEF Select, given, IsRex
    <3>8. Misread(manual)'
      BY <3>6, <3>7 DEF Misread
    <3>. QED BY <3>1, <3>2, <3>3, <3>6, <3>8, OpcodeExcused
  <2>4. CASE ~IsRex(this)
    <3>1. manual.map = 1 /\ manual.opcode = this /\ Sane(manual)
      BY <1>1, <2>4, Reading, ManualSane
    <3>2. Fits(e, manual)
      BY <1>1, <2>2, <3>1, OneByteFits
    <3>3. has <=> F!HasModRM(manual)
      BY <3>1, ModRMFollows
    <3>4. has \/ e.is \in {"instr", "ext64"}
      <4>1. has \/ e.is \notin {"group", "fpu", "modrm"}
        BY <1>1, <2>2, ByModRMOnly
      <4>2. e.is \in {"instr", "ext64", "group", "fpu", "modrm"}
        BY <1>1, <2>2, OneByte, Kinds DEF Sound, GoodRow
      <4>. QED BY <4>1, <4>2
    <3> HIDE DEF e, has
    <3>. QED BY <1>1, <1>2, <2>1, <2>4, <3>2, <3>3, <3>4, EntryTaken
  <2>. QED BY <2>3, <2>4
<1>. QED BY <1>3, <1>4

LEMMA TwoByteRead == DecoderInv /\ IsaInv /\ TwoByteOpcode => IsaInv'
<1> SUFFICES ASSUME DecoderInv, IsaInv, TwoByteOpcode PROVE IsaInv'
  OBVIOUS
<1> DEFINE e == Opcodes_2[second]
           has == second \in ModRM_2
           rows == Resolve(e, Opened(2, second, has).modrm)
<1>1. /\ AtOpcode /\ this = \h0F /\ second \in DOMAIN Opcodes_2 /\ e.is # "suffix"
      /\ Select(PastModRM(Opened(2, second, has), e, rows), rows)
  BY DEF TwoByteOpcode, TwoBytes, Invalid2, Entry
<1>2. second \in Octets /\ has \in BOOLEAN
  BY <1>1, SecondByte
<1>3. ~IsRex(this)
  BY <1>1 DEF IsRex
<1>4. manual.map = 2 /\ manual.opcode = second /\ Sane(manual)
  BY <1>1, <1>3, Reading, ManualSane
<1>5. \/ Fits(e, manual) /\ (has <=> F!HasModRM(manual)) /\ (has \/ e.is \in {"instr", "ext64"})
      \/ MisreadGroup(manual) /\ Harmless(e)
  <2>1. \/ Fits(e, manual)
        \/ MisreadGroup(manual) /\ Harmless(e)
    BY <1>1, <1>4, TwoByteFits
  <2>2. CASE second # \hB9
    <3>1. has <=> F!HasModRM(manual)
      BY <1>1, <1>4, <2>2, ModRMFollows
    <3>2. has \/ e.is \notin {"group", "fpu", "modrm"}
      BY <1>1, <2>2, ByModRMOnly
    <3>3. e.is \in {"instr", "ext64", "group", "fpu", "modrm"}
      BY <1>1, TwoByte, Kinds DEF Sound, GoodRow
    <3>. QED BY <2>1, <3>1, <3>2, <3>3
  <2>3. CASE second = \hB9
    <3>1. MisreadGroup(manual)
      BY <1>4, <2>3 DEF MisreadGroup
    <3>2. Harmless(e)
      <4>1. PICK r \in Opcodes_2_low \union Opcodes_2_high : second \in r[1] /\ e = r[2]
        BY <1>1, Listed DEF Opcodes_2
      <4>2. e = Group(Group_11)
        BY <2>3, <4>1, Listed2Low, Listed2High DEF Listed2
      <4>. QED BY <1>4, <2>3, <4>2, MisreadGroups
    <3>. QED BY <3>1, <3>2
  <2>. QED BY <2>2, <2>3
<1> HIDE DEF e, has
<1>. QED BY <1>1, <1>2, <1>3, <1>5, EntryTaken

(* The rows of the SSE tables are of the unit that works on xmm registers. *)
LEMMA SSEUnits ==
  ASSUME NEW T \in {SSE_66, SSE_F2, SSE_F3}, NEW b \in DOMAIN T
  PROVE  /\ T[b].is \in {"instr", "group"}
         /\ \A m : \A row \in Resolve(T[b], m) : row.unit = "simd"
<1> DEFINE Of(e) == \/ e.is = "instr" /\ e.unit = "simd"
                    \/ e.is = "group" /\ \A i \in DOMAIN e.table : e.table[i].unit = "simd"
<1>1. \A i \in DOMAIN SSE2_Group_13 : SSE2_Group_13[i].unit = "simd"
  BY Listed, Forms DEF SSE2_Group_13
<1>2. \A i \in DOMAIN SSE2_Group_14 : SSE2_Group_14[i].unit = "simd"
  BY Listed, Forms DEF SSE2_Group_14
<1>3. \A i \in DOMAIN SSE2_Group_15 : SSE2_Group_15[i].unit = "simd"
  BY Listed, Forms DEF SSE2_Group_15
<1>4. /\ \A o : Of(Simd(o))
      /\ \A t \in {SSE2_Group_13, SSE2_Group_14, SSE2_Group_15} : Of(Group(t))
  BY <1>1, <1>2, <1>3, Forms, Kinds
<1> HIDE DEF Of
<1>5. \A k \in DOMAIN SSE_66 : Of(SSE_66[k])
  BY <1>4, Listed DEF SSE_66
<1>6. \A k \in DOMAIN SSE_F2 : Of(SSE_F2[k])
  BY <1>4, Listed DEF SSE_F2
<1>7. \A k \in DOMAIN SSE_F3 : Of(SSE_F3[k])
  BY <1>4, Listed DEF SSE_F3
<1>8. Of(T[b])
  BY <1>5, <1>6, <1>7
<1>9. \A e : Of(e) => e.is \in {"instr", "group"} /\ \A m : \A row \in Resolve(e, m) : row.unit = "simd"
  BY Resolving DEF Of, Entry
<1>. QED BY <1>8, <1>9

(* With the prefix that is part of the opcode removed, the operand size is what the rest makes of it. *)
LEMMA SSERead == DecoderInv /\ IsaInv /\ SSEOpcode => IsaInv'
<1> SUFFICES ASSUME DecoderInv, IsaInv, SSEOpcode PROVE IsaInv'
  OBVIOUS
<1> DEFINE o == Opened(2, second, second \in ModRM_2)
           i == [o EXCEPT
                   !.opLen = 3, !.prefixes = Tail(@), !.rep = 0, !.opSizePrefix = FALSE,
                   !.opSize = IF ins.sse # \h66 THEN @ ELSE IF ins.w THEN 8 ELSE 4]
           table == CASE ins.sse = \h66 -> SSE_66
                      [] ins.sse = \hF2 -> SSE_F2
                      [] ins.sse = \hF3 -> SSE_F3
           rows == UNION {Resolve(e, i.modrm) : e \in Entry(table, second)}
<1>1. /\ AtOpcode /\ this = \h0F /\ ~Invalid2 /\ ins.sse # 0 /\ second \in DOMAIN SSE_66
      /\ Select(i, rows)
  BY DEF SSEOpcode, TwoBytes, IsSSE
<1>2. ~IsRex(this) /\ second \in ModRM_2 /\ second \in DOMAIN Opcodes_2
  BY <1>1, SSETables DEF IsRex, Invalid2, Entry
<1>3. manual.map = 2 /\ manual.opcode = second /\ Sane(manual) /\ manual.modrmAt = ins.len + 3
  BY <1>1, <1>2, Reading, ManualSane
<1>4. second # \hB9
  BY <1>1, Listed DEF SSE_66
<1>5. F!HasModRM(manual)
  BY <1>2, <1>3, <1>4, ModRMFollows
<1>6. /\ Agree(ins, o, {"len", "at", "opLen", "opcode", "hasModRM", "modrmAt", "modrm"})
      /\ Typed(o) /\ DOMAIN o = Fields /\ o.hasModRM = TRUE
      /\ o.len = ins.len + 2 /\ o.at = ins.at + 2
  <2>1. second \in Octets /\ (second \in ModRM_2) \in BOOLEAN /\ (second \in ModRM_2) = TRUE
    BY <1>1, <1>2, SecondByte
  <2>. QED BY <1>1, <2>1, OpenedFacts
<1>7. o.modrm = manual.modrm
  <2>1. o.modrm = Byte(ins.at + 2 + 1)
    BY <1>2, OpenedModRM
  <2>. QED BY <1>1, <1>2, <1>3, <2>1, Reading, ManualModRM
<1> HIDE DEF o
<1>8. Agree(o, i, {"opLen", "prefixes", "rep", "opSizePrefix", "opSize"})
  BY <1>6 DEF Agree, Fields
<1>9. table \in {SSE_66, SSE_F2, SSE_F3}
  <2>1. ins.sse \in {\h66, \hF2, \hF3}
    BY <1>1, AtOpcodeFacts, Numbers
  <2>2. CASE ins.sse = \h66
    BY <2>2, Zenon
  <2>3. CASE ins.sse = \hF2
    <3>1. ins.sse # \h66
      BY <2>3
    <3>. QED BY <2>3, <3>1, Zenon
  <2>4. CASE ins.sse = \hF3
    <3>1. ins.sse # \h66 /\ ins.sse # \hF2
      BY <2>4
    <3>. QED BY <2>4, <3>1, Zenon
  <2>. QED BY <2>1, <2>2, <2>3, <2>4
<1> HIDE DEF i, table
<1>10. CASE Reject
  BY <1>10, RejectedToo
<1>11. CASE ~Reject
  <2>1. PICK row \in rows : ins' = [i EXCEPT !.row = row, !.suffix = FALSE] /\ stage' = "checks"
    BY <1>1, <1>11 DEF Select
  <2>2. mode' = mode /\ text' = text
    BY <1>1 DEF Select, given
  <2>3. Agree(i, ins', {"row", "suffix"}) /\ ins'.row = row
    BY <1>8, <2>1 DEF Agree, Fields
  <2>4. /\ ins'.operand = ins.operand /\ ins'.ipRel = ins.ipRel /\ ins'.addrSize = ins.addrSize
        /\ ins'.len = o.len /\ ins'.at = o.at /\ ins'.hasModRM = o.hasModRM
        /\ ins'.modrm = o.modrm /\ i.modrm = o.modrm
    BY <1>6, <1>8, <2>3 DEF Agree, Fields
  <2>5. PICK e \in Entry(table, second) : row \in Resolve(e, manual.modrm)
    BY <1>7, <2>4
  <2>6. second \in DOMAIN table /\ e = table[second]
    BY DEF Entry
  <2>7. Fits(e, manual) /\ e.is \in {"instr", "group"} /\ row.unit = "simd"
    BY <1>3, <1>9, <2>5, <2>6, SSEEntries, SSEUnits
  <2>8. RowFits(row, manual) /\ row.ops # <<>>
    BY <1>5, <2>5, <2>7 DEF Fits
  <2>9. row.ops \notin Sized /\ ~Movable(row)
    BY <2>7, <2>8 DEF RowFits, Movable
  <2>10. ins'.operand = 1
    BY <1>1, <2>4, AtOpcodeFacts DEF OpeningOK
  <2> DEFINE p == 0
  <2>11. p \in {0, 1} /\ p = IF row.ops = <<>> /\ F!HasModRM(manual) THEN 1 ELSE 0
    BY <2>8
  <2>12. ins'.len = ins.len + 2 + p /\ ins'.at = ins.at + 2 + p
    BY <1>1, <1>6, <2>4, AtOpcodeFacts
  <2> HIDE DEF p
  <2>13. ins'.hasModRM <=> F!HasModRM(manual)
    BY <1>5, <1>6, <2>4
  <2>. QED
    BY <1>1, <1>2, <1>7, <2>1, <2>2, <2>3, <2>4, <2>8, <2>9, <2>10, <2>11, <2>12, <2>13, OpcodeMatched
<1>. QED BY <1>10, <1>11

(* A 3DNow! instruction is misread from its opcode on. *)
LEMMA SuffixOpcodeRead == DecoderInv /\ IsaInv /\ SuffixOpcode => IsaInv'
<1> SUFFICES ASSUME DecoderInv, IsaInv, SuffixOpcode PROVE IsaInv'
  OBVIOUS
<1> DEFINE o == Opened(2, second, TRUE)
           a == Advance(o, 1)
<1>1. /\ AtOpcode /\ this = \h0F /\ second \in DOMAIN Opcodes_2 /\ Opcodes_2[second].is = "suffix"
      /\ stage' = "operands" /\ mode' = mode /\ text' = text
      /\ ins' = [a EXCEPT
                   !.row.ops = <<"P", "Q">>, !.suffix = TRUE,
                   !.opSize = IF ins.opSizePrefix THEN 4 ELSE @, !.opSizePrefix = FALSE]
  BY DEF SuffixOpcode, TwoBytes, Invalid2, Entry, given
<1>2. manual.map = 2 /\ manual.opcode = \h0F
  <2>1. second = \h0F /\ ~IsRex(this)
    BY <1>1, SuffixIs0F DEF IsRex
  <2>. QED BY <1>1, <2>1, Reading
<1>3. Agree(ins, o, {"len", "at", "opLen", "opcode", "hasModRM", "modrmAt", "modrm"})
  <2>1. second \in Octets
    BY <1>1, SecondByte
  <2>. QED BY <1>1, <2>1, OpenedFacts
<1> HIDE DEF o
<1>4. Agree(o, a, {"len", "at"})
  BY <1>3, Advanced DEF Agree
<1> HIDE DEF a
<1>5. ins'.row = [a.row EXCEPT !.ops = <<"P", "Q">>]
  BY <1>1, <1>4 DEF Agree, Fields
<1>6. a.row = Row
  <2>1. a.row = ins.row
    BY <1>3, <1>4 DEF Agree, Fields
  <2>. QED BY <1>1, <2>1, AtOpcodeFacts DEF OpeningOK
<1>7. ins'.row.type = "other"
  BY <1>5, <1>6 DEF Row
<1>8. Excused' /\ Reads3DNow'
  BY <1>1, <1>2, <1>7 DEF Excused, Reads3DNow, Misread, manual
<1>. QED BY <1>1, <1>8 DEF IsaInv, Opening, Done

(* ... whatever instruction its suffix makes it. *)
LEMMA SuffixByteRead == DecoderInv /\ IsaInv /\ SuffixByte => IsaInv'
<1> SUFFICES ASSUME DecoderInv, IsaInv, SuffixByte PROVE IsaInv'
  OBVIOUS
<1> DEFINE i == [ins EXCEPT !.len = @ + 1, !.at = ins.modrmAt, !.opLen = 3, !.operand = 1]
           rows == Entry(T_3DNOW_0F, Byte(ins.len + 1))
<1>1. stage = "suffix" /\ Select(i, rows)
  BY DEF SuffixByte
<1>2. CASE Reject
  BY <1>2, RejectedToo
<1>3. CASE ~Reject
  <2>1. PICK row \in rows : ins' = [i EXCEPT !.row = row, !.suffix = FALSE] /\ stage' = "checks"
    BY <1>1, <1>3 DEF Select
  <2>2. mode' = mode /\ text' = text
    BY <1>1 DEF Select, given
  <2>3. DOMAIN i = Fields
    BY DEF DecoderInv
  <2>4. ins'.row = row
    BY <2>1, <2>3 DEF Fields
  <2>5. ins'.row.type = "other"
    BY <2>4, Suffixes, Forms DEF Entry
  <2>6. Misread(manual)'
    BY <1>1, <2>2 DEF IsaInv, Reads3DNow, Misread, manual
  <2>. QED BY <2>1, <2>5, <2>6, OpcodeExcused
<1>. QED BY <1>2, <1>3

-------------------------------------------------------------------------------
(* Operand by operand *)

(* What the operands of the lists are, and what may stand beside them. *)
Implicit == {"r", "X", "Y", "xlat", "G", "S", "P", "V", "C", "D"}
Counted == {"Ib", "Jb", "Iw", "Iz", "Jz", "Iv", "O", "A"}

(* Every operand of the lists is one of these. *)
LEMMA OperandKinds ==
  \A o \in Lists : \A n \in DOMAIN o : o[n] \in Addressing \union Implicit \union Counted
<1>1. \A o \in ModRMLists : \A n \in DOMAIN o : o[n] \in Addressing \union Implicit \union Counted
  BY DEF ModRMLists, Addressing, Implicit, Counted
<1>2. \A o \in PlainLists : \A n \in DOMAIN o : o[n] \in Addressing \union Implicit \union Counted
  BY DEF PlainLists, Addressing, Implicit, Counted
<1>. QED BY <1>1, <1>2 DEF Lists

(* Before the operand that mod and rm encode stands nothing that takes bytes. *)
LEMMA BeforeAddressing ==
  ASSUME NEW o \in Lists, NEW n \in DOMAIN o, NEW m \in DOMAIN o, n < m, o[m] \in Addressing
  PROVE  o[n] \in Implicit
<1>1. o \in ModRMLists
  BY PlainNotEncoded DEF Lists, Addressing, Encoded
<1>2. \A p \in ModRMLists : \A k, l \in DOMAIN p : k < l /\ p[l] \in Addressing => p[k] \in Implicit
  BY SMTT(30) DEF ModRMLists, Addressing, Implicit
<1>. QED BY <1>1, <1>2

(* Branches with an offset and far addresses have no other operand. *)
LEMMA BranchesAlone ==
  ASSUME NEW o \in Lists, NEW n \in DOMAIN o, o[n] \in {"A", "Jb", "Jz"}
  PROVE  Len(o) = 1 /\ (o \in Branches <=> o[n] \in {"Jb", "Jz"}) /\ o \notin ModRMLists
<1>1. \A p \in ModRMLists : \A k \in DOMAIN p : p[k] \notin {"A", "Jb", "Jz"}
  BY DEF ModRMLists
<1>2. \A p \in PlainLists : \A k \in DOMAIN p :
        p[k] \in {"A", "Jb", "Jz"} => p \in {<<"A">>, <<"Jb">>, <<"Jz">>}
  BY DEF PlainLists
<1>3. o \in {<<"A">>, <<"Jb">>, <<"Jz">>}
  BY <1>1, <1>2 DEF Lists
<1>4. o \notin ModRMLists
  BY <1>1
<1>. QED BY <1>3, <1>4 DEF Branches

(* Where an operand changes the operand size, nothing that comes by it depends on it. *)
LEMMA SizersAlone ==
  ASSUME NEW o \in Lists, NEW n \in DOMAIN o, o[n] \in {"O", "C", "D"}
  PROVE  o \notin Sized /\ o \notin ModRMLists \ Control
<1>1. \A p \in ModRMLists : \A k \in DOMAIN p : p[k] \in {"O", "C", "D"} => p \in Control
  BY DEF ModRMLists, Control
<1>2. \A p \in Sized : \A k \in DOMAIN p : p[k] \notin {"O", "C", "D"}
  BY DEF Sized
<1>. QED BY <1>1, <1>2

(* What stands in the lists of control registers, and in those of branches *)
LEMMA ControlOperands == \A o \in Control : \A n \in DOMAIN o : o[n] \in {"R", "C", "D"}
BY DEF Control

LEMMA BranchOperands == \A o \in Branches : Len(o) = 1 /\ \A n \in DOMAIN o : o[n] \in {"Jb", "Jz"}
BY DEF Branches

(* An operand takes some number of bytes. *)
LEMMA BytesNatural ==
  ASSUME NEW f, Sane(f), NEW k \in Addressing \union Implicit \union Counted
  PROVE  BytesOf(k, f) \in Nat
<1>1. MemoryBytes(f) \in Nat /\ F!WordBytes(f) \in Nat /\ f.size \in Nat /\ f.addr \in Nat
  BY MemoryBytesNatural, PartsNatural DEF Sane
<1>2. CASE k \in Addressing
  BY <1>1, <1>2, OperandBytes
<1>3. CASE k \in Implicit
  BY <1>3, OperandBytes DEF Implicit
<1>4. CASE k \in Counted
  BY <1>1, <1>4, OperandBytes DEF Counted
<1>. QED BY <1>2, <1>3, <1>4

(* An operand is read, and what the others take remains. *)
LEMMA RestOfOperands ==
  ASSUME NEW f, Sane(f), NEW o \in Lists, NEW n \in DOMAIN o
  PROVE  /\ Rest(o, n, f) = BytesOf(o[n], f) + Rest(o, n + 1, f)
         /\ Rest(o, n + 1, f) \in Nat /\ BytesOf(o[n], f) \in Nat
         /\ n = Len(o) => Rest(o, n + 1, f) = 0
<1>1. Len(o) \in 1 .. 3 /\ n \in 1 .. Len(o) /\ DOMAIN o = 1 .. Len(o)
  BY Lengths
<1>2. \A m \in 1 .. Len(o) : BytesOf(o[m], f) \in Nat
  BY <1>1, OperandKinds, BytesNatural
<1>3. \A k \in Nat : \A m \in 1..3 :
        NthBytes(o, k, m, f) = IF k <= m /\ m <= Len(o) THEN BytesOf(o[m], f) ELSE 0
  BY DEF NthBytes
<1>4. CASE Len(o) = 1
  BY <1>1, <1>2, <1>3, <1>4 DEF Rest
<1>5. CASE Len(o) = 2
  BY <1>1, <1>2, <1>3, <1>5 DEF Rest
<1>6. CASE Len(o) = 3
  BY <1>1, <1>2, <1>3, <1>6 DEF Rest
<1>. QED BY <1>1, <1>2, <1>4, <1>5, <1>6

(* What is misread remains so; the instruction is let go or ends what is moved. *)
LEMMA ExcusedKept ==
  ASSUME Excused, mode' = mode, text' = text, ins'.row = ins.row, ins'.opLen = ins.opLen,
         ins'.opcode = ins.opcode
  PROVE  Excused'
BY DEF Excused, Misread, manual

(* Where the operand size matters, checking the prefixes leaves it what the manuals make of them. *)
LEMMA CheckPrefixesRead == DecoderInv /\ IsaInv /\ CheckPrefixes => IsaInv'
<1> SUFFICES ASSUME DecoderInv, IsaInv, CheckPrefixes PROVE IsaInv'
  OBVIOUS
<1>1. CASE Reject
  BY <1>1, RejectedToo
<1>2. CASE ~Reject
  <2> DEFINE opSizePrefix == ins.opSizePrefix /\ ~Refused66 /\ ~(ins.w /\ Has(\h66))
             sized == [ins EXCEPT
                         !.opSizePrefix = opSizePrefix, !.w = @ /\ ~Default64,
                         !.anomaly = @ \/ (ins.rep # 0 /\ ~StringOperands),
                         !.opSize = IF Default64 /\ ~opSizePrefix THEN 8 ELSE @]
  <2>1. /\ stage = "checks" /\ mode' = mode /\ text' = text
        /\ IF ins.row.ops = <<>>
           THEN ins' = sized /\ stage' = "last checks"
           ELSE /\ ins' = IF ins.hasModRM THEN Advance(sized, 1) ELSE sized
                /\ stage' = "operands"
    BY <1>2 DEF CheckPrefixes, given
  <2>2. /\ DOMAIN ins = Fields /\ Typed(ins) /\ RowOK /\ ChecksOK
        /\ ins.len \in Nat /\ ins.at \in Nat /\ ins.opSize \in {2, 4, 8}
    BY <2>1, Numbers DEF DecoderInv, StagesOK
  <2>3. /\ Agree(ins, sized, {"opSizePrefix", "w", "anomaly", "opSize"})
        /\ sized.opSize = IF Default64 /\ ~opSizePrefix THEN 8 ELSE ins.opSize
    BY <2>2 DEF Agree, Fields
  <2> HIDE DEF sized
  <2>4. /\ Agree(sized, ins', {"len", "at"})
        /\ ins.row.ops = <<>> => ins'.len = sized.len
        /\ ins.row.ops # <<>> => /\ ins'.len = sized.len + (IF ins.hasModRM THEN 1 ELSE 0)
                                 /\ ins'.at = sized.at + (IF ins.hasModRM THEN 1 ELSE 0)
    <3>1. sized.len \in Nat /\ sized.at \in Nat
      BY <2>2, <2>3 DEF Agree, Fields
    <3>2. CASE ins' = sized /\ (ins.row.ops = <<>> \/ ~ins.hasModRM)
      BY <2>3, <3>1, <3>2 DEF Agree
    <3>3. CASE ins' = Advance(sized, 1) /\ ins.row.ops # <<>> /\ ins.hasModRM
      BY <2>3, <3>3, Advanced DEF Agree
    <3>. QED BY <2>1, <3>2, <3>3
  <2>5. /\ ins'.row = ins.row /\ ins'.hasModRM = ins.hasModRM /\ ins'.operand = 1
        /\ ins'.suffix = ins.suffix /\ ins'.addrSize = ins.addrSize /\ ins'.ipRel = ins.ipRel
        /\ ins'.modrm = ins.modrm /\ ins'.opLen = ins.opLen /\ ins'.opcode = ins.opcode
        /\ sized.len = ins.len /\ sized.at = ins.at /\ ins'.opSize = sized.opSize
    BY <2>2, <2>3, <2>4 DEF Agree, Fields, ChecksOK
  <2>6. stage' \in {"operands", "last checks"} /\ (ins.row.ops # <<>> <=> stage' = "operands")
    BY <2>1
  <2>7. ~ins'.suffix
    BY <2>2, <2>5 DEF ChecksOK
  <2>8. CASE Excused
    BY <2>1, <2>5, <2>6, <2>7, <2>8, ExcusedKept DEF IsaInv, Opening, Done
  <2>9. CASE Matched
    <3>1. /\ Sane(manual) /\ RowFits(ins.row, manual) /\ Marked /\ OpcodeRead
          /\ ins.hasModRM => ins.modrm = manual.modrm
      BY <2>1, <2>9 DEF Matched
    <3>2. manual' = manual /\ ins.operand = 1
      BY <2>1, <2>2 DEF manual, ChecksOK
    <3>3. Marked'
      BY <2>1, <2>5, <3>1, <3>2 DEF Marked, Pending
    <3>4. ins.row.type \in {"mov", "lea"} => ins'.opSize = ins.opSize
      BY <2>3, <2>5 DEF Default64
    <3>5. ASSUME stage' = "operands" PROVE OperandsRead'
      <4>1. ins'.len + Rest(ins.row.ops, 1, manual) = F!InstructionLength(mode, text)
        <5>1. ins'.len = ins.len + (IF F!HasModRM(manual) /\ ins.row.ops # <<>> THEN 1 ELSE 0)
          BY <2>4, <2>5, <2>6, <3>1, <3>5 DEF OpcodeRead
        <5>. QED BY <3>1, <5>1 DEF OpcodeRead
      <4>2. Pending' => ins'.at = manual.modrmAt
        <5>1. Pending' => ins.row.ops \in ModRMLists
          BY <2>2, <2>5, PlainNotEncoded DEF Pending, RowOK, Lists, Addressing, Encoded
        <5>2. Pending' => ins.hasModRM
          BY <2>2, <5>1 DEF RowOK
        <5>. QED BY <2>4, <2>5, <2>6, <3>1, <3>5, <5>2 DEF OpcodeRead
      <4>3. ins.row.ops \in Sized => (ins'.opSize = 2 <=> manual.size = 2)
        <5> SUFFICES ASSUME ins.row.ops \in Sized PROVE ins'.opSize = 2 <=> manual.size = 2
          OBVIOUS
        <5>1. /\ ins.opSize = manual.size /\ (ins.opSizePrefix <=> manual.size = 2)
              /\ ins.row.unit = "int"
          BY <3>1 DEF OpcodeRead, RowFits
        <5>2. opSizePrefix <=> manual.size = 2
          BY <2>2, <5>1 DEF Refused66, ChecksOK
        <5> HIDE DEF opSizePrefix
        <5>. QED BY <2>3, <2>5, <5>1, <5>2
      <4>4. ins.row.ops = <<"r", "Iv">> => ins'.opSize = manual.size
        <5>1. ins.row.ops = <<"r", "Iv">> => ins.row.type = "mov" /\ ins.row.ops \in Sized
          BY <3>1 DEF RowFits, Sized
        <5>. QED BY <3>1, <3>4, <5>1 DEF OpcodeRead
      <4>. QED BY <2>1, <2>5, <3>1, <3>2, <4>1, <4>2, <4>3, <4>4 DEF OperandsRead, OpcodeRead
    <3>6. ASSUME stage' = "last checks"
          PROVE  ins'.len = F!InstructionLength(mode, text) /\ ins'.operand > Len(ins'.row.ops)
      <4>1. ins.row.ops = <<>> /\ <<>> \in BareLists
        BY <2>6, <3>6 DEF BareLists
      <4>2. Rest(ins.row.ops, 1, manual) = 0
        BY <3>1, <4>1, PlainListBytes
      <4>. QED BY <2>2, <2>4, <2>5, <3>1, <4>1, <4>2 DEF OpcodeRead
    <3>7. Movable(ins.row) => ins'.opSize = manual.size
      BY <3>1, <3>4 DEF Movable, OpcodeRead
    <3>8. Matched'
      BY <2>1, <2>5, <2>6, <3>1, <3>2, <3>3, <3>5, <3>6, <3>7 DEF Matched, Done
    <3>. QED BY <2>6, <2>7, <3>8 DEF IsaInv, Opening, Done
  <2>. QED BY <2>1, <2>8, <2>9 DEF IsaInv
<1>. QED BY <1>1, <1>2

(* i is ins with the effect of an operand as the manuals have it. *)
OperandFits(i) ==
  /\ i.len = ins.len + BytesOf(kind, manual)
  /\ kind \in Implicit => i.at = ins.at
  /\ kind \notin {"A", "Jb", "Jz"} => i.addrSize = ins.addrSize
  /\ kind \notin {"O", "C", "D"} => i.opSize = ins.opSize
  /\ ins.ipRel \subseteq i.ipRel
  /\ kind \in Addressing /\ F!RipRelative(mode, manual) => i.ipRel # {}
  /\ kind \in {"Jb", "Jz"} => i.ipRel # {}
  /\ i.ipRel # {} => ins.ipRel # {} \/ F!RelativeBranch(manual) \/ F!RipRelative(mode, manual)
  /\ ins.row.ops \in Control => i.ipRel = ins.ipRel

(* An operand whose effect is that of the manuals leaves what the others take. *)
LEMMA OperandRead ==
  ASSUME DecoderInv, IsaInv, stage = "operands", NEW i, OperandDone(i),
         Agree(ins, i, {"len", "at", "anomaly", "opSizePrefix", "opSize", "addrSizePrefix",
                        "addrSize", "ipRel", "dst"}),
         Matched => OperandFits(i)
  PROVE  IsaInv'
<1>1. /\ ins' = [i EXCEPT !.operand = @ + 1] /\ mode' = mode /\ text' = text
      /\ stage' = IF ins.operand < Len(ins.row.ops) THEN stage
                  ELSE IF ins.suffix THEN "suffix" ELSE "last checks"
  BY DEF OperandDone, given
<1>2. Agree(i, ins', {"operand"}) /\ ins'.operand = i.operand + 1
  BY <1>1 DEF Agree, Fields
<1>3. /\ ins'.row = ins.row /\ ins'.hasModRM = ins.hasModRM /\ ins'.suffix = ins.suffix
      /\ ins'.modrm = ins.modrm /\ ins'.opLen = ins.opLen /\ ins'.opcode = ins.opcode
      /\ ins'.operand = ins.operand + 1
  BY <1>2 DEF Agree, Fields
<1>4. /\ ins'.len = i.len /\ ins'.at = i.at /\ ins'.addrSize = i.addrSize
      /\ ins'.opSize = i.opSize /\ ins'.ipRel = i.ipRel
  BY <1>2 DEF Agree, Fields
<1>5. /\ ins.row.ops \in Lists /\ ins.operand \in DOMAIN ins.row.ops /\ ins.operand \in Nat
      /\ kind = ins.row.ops[ins.operand] /\ ins.operand >= 1 /\ ins.operand <= Len(ins.row.ops)
      /\ DOMAIN ins.row.ops = 1 .. Len(ins.row.ops) /\ Len(ins.row.ops) \in 1 .. 3 /\ ins.len \in Nat
  BY OperandFacts, Lengths DEF kind
<1>6. manual' = manual
  BY <1>1 DEF manual
<1>7. ins.suffix => Reads3DNow'
  BY <1>1, <1>3, <1>6 DEF IsaInv, Reads3DNow
<1>8. stage' \in {"operands", "suffix", "last checks"} /\ (stage' = "suffix" => ins.suffix)
  BY <1>1
<1>9. Excused => Excused'
  BY <1>1, <1>3, ExcusedKept
<1>10. /\ stage' = "operands" => ins.operand < Len(ins.row.ops)
       /\ stage' = "last checks" => ~(ins.operand < Len(ins.row.ops))
  <2>1. CASE ins.operand < Len(ins.row.ops)
    <3>1. stage' = "operands"
      BY <1>1, <2>1, Zenon
    <3>. QED BY <2>1, <3>1
  <2>2. CASE ~(ins.operand < Len(ins.row.ops))
    <3>1. stage' = "suffix" \/ stage' = "last checks"
      BY <1>1, <2>2, Zenon
    <3>. QED BY <2>2, <3>1
  <2>. QED BY <2>1, <2>2
<1>11. ASSUME Matched, stage' \in {"operands", "last checks"} PROVE Matched'
  <2>1. /\ Sane(manual) /\ RowFits(ins.row, manual) /\ Marked /\ OperandsRead /\ OperandFits(i)
        /\ ins.hasModRM => ins.modrm = manual.modrm
        /\ Movable(ins.row) => ins.opSize = manual.size
    BY <1>11 DEF Matched
  <2>2. Pending' <=> \E n \in DOMAIN ins.row.ops : n > ins.operand /\ ins.row.ops[n] \in Addressing
    BY <1>3, <1>5 DEF Pending
  <2>3. Pending => Pending' \/ kind \in Addressing
    BY <1>5, <2>2 DEF Pending
  <2>4. Pending' => Pending /\ kind \in Implicit
    BY <1>5, <2>2, BeforeAddressing DEF Pending
  <2>5. Marked'
    <3>1. F!RipRelative(mode, manual) => ins'.ipRel # {} \/ Pending'
      BY <1>4, <2>1, <2>3 DEF Marked, OperandFits
    <3>2. ins.row.ops \in Branches => ins'.ipRel # {}
      BY <1>4, <1>5, <2>1, BranchOperands DEF OperandFits
    <3>3. ins'.ipRel # {} => F!RelativeBranch(manual) \/ F!RipRelative(mode, manual)
      BY <1>4, <2>1 DEF Marked, OperandFits
    <3>4. ins.row.ops \in Control => ins'.ipRel = {}
      BY <1>4, <2>1 DEF Marked, OperandFits
    <3>. QED BY <1>1, <1>3, <1>6, <3>1, <3>2, <3>3, <3>4 DEF Marked
  <2>6. /\ Rest(ins.row.ops, ins.operand, manual)
             = BytesOf(kind, manual) + Rest(ins.row.ops, ins.operand + 1, manual)
        /\ Rest(ins.row.ops, ins.operand + 1, manual) \in Nat /\ BytesOf(kind, manual) \in Nat
        /\ ins.operand = Len(ins.row.ops) => Rest(ins.row.ops, ins.operand + 1, manual) = 0
    BY <1>5, <2>1, RestOfOperands
  <2>7. ins'.len + Rest(ins.row.ops, ins.operand + 1, manual) = F!InstructionLength(mode, text)
    BY <1>4, <1>5, <2>1, <2>6 DEF OperandsRead, OperandFits
  <2>8. ins.row.ops \in Sized => ins'.opSize = ins.opSize
    BY <1>4, <1>5, <2>1, SizersAlone DEF OperandFits
  <2>9. Movable(ins.row) => ins'.opSize = ins.opSize
    BY <1>4, <1>5, <2>1, SizersAlone DEF OperandFits, Movable
  <2>10. ASSUME stage' = "operands" PROVE OperandsRead'
    <3>0. ins.operand < Len(ins.row.ops)
      BY <1>10, <2>10
    <3>1. Len(ins.row.ops) # 1
      <4> DEFINE length == Len(ins.row.ops)
      <4>1. length \in 1 .. 3 /\ ins.operand \in Nat /\ ins.operand >= 1 /\ ins.operand < length
        BY <1>5, <3>0
      <4> HIDE DEF length
      <4>2. length # 1
        BY <4>1
      <4>. QED BY <4>2 DEF length
    <3>2. ins'.addrSize = manual.addr
      BY <1>4, <1>5, <2>1, <3>1, BranchesAlone DEF OperandFits, OperandsRead
    <3>3. Pending' => ins'.at = manual.modrmAt
      BY <1>4, <2>1, <2>4 DEF OperandFits, OperandsRead
    <3>4. <<"r", "Iv">> \in Sized
      BY DEF Sized
    <3>. QED BY <1>1, <1>3, <1>6, <2>1, <2>7, <2>8, <3>2, <3>3, <3>4 DEF OperandsRead
  <2>11. ASSUME stage' = "last checks"
         PROVE  ins'.len = F!InstructionLength(mode, text) /\ ins'.operand > Len(ins.row.ops)
    <3>0. ~(ins.operand < Len(ins.row.ops))
      BY <1>10, <2>11
    <3>1. ins.operand = Len(ins.row.ops)
      BY <1>5, <3>0
    <3>2. ins'.len \in Nat
      BY <1>4, <1>5, <2>1, <2>6 DEF OperandFits
    <3>. QED BY <1>3, <1>5, <2>6, <2>7, <3>1, <3>2
  <2>. QED
    BY <1>1, <1>3, <1>6, <1>11, <2>1, <2>5, <2>9, <2>10, <2>11 DEF Matched, Done
<1>12. stage' \in {"operands", "last checks"} => Matched' \/ Excused'
  BY <1>9, <1>11 DEF IsaInv
<1>. QED BY <1>3, <1>7, <1>8, <1>12 DEF IsaInv, Opening, Done

(* What an operand has to change, where it is no branch's and none that mod and rm encode *)
LEMMA PlainOperandFits ==
  ASSUME DecoderInv, stage = "operands", NEW i, kind \in Implicit \union Counted, kind \notin {"Jb", "Jz"},
         i.len = ins.len + BytesOf(kind, manual), kind \in Implicit => i.at = ins.at,
         kind # "A" => i.addrSize = ins.addrSize, kind \notin {"O", "C", "D"} => i.opSize = ins.opSize,
         i.ipRel = ins.ipRel
  PROVE  OperandFits(i)
<1>1. kind \notin Addressing
  BY DEF Implicit, Counted, Addressing
<1>. QED BY <1>1 DEF OperandFits

(* An operand that is no part of the instruction takes no bytes. *)
LEMMA ImplicitBytes == ASSUME kind \in Implicit PROVE BytesOf(kind, manual) = 0
BY OperandBytes DEF Implicit

(* The sizes of the operands that are part of the instruction are those of the manuals. *)
LEMMA SizesAreTheirs ==
  ASSUME DecoderInv, stage = "operands", Matched, kind \in Counted
  PROVE  Size(kind) = BytesOf(kind, manual)
<1>1. OperandsRead /\ Sane(manual)
  BY DEF Matched
<1>2. ins.row.ops \in Lists /\ ins.operand \in DOMAIN ins.row.ops /\ kind = ins.row.ops[ins.operand]
  BY OperandFacts DEF kind
<1>3. \A o \in Lists : \A n \in DOMAIN o : /\ o[n] \in {"A", "Iz", "Jz"} => o \in Sized
                                           /\ o[n] = "Iv" => o = <<"r", "Iv">>
  <2>1. \A o \in ModRMLists : \A n \in DOMAIN o : /\ o[n] \in {"A", "Iz", "Jz"} => o \in Sized
                                                  /\ o[n] # "Iv"
    BY DEF ModRMLists, Sized
  <2>2. \A o \in PlainLists : \A n \in DOMAIN o : /\ o[n] \in {"A", "Iz", "Jz"} => o \in Sized
                                                  /\ o[n] = "Iv" => o = <<"r", "Iv">>
    BY DEF PlainLists, Sized
  <2>. QED BY <2>1, <2>2 DEF Lists
<1>4. kind \in {"A", "Iz", "Jz"} => (ins.opSize = 2 <=> manual.size = 2)
  BY <1>1, <1>2, <1>3 DEF OperandsRead
<1>5. kind = "Iv" => ins.opSize = manual.size
  BY <1>1, <1>2, <1>3 DEF OperandsRead
<1>6. ins.addrSize = manual.addr
  BY <1>1 DEF OperandsRead
<1>7. CASE kind \in {"Ib", "Jb", "Iw"}
  BY <1>7, Sizes, OperandBytes
<1>8. CASE kind \in {"Iz", "Jz", "A"}
  BY <1>4, <1>8, Sizes, OperandBytes DEF F!WordBytes
<1>9. CASE kind \in {"Iv", "O"}
  BY <1>5, <1>6, <1>9, Sizes, OperandBytes
<1>. QED BY <1>7, <1>8, <1>9 DEF Counted

(* A register or a string that the opcode implies takes no bytes. *)
LEMMA ImpliedOperandRead == DecoderInv /\ IsaInv /\ ImpliedOperand => IsaInv'
<1> SUFFICES ASSUME DecoderInv, IsaInv, ImpliedOperand PROVE IsaInv'
  OBVIOUS
<1>1. stage = "operands" /\ kind \in Implicit /\ OperandDone(ins)
  BY DEF ImpliedOperand, AtOperand, Implicit
<1>2. kind \notin {"Jb", "Jz"}
  BY <1>1 DEF Implicit
<1>3. ins.len = ins.len + BytesOf(kind, manual)
  BY <1>1, ImplicitBytes, OperandFacts
<1>4. OperandFits(ins)
  BY <1>1, <1>2, <1>3, PlainOperandFits
<1>5. Agree(ins, ins, {"len", "at", "anomaly", "opSizePrefix", "opSize", "addrSizePrefix",
                       "addrSize", "ipRel", "dst"})
  BY <1>1, OperandFacts DEF Agree
<1>. QED BY <1>1, <1>4, <1>5, OperandRead

(* An immediate has the bytes of the manuals. *)
LEMMA ImmediateRead == DecoderInv /\ IsaInv /\ Immediate => IsaInv'
<1> SUFFICES ASSUME DecoderInv, IsaInv, Immediate PROVE IsaInv'
  OBVIOUS
<1> DEFINE i == Advance(ins, Size(kind))
<1>1. stage = "operands" /\ kind \in {"Ib", "Iw", "Iz", "Iv"} /\ OperandDone(i)
  BY DEF Immediate, AtOperand
<1>2. /\ kind \in Counted /\ kind \notin Implicit
      /\ kind \notin {"Jb", "Jz"} /\ kind \notin {"O", "C", "D"} /\ kind # "A"
  BY <1>1 DEF Counted, Implicit
<1>3. Size(kind) \in Nat
  BY <1>1, SizesNatural
<1>4. Agree(ins, i, {"len", "at"}) /\ i.len = ins.len + Size(kind)
  BY <1>1, <1>3, Passed
<1> HIDE DEF i
<1>5. i.addrSize = ins.addrSize /\ i.opSize = ins.opSize /\ i.ipRel = ins.ipRel
  BY <1>4 DEF Agree, Fields
<1>6. Matched => OperandFits(i)
  BY <1>1, <1>2, <1>4, <1>5, SizesAreTheirs, PlainOperandFits
<1>7. Agree(ins, i, {"len", "at", "anomaly", "opSizePrefix", "opSize", "addrSizePrefix",
                     "addrSize", "ipRel", "dst"})
  BY <1>4 DEF Agree
<1>. QED BY <1>1, <1>6, <1>7, OperandRead

(* A far address has an offset and a segment. *)
LEMMA FarAddressRead == DecoderInv /\ IsaInv /\ FarAddress => IsaInv'
<1> SUFFICES ASSUME DecoderInv, IsaInv, FarAddress PROVE IsaInv'
  OBVIOUS
<1> DEFINE a == Advance(ins, Size("A"))
           i == OwnAddressSize(a)
<1>1. stage = "operands" /\ kind = "A" /\ OperandDone(i)
  BY DEF FarAddress, AtOperand
<1>2. Size("A") \in Nat
  BY <1>1, SizesNatural
<1>3. Agree(ins, a, {"len", "at"}) /\ Typed(a) /\ DOMAIN a = Fields /\ a.len = ins.len + Size("A")
  BY <1>1, <1>2, Passed
<1> HIDE DEF a
<1>4. Agree(a, i, {"anomaly", "addrSizePrefix", "addrSize"})
  BY <1>3, OwnSize
<1> HIDE DEF i
<1>5. i.len = a.len /\ i.opSize = ins.opSize /\ i.ipRel = ins.ipRel
  BY <1>3, <1>4 DEF Agree, Fields
<1>6. kind \in Counted /\ kind \notin Implicit /\ kind \notin {"Jb", "Jz"}
  BY <1>1 DEF Counted, Implicit
<1>7. Matched => OperandFits(i)
  BY <1>1, <1>3, <1>5, <1>6, SizesAreTheirs, PlainOperandFits
<1>8. Agree(ins, i, {"len", "at", "anomaly", "opSizePrefix", "opSize", "addrSizePrefix",
                     "addrSize", "ipRel", "dst"})
  BY <1>3, <1>4 DEF Agree
<1>. QED BY <1>1, <1>7, <1>8, OperandRead

(* The offset of a mov from or to memory is as wide as an address. *)
LEMMA OffsetRead == DecoderInv /\ IsaInv /\ Offset => IsaInv'
<1> SUFFICES ASSUME DecoderInv, IsaInv, Offset PROVE IsaInv'
  OBVIOUS
<1> DEFINE unexpected == ins.opSizePrefix /\ ~ins.anomaly
           a == Advance(ins, Size("O"))
           i == [a EXCEPT !.anomaly = @ \/ unexpected, !.opSizePrefix = @ /\ ~unexpected,
                          !.opSize = IF unexpected THEN 6 - @ ELSE @]
<1>1. stage = "operands" /\ kind = "O" /\ OperandDone(i)
  BY DEF Offset, AtOperand
<1>2. Size("O") \in Nat
  BY <1>1, SizesNatural
<1>3. Agree(ins, a, {"len", "at"}) /\ DOMAIN a = Fields /\ a.len = ins.len + Size("O")
  BY <1>1, <1>2, Passed
<1> HIDE DEF a
<1>4. Agree(a, i, {"anomaly", "opSizePrefix", "opSize"})
  BY <1>3 DEF Agree, Fields
<1> HIDE DEF i
<1>5. i.len = a.len /\ i.addrSize = ins.addrSize /\ i.ipRel = ins.ipRel
  BY <1>3, <1>4 DEF Agree, Fields
<1>6. kind \in Counted /\ kind \notin Implicit /\ kind \notin {"Jb", "Jz"}
  BY <1>1 DEF Counted, Implicit
<1>7. Matched => OperandFits(i)
  BY <1>1, <1>3, <1>5, <1>6, SizesAreTheirs, PlainOperandFits
<1>8. Agree(ins, i, {"len", "at", "anomaly", "opSizePrefix", "opSize", "addrSizePrefix",
                     "addrSize", "ipRel", "dst"})
  BY <1>3, <1>4 DEF Agree
<1>. QED BY <1>1, <1>7, <1>8, OperandRead

(* The offset of a branch is marked as relative. *)
LEMMA RelativeOffsetRead == DecoderInv /\ IsaInv /\ RelativeOffset => IsaInv'
<1> SUFFICES ASSUME DecoderInv, IsaInv, RelativeOffset PROVE IsaInv'
  OBVIOUS
<1> DEFINE a == Advance(ins, Size(kind))
           o == OwnAddressSize(a)
           i == [o EXCEPT !.ipRel = @ \union {ins.operand}]
<1>1. stage = "operands" /\ kind \in {"Jb", "Jz"} /\ OperandDone(i)
  BY DEF RelativeOffset, AtOperand
<1>2. Size(kind) \in Nat
  BY <1>1, SizesNatural
<1>3. Agree(ins, a, {"len", "at"}) /\ Typed(a) /\ DOMAIN a = Fields /\ a.len = ins.len + Size(kind)
  BY <1>1, <1>2, Passed
<1> HIDE DEF a
<1>4. Agree(a, o, {"anomaly", "addrSizePrefix", "addrSize"}) /\ DOMAIN o = Fields
  BY <1>3, OwnSize
<1> HIDE DEF o
<1>5. Agree(o, i, {"ipRel"}) /\ i.ipRel = o.ipRel \union {ins.operand}
  BY <1>4 DEF Agree, Fields
<1> HIDE DEF i
<1>6. i.len = a.len /\ i.opSize = ins.opSize /\ o.ipRel = ins.ipRel
  BY <1>3, <1>4, <1>5 DEF Agree, Fields
<1>7. kind \in Counted /\ kind \notin Implicit /\ kind \notin Addressing /\ kind \notin {"O", "C", "D"}
  BY <1>1 DEF Counted, Implicit, Addressing
<1>8. ins.row.ops \in Branches /\ ins.row.ops \notin Control
  <2>1. ins.row.ops \in Lists /\ ins.operand \in DOMAIN ins.row.ops /\ kind = ins.row.ops[ins.operand]
    BY <1>1, OperandFacts DEF kind
  <2>2. ins.row.ops \in Branches
    BY <1>1, <2>1, BranchesAlone
  <2>3. ins.row.ops \in Control => kind \in {"R", "C", "D"}
    BY <2>1, ControlOperands
  <2>. QED BY <1>1, <2>2, <2>3
<1>9. ASSUME Matched PROVE OperandFits(i)
  <2>1. i.len = ins.len + BytesOf(kind, manual)
    BY <1>1, <1>3, <1>6, <1>7, <1>9, SizesAreTheirs
  <2>2. F!RelativeBranch(manual)
    BY <1>8, <1>9 DEF Matched, RowFits
  <2>. QED BY <1>1, <1>5, <1>6, <1>7, <1>8, <2>1, <2>2 DEF OperandFits
<1>10. Agree(ins, i, {"len", "at", "anomaly", "opSizePrefix", "opSize", "addrSizePrefix",
                      "addrSize", "ipRel", "dst"})
  BY <1>3, <1>4, <1>5 DEF Agree
<1>. QED BY <1>1, <1>9, <1>10, OperandRead

(* The field reg is part of ModRM, which has been passed. *)
LEMMA RegOperandRead == DecoderInv /\ IsaInv /\ RegOperand => IsaInv'
<1> SUFFICES ASSUME DecoderInv, IsaInv, RegOperand PROVE IsaInv'
  OBVIOUS
<1> DEFINE i == [ins EXCEPT !.opSize = IF kind \in {"C", "D"} /\ mode = "x64" THEN 8 ELSE @]
<1>1. stage = "operands" /\ kind \in {"G", "S", "P", "V", "C", "D"}
  BY DEF RegOperand, AtOperand
<1>2. CASE Reject
  BY <1>2, RejectedToo
<1>3. CASE OperandDone(i)
  <2>1. kind \in Implicit /\ kind \notin {"Jb", "Jz"}
    BY <1>1 DEF Implicit
  <2>2. DOMAIN ins = Fields /\ ins.len \in Nat
    BY <1>1, OperandFacts
  <2>3. /\ Agree(ins, i, {"opSize"})
        /\ i.opSize = IF kind \in {"C", "D"} /\ mode = "x64" THEN 8 ELSE ins.opSize
    BY <2>2 DEF Agree, Fields
  <2> HIDE DEF i
  <2>4. /\ i.len = ins.len /\ i.at = ins.at /\ i.addrSize = ins.addrSize /\ i.ipRel = ins.ipRel
        /\ kind \notin {"O", "C", "D"} => i.opSize = ins.opSize
    BY <2>3 DEF Agree, Fields
  <2>5. i.len = ins.len + BytesOf(kind, manual)
    BY <2>1, <2>2, <2>4, ImplicitBytes
  <2>6. OperandFits(i)
    BY <1>1, <2>1, <2>4, <2>5, PlainOperandFits
  <2>7. Agree(ins, i, {"len", "at", "anomaly", "opSizePrefix", "opSize", "addrSizePrefix",
                       "addrSize", "ipRel", "dst"})
    BY <2>3 DEF Agree
  <2>. QED BY <1>1, <1>3, <2>6, <2>7, OperandRead
<1>. QED BY <1>2, <1>3 DEF RegOperand

(* An operand that mod and rm encode: ModRM is that of the manuals. *)
LEMMA AddressingFacts ==
  ASSUME DecoderInv, stage = "operands", kind \in Addressing, Matched
  PROVE  /\ ins.modrm = manual.modrm /\ F!HasModRM(manual) /\ Sane(manual)
         /\ ins.at = manual.modrmAt /\ ins.addrSize = manual.addr
         /\ kind \notin Implicit /\ kind \notin {"A", "Jb", "Jz", "O", "C", "D"}
         /\ manual.modrm \in Octets /\ BytesOf(kind, manual) = MemoryBytes(manual)
<1>1. ins.row.ops \in Lists /\ ins.operand \in DOMAIN ins.row.ops /\ kind = ins.row.ops[ins.operand] /\ RowOK
  BY OperandFacts DEF kind
<1>2. /\ RowFits(ins.row, manual) /\ Sane(manual) /\ OperandsRead
      /\ ins.hasModRM => ins.modrm = manual.modrm
  BY DEF Matched
<1>3. ins.row.ops \in ModRMLists
  BY <1>1, PlainNotEncoded DEF Lists, Addressing, Encoded
<1>4. ins.operand >= ins.operand
  BY OperandFacts
<1>5. Pending
  BY <1>1, <1>4 DEF Pending
<1>6. kind \notin Implicit /\ kind \notin {"A", "Jb", "Jz", "O", "C", "D"}
  BY DEF Addressing, Implicit
<1>. QED BY <1>1, <1>2, <1>3, <1>5, <1>6, OperandBytes DEF RowOK, RowFits, OperandsRead, Sane

(* A register in the field rm takes no bytes. *)
LEMMA RMOperandRead == DecoderInv /\ IsaInv /\ RMOperand => IsaInv'
<1> SUFFICES ASSUME DecoderInv, IsaInv, RMOperand PROVE IsaInv'
  OBVIOUS
<1>1. stage = "operands" /\ kind \in Addressing
  BY DEF RMOperand, AtOperand, Addressing
<1>2. CASE Reject
  BY <1>2, RejectedToo
<1>3. CASE Mod(ins.modrm) = 3 /\ OperandDone(ins)
  <2>1. Agree(ins, ins, {"len", "at", "anomaly", "opSizePrefix", "opSize", "addrSizePrefix",
                         "addrSize", "ipRel", "dst"})
    BY <1>1, OperandFacts DEF Agree
  <2>2. ASSUME Matched PROVE OperandFits(ins)
    <3>1. F!mod(manual) = 3
      BY <1>1, <1>3, <2>2, AddressingFacts DEF Mod, F!mod
    <3>2. MemoryBytes(manual) = 0 /\ ~F!RipRelative(mode, manual)
      BY <3>1 DEF MemoryBytes, F!SIBPresent, F!DisplacementBytes, F!RipRelative
    <3>3. ins.len \in Nat
      BY <1>1, OperandFacts
    <3>. QED BY <1>1, <2>2, <3>2, <3>3, AddressingFacts DEF OperandFits
  <2>. QED BY <1>1, <1>3, <2>1, <2>2, OperandRead
<1>. QED BY <1>2, <1>3 DEF RMOperand

(* SetModRM16, SetModRM32 and SetSIB take the bytes that the manuals give an address, and find
   the operand relative to rip.                                                            *)
LEMMA AddressBytesAreTheirs ==
  ASSUME DecoderInv, stage = "operands", kind \in Addressing, Matched
  PROVE  /\ Mod(ins.modrm) = 3 => MemoryBytes(manual) = 0
         /\ Mod(ins.modrm) # 3 =>
              MemoryBytes(manual) = IF ins.addrSize = 2 THEN ModRM16Bytes ELSE ModRM32Bytes
         /\ mode = "x64" => (NoBase <=> F!RipRelative(mode, manual))
<1>1. /\ ins.modrm = manual.modrm /\ F!HasModRM(manual) /\ ins.at = manual.modrmAt
      /\ ins.addrSize = manual.addr /\ manual.modrm \in Octets /\ manual.addr \in {2, 4, 8}
  BY AddressingFacts DEF Sane
<1>2. /\ F!mod(manual) = Mod(ins.modrm) /\ F!rm(manual) = RM(ins.modrm)
      /\ Mod(ins.modrm) \in {0, 1, 2, 3} /\ manual.sib = Byte(ins.at + 1)
  <2>1. Mod(ins.modrm) \in 0..3
    BY <1>1, Modes4
  <2>. QED BY <1>1, <2>1, ManualModRM DEF F!mod, F!rm, Mod, RM
<1>3. Mod(ins.modrm) = 3 => MemoryBytes(manual) = 0
  BY <1>2 DEF MemoryBytes, F!SIBPresent, F!DisplacementBytes
<1>4. mode = "x64" => (NoBase <=> F!RipRelative(mode, manual))
  <2>1. mode = "x64" => ins.addrSize # 2
    BY OperandFacts
  <2>. QED BY <1>1, <1>2, <2>1 DEF NoBase, F!RipRelative
<1>5. CASE ins.addrSize = 2 /\ Mod(ins.modrm) # 3
  <2>1. MemoryBytes(manual) =
          IF Mod(ins.modrm) = 1 THEN 1
          ELSE IF Mod(ins.modrm) = 2 \/ RM(ins.modrm) = 6 THEN 2 ELSE 0
    BY <1>1, <1>2, <1>5 DEF MemoryBytes, F!SIBPresent, F!DisplacementBytes
  <2>2. /\ Mod(ins.modrm) = 0 => ModRM16Bytes = IF RM(ins.modrm) = 6 THEN 2 ELSE 0
        /\ Mod(ins.modrm) = 1 => ModRM16Bytes = 1
        /\ Mod(ins.modrm) = 2 => ModRM16Bytes = 2
    BY DEF ModRM16Bytes
  <2>. QED BY <1>2, <1>4, <1>5, <2>1, <2>2
<1>6. CASE ins.addrSize # 2 /\ Mod(ins.modrm) # 3 /\ RM(ins.modrm) = 4
  <2>1. F!SIBPresent(manual)
    BY <1>1, <1>2, <1>6 DEF F!SIBPresent
  <2>2. F!DisplacementBytes(manual) =
          IF Mod(ins.modrm) = 1 THEN 1
          ELSE IF Mod(ins.modrm) = 2 \/ Byte(ins.at + 1) % 8 = 5 THEN 4 ELSE 0
    BY <1>1, <1>2, <1>6, <2>1 DEF F!DisplacementBytes
  <2>3. /\ Mod(ins.modrm) = 0 => SIBBytes = IF Byte(ins.at + 1) % 8 = 5 THEN 5 ELSE 1
        /\ Mod(ins.modrm) = 1 => SIBBytes = 2
        /\ Mod(ins.modrm) = 2 => SIBBytes = 5
    BY DEF SIBBytes
  <2>4. ModRM32Bytes = SIBBytes
    BY <1>6 DEF ModRM32Bytes
  <2>. QED BY <1>2, <1>4, <1>6, <2>1, <2>2, <2>3, <2>4 DEF MemoryBytes
<1>7. CASE ins.addrSize # 2 /\ Mod(ins.modrm) # 3 /\ RM(ins.modrm) # 4
  <2>1. ~F!SIBPresent(manual)
    BY <1>2, <1>7 DEF F!SIBPresent
  <2>2. F!DisplacementBytes(manual) =
          IF Mod(ins.modrm) = 1 THEN 1
          ELSE IF Mod(ins.modrm) = 2 \/ RM(ins.modrm) = 5 THEN 4 ELSE 0
    BY <1>1, <1>2, <1>7, <2>1 DEF F!DisplacementBytes
  <2>3. /\ Mod(ins.modrm) = 0 => ModRM32Bytes = IF NoBase THEN 4 ELSE 0
        /\ Mod(ins.modrm) = 1 => ModRM32Bytes = 1
        /\ Mod(ins.modrm) = 2 => ModRM32Bytes = 4
    BY <1>7 DEF ModRM32Bytes
  <2>4. Mod(ins.modrm) = 0 => (NoBase <=> RM(ins.modrm) = 5)
    BY <1>7 DEF NoBase
  <2>. QED BY <1>2, <1>4, <1>7, <2>1, <2>2, <2>3, <2>4 DEF MemoryBytes
<1>. QED BY <1>3, <1>4, <1>5, <1>6, <1>7

(* Memory or a register in the fields mod and rm, with SIB and displacement *)
LEMMA MemoryOperandRead == DecoderInv /\ IsaInv /\ MemoryOperand => IsaInv'
<1> SUFFICES ASSUME DecoderInv, IsaInv, MemoryOperand PROVE IsaInv'
  OBVIOUS
<1> DEFINE register == Mod(ins.modrm) = 3
           bytes == IF register THEN 0
                    ELSE IF ins.addrSize = 2 THEN ModRM16Bytes ELSE ModRM32Bytes
           a == Advance(ins, bytes)
           i == [a EXCEPT !.ipRel = IF mode = "x64" /\ NoBase THEN @ \union {ins.operand} ELSE @,
                          !.dst = @ \/ (~register /\ kind \in {"M", "E"})]
<1>1. stage = "operands" /\ kind \in {"M", "E", "Es", "Ep", "Q", "W"}
  BY DEF MemoryOperand, AtOperand
<1>2. CASE Reject
  BY <1>2, RejectedToo
<1>3. CASE OperandDone(i)
  <2>0. kind \in Addressing /\ kind \notin {"R", "C", "D"}
    BY <1>1 DEF Addressing
  <2>1. bytes \in Nat
    BY <1>1, AddressBytes
  <2>2. Matched => MemoryBytes(manual) = bytes
    BY <1>1, <2>0, AddressBytesAreTheirs
  <2> HIDE DEF bytes
  <2>3. Agree(ins, a, {"len", "at"}) /\ DOMAIN a = Fields /\ a.len = ins.len + bytes
    BY <1>1, <2>1, Passed
  <2> HIDE DEF a
  <2>4. /\ Agree(a, i, {"ipRel", "dst"})
        /\ i.ipRel = IF mode = "x64" /\ NoBase THEN a.ipRel \union {ins.operand} ELSE a.ipRel
    BY <2>3 DEF Agree, Fields
  <2> HIDE DEF i
  <2>5. /\ i.len = a.len /\ i.addrSize = ins.addrSize /\ i.opSize = ins.opSize
        /\ a.ipRel = ins.ipRel
    BY <2>3, <2>4 DEF Agree, Fields
  <2>6. Agree(ins, i, {"len", "at", "anomaly", "opSizePrefix", "opSize", "addrSizePrefix",
                       "addrSize", "ipRel", "dst"})
    BY <2>3, <2>4 DEF Agree
  <2>7. ins.row.ops \notin Control
    <3>1. ins.operand \in DOMAIN ins.row.ops /\ kind = ins.row.ops[ins.operand]
      BY <1>1, OperandFacts DEF kind
    <3>. QED BY <2>0, <3>1, ControlOperands
  <2>8. ASSUME Matched PROVE OperandFits(i)
    <3>1. i.len = ins.len + BytesOf(kind, manual) /\ kind \notin Implicit /\ kind \notin {"Jb", "Jz"}
      BY <1>1, <2>0, <2>2, <2>3, <2>5, <2>8, AddressingFacts
    <3>2. mode = "x64" => (NoBase <=> F!RipRelative(mode, manual))
      BY <1>1, <2>0, <2>8, AddressBytesAreTheirs
    <3>3. F!RipRelative(mode, manual) => mode = "x64"
      BY DEF F!RipRelative
    <3>. QED BY <2>4, <2>5, <2>7, <3>1, <3>2, <3>3 DEF OperandFits
  <2>. QED BY <1>1, <1>3, <2>6, <2>8, OperandRead
<1>. QED BY <1>2, <1>3 DEF MemoryOperand

-------------------------------------------------------------------------------
(* The end of an instruction, and what becomes of it *)

(* The last checks change nothing. *)
LEMMA LastChecksRead == DecoderInv /\ IsaInv /\ LastChecks => IsaInv'
<1> SUFFICES ASSUME DecoderInv, IsaInv, LastChecks PROVE IsaInv'
  OBVIOUS
<1>1. CASE Reject
  BY <1>1, RejectedToo
<1>2. CASE ~Reject
  <2>1. stage = "last checks" /\ stage' = "decoded" /\ mode' = mode /\ text' = text /\ ins' = ins
    BY <1>2 DEF LastChecks, given
  <2>2. manual' = manual
    BY <2>1 DEF manual
  <2>3. Excused => Excused'
    BY <2>1, ExcusedKept
  <2>4. Matched => Matched'
    BY <2>1, <2>2 DEF Matched, Marked, Pending, Done
  <2>. QED BY <2>1, <2>3, <2>4 DEF IsaInv, Opening, Done
<1>. QED BY <1>1, <1>2

(* What DisassembleAndSkip decides follows from the type and from OP_IPREL. *)
LEMMA ExamineRead == DecoderInv /\ IsaInv /\ Examine => IsaInv'
<1> SUFFICES ASSUME DecoderInv, IsaInv, Examine PROVE IsaInv'
  OBVIOUS
<1>1. /\ stage = "decoded" /\ mode' = mode /\ text' = text /\ ins' = ins
      /\ stage' = IF Leaves THEN "stopped"
                  ELSE IF mode = "x86" THEN "moved"
                  ELSE IF Patchable THEN "patched"
                  ELSE IF ins.ipRel # {} THEN "stopped" ELSE "moved"
  BY DEF Examine, given
<1>2. /\ stage' \in {"stopped", "moved", "patched"}
      /\ stage' = "moved" => ~Leaves /\ (mode = "x86" \/ ins.ipRel = {})
      /\ stage' = "patched" => mode # "x86" /\ Patchable
  <2>1. CASE Leaves
    <3>1. stage' = "stopped"
      BY <1>1, <2>1, Zenon
    <3>. QED BY <3>1
  <2>2. CASE ~Leaves /\ mode = "x86"
    <3>1. stage' = "moved"
      BY <1>1, <2>2, Zenon
    <3>. QED BY <2>2, <3>1
  <2>3. CASE ~Leaves /\ mode # "x86" /\ Patchable
    <3>1. stage' = "patched"
      BY <1>1, <2>3, Zenon
    <3>. QED BY <2>3, <3>1
  <2>4. CASE ~Leaves /\ mode # "x86" /\ ~Patchable /\ ins.ipRel # {}
    <3>1. stage' = "stopped"
      BY <1>1, <2>4, Zenon
    <3>. QED BY <3>1
  <2>5. CASE ~Leaves /\ mode # "x86" /\ ~Patchable /\ ins.ipRel = {}
    <3>1. stage' = "moved"
      BY <1>1, <2>5, Zenon
    <3>. QED BY <2>5, <3>1
  <2>. QED BY <2>1, <2>2, <2>3, <2>4, <2>5
<1>3. manual' = manual /\ (Leaves' <=> Leaves) /\ (Patchable' <=> Patchable)
  BY <1>1 DEF manual, Leaves, Patchable
<1>4. Excused => Excused'
  BY <1>1, ExcusedKept
<1>5. Matched => Matched'
  BY <1>1, <1>2, <1>3 DEF Matched, Marked, Pending, Done
<1>. QED BY <1>1, <1>2, <1>3, <1>4, <1>5 DEF IsaInv, Opening, Done

(* What changes nothing keeps the invariant. *)
LEMMA NothingRead == IsaInv /\ UNCHANGED vars => IsaInv'
<1> SUFFICES ASSUME IsaInv, UNCHANGED vars PROVE IsaInv'
  OBVIOUS
<1>1. mode' = mode /\ text' = text /\ stage' = stage /\ ins' = ins
  BY DEF vars
<1>2. manual' = manual
  BY <1>1 DEF manual
<1>3. PrefixesRead => PrefixesRead'
  BY <1>1 DEF PrefixesRead, Seen, this, Byte, IsPrefix, IsRex
<1>4. Excused => Excused'
  BY <1>1, ExcusedKept
<1>5. Matched => Matched'
  BY <1>1, <1>2 DEF Matched, Marked, Pending, OpcodeRead, OperandsRead
<1>. QED BY <1>1, <1>2, <1>3, <1>4, <1>5 DEF IsaInv, Opening, Reads3DNow, Leaves, Patchable

(* Before the first byte nothing has been read. *)
LEMMA IsaInit == Init => IsaInv
<1> SUFFICES ASSUME Init PROVE IsaInv
  OBVIOUS
<1>1. /\ stage = "prefixes" /\ ins.len = 0 /\ ins.at = 0 /\ ins.ipRel = {} /\ ~ins.w
      /\ ~ins.addrSizePrefix /\ ~ins.opSizePrefix /\ text \in Seq(Octets)
  BY DecoderAssumption DEF Init, Octets
<1>2. Seen = {} /\ Len(text) >= 0
  BY <1>1 DEF Seen
<1>3. PrefixesRead
  BY <1>1, <1>2 DEF PrefixesRead
<1>. QED BY <1>1, <1>3 DEF IsaInv, Done

(* Every step keeps the invariant. *)
LEMMA IsaStep == DecoderInv /\ IsaInv /\ [Next]_vars => IsaInv'
<1> SUFFICES ASSUME DecoderInv, IsaInv, [Next]_vars PROVE IsaInv'
  OBVIOUS
<1>1. CASE MisplacedRex
  BY <1>1, MisplacedRexRead
<1>2. CASE RepeatPrefix \/ OperandSizePrefix \/ AddressSizePrefix \/ SegmentPrefix \/ LockPrefix
  BY <1>2, LegacyPrefixRead
<1>3. CASE RexPrefix
  BY <1>3, RexPrefixRead
<1>4. CASE OneByteOpcode
  BY <1>4, OneByteRead
<1>5. CASE InvalidOpcode
  BY <1>5, RejectedToo DEF InvalidOpcode
<1>6. CASE TwoByteOpcode
  BY <1>6, TwoByteRead
<1>7. CASE SSEOpcode
  BY <1>7, SSERead
<1>8. CASE SuffixOpcode
  BY <1>8, SuffixOpcodeRead
<1>9. CASE SuffixByte
  BY <1>9, SuffixByteRead
<1>10. CASE CheckPrefixes
  BY <1>10, CheckPrefixesRead
<1>11. CASE ImpliedOperand
  BY <1>11, ImpliedOperandRead
<1>12. CASE Immediate
  BY <1>12, ImmediateRead
<1>13. CASE FarAddress
  BY <1>13, FarAddressRead
<1>14. CASE Offset
  BY <1>14, OffsetRead
<1>15. CASE RelativeOffset
  BY <1>15, RelativeOffsetRead
<1>16. CASE RegOperand
  BY <1>16, RegOperandRead
<1>17. CASE RMOperand
  BY <1>17, RMOperandRead
<1>18. CASE MemoryOperand
  BY <1>18, MemoryOperandRead
<1>19. CASE LastChecks
  BY <1>19, LastChecksRead
<1>20. CASE Examine
  BY <1>20, ExamineRead
<1>21. CASE Returned \/ UNCHANGED vars
  BY <1>21, NothingRead DEF Returned
<1>. QED
  BY <1>1, <1>2, <1>3, <1>4, <1>5, <1>6, <1>7, <1>8, <1>9, <1>10, <1>11, <1>12, <1>13, <1>14,
     <1>15, <1>16, <1>17, <1>18, <1>19, <1>20, <1>21 DEF Next

(* No operand is to come any more. *)
LEMMA NonePending == ASSUME DecoderInv, Matched, stage \in Done PROVE ~Pending
<1>1. ins.row.ops \in Lists /\ ins.operand > Len(ins.row.ops) /\ ins.operand \in Nat
  BY Numbers DEF Matched, RowFits, DecoderInv
<1>2. DOMAIN ins.row.ops = 1 .. Len(ins.row.ops) /\ Len(ins.row.ops) \in 0 .. 3
  BY <1>1, Lengths
<1>. QED BY <1>1, <1>2 DEF Pending

(* What accepted instructions are follows from the invariant. *)
LEMMA LengthFollows == IsaInv => LengthIsISA
BY DEF IsaInv, LengthIsISA, Accepted, Done, Matched, Excused, manual

(* What is moved is not relative: what is relative has OP_IPREL, or is a branch by its type. *)
LEMMA MovedFollows == DecoderInv /\ IsaInv => NothingRelativeMoved
<1> SUFFICES ASSUME DecoderInv, IsaInv, stage = "moved", ~Misread(manual)
             PROVE  \/ mode = "x86" /\ manual.map = 1 /\ manual.opcode \in \hE0..\hE3
                    \/ ~F!RelativeBranch(manual) /\ ~F!RipRelative(mode, manual)
  BY DEF NothingRelativeMoved, manual
<1>1. stage \in Done
  BY DEF Done
<1>2. /\ Matched /\ RowFits(ins.row, manual) /\ Marked /\ ins.operand > Len(ins.row.ops)
      /\ ~Leaves /\ (mode = "x86" \/ ins.ipRel = {})
  BY <1>1 DEF IsaInv, Excused, Matched
<1>3. ~F!RipRelative(mode, manual)
  <2>1. ~Pending
    BY <1>1, <1>2, NonePending
  <2>2. F!RipRelative(mode, manual) => mode = "x64"
    BY DEF F!RipRelative
  <2>. QED BY <1>2, <2>1, <2>2 DEF Marked
<1>4. F!RelativeBranch(manual) => mode = "x86" /\ manual.map = 1 /\ manual.opcode \in \hE0..\hE3
  <2> SUFFICES ASSUME F!RelativeBranch(manual)
               PROVE  mode = "x86" /\ manual.map = 1 /\ manual.opcode \in \hE0..\hE3
    OBVIOUS
  <2>1. ins.row.ops \in Branches /\ manual.map = 1 /\ manual.opcode \in \hE0..\hE3
    BY <1>2 DEF RowFits, Leaves
  <2>2. ins.operand > 1
    BY <1>2, <2>1, BranchOperands
  <2>3. ins.ipRel # {}
    BY <1>2, <2>1, <2>2 DEF Marked
  <2>. QED BY <1>2, <2>1, <2>3
<1>. QED BY <1>3, <1>4

(* What is patched is relative to rip, with rex.w and without SIB. *)
LEMMA PlaceFollows == DecoderInv /\ IsaInv => PatchedPlace
<1> SUFFICES ASSUME DecoderInv, IsaInv, stage = "patched"
             PROVE  /\ F!RipRelative(mode, manual)
                    /\ manual.map = 1 /\ F!PrefixCount(mode, text) = 1 =>
                         F!DisplacementAt(manual) = PatchOffset
                    /\ ins.len >= PatchOffset + 4
  BY DEF PatchedPlace, manual
<1>1. stage \in Done
  BY DEF Done
<1>2. Patchable
  BY DEF IsaInv
<1>3. /\ Matched /\ RowFits(ins.row, manual) /\ Marked /\ Sane(manual)
      /\ ins.len = F!InstructionLength(mode, text)
      /\ Movable(ins.row) => ins.opSize = manual.size
  BY <1>1, <1>2 DEF IsaInv, Excused, Patchable, Matched
<1>4. ~F!RelativeBranch(manual)
  BY <1>2, <1>3, BranchOperands DEF Patchable, RowFits
<1>5. F!RipRelative(mode, manual)
  BY <1>2, <1>3, <1>4 DEF Patchable, Marked
<1>6. F!HasModRM(manual) /\ F!mod(manual) = 0 /\ F!rm(manual) = 5 /\ mode = "x64"
  BY <1>5 DEF F!RipRelative
<1>7. manual.size = 8
  <2>1. ins.row.ops \in ModRMLists
    BY <1>3, <1>6 DEF RowFits, Lists
  <2>2. ins.row.ops \notin Control
    BY <1>2, <1>3 DEF Patchable, Marked
  <2>. QED BY <1>2, <1>3, <2>1, <2>2 DEF Patchable, Movable
<1>8. manual.modrmAt >= 3 /\ manual.modrmAt \in Nat
  BY <1>3, <1>7 DEF Sane
<1>9. ~F!SIBPresent(manual) /\ F!DisplacementBytes(manual) = 4
  <2>1. manual.addr # 2
    BY <1>6 DEF manual, F!Fields
  <2>2. ~F!SIBPresent(manual)
    BY <1>6 DEF F!SIBPresent
  <2>. QED BY <1>6, <2>1, <2>2 DEF F!DisplacementBytes
<1>10. ins.len >= PatchOffset + 4
  <2>1. F!ImmediateBytes(manual) \in Nat
    BY <1>3, PartsNatural
  <2>2. ins.len = manual.modrmAt - 1 + 1 + 0 + 4 + F!ImmediateBytes(manual)
    BY <1>3, <1>6, <1>9, ManualLength
  <2>. QED BY <1>8, <2>1, <2>2 DEF PatchOffset
<1>11. manual.map = 1 /\ F!PrefixCount(mode, text) = 1 => F!DisplacementAt(manual) = PatchOffset
  <2>1. manual.map = 1 /\ F!PrefixCount(mode, text) = 1 => manual.modrmAt = 3
    BY DEF manual, F!Fields
  <2>. QED BY <1>9, <2>1 DEF F!DisplacementAt, PatchOffset
<1>. QED BY <1>5, <1>10, <1>11

(* Whatever bytes lie there, what the decoder has read is what the manuals have there, but for
   the instructions named in Misread.                                                       *)
THEOREM EncodingMatched == Spec => []IsaInv
<1>1. Init => IsaInv
  BY IsaInit
<1>2. DecoderInv /\ IsaInv /\ [Next]_vars => IsaInv'
  BY IsaStep
<1>. QED BY <1>1, <1>2, Invariant, PTL DEF Spec

(* GetInstruction finds the length that the manuals give the instruction. *)
THEOREM LengthsRight == Spec => []LengthIsISA
BY EncodingMatched, LengthFollows, PTL

(* DisassembleAndSkip lets nothing through that is relative to its address and not put down to
   be corrected, but for loopcc and jecxz on x86.                                           *)
THEOREM NoRelativeMoved == Spec => []NothingRelativeMoved
BY Invariant, EncodingMatched, MovedFollows, PTL

(* The displacement that is put down to be corrected is behind rex, opcode and ModRM. *)
THEOREM PatchesFound == Spec => []PatchedPlace
BY Invariant, EncodingMatched, PlaceFollows, PTL
==============================================================================
