--------------------------- MODULE DecoderProofs ---------------------------
(***************************************************************************)
(* What the pipeline's proofs assume of decode_instruction() holds of the   *)
(* bit-level decoder, for every one of the 2^32 instruction words, and the  *)
(* decoder is the inverse of the assembler's encoding.                      *)
(***************************************************************************)
EXTENDS Decoder, ControlProofs, TLAPS

\* What decode_instruction() returns.
Decoded == [kind : InstructionKind, rd : 0 .. 31, rs1 : 0 .. 31,
            rs2 : 0 .. 31, immediate : Int32, control : ControlSignals]

\* The fields of a word are in their ranges.
LEMMA FieldRanges ==
    ASSUME NEW w \in Int32
    PROVE  /\ extract_rd(w) \in 0 .. 31
           /\ extract_rs1(w) \in 0 .. 31
           /\ extract_rs2(w) \in 0 .. 31
           /\ extract_funct3(w) \in 0 .. 7
           /\ extract_funct7(w) \in 0 .. 127
BY DEF Int32, extract_rd, extract_rs1, extract_rs2, extract_funct3,
       extract_funct7, bits

\* The immediates of all formats are 32-bit numbers.
LEMMA ImmediateRanges ==
    ASSUME NEW w \in Int32
    PROVE  /\ i_immediate(w) \in Int32
           /\ s_immediate(w) \in Int32
           /\ b_immediate(w) \in Int32
           /\ u_immediate(w) \in Int32
           /\ j_immediate(w) \in Int32
<1>1. i_immediate(w) \in Int32
  BY DEF Int32, i_immediate, sign_extend, bits
<1>2. s_immediate(w) \in Int32
  BY DEF Int32, s_immediate, sign_extend, bits
<1>3. b_immediate(w) \in Int32
  BY DEF Int32, b_immediate, sign_extend, bits
<1>4. u_immediate(w) \in Int32
  BY DEF Int32, u_immediate, bits
<1>5. j_immediate(w) \in Int32
  BY DEF Int32, j_immediate, sign_extend, bits
<1>q. QED  BY <1>1, <1>2, <1>3, <1>4, <1>5

\* A decoded instruction has a legal form, and the signals of its kind.
WellDecoded(d) == d \in Decoded /\ d.control = control_of[d.kind]

\* An arm that builds the signals of the kind it recognises decodes well.
LEMMA DecodedAsKind ==
    ASSUME NEW w \in Int32, NEW k \in InstructionKind, NEW i \in Int32, NEW c,
           k # "Invalid" => c = control_of[k]
    PROVE  WellDecoded(decoded_as(w, k, i, c))
<1> DEFINE s == IF k = "Invalid" THEN no_control ELSE c
<1>1. s = control_of[k]
  BY ControlByKind
<1>2. s \in ControlSignals
  BY <1>1, ControlType
<1>3. decoded_as(w, k, i, c) =
        [base_decoded(w) EXCEPT !.kind = k, !.immediate = i, !.control = s]
  BY Zenon DEF decoded_as
<1> HIDE DEF s
<1>4. decoded_as(w, k, i, c) =
        [kind |-> k, rd |-> extract_rd(w), rs1 |-> extract_rs1(w),
         rs2 |-> extract_rs2(w), immediate |-> i, control |-> s]
  BY <1>3 DEF base_decoded
<1> QED
  BY <1>1, <1>2, <1>4, FieldRanges DEF WellDecoded, Decoded

\* A word no arm recognises keeps the fields base_decoded gives it.
LEMMA BaseDecoded ==
    ASSUME NEW w \in Int32
    PROVE  WellDecoded(base_decoded(w))
<1>1. "Invalid" \in InstructionKind /\ 0 \in Int32
  BY DEF InstructionKind, Int32
<1>2. no_control = control_of["Invalid"]
  BY <1>1, ControlByKind
<1> QED
  BY <1>1, <1>2, NoControlType, FieldRanges
     DEF WellDecoded, Decoded, base_decoded

\* Register-register and register-immediate arithmetic.
LEMMA AluKindTypes ==
    ASSUME NEW f3 \in 0 .. 7, NEW f7 \in 0 .. 127
    PROVE  /\ reg_kind(f3, f7) \in AluRegKinds \cup {"Invalid"}
           /\ imm_kind(f3, f7) \in AluImmKinds \cup {"Invalid"}
<1>1. reg_kind(f3, f7) \in AluRegKinds \cup {"Invalid"}
  <2>1. CASE f7 = 0
    <3>1. reg_kind(f3, f7) = <<"Add", "Sll", "Slt", "Sltu",
                               "Xor", "Srl", "Or", "And">>[f3 + 1]
      BY <2>1 DEF reg_kind
    <3> QED  BY <3>1 DEF AluRegKinds
  <2>2. CASE f7 = 32
    <3>1. reg_kind(f3, f7) = <<"Sub", "Invalid", "Invalid", "Invalid",
                               "Invalid", "Sra", "Invalid", "Invalid">>[f3 + 1]
      BY <2>2 DEF reg_kind
    <3> QED  BY <3>1 DEF AluRegKinds
  <2>3. CASE f7 \notin {0, 32}
    BY <2>3 DEF reg_kind
  <2> QED  BY <2>1, <2>2, <2>3
<1>2. shift_kind(f3, f7) \in {"Slli", "Srli", "Srai", "Invalid"}
  BY DEF shift_kind
<1>3. imm_kind(f3, f7) \in AluImmKinds \cup {"Invalid"}
  BY <1>2 DEF imm_kind, AluImmKinds
<1> QED  BY <1>1, <1>3

\* Loads: the width and sign read from funct3 are those of the kind.
LEMMA LoadSignals ==
    ASSUME NEW f3 \in 0 .. 7, load_kind(f3) # "Invalid"
    PROVE  /\ load_kind(f3) \in LoadKinds
           /\ load_signals(f3) = load_control(load_kind(f3))
<1>1. f3 \in {0, 1, 2, 4, 5}
  BY DEF load_kind
<1>2. load_kind(f3) \in LoadKinds
  BY <1>1 DEF load_kind, LoadKinds
<1>3. set_memory_width(f3) = memory_width_of(load_kind(f3))
  BY <1>1 DEF load_kind, set_memory_width, memory_width_of
<1>4. (f3 \in {4, 5}) = (load_kind(f3) \in {"Lbu", "Lhu"})
  BY <1>1 DEF load_kind
<1> QED
  BY <1>2, <1>3, <1>4, Zenon DEF load_signals, load_control

\* Stores: the width read from funct3 is that of the kind.
LEMMA StoreSignals ==
    ASSUME NEW f3 \in 0 .. 7, store_kind(f3) # "Invalid"
    PROVE  /\ store_kind(f3) \in StoreKinds
           /\ set_memory_width(f3) = memory_width_of(store_kind(f3))
<1>1. f3 \in {0, 1, 2}
  BY DEF store_kind
<1>2. store_kind(f3) \in StoreKinds
  BY <1>1 DEF store_kind, StoreKinds
<1>3. set_memory_width(f3) = memory_width_of(store_kind(f3))
  BY <1>1 DEF store_kind, set_memory_width, memory_width_of
<1> QED  BY <1>2, <1>3

\* Branches and the system instructions.
LEMMA BranchAndSystemKinds ==
    /\ \A f3 \in 0 .. 7 : branch_kind(f3) \in BranchKinds \cup {"Invalid"}
    /\ \A f3, imm : system_kind(f3, imm) \in HaltKinds \cup {"Invalid"}
<1>1. ASSUME NEW f3 \in 0 .. 7
      PROVE  branch_kind(f3) \in BranchKinds \cup {"Invalid"}
  BY DEF branch_kind, BranchKinds
<1>2. ASSUME NEW f3, NEW imm
      PROVE  system_kind(f3, imm) \in HaltKinds \cup {"Invalid"}
  BY Zenon DEF system_kind, HaltKinds
<1> QED  BY <1>1, <1>2

(***************************************************************************)
(* Whatever word is in IF/ID, decode_instruction() returns an instruction    *)
(* of a legal form with the control signals of its kind.                    *)
(***************************************************************************)
LEMMA EveryWordWellDecoded ==
    ASSUME NEW w \in Int32
    PROVE  WellDecoded(decode_instruction(w))
<1> DEFINE f3 == extract_funct3(w)
           f7 == extract_funct7(w)
           op == extract_opcode(w)
<1>z. 0 \in Int32
  BY DEF Int32
<1>0. f3 \in 0 .. 7 /\ f7 \in 0 .. 127 /\ 0 \in Int32
  BY <1>z, FieldRanges
<1> HIDE DEF f3, f7, op
<1>1. WellDecoded(decode_reg(w))
  <2> DEFINE k == reg_kind(f3, f7)
  <2>1. k \in AluRegKinds \cup {"Invalid"}
    BY <1>0, AluKindTypes
  <2>2. decode_reg(w) = decoded_as(w, k, 0, alu_reg_control(alu_op_of(k)))
    BY Zenon DEF decode_reg, f3, f7
  <2> HIDE DEF k
  <2>3. k \in InstructionKind
    BY <2>1 DEF InstructionKind
  <2>4. k # "Invalid" => alu_reg_control(alu_op_of(k)) = control_of[k]
    BY <2>1, <2>3, ControlByKind
  <2> QED  BY <1>0, <2>2, <2>3, <2>4, DecodedAsKind
<1>2. WellDecoded(decode_imm(w))
  <2> DEFINE k == imm_kind(f3, f7)
             i == IF k \in {"Slli", "Srli", "Srai"}
                  THEN i_immediate(w) % 32 ELSE i_immediate(w)
  <2>1. k \in AluImmKinds \cup {"Invalid"}
    BY <1>0, AluKindTypes
  <2>2. decode_imm(w) = decoded_as(w, k, i, alu_imm_control(alu_op_of(k)))
    BY Zenon DEF decode_imm, f3, f7
  <2> HIDE DEF k
  <2>3. k \in InstructionKind
    BY <2>1 DEF InstructionKind
  <2>4. k # "Invalid" => alu_imm_control(alu_op_of(k)) = control_of[k]
    BY <2>1, <2>3, ControlByKind
  <2>5. i \in Int32
    <3>1. \A j \in Int32 : j % 32 \in Int32
      BY DEF Int32
    <3> QED  BY <3>1, ImmediateRanges
  <2> HIDE DEF i
  <2> QED  BY <2>2, <2>3, <2>4, <2>5, DecodedAsKind
<1>3. WellDecoded(decode_load(w))
  <2> DEFINE k == load_kind(f3)
  <2>1. k # "Invalid" => k \in LoadKinds /\ load_signals(f3) = load_control(k)
    BY <1>0, LoadSignals
  <2>2. decode_load(w) = decoded_as(w, k, i_immediate(w), load_signals(f3))
    BY Zenon DEF decode_load, f3
  <2> HIDE DEF k
  <2>3. k \in InstructionKind
    BY <2>1 DEF InstructionKind
  <2>4. k # "Invalid" => load_signals(f3) = control_of[k]
    BY <2>1, <2>3, ControlByKind
  <2> QED  BY <2>2, <2>3, <2>4, ImmediateRanges, DecodedAsKind
<1>4. WellDecoded(decode_store(w))
  <2> DEFINE k == store_kind(f3)
             c == [no_control EXCEPT !.mem_write = TRUE,
                                     !.alu_src_imm = TRUE, !.alu_op = "Add",
                                     !.memory_width = set_memory_width(f3)]
  <2>1. k # "Invalid" => /\ k \in StoreKinds
                         /\ set_memory_width(f3) = memory_width_of(k)
    BY <1>0, StoreSignals
  <2>2. decode_store(w) = decoded_as(w, k, s_immediate(w), c)
    BY Zenon DEF decode_store, f3
  <2>3. k # "Invalid" => c = store_control(k)
    BY <2>1, Zenon DEF store_control
  <2> HIDE DEF k, c
  <2>4. k \in InstructionKind
    BY <2>1 DEF InstructionKind
  <2>5. k # "Invalid" => c = control_of[k]
    BY <2>1, <2>3, <2>4, ControlByKind
  <2> QED  BY <2>2, <2>4, <2>5, ImmediateRanges, DecodedAsKind
<1>5. WellDecoded(decode_branch(w))
  <2> DEFINE k == branch_kind(f3)
  <2>1. k \in BranchKinds \cup {"Invalid"}
    BY <1>0, BranchAndSystemKinds
  <2>2. decode_branch(w) = decoded_as(w, k, b_immediate(w), branch_control(k))
    BY Zenon DEF decode_branch, f3
  <2> HIDE DEF k
  <2>3. k \in InstructionKind
    BY <2>1 DEF InstructionKind
  <2>4. k # "Invalid" => branch_control(k) = control_of[k]
    BY <2>1, <2>3, ControlByKind
  <2> QED  BY <2>2, <2>3, <2>4, ImmediateRanges, DecodedAsKind
<1>6. WellDecoded(decode_jalr(w))
  <2> DEFINE k == IF f3 = 0 THEN "Jalr" ELSE "Invalid"
  <2>1. k \in {"Jalr", "Invalid"}
    OBVIOUS
  <2>2. decode_jalr(w) = decoded_as(w, k, i_immediate(w), jalr_control)
    BY Zenon DEF decode_jalr, f3
  <2> HIDE DEF k
  <2>3. k \in InstructionKind
    BY <2>1 DEF InstructionKind
  <2>4. k # "Invalid" => jalr_control = control_of[k]
    BY <2>1, <2>3, ControlByKind
  <2> QED  BY <2>2, <2>3, <2>4, ImmediateRanges, DecodedAsKind
<1>7. WellDecoded(decode_system(w))
  <2> DEFINE k == system_kind(f3, i_immediate(w))
  <2>1. k \in HaltKinds \cup {"Invalid"}
    BY BranchAndSystemKinds
  <2>2. decode_system(w) = decoded_as(w, k, i_immediate(w), halt_control)
    BY Zenon DEF decode_system, f3
  <2> HIDE DEF k
  <2>3. k \in InstructionKind
    BY <2>1 DEF InstructionKind
  <2>4. k # "Invalid" => halt_control = control_of[k]
    BY <2>1, <2>3, ControlByKind
  <2> QED  BY <2>2, <2>3, <2>4, ImmediateRanges, DecodedAsKind
<1>8. /\ WellDecoded(decoded_as(w, "Lui", u_immediate(w), lui_control))
      /\ WellDecoded(decoded_as(w, "Auipc", u_immediate(w), auipc_control))
      /\ WellDecoded(decoded_as(w, "Jal", j_immediate(w), jal_control))
  <2>1. {"Lui", "Auipc", "Jal"} \subseteq InstructionKind
    BY DEF InstructionKind
  <2>2. /\ lui_control = control_of["Lui"]
        /\ auipc_control = control_of["Auipc"]
        /\ jal_control = control_of["Jal"]
    BY <2>1, ControlByKind
  <2> QED  BY <2>1, <2>2, ImmediateRanges, DecodedAsKind
<1>9. WellDecoded(base_decoded(w))
  BY BaseDecoded
<1>10. decode_instruction(w) \in
         {decode_reg(w), decode_imm(w), decode_load(w), decode_store(w),
          decode_branch(w), decode_jalr(w), decode_system(w),
          decoded_as(w, "Lui", u_immediate(w), lui_control),
          decoded_as(w, "Auipc", u_immediate(w), auipc_control),
          decoded_as(w, "Jal", j_immediate(w), jal_control),
          base_decoded(w)}
  BY Zenon DEF decode_instruction
<1> QED
  BY <1>1, <1>2, <1>3, <1>4, <1>5, <1>6, <1>7, <1>8, <1>9, <1>10, Zenon

-----------------------------------------------------------------------------
(* The fields of a word *)

(***************************************************************************)
(* The fields of a word, the uppermost one signed.  Bounds are inequalities *)
(* because the provers enumerate an interval with constant ends.            *)
(***************************************************************************)
Fields(w, f7, rs2, rs1, f3, rd, op) ==
    /\ f7 \in Int /\ -64 <= f7 /\ f7 <= 63
    /\ rs2 \in Int /\ 0 <= rs2 /\ rs2 <= 31
    /\ rs1 \in Int /\ 0 <= rs1 /\ rs1 <= 31
    /\ f3 \in Int /\ 0 <= f3 /\ f3 <= 7
    /\ rd \in Int /\ 0 <= rd /\ rd <= 31
    /\ op \in Int /\ 0 <= op /\ op <= 127
    /\ w = f7 * 2^25 + rs2 * 2^20 + rs1 * 2^15 + f3 * 2^12 + rd * 2^7 + op

\* Every word has fields.
LEMMA WordFields ==
    ASSUME NEW w \in Int32
    PROVE  \E f7, rs2, rs1, f3, rd, op : Fields(w, f7, rs2, rs1, f3, rd, op)
<1> DEFINE a == w \div 128
           b == a \div 32
           c == b \div 8
           d == c \div 32
           e == d \div 32
           op == w % 128
           rd == a % 32
           f3 == b % 8
           rs1 == c % 32
           rs2 == d % 32
<1>0. w \in Int /\ -(2^30) - 2^30 <= w /\ w <= (2^30 - 1) + 2^30
  BY SMT DEF Int32
<1>1. a \in Int /\ op \in Int /\ 0 <= op /\ op <= 127 /\ w = a * 128 + op
  BY SMT, <1>0
<1> HIDE DEF a, op
<1>2. b \in Int /\ rd \in Int /\ 0 <= rd /\ rd <= 31 /\ a = b * 32 + rd
  BY SMT, <1>1
<1> HIDE DEF b, rd
<1>3. c \in Int /\ f3 \in Int /\ 0 <= f3 /\ f3 <= 7 /\ b = c * 8 + f3
  BY SMT, <1>2
<1> HIDE DEF c, f3
<1>4. d \in Int /\ rs1 \in Int /\ 0 <= rs1 /\ rs1 <= 31 /\ c = d * 32 + rs1
  BY SMT, <1>3
<1> HIDE DEF d, rs1
<1>5. e \in Int /\ rs2 \in Int /\ 0 <= rs2 /\ rs2 <= 31 /\ d = e * 32 + rs2
  BY SMT, <1>4
<1> HIDE DEF e, rs2
<1>6. w = e * 2^25 + rs2 * 2^20 + rs1 * 2^15 + f3 * 2^12 + rd * 2^7 + op
  BY SMT, <1>0, <1>1, <1>2, <1>3, <1>4, <1>5
<1>7. -64 <= e /\ e <= 63
  BY SMT, <1>0, <1>1, <1>2, <1>3, <1>4, <1>5, <1>6
<1>8. Fields(w, e, rs2, rs1, f3, rd, op)
  BY SMT, <1>1, <1>2, <1>3, <1>4, <1>5, <1>6, <1>7 DEF Fields
<1> QED
  BY <1>8, Zenon

\* The extract functions read them.
LEMMA FieldsRead ==
    ASSUME NEW w, NEW f7, NEW rs2, NEW rs1, NEW f3, NEW rd, NEW op,
           Fields(w, f7, rs2, rs1, f3, rd, op)
    PROVE  /\ w \in Int32
           /\ extract_opcode(w) = op /\ extract_rd(w) = rd
           /\ extract_funct3(w) = f3 /\ extract_rs1(w) = rs1
           /\ extract_rs2(w) = rs2 /\ extract_funct7(w) = f7 % 128
<1> USE DEF Fields
<1>1. w \in Int32
  BY SMT DEF Int32
<1>2. extract_opcode(w) = op
  BY SMT DEF extract_opcode, bits
<1>3. extract_rd(w) = rd
  BY SMT DEF extract_rd, bits
<1>4. extract_funct3(w) = f3
  BY SMT DEF extract_funct3, bits
<1>5. extract_rs1(w) = rs1
  BY SMT DEF extract_rs1, bits
<1>6. extract_rs2(w) = rs2
  BY SMT DEF extract_rs2, bits
<1>7. extract_funct7(w) = f7 % 128
  BY SMT DEF extract_funct7, bits
<1> HIDE DEF Fields
<1> QED
  BY <1>1, <1>2, <1>3, <1>4, <1>5, <1>6, <1>7, Zenon

\* And so are the immediates made of them.
LEMMA FieldsImmediate ==
    ASSUME NEW w, NEW f7, NEW rs2, NEW rs1, NEW f3, NEW rd, NEW op,
           Fields(w, f7, rs2, rs1, f3, rd, op)
    PROVE  /\ i_immediate(w) = f7 * 32 + rs2
           /\ s_immediate(w) = f7 * 32 + rd
           /\ b_immediate(w) =
                (f7 \div 64) * 2^12 + (rd % 2) * 2^11 + (f7 % 64) * 32
                  + (rd \div 2) * 2
           /\ u_immediate(w) = w - (rd * 2^7 + op)
           /\ j_immediate(w) =
                (f7 \div 64) * 2^20 + (rs1 * 8 + f3) * 2^12 + (rs2 % 2) * 2^11
                  + (f7 % 64) * 32 + (rs2 \div 2) * 2
<1> USE DEF Fields
<1>1. i_immediate(w) = f7 * 32 + rs2
  <2>1. bits(w, 31, 20) = (f7 * 32 + rs2) % 4096
    BY SMT DEF bits
  <2> QED
    BY SMT, <2>1 DEF i_immediate, sign_extend
<1>2. s_immediate(w) = f7 * 32 + rd
  <2>1. bits(w, 31, 25) = f7 % 128 /\ bits(w, 11, 7) = rd
    BY SMT DEF bits
  <2> QED
    BY SMT, <2>1 DEF s_immediate, sign_extend
<1>3. u_immediate(w) = w - (rd * 2^7 + op)
  <2>1. bits(w, 11, 0) = rd * 2^7 + op
    BY SMT DEF bits
  <2> QED
    BY SMT, <2>1 DEF u_immediate
<1>4. bits(w, 31, 31) = -(f7 \div 64)
  BY SMT DEF bits
<1>5. bits(w, 30, 25) = f7 % 64
  BY SMT DEF bits
<1>6. b_immediate(w) =
        (f7 \div 64) * 2^12 + (rd % 2) * 2^11 + (f7 % 64) * 32 + (rd \div 2) * 2
  <2>1. bits(w, 7, 7) = rd % 2
    BY SMT DEF bits
  <2>2. bits(w, 11, 8) = rd \div 2
    BY SMT DEF bits
  <2> DEFINE s == f7 \div 64
             m == f7 % 64
             x == rd % 2
             y == rd \div 2
  <2>3. /\ s \in Int /\ -1 <= s /\ s <= 0
        /\ m \in Int /\ 0 <= m /\ m <= 63
        /\ x \in Int /\ 0 <= x /\ x <= 1
        /\ y \in Int /\ 0 <= y /\ y <= 15
    BY SMT
  <2> HIDE DEF s, m, x, y
  <2>4. b_immediate(w) =
          sign_extend((-s) * 2^12 + x * 2^11 + m * 2^5 + y * 2, 13)
    BY <1>4, <1>5, <2>1, <2>2, Zenon DEF b_immediate, s, m, x, y
  <2>5. b_immediate(w) = s * 2^12 + x * 2^11 + m * 32 + y * 2
    BY SMT, <2>3, <2>4 DEF sign_extend
  <2> QED
    BY SMT, <2>5 DEF s, m, x, y
<1>7. j_immediate(w) =
        (f7 \div 64) * 2^20 + (rs1 * 8 + f3) * 2^12 + (rs2 % 2) * 2^11
          + (f7 % 64) * 32 + (rs2 \div 2) * 2
  <2>1. bits(w, 19, 12) = rs1 * 8 + f3
    BY SMT DEF bits
  <2>2. bits(w, 20, 20) = rs2 % 2
    BY SMT DEF bits
  <2>3. bits(w, 30, 21) = (f7 % 64) * 16 + (rs2 \div 2)
    BY SMT DEF bits
  <2> DEFINE s == f7 \div 64
             m == f7 % 64
             x == rs2 % 2
             y == rs2 \div 2
             z == rs1 * 8 + f3
  <2>4. /\ s \in Int /\ -1 <= s /\ s <= 0
        /\ m \in Int /\ 0 <= m /\ m <= 63
        /\ x \in Int /\ 0 <= x /\ x <= 1
        /\ y \in Int /\ 0 <= y /\ y <= 15
        /\ z \in Int /\ 0 <= z /\ z <= 255
    BY SMT
  <2> HIDE DEF s, m, x, y, z
  <2>5. j_immediate(w) =
          sign_extend((-s) * 2^20 + z * 2^12 + x * 2^11 + (m * 16 + y) * 2, 21)
    BY <1>4, <2>1, <2>2, <2>3, Zenon DEF j_immediate, s, m, x, y, z
  <2>6. j_immediate(w) = s * 2^20 + z * 2^12 + x * 2^11 + m * 32 + y * 2
    BY SMT, <2>4, <2>5 DEF sign_extend
  <2> QED
    BY SMT, <2>6 DEF s, m, x, y, z
<1> HIDE DEF Fields
<1> QED
  BY <1>1, <1>2, <1>3, <1>6, <1>7, SMT

-----------------------------------------------------------------------------
(* The tables of the encoder and of the decoder *)

\* Register arithmetic: the kind is read from funct3 and funct7.
LEMMA RegEncoding ==
    ASSUME NEW k \in AluRegKinds
    PROVE  /\ Encoding_of[k][1] = 51
           /\ Encoding_of[k][2] \in 0 .. 7 /\ Encoding_of[k][3] \in {0, 32}
           /\ reg_kind(Encoding_of[k][2], Encoding_of[k][3]) = k
BY DEF AluRegKinds, Encoding_of, reg_kind

\* Register arithmetic: every kind read has the encoding it is read from.
LEMMA RegDecoding ==
    ASSUME NEW f3 \in 0 .. 7, NEW f7 \in Int, reg_kind(f3, f7) # "Invalid"
    PROVE  /\ reg_kind(f3, f7) \in AluRegKinds
           /\ Encoding_of[reg_kind(f3, f7)] = <<51, f3, f7>>
           /\ f7 \in {0, 32}
<1>1. CASE f7 = 0
  BY <1>1 DEF AluRegKinds, Encoding_of, reg_kind
<1>2. CASE f7 = 32
  BY <1>2 DEF AluRegKinds, Encoding_of, reg_kind
<1>3. CASE f7 \notin {0, 32}
  BY <1>3 DEF reg_kind
<1> QED
  BY <1>1, <1>2, <1>3

\* Immediate arithmetic: the kind is read from funct3, for shifts with funct7.
LEMMA ImmEncoding ==
    ASSUME NEW k \in AluImmKinds
    PROVE  /\ Encoding_of[k][1] = 19
           /\ Encoding_of[k][2] \in 0 .. 7 /\ Encoding_of[k][3] \in {0, 32}
           /\ k \in ShiftKinds => imm_kind(Encoding_of[k][2], Encoding_of[k][3]) = k
           /\ k \notin ShiftKinds =>
                \A f7 \in Int : imm_kind(Encoding_of[k][2], f7) = k
BY DEF AluImmKinds, ShiftKinds, Encoding_of, imm_kind, shift_kind

\* Immediate arithmetic: every kind read has the encoding it is read from.
LEMMA ImmDecoding ==
    ASSUME NEW f3 \in 0 .. 7, NEW f7 \in Int, imm_kind(f3, f7) # "Invalid"
    PROVE  /\ imm_kind(f3, f7) \in AluImmKinds
           /\ imm_kind(f3, f7) \in ShiftKinds =>
                Encoding_of[imm_kind(f3, f7)] = <<19, f3, f7>> /\ f7 \in {0, 32}
           /\ Encoding_of[imm_kind(f3, f7)][1] = 19
           /\ Encoding_of[imm_kind(f3, f7)][2] = f3
BY DEF AluImmKinds, ShiftKinds, Encoding_of, imm_kind, shift_kind

\* Loads, stores and branches: the kind is read from funct3.
LEMMA LoadStoreBranchEncoding ==
    /\ \A k \in LoadKinds : /\ Encoding_of[k][1] = 3
                            /\ Encoding_of[k][2] \in 0 .. 7
                            /\ load_kind(Encoding_of[k][2]) = k
    /\ \A k \in StoreKinds : /\ Encoding_of[k][1] = 35
                             /\ Encoding_of[k][2] \in 0 .. 7
                             /\ store_kind(Encoding_of[k][2]) = k
    /\ \A k \in BranchKinds : /\ Encoding_of[k][1] = 99
                              /\ Encoding_of[k][2] \in 0 .. 7
                              /\ branch_kind(Encoding_of[k][2]) = k
BY DEF LoadKinds, StoreKinds, BranchKinds, Encoding_of, load_kind, store_kind, branch_kind

\* Loads, stores and branches: every kind read has that funct3.
LEMMA LoadStoreBranchDecoding ==
    ASSUME NEW f3 \in 0 .. 7
    PROVE  /\ load_kind(f3) # "Invalid" =>
                /\ load_kind(f3) \in LoadKinds
                /\ Encoding_of[load_kind(f3)][1] = 3
                /\ Encoding_of[load_kind(f3)][2] = f3
           /\ store_kind(f3) # "Invalid" =>
                /\ store_kind(f3) \in StoreKinds
                /\ Encoding_of[store_kind(f3)][1] = 35
                /\ Encoding_of[store_kind(f3)][2] = f3
           /\ branch_kind(f3) # "Invalid" =>
                /\ branch_kind(f3) \in BranchKinds
                /\ Encoding_of[branch_kind(f3)][1] = 99
                /\ Encoding_of[branch_kind(f3)][2] = f3
BY SMTT(30) DEF LoadKinds, StoreKinds, BranchKinds, Encoding_of, load_kind,
                store_kind, branch_kind

\* The kinds with an opcode of their own.
LEMMA OtherEncodings ==
    /\ Encoding_of["Lui"] = <<55, 0, 0>> /\ Encoding_of["Auipc"] = <<23, 0, 0>>
    /\ Encoding_of["Jal"] = <<111, 0, 0>> /\ Encoding_of["Jalr"] = <<103, 0, 0>>
    /\ Encoding_of["Ecall"] = <<115, 0, 0>> /\ Encoding_of["Ebreak"] = <<115, 0, 0>>
BY DEF Encoding_of

\* The arm of the switch is chosen by the opcode.
LEMMA OpcodeArm ==
    ASSUME NEW w, NEW op, extract_opcode(w) = op
    PROVE  /\ op = 51 => decode_instruction(w) = decode_reg(w)
           /\ op = 19 => decode_instruction(w) = decode_imm(w)
           /\ op = 3 => decode_instruction(w) = decode_load(w)
           /\ op = 35 => decode_instruction(w) = decode_store(w)
           /\ op = 99 => decode_instruction(w) = decode_branch(w)
           /\ op = 55 => decode_instruction(w) =
                           decoded_as(w, "Lui", u_immediate(w), lui_control)
           /\ op = 23 => decode_instruction(w) =
                           decoded_as(w, "Auipc", u_immediate(w), auipc_control)
           /\ op = 111 => decode_instruction(w) =
                            decoded_as(w, "Jal", j_immediate(w), jal_control)
           /\ op = 103 => decode_instruction(w) = decode_jalr(w)
           /\ op = 115 => decode_instruction(w) = decode_system(w)
           /\ op \notin {51, 19, 3, 35, 99, 55, 23, 111, 103, 115} =>
                decode_instruction(w) = base_decoded(w)
BY DEF decode_instruction

\* What an arm returns, as assembler input.
LEMMA ArmSource ==
    ASSUME NEW w, NEW k, NEW i, NEW c
    PROVE  /\ decoded_as(w, k, i, c).kind = k
           /\ decoded_as(w, k, i, c).rd = extract_rd(w)
           /\ decoded_as(w, k, i, c).rs1 = extract_rs1(w)
           /\ AsSource(decoded_as(w, k, i, c)) =
                [kind |-> k,
                 rd |-> IF HasRd(k) THEN extract_rd(w) ELSE 0,
                 rs1 |-> IF HasRs1(k) THEN extract_rs1(w) ELSE 0,
                 rs2 |-> IF HasRs2(k) THEN extract_rs2(w) ELSE 0,
                 immediate |-> i]
<1> DEFINE s == IF k = "Invalid" THEN no_control ELSE c
<1>1. decoded_as(w, k, i, c) =
        [base_decoded(w) EXCEPT !.kind = k, !.immediate = i, !.control = s]
  BY Zenon DEF decoded_as
<1> HIDE DEF s
<1>2. decoded_as(w, k, i, c) =
        [kind |-> k, rd |-> extract_rd(w), rs1 |-> extract_rs1(w),
         rs2 |-> extract_rs2(w), immediate |-> i, control |-> s]
  BY <1>1 DEF base_decoded
<1> QED
  BY <1>2 DEF AsSource

\* The format of a kind.
LEMMA EncodeFormat ==
    ASSUME NEW i
    PROVE  /\ i.kind \in AluRegKinds =>
                Encode(i) = Layout(Encoding_of[i.kind][3], i.rs2, i.rs1, i.kind, i.rd)
           /\ i.kind \in ShiftKinds =>
                Encode(i) = Layout(Encoding_of[i.kind][3], i.immediate, i.rs1,
                                   i.kind, i.rd)
           /\ i.kind \in IKinds =>
                Encode(i) = Layout(i.immediate \div 32, i.immediate % 32, i.rs1,
                                   i.kind, i.rd)
           /\ i.kind \in StoreKinds =>
                Encode(i) = Layout(i.immediate \div 32, i.rs2, i.rs1, i.kind,
                                   i.immediate % 32)
           /\ i.kind \in BranchKinds =>
                Encode(i) =
                  Layout((i.immediate \div 2^12) * 64 + ((i.immediate \div 32) % 64),
                         i.rs2, i.rs1, i.kind,
                         (i.immediate % 32) + ((i.immediate \div 2^11) % 2))
           /\ i.kind \in UKinds =>
                Encode(i) = i.immediate + Layout(0, 0, 0, i.kind, i.rd)
           /\ i.kind = "Jal" =>
                Encode(i) =
                  Layout((i.immediate \div 2^20) * 64 + ((i.immediate \div 32) % 64),
                         (i.immediate % 32) + ((i.immediate \div 2^11) % 2), 0,
                         i.kind, i.rd)
                    + ((i.immediate \div 2^12) % 256) * 2^12
<1> USE DEF Encode, AluRegKinds, ShiftKinds, IKinds, AluImmKinds, LoadKinds,
            HaltKinds, StoreKinds, BranchKinds, UKinds
<1>1. ASSUME i.kind \in AluRegKinds
      PROVE  Encode(i) = Layout(Encoding_of[i.kind][3], i.rs2, i.rs1, i.kind, i.rd)
  BY <1>1, Zenon
<1>2. ASSUME i.kind \in ShiftKinds
      PROVE  Encode(i) = Layout(Encoding_of[i.kind][3], i.immediate, i.rs1,
                                i.kind, i.rd)
  BY <1>2, Zenon
<1>3. ASSUME i.kind \in IKinds
      PROVE  Encode(i) = Layout(i.immediate \div 32, i.immediate % 32, i.rs1,
                                i.kind, i.rd)
  BY <1>3, ZenonT(60)
<1>4. ASSUME i.kind \in StoreKinds
      PROVE  Encode(i) = Layout(i.immediate \div 32, i.rs2, i.rs1, i.kind,
                                i.immediate % 32)
  BY <1>4, Zenon
<1>5. ASSUME i.kind \in BranchKinds
      PROVE  Encode(i) =
                  Layout((i.immediate \div 2^12) * 64 + ((i.immediate \div 32) % 64),
                         i.rs2, i.rs1, i.kind,
                         (i.immediate % 32) + ((i.immediate \div 2^11) % 2))
  BY <1>5, Zenon
<1>6. ASSUME i.kind \in UKinds
      PROVE  Encode(i) = i.immediate + Layout(0, 0, 0, i.kind, i.rd)
  BY <1>6, Zenon
<1>7. ASSUME i.kind = "Jal"
      PROVE  Encode(i) =
                  Layout((i.immediate \div 2^20) * 64 + ((i.immediate \div 32) % 64),
                         (i.immediate % 32) + ((i.immediate \div 2^11) % 2), 0,
                         i.kind, i.rd)
                    + ((i.immediate \div 2^12) % 256) * 2^12
  BY <1>7, Zenon
<1> QED
  BY <1>1, <1>2, <1>3, <1>4, <1>5, <1>6, <1>7, Zenon

\* The fields of a kind.
LEMMA KindFields ==
    ASSUME NEW k
    PROVE  /\ k \in AluRegKinds => HasRd(k) /\ HasRs1(k) /\ HasRs2(k)
           /\ k \in AluImmKinds \cup LoadKinds \cup {"Jalr"} =>
                HasRd(k) /\ HasRs1(k) /\ ~HasRs2(k)
           /\ k \in StoreKinds \cup BranchKinds =>
                ~HasRd(k) /\ HasRs1(k) /\ HasRs2(k)
           /\ k \in UKinds \cup {"Jal"} => HasRd(k) /\ ~HasRs1(k) /\ ~HasRs2(k)
           /\ k \in HaltKinds => ~HasRd(k) /\ ~HasRs1(k) /\ ~HasRs2(k)
BY DEF HasRd, HasRs1, HasRs2, AluRegKinds, AluImmKinds, LoadKinds, StoreKinds,
       BranchKinds, UKinds, HaltKinds

\* The groups of kinds are disjoint where a format depends on it.
LEMMA KindGroups ==
    /\ AluImmKinds \ ShiftKinds \subseteq IKinds /\ LoadKinds \subseteq IKinds
    /\ HaltKinds \subseteq IKinds /\ "Jalr" \in IKinds
    /\ ShiftKinds \subseteq AluImmKinds
    /\ \A k \in AluRegKinds \cup AluImmKinds \cup LoadKinds \cup StoreKinds
                  \cup BranchKinds \cup UKinds \cup {"Jal", "Jalr"} :
         k \notin HaltKinds
BY DEF IKinds, AluRegKinds, AluImmKinds, ShiftKinds, LoadKinds, StoreKinds,
       BranchKinds, UKinds, HaltKinds

\* What the decoder does not look at in a word.
Ignored(d) == IF d.kind \in HaltKinds THEN d.rd * 2^7 + d.rs1 * 2^15 ELSE 0

Reencodes(w, d) ==
    d.kind # "Invalid" => Encode(AsSource(d)) = w - Ignored(d)

\* An arm whose source encodes to the word.
LEMMA ArmReencodes ==
    ASSUME NEW w \in Int, NEW k, NEW i, NEW c, k \notin HaltKinds,
           Encode([kind |-> k,
                   rd |-> IF HasRd(k) THEN extract_rd(w) ELSE 0,
                   rs1 |-> IF HasRs1(k) THEN extract_rs1(w) ELSE 0,
                   rs2 |-> IF HasRs2(k) THEN extract_rs2(w) ELSE 0,
                   immediate |-> i]) = w
    PROVE  Reencodes(w, decoded_as(w, k, i, c))
<1> DEFINE src == [kind |-> k,
                   rd |-> IF HasRd(k) THEN extract_rd(w) ELSE 0,
                   rs1 |-> IF HasRs1(k) THEN extract_rs1(w) ELSE 0,
                   rs2 |-> IF HasRs2(k) THEN extract_rs2(w) ELSE 0,
                   immediate |-> i]
<1>1. Encode(src) = w
  OBVIOUS
<1>2. decoded_as(w, k, i, c).kind = k /\ AsSource(decoded_as(w, k, i, c)) = src
  BY ArmSource
<1> HIDE DEF src
<1>3. Encode(AsSource(decoded_as(w, k, i, c))) = w
  BY <1>1, <1>2, Zenon
<1>4. Ignored(decoded_as(w, k, i, c)) = 0
  BY <1>2 DEF Ignored
<1>5. w - 0 = w
  OBVIOUS
<1> QED
  BY <1>3, <1>4, <1>5, Zenon DEF Reencodes

\* A word that is not accepted need not be an encoding.
LEMMA InvalidReencodes ==
    ASSUME NEW w, NEW i, NEW c
    PROVE  Reencodes(w, decoded_as(w, "Invalid", i, c))
BY ArmSource DEF Reencodes

\* Register arithmetic: opcode, funct3 and funct7 are all looked at.
LEMMA RegReencodes ==
    ASSUME NEW w, NEW f7, NEW rs2, NEW rs1, NEW f3, NEW rd, NEW op,
           Fields(w, f7, rs2, rs1, f3, rd, op), op = 51
    PROVE  Reencodes(w, decode_reg(w))
<1> DEFINE k == reg_kind(f3, f7 % 128)
           i == [kind |-> k, rd |-> rd, rs1 |-> rs1, rs2 |-> rs2, immediate |-> 0]
<1>1. w \in Int /\ f3 \in 0 .. 7 /\ f7 % 128 \in Int
  BY SMT DEF Fields
<1>2. decode_reg(w) = decoded_as(w, k, 0, alu_reg_control(alu_op_of(k)))
  BY FieldsRead, Zenon DEF decode_reg
<1>3. CASE k # "Invalid"
  <2>1. k \in AluRegKinds /\ Encoding_of[k] = <<51, f3, f7 % 128>> /\ f7 % 128 \in {0, 32}
    BY <1>1, <1>3, RegDecoding
  <2> HIDE DEF k
  <2>2. Encode(i) = Layout(f7 % 128, rs2, rs1, k, rd)
    BY <2>1, EncodeFormat
  <2>3. f7 % 128 = f7
    BY <2>1, SMT DEF Fields
  <2>4. Encoding_of[k][1] = op /\ Encoding_of[k][2] = f3
    BY <2>1
  <2>5. Layout(f7, rs2, rs1, k, rd) = w
    BY <2>4, SMT DEF Layout, Fields
  <2>6. Encode(i) = w
    BY <2>2, <2>3, <2>5, Zenon
  <2>7. HasRd(k) /\ HasRs1(k) /\ HasRs2(k) /\ k \notin HaltKinds
    BY <2>1, KindFields, KindGroups, Zenon
  <2>8. i = [kind |-> k,
             rd |-> IF HasRd(k) THEN extract_rd(w) ELSE 0,
             rs1 |-> IF HasRs1(k) THEN extract_rs1(w) ELSE 0,
             rs2 |-> IF HasRs2(k) THEN extract_rs2(w) ELSE 0,
             immediate |-> 0]
    BY <2>7, FieldsRead, Zenon
  <2> HIDE DEF i
  <2> QED
    BY <1>1, <1>2, <2>6, <2>7, <2>8, ArmReencodes, Zenon
<1>4. CASE k = "Invalid"
  BY <1>2, <1>4, InvalidReencodes, Zenon
<1> QED
  BY <1>3, <1>4

\* Immediate arithmetic: a shift accepts only its own funct7.
LEMMA ImmReencodes ==
    ASSUME NEW w, NEW f7, NEW rs2, NEW rs1, NEW f3, NEW rd, NEW op,
           Fields(w, f7, rs2, rs1, f3, rd, op), op = 19
    PROVE  Reencodes(w, decode_imm(w))
<1> DEFINE k   == imm_kind(f3, f7 % 128)
           all == i_immediate(w)
           imm == IF k \in {"Slli", "Srli", "Srai"} THEN all % 32 ELSE all
           i   == [kind |-> k, rd |-> rd, rs1 |-> rs1, rs2 |-> 0,
                   immediate |-> imm]
<1>1. w \in Int /\ f3 \in 0 .. 7 /\ f7 % 128 \in Int
  BY SMT DEF Fields
<1>2. decode_imm(w) = decoded_as(w, k, imm, alu_imm_control(alu_op_of(k)))
  <2>1. extract_funct3(w) = f3 /\ extract_funct7(w) = f7 % 128
    BY FieldsRead, Zenon
  <2> QED
    BY <2>1, Zenon DEF decode_imm
<1>3. all = f7 * 32 + rs2
  BY FieldsImmediate, SMT
<1>4. all % 32 = rs2 /\ all \div 32 = f7
  BY <1>3, SMT DEF Fields
<1>5. CASE k # "Invalid"
  <2>1. /\ k \in AluImmKinds
        /\ Encoding_of[k][1] = op /\ Encoding_of[k][2] = f3
        /\ k \in ShiftKinds =>
             Encoding_of[k] = <<19, f3, f7 % 128>> /\ f7 % 128 \in {0, 32}
    BY <1>1, <1>5, ImmDecoding
  <2> HIDE DEF k, all
  <2>2. Layout(f7, rs2, rs1, k, rd) = w
    BY <2>1, SMT DEF Layout, Fields
  <2>3. Encode(i) = w
    <3>1. CASE k \in ShiftKinds
      <4>1. imm = rs2
        BY <1>4, <3>1 DEF ShiftKinds
      <4>2. f7 % 128 = f7
        BY <2>1, <3>1, SMT DEF Fields
      <4>3. Encoding_of[k][3] = f7
        BY <2>1, <3>1, <4>2
      <4>4. Encode(i) = Layout(Encoding_of[k][3], imm, rs1, k, rd)
        BY <3>1, EncodeFormat
      <4> QED
        BY <2>2, <4>1, <4>3, <4>4, Zenon
    <3>2. CASE k \notin ShiftKinds
      <4>1. imm = all
        BY <3>2 DEF ShiftKinds
      <4>2. k \in IKinds
        BY <2>1, <3>2, KindGroups
      <4>3. Encode(i) = Layout(imm \div 32, imm % 32, rs1, k, rd)
        BY <4>2, EncodeFormat
      <4> QED
        BY <1>4, <2>2, <4>1, <4>3, Zenon
    <3> QED
      BY <3>1, <3>2
  <2>4. HasRd(k) /\ HasRs1(k) /\ ~HasRs2(k) /\ k \notin HaltKinds
    BY <2>1, KindFields, KindGroups, Zenon
  <2> HIDE DEF imm
  <2>5. i = [kind |-> k,
             rd |-> IF HasRd(k) THEN extract_rd(w) ELSE 0,
             rs1 |-> IF HasRs1(k) THEN extract_rs1(w) ELSE 0,
             rs2 |-> IF HasRs2(k) THEN extract_rs2(w) ELSE 0,
             immediate |-> imm]
    BY <2>4, FieldsRead, Zenon
  <2> HIDE DEF i
  <2> QED
    BY <1>1, <1>2, <2>3, <2>4, <2>5, ArmReencodes, Zenon
<1>6. CASE k = "Invalid"
  BY <1>2, <1>6, InvalidReencodes, Zenon
<1> QED
  BY <1>5, <1>6

\* Loads.
LEMMA LoadReencodes ==
    ASSUME NEW w, NEW f7, NEW rs2, NEW rs1, NEW f3, NEW rd, NEW op,
           Fields(w, f7, rs2, rs1, f3, rd, op), op = 3
    PROVE  Reencodes(w, decode_load(w))
<1> DEFINE k   == load_kind(f3)
           imm == i_immediate(w)
           i   == [kind |-> k, rd |-> rd, rs1 |-> rs1, rs2 |-> 0,
                   immediate |-> imm]
<1>1. w \in Int /\ f3 \in 0 .. 7
  BY SMT DEF Fields
<1>2. decode_load(w) = decoded_as(w, k, imm, load_signals(f3))
  BY FieldsRead, Zenon DEF decode_load
<1>3. imm = f7 * 32 + rs2
  BY FieldsImmediate, SMT
<1>4. imm % 32 = rs2 /\ imm \div 32 = f7
  BY <1>3, SMT DEF Fields
<1> HIDE DEF imm
<1>5. CASE k # "Invalid"
  <2>1. k \in LoadKinds /\ Encoding_of[k][1] = op /\ Encoding_of[k][2] = f3
    BY <1>1, <1>5, LoadStoreBranchDecoding
  <2> HIDE DEF k
  <2>2. Layout(f7, rs2, rs1, k, rd) = w
    BY <2>1, SMT DEF Layout, Fields
  <2>3. Encode(i) = Layout(imm \div 32, imm % 32, rs1, k, rd)
    BY <2>1, KindGroups, EncodeFormat
  <2>4. HasRd(k) /\ HasRs1(k) /\ ~HasRs2(k) /\ k \notin HaltKinds
    BY <2>1, KindFields, KindGroups, Zenon
  <2>5. i = [kind |-> k,
             rd |-> IF HasRd(k) THEN extract_rd(w) ELSE 0,
             rs1 |-> IF HasRs1(k) THEN extract_rs1(w) ELSE 0,
             rs2 |-> IF HasRs2(k) THEN extract_rs2(w) ELSE 0,
             immediate |-> imm]
    BY <2>4, FieldsRead, Zenon
  <2>6. Encode(i) = w
    BY <1>4, <2>2, <2>3, Zenon
  <2> HIDE DEF i
  <2> QED
    BY <1>1, <1>2, <2>4, <2>5, <2>6, ArmReencodes, Zenon
<1>6. CASE k = "Invalid"
  BY <1>2, <1>6, InvalidReencodes, Zenon
<1> QED
  BY <1>5, <1>6

\* Stores: the immediate is in two parts.
LEMMA StoreReencodes ==
    ASSUME NEW w, NEW f7, NEW rs2, NEW rs1, NEW f3, NEW rd, NEW op,
           Fields(w, f7, rs2, rs1, f3, rd, op), op = 35
    PROVE  Reencodes(w, decode_store(w))
<1> DEFINE k   == store_kind(f3)
           imm == s_immediate(w)
           c   == [no_control EXCEPT !.mem_write = TRUE, !.alu_src_imm = TRUE,
                                     !.alu_op = "Add",
                                     !.memory_width = set_memory_width(f3)]
           i   == [kind |-> k, rd |-> 0, rs1 |-> rs1, rs2 |-> rs2,
                   immediate |-> imm]
<1>1. w \in Int /\ f3 \in 0 .. 7
  BY SMT DEF Fields
<1>2. decode_store(w) = decoded_as(w, k, imm, c)
  BY FieldsRead, Zenon DEF decode_store
<1>3. imm = f7 * 32 + rd
  BY FieldsImmediate, SMT
<1>4. imm % 32 = rd /\ imm \div 32 = f7
  BY <1>3, SMT DEF Fields
<1> HIDE DEF imm, c
<1>5. CASE k # "Invalid"
  <2>1. k \in StoreKinds /\ Encoding_of[k][1] = op /\ Encoding_of[k][2] = f3
    BY <1>1, <1>5, LoadStoreBranchDecoding
  <2> HIDE DEF k
  <2>2. Layout(f7, rs2, rs1, k, rd) = w
    BY <2>1, SMT DEF Layout, Fields
  <2>3. Encode(i) = Layout(imm \div 32, rs2, rs1, k, imm % 32)
    BY <2>1, EncodeFormat
  <2>4. ~HasRd(k) /\ HasRs1(k) /\ HasRs2(k) /\ k \notin HaltKinds
    BY <2>1, KindFields, KindGroups, Zenon
  <2>5. i = [kind |-> k,
             rd |-> IF HasRd(k) THEN extract_rd(w) ELSE 0,
             rs1 |-> IF HasRs1(k) THEN extract_rs1(w) ELSE 0,
             rs2 |-> IF HasRs2(k) THEN extract_rs2(w) ELSE 0,
             immediate |-> imm]
    BY <2>4, FieldsRead, Zenon
  <2>6. Encode(i) = w
    BY <1>4, <2>2, <2>3, Zenon
  <2> HIDE DEF i
  <2> QED
    BY <1>1, <1>2, <2>4, <2>5, <2>6, ArmReencodes, Zenon
<1>6. CASE k = "Invalid"
  BY <1>2, <1>6, InvalidReencodes, Zenon
<1> QED
  BY <1>5, <1>6

\* Branches: the immediate is in four parts.
LEMMA BranchReencodes ==
    ASSUME NEW w, NEW f7, NEW rs2, NEW rs1, NEW f3, NEW rd, NEW op,
           Fields(w, f7, rs2, rs1, f3, rd, op), op = 99
    PROVE  Reencodes(w, decode_branch(w))
<1> DEFINE k   == branch_kind(f3)
           imm == b_immediate(w)
           i   == [kind |-> k, rd |-> 0, rs1 |-> rs1, rs2 |-> rs2,
                   immediate |-> imm]
<1>1. w \in Int /\ f3 \in 0 .. 7
  BY SMT DEF Fields
<1>2. decode_branch(w) = decoded_as(w, k, imm, branch_control(k))
  BY FieldsRead, Zenon DEF decode_branch
<1>3. imm = (f7 \div 64) * 2^12 + (rd % 2) * 2^11 + (f7 % 64) * 32
              + (rd \div 2) * 2
  BY FieldsImmediate, SMT
<1> HIDE DEF imm
<1>4. /\ (imm \div 2^12) * 64 + ((imm \div 32) % 64) = f7
      /\ (imm % 32) + ((imm \div 2^11) % 2) = rd
  BY <1>3, SMT DEF Fields
<1>5. CASE k # "Invalid"
  <2>1. k \in BranchKinds /\ Encoding_of[k][1] = op /\ Encoding_of[k][2] = f3
    BY <1>1, <1>5, LoadStoreBranchDecoding
  <2> HIDE DEF k
  <2>2. Layout(f7, rs2, rs1, k, rd) = w
    BY <2>1, SMT DEF Layout, Fields
  <2>3. Encode(i) = Layout((imm \div 2^12) * 64 + ((imm \div 32) % 64), rs2, rs1, k,
                           (imm % 32) + ((imm \div 2^11) % 2))
    BY <2>1, EncodeFormat
  <2>4. ~HasRd(k) /\ HasRs1(k) /\ HasRs2(k) /\ k \notin HaltKinds
    BY <2>1, KindFields, KindGroups, Zenon
  <2>5. i = [kind |-> k,
             rd |-> IF HasRd(k) THEN extract_rd(w) ELSE 0,
             rs1 |-> IF HasRs1(k) THEN extract_rs1(w) ELSE 0,
             rs2 |-> IF HasRs2(k) THEN extract_rs2(w) ELSE 0,
             immediate |-> imm]
    BY <2>4, FieldsRead, Zenon
  <2>6. Encode(i) = w
    BY <1>4, <2>2, <2>3, Zenon
  <2> HIDE DEF i
  <2> QED
    BY <1>1, <1>2, <2>4, <2>5, <2>6, ArmReencodes, Zenon
<1>6. CASE k = "Invalid"
  BY <1>2, <1>6, InvalidReencodes, Zenon
<1> QED
  BY <1>5, <1>6

\* lui and auipc.
LEMMA UpperReencodes ==
    ASSUME NEW w, NEW f7, NEW rs2, NEW rs1, NEW f3, NEW rd, NEW op,
           Fields(w, f7, rs2, rs1, f3, rd, op),
           NEW k \in UKinds, Encoding_of[k][1] = op, Encoding_of[k][2] = 0, NEW c
    PROVE  Reencodes(w, decoded_as(w, k, u_immediate(w), c))
<1> DEFINE imm == u_immediate(w)
           i   == [kind |-> k, rd |-> rd, rs1 |-> 0, rs2 |-> 0, immediate |-> imm]
<1>1. w \in Int
  BY SMT DEF Fields
<1>2. imm = w - (rd * 2^7 + op)
  BY FieldsImmediate, SMT
<1> HIDE DEF imm
<1>3. Encode(i) = imm + Layout(0, 0, 0, k, rd)
  BY EncodeFormat
<1>4. imm + Layout(0, 0, 0, k, rd) = w
  BY <1>2, SMT DEF Layout, Fields
<1>5. HasRd(k) /\ ~HasRs1(k) /\ ~HasRs2(k) /\ k \notin HaltKinds
  BY KindFields, KindGroups, Zenon
<1>6. i = [kind |-> k,
           rd |-> IF HasRd(k) THEN extract_rd(w) ELSE 0,
           rs1 |-> IF HasRs1(k) THEN extract_rs1(w) ELSE 0,
           rs2 |-> IF HasRs2(k) THEN extract_rs2(w) ELSE 0,
           immediate |-> imm]
  BY <1>5, FieldsRead, Zenon
<1>7. Encode(i) = w
  BY <1>3, <1>4, Zenon
<1> HIDE DEF i
<1> QED
  BY <1>1, <1>5, <1>6, <1>7, ArmReencodes, Zenon DEF imm

\* jal: the immediate is in four parts.
LEMMA JalReencodes ==
    ASSUME NEW w, NEW f7, NEW rs2, NEW rs1, NEW f3, NEW rd, NEW op,
           Fields(w, f7, rs2, rs1, f3, rd, op), op = 111, NEW c
    PROVE  Reencodes(w, decoded_as(w, "Jal", j_immediate(w), c))
<1> DEFINE k   == "Jal"
           imm == j_immediate(w)
           i   == [kind |-> k, rd |-> rd, rs1 |-> 0, rs2 |-> 0, immediate |-> imm]
<1>1. w \in Int
  BY SMT DEF Fields
<1>2. imm = (f7 \div 64) * 2^20 + (rs1 * 8 + f3) * 2^12 + (rs2 % 2) * 2^11
              + (f7 % 64) * 32 + (rs2 \div 2) * 2
  BY FieldsImmediate, SMT
<1> HIDE DEF imm
<1>3. (imm \div 2^20) * 64 + ((imm \div 32) % 64) = f7
  BY <1>2, SMT DEF Fields
<1>4. (imm % 32) + ((imm \div 2^11) % 2) = rs2
  BY <1>2, SMT DEF Fields
<1>5. (imm \div 2^12) % 256 = rs1 * 8 + f3
  BY <1>2, SMT DEF Fields
<1>6. Encoding_of[k][1] = op /\ Encoding_of[k][2] = 0
  BY OtherEncodings
<1>7. Encode(i) = Layout((imm \div 2^20) * 64 + ((imm \div 32) % 64),
                         (imm % 32) + ((imm \div 2^11) % 2), 0, k, rd)
                    + ((imm \div 2^12) % 256) * 2^12
  BY EncodeFormat
<1>8. Encode(i) = Layout(f7, rs2, 0, k, rd) + (rs1 * 8 + f3) * 2^12
  BY <1>3, <1>4, <1>5, <1>7, Zenon
<1>9. Layout(f7, rs2, 0, k, rd) + (rs1 * 8 + f3) * 2^12 = w
  BY <1>6, SMT DEF Layout, Fields
<1>10. HasRd(k) /\ ~HasRs1(k) /\ ~HasRs2(k) /\ k \notin HaltKinds
  BY KindFields, KindGroups, Zenon
<1>11. i = [kind |-> k,
           rd |-> IF HasRd(k) THEN extract_rd(w) ELSE 0,
           rs1 |-> IF HasRs1(k) THEN extract_rs1(w) ELSE 0,
           rs2 |-> IF HasRs2(k) THEN extract_rs2(w) ELSE 0,
           immediate |-> imm]
  BY <1>10, FieldsRead, Zenon
<1>12. Encode(i) = w
  BY <1>8, <1>9, Zenon
<1> HIDE DEF i
<1> QED
  BY <1>1, <1>10, <1>11, <1>12, ArmReencodes, Zenon DEF imm

\* jalr.
LEMMA JalrReencodes ==
    ASSUME NEW w, NEW f7, NEW rs2, NEW rs1, NEW f3, NEW rd, NEW op,
           Fields(w, f7, rs2, rs1, f3, rd, op), op = 103
    PROVE  Reencodes(w, decode_jalr(w))
<1> DEFINE k   == IF f3 = 0 THEN "Jalr" ELSE "Invalid"
           imm == i_immediate(w)
           i   == [kind |-> "Jalr", rd |-> rd, rs1 |-> rs1, rs2 |-> 0,
                   immediate |-> imm]
<1>1. w \in Int
  BY SMT DEF Fields
<1>2. decode_jalr(w) = decoded_as(w, k, imm, jalr_control)
  <2>1. extract_funct3(w) = f3
    BY FieldsRead, Zenon
  <2> QED
    BY <2>1, Zenon DEF decode_jalr
<1>3. imm = f7 * 32 + rs2
  BY FieldsImmediate, SMT
<1>4. imm % 32 = rs2 /\ imm \div 32 = f7
  BY <1>3, SMT DEF Fields
<1> HIDE DEF imm
<1>5. CASE f3 = 0
  <2>1. k = "Jalr" /\ Encoding_of["Jalr"][1] = op /\ Encoding_of["Jalr"][2] = f3
    BY <1>5, OtherEncodings
  <2>2. Layout(f7, rs2, rs1, "Jalr", rd) = w
    BY <2>1, SMT DEF Layout, Fields
  <2>3. Encode(i) = Layout(imm \div 32, imm % 32, rs1, "Jalr", rd)
    BY KindGroups, EncodeFormat
  <2>4. HasRd("Jalr") /\ HasRs1("Jalr") /\ ~HasRs2("Jalr") /\ "Jalr" \notin HaltKinds
    BY KindFields, KindGroups, Zenon
  <2>5. i = [kind |-> "Jalr",
             rd |-> IF HasRd("Jalr") THEN extract_rd(w) ELSE 0,
             rs1 |-> IF HasRs1("Jalr") THEN extract_rs1(w) ELSE 0,
             rs2 |-> IF HasRs2("Jalr") THEN extract_rs2(w) ELSE 0,
             immediate |-> imm]
    BY <2>4, FieldsRead, Zenon
  <2>6. Encode(i) = w
    BY <1>4, <2>2, <2>3, Zenon
  <2> HIDE DEF i, k
  <2>7. Reencodes(w, decoded_as(w, "Jalr", imm, jalr_control))
    BY <1>1, <2>4, <2>5, <2>6, ArmReencodes, Zenon
  <2> QED
    BY <1>2, <2>1, <2>7, Zenon
<1>6. CASE f3 # 0
  <2>1. k = "Invalid"
    BY <1>6
  <2> QED
    BY <1>2, <2>1, InvalidReencodes, Zenon
<1> QED
  BY <1>5, <1>6

\* ecall and ebreak, whose rd and rs1 are not looked at.
LEMMA SystemReencodes ==
    ASSUME NEW w, NEW f7, NEW rs2, NEW rs1, NEW f3, NEW rd, NEW op,
           Fields(w, f7, rs2, rs1, f3, rd, op), op = 115
    PROVE  Reencodes(w, decode_system(w))
<1> DEFINE imm == i_immediate(w)
           k   == system_kind(f3, imm)
           d   == decoded_as(w, k, imm, halt_control)
           i   == [kind |-> k, rd |-> 0, rs1 |-> 0, rs2 |-> 0, immediate |-> imm]
<1>1. decode_system(w) = d
  BY FieldsRead, Zenon DEF decode_system
<1>2. imm = f7 * 32 + rs2
  BY FieldsImmediate, SMT
<1>3. imm % 32 = rs2 /\ imm \div 32 = f7
  BY <1>2, SMT DEF Fields
<1> HIDE DEF imm
<1>4. CASE k # "Invalid"
  <2>1. k \in HaltKinds /\ f3 = 0
    BY <1>4 DEF system_kind, HaltKinds
  <2> HIDE DEF k
  <2>2. Encoding_of[k][1] = op /\ Encoding_of[k][2] = f3
    BY <2>1, OtherEncodings DEF HaltKinds
  <2>3. Layout(f7, rs2, 0, k, 0) = w - (rd * 2^7 + rs1 * 2^15)
    BY <2>2, SMT DEF Layout, Fields
  <2>4. Encode(i) = Layout(imm \div 32, imm % 32, 0, k, 0)
    BY <2>1, KindGroups, EncodeFormat
  <2>5. Encode(i) = w - (rd * 2^7 + rs1 * 2^15)
    BY <1>3, <2>3, <2>4, Zenon
  <2>6. ~HasRd(k) /\ ~HasRs1(k) /\ ~HasRs2(k)
    BY <2>1, KindFields, Zenon
  <2>7. d.kind = k /\ d.rd = rd /\ d.rs1 = rs1
    <3>1. d.kind = k /\ d.rd = extract_rd(w) /\ d.rs1 = extract_rs1(w)
      BY ArmSource
    <3>2. extract_rd(w) = rd /\ extract_rs1(w) = rs1
      BY FieldsRead, Zenon
    <3> QED
      BY <3>1, <3>2, Zenon
  <2>8. AsSource(d) = i
    <3>1. AsSource(d) = [kind |-> k,
                         rd |-> IF HasRd(k) THEN extract_rd(w) ELSE 0,
                         rs1 |-> IF HasRs1(k) THEN extract_rs1(w) ELSE 0,
                         rs2 |-> IF HasRs2(k) THEN extract_rs2(w) ELSE 0,
                         immediate |-> imm]
      BY ArmSource
    <3> QED
      BY <2>6, <3>1, Zenon
  <2>9. Ignored(d) = rd * 2^7 + rs1 * 2^15
    BY <2>1, <2>7, Zenon DEF Ignored
  <2> HIDE DEF d, i
  <2> QED
    BY <1>1, <2>5, <2>8, <2>9, Zenon DEF Reencodes
<1>5. CASE k = "Invalid"
  BY <1>1, <1>5, InvalidReencodes, Zenon
<1> QED
  BY <1>4, <1>5

(***************************************************************************)
(* decode_instruction() understands every bit of a word it accepts.         *)
(***************************************************************************)
LEMMA EveryWordReencodes ==
    ASSUME NEW w \in Int32
    PROVE  Reencodes(w, decode_instruction(w))
<1>1. PICK f7, rs2, rs1, f3, rd, op : Fields(w, f7, rs2, rs1, f3, rd, op)
  BY WordFields, Zenon
<1>2. extract_opcode(w) = op
  BY <1>1, FieldsRead, Zenon
<1>3. CASE op = 51
  BY <1>1, <1>2, <1>3, OpcodeArm, RegReencodes
<1>4. CASE op = 19
  BY <1>1, <1>2, <1>4, OpcodeArm, ImmReencodes
<1>5. CASE op = 3
  BY <1>1, <1>2, <1>5, OpcodeArm, LoadReencodes
<1>6. CASE op = 35
  BY <1>1, <1>2, <1>6, OpcodeArm, StoreReencodes
<1>7. CASE op = 99
  BY <1>1, <1>2, <1>7, OpcodeArm, BranchReencodes
<1>8. CASE op = 55
  <2>1. "Lui" \in UKinds /\ Encoding_of["Lui"][1] = op /\ Encoding_of["Lui"][2] = 0
    BY <1>8, OtherEncodings DEF UKinds
  <2>2. Reencodes(w, decoded_as(w, "Lui", u_immediate(w), lui_control))
    BY <1>1, <2>1, UpperReencodes
  <2> QED
    BY <1>2, <1>8, <2>2, OpcodeArm
<1>9. CASE op = 23
  <2>1. /\ "Auipc" \in UKinds
        /\ Encoding_of["Auipc"][1] = op /\ Encoding_of["Auipc"][2] = 0
    BY <1>9, OtherEncodings DEF UKinds
  <2>2. Reencodes(w, decoded_as(w, "Auipc", u_immediate(w), auipc_control))
    BY <1>1, <2>1, UpperReencodes
  <2> QED
    BY <1>2, <1>9, <2>2, OpcodeArm
<1>10. CASE op = 111
  <2>1. Reencodes(w, decoded_as(w, "Jal", j_immediate(w), jal_control))
    BY <1>1, <1>10, JalReencodes
  <2> QED
    BY <1>2, <1>10, <2>1, OpcodeArm
<1>11. CASE op = 103
  BY <1>1, <1>2, <1>11, OpcodeArm, JalrReencodes
<1>12. CASE op = 115
  BY <1>1, <1>2, <1>12, OpcodeArm, SystemReencodes
<1>13. CASE op \notin {51, 19, 3, 35, 99, 55, 23, 111, 103, 115}
  <2>1. decode_instruction(w) = base_decoded(w)
    BY <1>2, <1>13, OpcodeArm
  <2>2. base_decoded(w).kind = "Invalid"
    BY DEF base_decoded
  <2> QED
    BY <2>1, <2>2, Zenon DEF Reencodes
<1> QED
  BY <1>3, <1>4, <1>5, <1>6, <1>7, <1>8, <1>9, <1>10, <1>11, <1>12, <1>13

-----------------------------------------------------------------------------
(* Decoding what was assembled *)

\* The numbers in an instruction as written.
LEMMA AssembledNumbers ==
    ASSUME NEW i, Assembled(i)
    PROVE  /\ i = [kind |-> i.kind, rd |-> i.rd, rs1 |-> i.rs1, rs2 |-> i.rs2,
                   immediate |-> i.immediate]
           /\ i.kind \in InstructionKind \ {"Invalid"}
           /\ i.rd \in Int /\ 0 <= i.rd /\ i.rd <= 31
           /\ i.rs1 \in Int /\ 0 <= i.rs1 /\ i.rs1 <= 31
           /\ i.rs2 \in Int /\ 0 <= i.rs2 /\ i.rs2 <= 31
           /\ i.immediate \in Int
<1>1. i \in [kind : InstructionKind \ {"Invalid"}, rd : 0 .. 31, rs1 : 0 .. 31,
             rs2 : 0 .. 31, immediate : Int32]
  BY DEF Assembled
<1>2. /\ i.kind \in InstructionKind \ {"Invalid"}
      /\ i.rd \in 0 .. 31 /\ i.rs1 \in 0 .. 31 /\ i.rs2 \in 0 .. 31
      /\ i.immediate \in Int32
  BY <1>1
<1>3. i = [kind |-> i.kind, rd |-> i.rd, rs1 |-> i.rs1, rs2 |-> i.rs2,
           immediate |-> i.immediate]
  BY <1>1
<1>4. i.immediate \in Int
  BY <1>2, SMT DEF Int32
<1> QED
  BY <1>2, <1>3, <1>4

\* The immediates of the formats.
LEMMA AssembledImmediates ==
    ASSUME NEW i, Assembled(i)
    PROVE  /\ i.kind \in AluRegKinds \cup {"Ecall"} => i.immediate = 0
           /\ i.kind = "Ebreak" => i.immediate = 1
           /\ i.kind \in ShiftKinds => 0 <= i.immediate /\ i.immediate <= 31
           /\ i.kind \in BranchKinds =>
                /\ -(2^12) <= i.immediate /\ i.immediate <= 2^12 - 1
                /\ i.immediate % 2 = 0
           /\ i.kind = "Jal" =>
                /\ -(2^20) <= i.immediate /\ i.immediate <= 2^20 - 1
                /\ i.immediate % 2 = 0
           /\ i.kind \in UKinds => i.immediate \in Int32 /\ i.immediate % 2^12 = 0
           /\ i.kind \in (IKinds \ HaltKinds) \cup StoreKinds =>
                -(2^11) <= i.immediate /\ i.immediate <= 2^11 - 1
<1> DEFINE k   == i.kind
           imm == i.immediate
<1>0. Carries(k, imm) /\ imm \in Int
  BY AssembledNumbers DEF Assembled
<1> HIDE DEF k, imm
<1> USE DEF Carries, AluRegKinds, ShiftKinds, IKinds, AluImmKinds, LoadKinds,
            HaltKinds, StoreKinds, BranchKinds, UKinds
<1>1. ASSUME k \in AluRegKinds \cup {"Ecall"} PROVE imm = 0
  BY <1>0, <1>1, Zenon
<1>2. ASSUME k = "Ebreak" PROVE imm = 1
  BY <1>0, <1>2, Zenon
<1>3. ASSUME k \in ShiftKinds PROVE imm \in 0 .. 31
  BY <1>0, <1>3, Zenon
<1>4. ASSUME k \in BranchKinds PROVE imm \in -(2^12) .. 2^12 - 1 /\ imm % 2 = 0
  BY <1>0, <1>4, Zenon
<1>5. ASSUME k = "Jal" PROVE imm \in -(2^20) .. 2^20 - 1 /\ imm % 2 = 0
  BY <1>0, <1>5, Zenon
<1>6. ASSUME k \in UKinds PROVE imm \in Int32 /\ imm % 2^12 = 0
  BY <1>0, <1>6, Zenon
<1>7. ASSUME k \in (IKinds \ HaltKinds) \cup StoreKinds
      PROVE  imm \in -(2^11) .. 2^11 - 1
  BY <1>0, <1>7, Zenon
<1> HIDE DEF Carries, AluRegKinds, ShiftKinds, IKinds, AluImmKinds, LoadKinds,
             HaltKinds, StoreKinds, BranchKinds, UKinds
<1>8. \A x : /\ x \in -(2^12) .. 2^12 - 1 => -(2^12) <= x /\ x <= 2^12 - 1
             /\ x \in -(2^20) .. 2^20 - 1 => -(2^20) <= x /\ x <= 2^20 - 1
             /\ x \in -(2^11) .. 2^11 - 1 => -(2^11) <= x /\ x <= 2^11 - 1
  BY SMT
<1>9. \A x : x \in 0 .. 31 => 0 <= x /\ x <= 31
  BY SMT
<1> QED
  BY <1>1, <1>2, <1>3, <1>4, <1>5, <1>6, <1>7, <1>8, <1>9, Zenon DEF k, imm

\* An arm that finds the kind, the fields it has and the immediate.
LEMMA ArmRoundTrip ==
    ASSUME NEW i, Assembled(i), NEW w, NEW c,
           decode_instruction(w) = decoded_as(w, i.kind, i.immediate, c),
           HasRd(i.kind) => extract_rd(w) = i.rd,
           HasRs1(i.kind) => extract_rs1(w) = i.rs1,
           HasRs2(i.kind) => extract_rs2(w) = i.rs2
    PROVE  AsSource(decode_instruction(w)) = i
<1> DEFINE k == i.kind
<1>1. /\ (IF HasRd(k) THEN extract_rd(w) ELSE 0) = i.rd
      /\ (IF HasRs1(k) THEN extract_rs1(w) ELSE 0) = i.rs1
      /\ (IF HasRs2(k) THEN extract_rs2(w) ELSE 0) = i.rs2
  BY DEF Assembled
<1>2. AsSource(decode_instruction(w)) =
        [kind |-> k,
         rd |-> IF HasRd(k) THEN extract_rd(w) ELSE 0,
         rs1 |-> IF HasRs1(k) THEN extract_rs1(w) ELSE 0,
         rs2 |-> IF HasRs2(k) THEN extract_rs2(w) ELSE 0,
         immediate |-> i.immediate]
  BY ArmSource
<1>3. i = [kind |-> i.kind, rd |-> i.rd, rs1 |-> i.rs1, rs2 |-> i.rs2,
           immediate |-> i.immediate]
  BY AssembledNumbers
<1> QED
  BY <1>1, <1>2, <1>3, Zenon

\* Register arithmetic.
LEMMA RegRoundTrip ==
    ASSUME NEW i, Assembled(i), i.kind \in AluRegKinds
    PROVE  AsSource(decode_instruction(Encode(i))) = i
<1> DEFINE k  == i.kind
           w  == Encode(i)
           f3 == Encoding_of[k][2]
           f7 == Encoding_of[k][3]
<1>1. /\ Encoding_of[k][1] = 51 /\ f3 \in 0 .. 7 /\ f7 \in {0, 32}
      /\ reg_kind(f3, f7) = k
  BY RegEncoding
<1>2. w = Layout(f7, i.rs2, i.rs1, k, i.rd)
  BY EncodeFormat
<1>3. f7 % 128 = f7 /\ f7 \in Int /\ f3 \in Int
  BY <1>1
<1> HIDE DEF w
<1>4. Fields(w, f7, i.rs2, i.rs1, f3, i.rd, 51)
  <2>1. Encoding_of[k][2] = f3 /\ 0 <= f3 /\ f3 <= 7 /\ 0 <= f7 /\ f7 <= 63
    BY <1>1
  <2> HIDE DEF f3, f7
  <2> QED
    BY <1>1, <1>2, <1>3, <2>1, AssembledNumbers, SMT DEF Fields, Layout
<1> HIDE DEF f3, f7
<1>5. /\ extract_opcode(w) = 51 /\ extract_rd(w) = i.rd
      /\ extract_funct3(w) = f3 /\ extract_rs1(w) = i.rs1
      /\ extract_rs2(w) = i.rs2 /\ extract_funct7(w) = f7
  BY <1>3, <1>4, FieldsRead, ZenonT(60)
<1>6. decode_instruction(w) = decode_reg(w)
  BY <1>5, OpcodeArm
<1>7. decode_reg(w) = decoded_as(w, k, 0, alu_reg_control(alu_op_of(k)))
  BY <1>1, <1>5, Zenon DEF decode_reg
<1>8. i.immediate = 0
  BY AssembledImmediates
<1>9. decode_instruction(w) =
        decoded_as(w, i.kind, i.immediate, alu_reg_control(alu_op_of(k)))
  BY <1>6, <1>7, <1>8, Zenon
<1>10. AsSource(decode_instruction(w)) = i
  BY <1>5, <1>9, ArmRoundTrip, ZenonT(60)
<1> QED
  BY <1>10 DEF w

\* Shifts by an immediate.
LEMMA ShiftRoundTrip ==
    ASSUME NEW i, Assembled(i), i.kind \in ShiftKinds
    PROVE  AsSource(decode_instruction(Encode(i))) = i
<1> DEFINE k   == i.kind
           w   == Encode(i)
           imm == i.immediate
           f3  == Encoding_of[k][2]
           f7  == Encoding_of[k][3]
<1>0. k \in AluImmKinds
  BY KindGroups
<1>1. /\ Encoding_of[k][1] = 19 /\ f3 \in 0 .. 7 /\ f7 \in {0, 32}
      /\ imm_kind(f3, f7) = k
  BY <1>0, ImmEncoding
<1>2. w = Layout(f7, imm, i.rs1, k, i.rd)
  BY EncodeFormat
<1>3. f7 % 128 = f7 /\ f7 \in Int /\ f3 \in Int
  BY <1>1
<1>4. imm \in Int /\ 0 <= imm /\ imm <= 31
  BY AssembledNumbers, AssembledImmediates
<1> HIDE DEF w
<1>5. Fields(w, f7, imm, i.rs1, f3, i.rd, 19)
  <2>1. Encoding_of[k][2] = f3 /\ 0 <= f3 /\ f3 <= 7 /\ 0 <= f7 /\ f7 <= 63
    BY <1>1
  <2> HIDE DEF f3, f7
  <2> QED
    BY <1>1, <1>2, <1>3, <1>4, <2>1, AssembledNumbers, SMT DEF Fields, Layout
<1> HIDE DEF f3, f7
<1>6. /\ extract_opcode(w) = 19 /\ extract_rd(w) = i.rd
      /\ extract_funct3(w) = f3 /\ extract_rs1(w) = i.rs1
      /\ extract_funct7(w) = f7
  BY <1>3, <1>5, FieldsRead, ZenonT(60)
<1>7. i_immediate(w) % 32 = imm
  <2>1. i_immediate(w) = f7 * 32 + imm
    BY <1>5, FieldsImmediate
  <2> QED
    BY <1>3, <1>4, <2>1, SMT
<1>8. k \in {"Slli", "Srli", "Srai"}
  BY DEF ShiftKinds
<1>9. decode_instruction(w) = decode_imm(w)
  BY <1>6, OpcodeArm
<1> HIDE DEF imm
<1>10. decode_imm(w) = decoded_as(w, k, imm, alu_imm_control(alu_op_of(k)))
  BY <1>1, <1>6, <1>7, <1>8, Zenon DEF decode_imm
<1>11. decode_instruction(w) =
        decoded_as(w, i.kind, i.immediate, alu_imm_control(alu_op_of(k)))
  BY <1>9, <1>10, Zenon DEF imm
<1>12. ~HasRs2(k)
  BY <1>0, KindFields, Zenon
<1>13. AsSource(decode_instruction(w)) = i
  BY <1>6, <1>11, <1>12, ArmRoundTrip, Zenon
<1> QED
  BY <1>13 DEF w

\* The fields of an instruction with a 12-bit immediate.
LEMMA ILayout ==
    ASSUME NEW i, Assembled(i), i.kind \in IKinds \ HaltKinds,
           NEW f3 \in 0 .. 7, NEW op \in Int, 0 <= op, op <= 127,
           Encoding_of[i.kind][1] = op, Encoding_of[i.kind][2] = f3
    PROVE  LET w == Encode(i)
           IN  /\ extract_opcode(w) = op /\ extract_rd(w) = i.rd
               /\ extract_funct3(w) = f3 /\ extract_rs1(w) = i.rs1
               /\ extract_funct7(w) \in Int
               /\ i_immediate(w) = i.immediate
<1> DEFINE k   == i.kind
           w   == Encode(i)
           imm == i.immediate
           f7  == imm \div 32
           rs2 == imm % 32
<1>1. w = Layout(f7, rs2, i.rs1, k, i.rd)
  BY EncodeFormat
<1>2. imm \in Int /\ -(2^11) <= imm /\ imm <= 2^11 - 1
  BY AssembledNumbers, AssembledImmediates
<1> HIDE DEF w, imm
<1>3. /\ f7 \in Int /\ -64 <= f7 /\ f7 <= 63
      /\ rs2 \in Int /\ 0 <= rs2 /\ rs2 <= 31
      /\ imm = f7 * 32 + rs2
  BY <1>2, SMT
<1> HIDE DEF f7, rs2
<1>4. Fields(w, f7, rs2, i.rs1, f3, i.rd, op)
  BY <1>1, <1>3, AssembledNumbers, SMT DEF Fields, Layout
<1>5. /\ extract_opcode(w) = op /\ extract_rd(w) = i.rd
      /\ extract_funct3(w) = f3 /\ extract_rs1(w) = i.rs1
      /\ extract_funct7(w) = f7 % 128
  BY <1>4, FieldsRead, Zenon
<1>6. i_immediate(w) = imm
  BY <1>3, <1>4, FieldsImmediate
<1>7. f7 % 128 \in Int
  BY <1>3, SMT
<1> QED
  BY <1>5, <1>6, <1>7 DEF w, imm

\* Arithmetic with an immediate, loads and jalr.
LEMMA IRoundTrip ==
    ASSUME NEW i, Assembled(i), i.kind \in IKinds \ HaltKinds
    PROVE  AsSource(decode_instruction(Encode(i))) = i
<1> DEFINE k  == i.kind
           w  == Encode(i)
           f3 == Encoding_of[k][2]
<1>1. k \in (AluImmKinds \ ShiftKinds) \cup LoadKinds \cup {"Jalr"}
  BY DEF IKinds
<1>2. HasRd(k) /\ HasRs1(k) /\ ~HasRs2(k)
  BY <1>1, KindFields
<1>3. ASSUME NEW op \in Int, 0 <= op, op <= 127, Encoding_of[k][1] = op,
             f3 \in 0 .. 7
      PROVE  /\ extract_opcode(w) = op /\ extract_rd(w) = i.rd
             /\ extract_funct3(w) = f3 /\ extract_rs1(w) = i.rs1
             /\ extract_funct7(w) \in Int
             /\ i_immediate(w) = i.immediate
  BY <1>3, ILayout
<1> HIDE DEF w, f3
<1>4. CASE k \in AluImmKinds \ ShiftKinds
  <2>1. /\ Encoding_of[k][1] = 19 /\ f3 \in 0 .. 7
        /\ \A f7 \in Int : imm_kind(f3, f7) = k
    BY <1>4, ImmEncoding DEF f3
  <2>2. /\ extract_opcode(w) = 19 /\ extract_rd(w) = i.rd
        /\ extract_funct3(w) = f3 /\ extract_rs1(w) = i.rs1
        /\ extract_funct7(w) \in Int
        /\ i_immediate(w) = i.immediate
    BY <1>3, <2>1
  <2>3. decode_instruction(w) = decode_imm(w)
    BY <2>2, OpcodeArm
  <2>4. imm_kind(extract_funct3(w), extract_funct7(w)) = k
    BY <2>1, <2>2
  <2>5. k \notin {"Slli", "Srli", "Srai"}
    BY <1>4 DEF ShiftKinds
  <2>6. decode_imm(w) =
          decoded_as(w, k, i.immediate, alu_imm_control(alu_op_of(k)))
    BY <2>2, <2>4, <2>5, Zenon DEF decode_imm
  <2>7. AsSource(decode_instruction(w)) = i
    BY <1>2, <2>2, <2>3, <2>6, ArmRoundTrip, Zenon
  <2> QED
    BY <2>7 DEF w
<1>5. CASE k \in LoadKinds
  <2>1. Encoding_of[k][1] = 3 /\ f3 \in 0 .. 7 /\ load_kind(f3) = k
    BY <1>5, LoadStoreBranchEncoding DEF f3
  <2>2. /\ extract_opcode(w) = 3 /\ extract_rd(w) = i.rd
        /\ extract_funct3(w) = f3 /\ extract_rs1(w) = i.rs1
        /\ i_immediate(w) = i.immediate
    BY <1>3, <2>1
  <2>3. decode_instruction(w) = decode_load(w)
    BY <2>2, OpcodeArm
  <2>4. decode_load(w) = decoded_as(w, k, i.immediate, load_signals(f3))
    BY <2>1, <2>2, Zenon DEF decode_load
  <2>5. AsSource(decode_instruction(w)) = i
    BY <1>2, <2>2, <2>3, <2>4, ArmRoundTrip, Zenon
  <2> QED
    BY <2>5 DEF w
<1>6. CASE k = "Jalr"
  <2>1. Encoding_of[k][1] = 103 /\ f3 = 0
    BY <1>6, OtherEncodings DEF f3
  <2>2. /\ extract_opcode(w) = 103 /\ extract_rd(w) = i.rd
        /\ extract_funct3(w) = 0 /\ extract_rs1(w) = i.rs1
        /\ i_immediate(w) = i.immediate
    BY <1>3, <2>1
  <2>3. decode_instruction(w) = decode_jalr(w)
    BY <2>2, OpcodeArm
  <2>4. decode_jalr(w) = decoded_as(w, k, i.immediate, jalr_control)
    <3>1. (IF extract_funct3(w) = 0 THEN "Jalr" ELSE "Invalid") = k
      BY <1>6, <2>2
    <3> HIDE DEF k
    <3> QED
      BY <2>2, <3>1, Zenon DEF decode_jalr
  <2>5. decode_instruction(w) = decoded_as(w, i.kind, i.immediate, jalr_control)
    BY <2>3, <2>4, Zenon
  <2>6. AsSource(decode_instruction(w)) = i
    BY <1>2, <2>2, <2>5, ArmRoundTrip
  <2> QED
    BY <2>6 DEF w
<1> QED
  BY <1>1, <1>4, <1>5, <1>6

\* ecall and ebreak.
LEMMA SystemRoundTrip ==
    ASSUME NEW i, Assembled(i), i.kind \in HaltKinds
    PROVE  AsSource(decode_instruction(Encode(i))) = i
<1> DEFINE k   == i.kind
           w   == Encode(i)
           imm == i.immediate
<1>1. ~HasRd(k) /\ ~HasRs1(k) /\ ~HasRs2(k)
  BY KindFields
<1>2. i.rd = 0 /\ i.rs1 = 0
  BY <1>1 DEF Assembled
<1>3. (k = "Ecall" /\ imm = 0) \/ (k = "Ebreak" /\ imm = 1)
  BY AssembledImmediates DEF HaltKinds
<1>4. Encoding_of[k][1] = 115 /\ Encoding_of[k][2] = 0
  BY <1>3, OtherEncodings
<1>5. w = Layout(imm \div 32, imm % 32, 0, k, 0)
  BY <1>2, KindGroups, EncodeFormat
<1>6. imm \div 32 = 0 /\ imm % 32 = imm
  BY <1>3
<1> HIDE DEF w, imm
<1>7. Fields(w, 0, imm, 0, 0, 0, 115)
  <2>1. w = Layout(0, imm, 0, k, 0)
    BY <1>5, <1>6, Zenon
  <2>2. imm \in Int /\ 0 <= imm /\ imm <= 31
    BY <1>3
  <2> QED
    BY <1>4, <2>1, <2>2, SMT DEF Fields, Layout
<1>8. extract_opcode(w) = 115 /\ extract_funct3(w) = 0
  BY <1>7, FieldsRead, Zenon
<1>9. i_immediate(w) = imm
  BY <1>3, <1>7, FieldsImmediate
<1>10. decode_instruction(w) = decode_system(w)
  BY <1>8, OpcodeArm
<1>11. system_kind(0, imm) = k
  BY <1>3 DEF system_kind
<1>12. decode_system(w) = decoded_as(w, k, imm, halt_control)
  BY <1>8, <1>9, <1>11, Zenon DEF decode_system
<1>13. AsSource(decode_instruction(w)) = i
  BY <1>1, <1>10, <1>12, ArmRoundTrip, Zenon DEF imm
<1> QED
  BY <1>13 DEF w

\* Stores.
LEMMA StoreRoundTrip ==
    ASSUME NEW i, Assembled(i), i.kind \in StoreKinds
    PROVE  AsSource(decode_instruction(Encode(i))) = i
<1> DEFINE k   == i.kind
           w   == Encode(i)
           imm == i.immediate
           f3  == Encoding_of[k][2]
           f7  == imm \div 32
           rd  == imm % 32
<1>1. w = Layout(f7, i.rs2, i.rs1, k, rd)
  BY EncodeFormat
<1>2. imm \in Int /\ -(2^11) <= imm /\ imm <= 2^11 - 1
  BY AssembledNumbers, AssembledImmediates
<1>3. Encoding_of[k][1] = 35 /\ f3 \in 0 .. 7 /\ store_kind(f3) = k
  BY LoadStoreBranchEncoding
<1>4. Encoding_of[k][2] = f3
  OBVIOUS
<1> HIDE DEF w, imm, f3
<1>5. /\ f7 \in Int /\ -64 <= f7 /\ f7 <= 63
      /\ rd \in Int /\ 0 <= rd /\ rd <= 31
      /\ imm = f7 * 32 + rd
  BY <1>2, SMT
<1> HIDE DEF f7, rd
<1>6. Fields(w, f7, i.rs2, i.rs1, f3, rd, 35)
  BY <1>1, <1>3, <1>4, <1>5, AssembledNumbers, SMT DEF Fields, Layout
<1>7. /\ extract_opcode(w) = 35 /\ extract_funct3(w) = f3
      /\ extract_rs1(w) = i.rs1 /\ extract_rs2(w) = i.rs2
  BY <1>6, FieldsRead, Zenon
<1>8. s_immediate(w) = imm
  BY <1>5, <1>6, FieldsImmediate
<1>9. decode_instruction(w) = decode_store(w)
  BY <1>7, OpcodeArm
<1>10. PICK c : decode_store(w) = decoded_as(w, k, imm, c)
  BY <1>3, <1>7, <1>8, Zenon DEF decode_store
<1>11. ~HasRd(k)
  BY KindFields
<1>12. AsSource(decode_instruction(w)) = i
  BY <1>7, <1>9, <1>10, <1>11, ArmRoundTrip, Zenon DEF imm
<1> QED
  BY <1>12 DEF w

\* Branches.
LEMMA BranchRoundTrip ==
    ASSUME NEW i, Assembled(i), i.kind \in BranchKinds
    PROVE  AsSource(decode_instruction(Encode(i))) = i
<1> DEFINE k   == i.kind
           w   == Encode(i)
           imm == i.immediate
           f3  == Encoding_of[k][2]
           f7  == (imm \div 2^12) * 64 + ((imm \div 32) % 64)
           rd  == (imm % 32) + ((imm \div 2^11) % 2)
<1>1. w = Layout(f7, i.rs2, i.rs1, k, rd)
  BY EncodeFormat
<1>2. /\ imm \in Int /\ -(2^12) <= imm /\ imm <= 2^12 - 1 /\ imm % 2 = 0
  BY AssembledNumbers, AssembledImmediates
<1>3. Encoding_of[k][1] = 99 /\ f3 \in 0 .. 7 /\ branch_kind(f3) = k
  BY LoadStoreBranchEncoding
<1>4. Encoding_of[k][2] = f3
  OBVIOUS
<1> HIDE DEF w, imm, f3
<1>5. /\ f7 \in Int /\ -64 <= f7 /\ f7 <= 63
      /\ rd \in Int /\ 0 <= rd /\ rd <= 31
  BY <1>2, SMT
<1>6. imm = (f7 \div 64) * 2^12 + (rd % 2) * 2^11 + (f7 % 64) * 32
              + (rd \div 2) * 2
  <2> DEFINE a == imm \div 2^12
             b == (imm \div 2^11) % 2
             c == (imm \div 32) % 64
             e == imm % 32
  <2>1. /\ a \in Int
        /\ b \in Int /\ 0 <= b /\ b <= 1
        /\ c \in Int /\ 0 <= c /\ c <= 63
        /\ e \in Int /\ 0 <= e /\ e <= 31 /\ e % 2 = 0
        /\ imm = a * 2^12 + b * 2^11 + c * 32 + e
    BY <1>2, SMT
  <2>2. f7 = a * 64 + c /\ rd = e + b
    OBVIOUS
  <2> HIDE DEF a, b, c, e, f7, rd
  <2>3. f7 \div 64 = a /\ f7 % 64 = c
    BY <2>1, <2>2, SMT
  <2>4. rd % 2 = b /\ (rd \div 2) * 2 = e
    BY <2>1, <2>2, SMT
  <2> QED
    BY <2>1, <2>3, <2>4, Zenon
<1> HIDE DEF f7, rd
<1>7. Fields(w, f7, i.rs2, i.rs1, f3, rd, 99)
  BY <1>1, <1>3, <1>4, <1>5, AssembledNumbers, SMT DEF Fields, Layout
<1>8. /\ extract_opcode(w) = 99 /\ extract_funct3(w) = f3
      /\ extract_rs1(w) = i.rs1 /\ extract_rs2(w) = i.rs2
  BY <1>7, FieldsRead, Zenon
<1>9. b_immediate(w) = imm
  BY <1>6, <1>7, FieldsImmediate, SMT
<1>10. decode_instruction(w) = decode_branch(w)
  BY <1>8, OpcodeArm
<1>11. decode_branch(w) = decoded_as(w, k, imm, branch_control(k))
  BY <1>3, <1>8, <1>9, Zenon DEF decode_branch
<1>12. ~HasRd(k)
  BY KindFields
<1>13. decode_instruction(w) =
         decoded_as(w, i.kind, i.immediate, branch_control(k))
  BY <1>10, <1>11, Zenon DEF imm
<1>14. AsSource(decode_instruction(w)) = i
  BY <1>8, <1>12, <1>13, ArmRoundTrip
<1> QED
  BY <1>14 DEF w

\* lui and auipc: the low twelve bits of the immediate are free for rd and opcode.
LEMMA UpperRoundTrip ==
    ASSUME NEW i, Assembled(i), i.kind \in UKinds
    PROVE  AsSource(decode_instruction(Encode(i))) = i
<1> DEFINE k   == i.kind
           w   == Encode(i)
           imm == i.immediate
           op  == Encoding_of[k][1]
<1>1. w = imm + Layout(0, 0, 0, k, i.rd)
  BY EncodeFormat
<1>2. imm \in Int32 /\ imm % 2^12 = 0
  BY AssembledImmediates
<1>3. op \in {55, 23} /\ Encoding_of[k][2] = 0
  BY OtherEncodings DEF UKinds
<1>4. Encoding_of[k][1] = op /\ op \in Int /\ 0 <= op /\ op <= 127
  BY <1>3
<1> HIDE DEF w, imm, op
<1>5. PICK f7, rs2, rs1, f3, zero, none : Fields(imm, f7, rs2, rs1, f3, zero, none)
  BY <1>2, WordFields, Zenon
<1>6. zero = 0 /\ none = 0
  <2>1. imm % 2^12 = zero * 2^7 + none
    BY <1>5, SMT DEF Fields
  <2> QED
    BY <1>2, <1>5, <2>1, SMT DEF Fields
<1>7. Fields(w, f7, rs2, rs1, f3, i.rd, op)
  BY <1>1, <1>3, <1>4, <1>5, <1>6, AssembledNumbers, SMT DEF Fields, Layout
<1>8. extract_opcode(w) = op /\ extract_rd(w) = i.rd
  BY <1>7, FieldsRead, Zenon
<1>9. u_immediate(w) = imm
  <2>1. u_immediate(w) = w - (i.rd * 2^7 + op)
    BY <1>7, FieldsImmediate, SMT
  <2> QED
    BY <1>5, <1>6, <1>7, <2>1, SMT DEF Fields
<1>10. PICK c : decode_instruction(w) = decoded_as(w, k, imm, c)
  <2>1. CASE k = "Lui"
    <3>1. op = 55
      BY <2>1, OtherEncodings DEF op
    <3> QED
      BY <1>8, <1>9, <2>1, <3>1, OpcodeArm
  <2>2. CASE k = "Auipc"
    <3>1. op = 23
      BY <2>2, OtherEncodings DEF op
    <3> QED
      BY <1>8, <1>9, <2>2, <3>1, OpcodeArm
  <2> QED
    BY <2>1, <2>2 DEF UKinds
<1>11. ~HasRs1(k) /\ ~HasRs2(k)
  BY KindFields
<1>12. decode_instruction(w) = decoded_as(w, i.kind, i.immediate, c)
  BY <1>10, Zenon DEF imm
<1>13. AsSource(decode_instruction(w)) = i
  BY <1>8, <1>11, <1>12, ArmRoundTrip
<1> QED
  BY <1>13 DEF w

\* jal.
LEMMA JalRoundTrip ==
    ASSUME NEW i, Assembled(i), i.kind = "Jal"
    PROVE  AsSource(decode_instruction(Encode(i))) = i
<1> DEFINE k   == i.kind
           w   == Encode(i)
           imm == i.immediate
           f7  == (imm \div 2^20) * 64 + ((imm \div 32) % 64)
           rs2 == (imm % 32) + ((imm \div 2^11) % 2)
           mid == (imm \div 2^12) % 256
           rs1 == mid \div 8
           f3  == mid % 8
<1>1. w = Layout(f7, rs2, 0, k, i.rd) + mid * 2^12
  BY EncodeFormat
<1>2. /\ imm \in Int /\ -(2^20) <= imm /\ imm <= 2^20 - 1 /\ imm % 2 = 0
  BY AssembledNumbers, AssembledImmediates
<1>3. Encoding_of[k][1] = 111 /\ Encoding_of[k][2] = 0
  BY OtherEncodings
<1> HIDE DEF w, imm
<1>4. /\ f7 \in Int /\ -64 <= f7 /\ f7 <= 63
      /\ rs2 \in Int /\ 0 <= rs2 /\ rs2 <= 31
      /\ mid \in Int /\ 0 <= mid /\ mid <= 255
  BY <1>2, SMT
<1>5. imm = (f7 \div 64) * 2^20 + mid * 2^12 + (rs2 % 2) * 2^11 + (f7 % 64) * 32
              + (rs2 \div 2) * 2
  <2> DEFINE a == imm \div 2^20
             b == (imm \div 2^11) % 2
             c == (imm \div 32) % 64
             e == imm % 32
  <2>1. /\ a \in Int
        /\ b \in Int /\ 0 <= b /\ b <= 1
        /\ c \in Int /\ 0 <= c /\ c <= 63
        /\ e \in Int /\ 0 <= e /\ e <= 31 /\ e % 2 = 0
        /\ imm = a * 2^20 + mid * 2^12 + b * 2^11 + c * 32 + e
    BY <1>2, SMT
  <2>2. f7 = a * 64 + c /\ rs2 = e + b
    OBVIOUS
  <2> HIDE DEF a, b, c, e, f7, rs2, mid
  <2>3. f7 \div 64 = a /\ f7 % 64 = c
    BY <2>1, <2>2, SMT
  <2>4. rs2 % 2 = b /\ (rs2 \div 2) * 2 = e
    BY <2>1, <2>2, SMT
  <2> QED
    BY <2>1, <2>3, <2>4, Zenon
<1> HIDE DEF f7, rs2, mid
<1>6. /\ rs1 \in Int /\ 0 <= rs1 /\ rs1 <= 31
      /\ f3 \in Int /\ 0 <= f3 /\ f3 <= 7
      /\ mid = rs1 * 8 + f3
  BY <1>4, SMT
<1> HIDE DEF rs1, f3
<1>7. Fields(w, f7, rs2, rs1, f3, i.rd, 111)
  BY <1>1, <1>3, <1>4, <1>6, AssembledNumbers, SMT DEF Fields, Layout
<1>8. extract_opcode(w) = 111 /\ extract_rd(w) = i.rd
  BY <1>7, FieldsRead, Zenon
<1>9. j_immediate(w) = imm
  <2>1. j_immediate(w) =
          (f7 \div 64) * 2^20 + (rs1 * 8 + f3) * 2^12 + (rs2 % 2) * 2^11
            + (f7 % 64) * 32 + (rs2 \div 2) * 2
    BY <1>7, FieldsImmediate, SMT
  <2> QED
    BY <1>5, <1>6, <2>1, Zenon
<1>10. decode_instruction(w) = decoded_as(w, i.kind, i.immediate, jal_control)
  BY <1>8, <1>9, OpcodeArm DEF imm
<1>11. ~HasRs1(k) /\ ~HasRs2(k)
  BY KindFields
<1>12. AsSource(decode_instruction(w)) = i
  BY <1>8, <1>10, <1>11, ArmRoundTrip
<1> QED
  BY <1>12 DEF w

(***************************************************************************)
(* decode_instruction() undoes the assembler, for every instruction.        *)
(***************************************************************************)
LEMMA EveryInstructionRoundTrips ==
    ASSUME NEW i, Assembled(i)
    PROVE  AsSource(decode_instruction(Encode(i))) = i
<1>1. i.kind \in AluRegKinds \cup ShiftKinds \cup (IKinds \ HaltKinds)
                   \cup HaltKinds \cup StoreKinds \cup BranchKinds \cup UKinds
                   \cup {"Jal"}
  BY AssembledNumbers
  DEF InstructionKind, AluRegKinds, AluImmKinds, ShiftKinds, LoadKinds, IKinds,
      HaltKinds, StoreKinds, BranchKinds, UKinds
<1> QED
  BY <1>1, RegRoundTrip, ShiftRoundTrip, IRoundTrip, SystemRoundTrip,
     StoreRoundTrip, BranchRoundTrip, UpperRoundTrip, JalRoundTrip

-----------------------------------------------------------------------------
(* The specification of the decoder *)

\* The inductive invariant: the word has 32 bits, the result is legal.
DecoderInv ==
    /\ word \in Int32 /\ Assembled(source) /\ done \in BOOLEAN
    /\ WellDecoded(decoded)
    /\ done => decoded = decode_instruction(word)

\* It holds of the decoder.
LEMMA DecoderInvariant == DecoderSpec => []DecoderInv
<1>1. DecoderInit => DecoderInv
  BY SamplesAssumption, BaseDecoded DEF DecoderInit, DecoderInv
<1>2. DecoderInv /\ [Decode]_decoderVars => DecoderInv'
  <2> SUFFICES ASSUME DecoderInv, [Decode]_decoderVars PROVE DecoderInv'
    OBVIOUS
  <2>1. CASE Decode
    BY <2>1, EveryWordWellDecoded DEF DecoderInv, Decode
  <2>2. CASE UNCHANGED decoderVars
    BY <2>2 DEF DecoderInv, decoderVars, WellDecoded
  <2> QED  BY <2>1, <2>2
<1> QED  BY <1>1, <1>2, PTL DEF DecoderSpec

(***************************************************************************)
(* Every word is decoded to an instruction whose fields are in range.       *)
(***************************************************************************)
THEOREM DecoderTypeCorrect == DecoderSpec => []DecoderTypeOK
<1>1. DecoderInv => DecoderTypeOK
  BY DEF DecoderInv, DecoderTypeOK, WellDecoded, Decoded
<1> QED  BY <1>1, DecoderInvariant, PTL

(***************************************************************************)
(* The control signals are those of the kind: the assumption                *)
(* DecodeAssumption of the pipeline's proofs holds of decode_instruction(). *)
(***************************************************************************)
THEOREM DecoderCorrect == DecoderSpec => []ControlMatchesKind
<1>1. DecoderInv => ControlMatchesKind
  BY DEF DecoderInv, ControlMatchesKind, WellDecoded
<1> QED  BY <1>1, DecoderInvariant, PTL

(***************************************************************************)
(* decode_instruction() undoes the assembler: for every instruction of      *)
(* every kind, with all its register numbers and immediates.                *)
(***************************************************************************)
THEOREM RoundTripCorrect == DecoderSpec => []RoundTrip
<1>1. DecoderInv => RoundTrip
  BY EveryInstructionRoundTrips DEF DecoderInv, RoundTrip
<1> QED  BY <1>1, DecoderInvariant, PTL

(***************************************************************************)
(* decode_instruction() accepts no word of which it has ignored a bit, but  *)
(* for rd and rs1 of ecall and ebreak: for all 2^32 words.                  *)
(***************************************************************************)
THEOREM NoBitIgnoredCorrect == DecoderSpec => []NoBitIgnored
<1>1. DecoderInv => NoBitIgnored
  <2> SUFFICES ASSUME DecoderInv, done, decoded.kind # "Invalid"
               PROVE  Encode(AsSource(decoded)) = word - Ignored(decoded)
    BY Zenon DEF NoBitIgnored, Ignored
  <2>1. Reencodes(word, decode_instruction(word))
    BY EveryWordReencodes DEF DecoderInv
  <2>2. decoded = decode_instruction(word)
    BY DEF DecoderInv
  <2> QED  BY <2>1, <2>2, Zenon DEF Reencodes
<1> QED  BY <1>1, DecoderInvariant, PTL

=============================================================================
