------------------------------ MODULE Decoder ------------------------------
(***************************************************************************)
(* decode_instruction(): from the 32 bits of an instruction word to its     *)
(* kind, registers, immediate and control signals.                          *)
(*                                                                          *)
(* A word is the integer its bits denote in two's complement; the unsigned  *)
(* reading has the same bits, and no definition here tells them apart.      *)
(***************************************************************************)
EXTENDS Integers, Control, Encoding

\* value >> low_bit, masked.  The shift is done in two parts of at most 16.
bits(value, high_bit, low_bit) ==
    ((value \div 2^(low_bit \div 2)) \div 2^(low_bit - low_bit \div 2))
        % 2^(high_bit - low_bit + 1)

\* Mutant of extract_rd: one bit too many.
extract_rd_wide(word) == bits(word, 12, 7)

extract_opcode(word) == bits(word, 6, 0)
extract_rd(word)     == bits(word, 11, 7)
extract_funct3(word) == bits(word, 14, 12)
extract_rs1(word)    == bits(word, 19, 15)
extract_rs2(word)    == bits(word, 24, 20)
extract_funct7(word) == bits(word, 31, 25)

sign_extend(value, bit_count) ==
    IF value < 2^(bit_count - 1) THEN value ELSE value - 2^bit_count

-----------------------------------------------------------------------------
(* The immediates of the formats. *)

i_immediate(word) == sign_extend(bits(word, 31, 20), 12)

s_immediate(word) ==
    sign_extend(bits(word, 31, 25) * 2^5 + bits(word, 11, 7), 12)

\* Mutant of b_immediate: bits 11 and 12 are taken from each other's place.
b_immediate_swapped(word) ==
    sign_extend(bits(word, 7, 7) * 2^12 + bits(word, 31, 31) * 2^11
                  + bits(word, 30, 25) * 2^5 + bits(word, 11, 8) * 2, 13)

b_immediate(word) ==
    sign_extend(bits(word, 31, 31) * 2^12 + bits(word, 7, 7) * 2^11
                  + bits(word, 30, 25) * 2^5 + bits(word, 11, 8) * 2, 13)

\* The low twelve bits cleared.
u_immediate(word) == word - bits(word, 11, 0)

j_immediate(word) ==
    sign_extend(bits(word, 31, 31) * 2^20 + bits(word, 19, 12) * 2^12
                  + bits(word, 20, 20) * 2^11 + bits(word, 30, 21) * 2, 21)

-----------------------------------------------------------------------------
(* The arms of the switch on the opcode. *)

base_decoded(word) ==
    [kind |-> "Invalid", rd |-> extract_rd(word), rs1 |-> extract_rs1(word),
     rs2 |-> extract_rs2(word), immediate |-> 0, control |-> no_control]

\* An arm sets the control signals only when it has recognised a kind.
decoded_as(word, kind, immediate, control) ==
    [base_decoded(word) EXCEPT
        !.kind = kind, !.immediate = immediate,
        !.control = IF kind = "Invalid" THEN no_control ELSE control]

reg_kind(funct3, funct7) ==
    CASE funct7 = 0  -> <<"Add", "Sll", "Slt", "Sltu",
                          "Xor", "Srl", "Or", "And">>[funct3 + 1]
      [] funct7 = 32 -> <<"Sub", "Invalid", "Invalid", "Invalid",
                          "Invalid", "Sra", "Invalid", "Invalid">>[funct3 + 1]
      [] OTHER       -> "Invalid"

decode_reg(word) ==
    LET kind == reg_kind(extract_funct3(word), extract_funct7(word))
    IN  decoded_as(word, kind, 0, alu_reg_control(alu_op_of(kind)))

shift_kind(funct3, funct7) ==
    CASE funct3 = 1 /\ funct7 = 0  -> "Slli"
      [] funct3 = 5 /\ funct7 = 0  -> "Srli"
      [] funct3 = 5 /\ funct7 = 32 -> "Srai"
      [] OTHER                     -> "Invalid"

\* Mutant of imm_kind: the shifts do not look at funct7.
imm_kind_any_funct7(funct3, funct7) ==
    <<"Addi", "Slli", "Slti", "Sltiu",
      "Xori", IF funct7 = 32 THEN "Srai" ELSE "Srli", "Ori", "Andi">>[funct3 + 1]

imm_kind(funct3, funct7) ==
    IF funct3 \in {1, 5}
    THEN shift_kind(funct3, funct7)
    ELSE <<"Addi", "Invalid", "Slti", "Sltiu",
           "Xori", "Invalid", "Ori", "Andi">>[funct3 + 1]

\* The shifts keep only the low five bits of the immediate.
decode_imm(word) ==
    LET kind == imm_kind(extract_funct3(word), extract_funct7(word))
        imm  == i_immediate(word)
    IN  decoded_as(word, kind,
                   IF kind \in {"Slli", "Srli", "Srai"} THEN imm % 32 ELSE imm,
                   alu_imm_control(alu_op_of(kind)))

set_memory_width(funct3) ==
    CASE funct3 \in {0, 4} -> "Byte"
      [] funct3 \in {1, 5} -> "HalfWord"
      [] funct3 = 2        -> "Word"
      [] OTHER             -> "None"

\* Mutant of load_signals: mem_unsigned is set for lbu only.
load_signals_lbu_only(funct3) ==
    [no_control EXCEPT !.reg_write = TRUE, !.mem_read = TRUE,
                       !.alu_src_imm = TRUE, !.alu_op = "Add",
                       !.writeback_source = "Memory",
                       !.memory_width = set_memory_width(funct3),
                       !.mem_unsigned = funct3 = 4]

load_signals(funct3) ==
    [no_control EXCEPT !.reg_write = TRUE, !.mem_read = TRUE,
                       !.alu_src_imm = TRUE, !.alu_op = "Add",
                       !.writeback_source = "Memory",
                       !.memory_width = set_memory_width(funct3),
                       !.mem_unsigned = funct3 \in {4, 5}]

load_kind(funct3) == <<"Lb", "Lh", "Lw", "Invalid",
                       "Lbu", "Lhu", "Invalid", "Invalid">>[funct3 + 1]

decode_load(word) ==
    decoded_as(word, load_kind(extract_funct3(word)), i_immediate(word),
               load_signals(extract_funct3(word)))

store_kind(funct3) == IF funct3 <= 2 THEN <<"Sb", "Sh", "Sw">>[funct3 + 1]
                                     ELSE "Invalid"

\* mem_unsigned, which set_memory_width may have set, is reset.
decode_store(word) ==
    decoded_as(word, store_kind(extract_funct3(word)), s_immediate(word),
        [no_control EXCEPT !.mem_write = TRUE, !.alu_src_imm = TRUE,
                           !.alu_op = "Add",
                           !.memory_width =
                                set_memory_width(extract_funct3(word))])

branch_kind(funct3) == <<"Beq", "Bne", "Invalid", "Invalid",
                         "Blt", "Bge", "Bltu", "Bgeu">>[funct3 + 1]

decode_branch(word) ==
    LET kind == branch_kind(extract_funct3(word))
    IN  decoded_as(word, kind, b_immediate(word), branch_control(kind))

decode_jalr(word) ==
    decoded_as(word, IF extract_funct3(word) = 0 THEN "Jalr" ELSE "Invalid",
               i_immediate(word), jalr_control)

\* Neither rd nor rs1 is looked at.
system_kind(funct3, immediate) ==
    CASE funct3 = 0 /\ immediate = 0 -> "Ecall"
      [] funct3 = 0 /\ immediate = 1 -> "Ebreak"
      [] OTHER                       -> "Invalid"

decode_system(word) ==
    decoded_as(word, system_kind(extract_funct3(word), i_immediate(word)),
               i_immediate(word), halt_control)

decode_instruction(word) ==
    LET opcode == extract_opcode(word)
    IN  CASE opcode = 51  -> decode_reg(word)
          [] opcode = 19  -> decode_imm(word)
          [] opcode = 3   -> decode_load(word)
          [] opcode = 35  -> decode_store(word)
          [] opcode = 99  -> decode_branch(word)
          [] opcode = 55  -> decoded_as(word, "Lui", u_immediate(word),
                                        lui_control)
          [] opcode = 23  -> decoded_as(word, "Auipc", u_immediate(word),
                                        auipc_control)
          [] opcode = 111 -> decoded_as(word, "Jal", j_immediate(word),
                                        jal_control)
          [] opcode = 103 -> decode_jalr(word)
          [] opcode = 115 -> decode_system(word)
          [] OTHER        -> base_decoded(word)

-----------------------------------------------------------------------------
(***************************************************************************)
(* One word of RAM is decoded.  A sample is a word together with an         *)
(* instruction it was made from, exactly or with some bits changed: RAM may *)
(* hold anything.                                                           *)
(***************************************************************************)
CONSTANT Samples

ASSUME SamplesAssumption ==
    \A s \in Samples : s.word \in Int32 /\ Assembled(s.source)

VARIABLES
    source,    \* the instruction as written
    word,      \* the word in IF/ID
    decoded,   \* the local variable of decode_instruction()
    done       \* whether decode_instruction() has returned

decoderVars == <<source, word, decoded, done>>

DecoderInit ==
    /\ \E s \in Samples : source = s.source /\ word = s.word
    /\ decoded = base_decoded(word)
    /\ done = FALSE

Decode ==
    /\ ~done
    /\ decoded' = decode_instruction(word)
    /\ done' = TRUE
    /\ UNCHANGED <<source, word>>

DecoderSpec == DecoderInit /\ [][Decode]_decoderVars

-----------------------------------------------------------------------------
(* Properties *)

\* The types of the decoder's variables; a word is a 32-bit number.
DecoderTypeOK ==
    /\ word \in Int32
    /\ decoded \in [kind : InstructionKind, rd : 0 .. 31, rs1 : 0 .. 31,
                    rs2 : 0 .. 31, immediate : Int32,
                    control : ControlSignals]
    /\ done \in BOOLEAN

\* The fields of a decoded instruction that its kind has, as assembler input.
AsSource(d) ==
    [kind |-> d.kind,
     rd |-> IF HasRd(d.kind) THEN d.rd ELSE 0,
     rs1 |-> IF HasRs1(d.kind) THEN d.rs1 ELSE 0,
     rs2 |-> IF HasRs2(d.kind) THEN d.rs2 ELSE 0,
     immediate |-> d.immediate]

(***************************************************************************)
(* decode_instruction() undoes the assembler: every instruction it          *)
(* supports, with register numbers and immediates at the ends of their      *)
(* ranges, is decoded to itself.  The scattered immediates of branches and  *)
(* jumps and the three ways a shift amount is told from an immediate are    *)
(* where it could go wrong.                                                 *)
(***************************************************************************)
RoundTrip ==
    done /\ word = Encode(source) => AsSource(decoded) = source

(***************************************************************************)
(* decode_instruction() claims no word it does not understand: a word it    *)
(* accepts is the encoding of what it was decoded to, so every bit of it    *)
(* was looked at.  The exception is ecall and ebreak, where rd and rs1 are  *)
(* not looked at.                                                           *)
(***************************************************************************)
NoBitIgnored ==
    done /\ decoded.kind # "Invalid" =>
      LET ignored == IF decoded.kind \in HaltKinds
                     THEN decoded.rd * 2^7 + decoded.rs1 * 2^15
                     ELSE 0
      IN  Encode(AsSource(decoded)) = word - ignored

(***************************************************************************)
(* The control signals decode_instruction() attaches in the arm of an       *)
(* opcode are those of the kind it chose there, none for an unknown word:   *)
(* what the pipeline's proofs assume.  The width and sign of a load or a    *)
(* store come from funct3 and are compared with the kind's.  The ALU        *)
(* operation and the branch condition are set together with the kind, from  *)
(* one table each, and agree by construction.                               *)
(***************************************************************************)
ControlMatchesKind ==
    decoded.control = control_of[decoded.kind]

=============================================================================
