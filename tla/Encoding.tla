------------------------------ MODULE Encoding ------------------------------
(***************************************************************************)
(* The assembler's side of the instruction formats, which is outside this   *)
(* repository: the word each instruction is encoded as by the RISC-V        *)
(* toolchain that produces the programs.  Decoder is checked against it.    *)
(*                                                                          *)
(* The uppermost field is a signed number, so that the result is the word   *)
(* as Decoder represents it.                                                *)
(***************************************************************************)
EXTENDS Integers, Control

\* Without the literal 2^31, which TLC cannot represent.
Int32 == -(2^30) - 2^30 .. (2^30 - 1) + 2^30

\* <<opcode, funct3, funct7>>; fields a format does not have are 0.
Encoding_of ==
    [Add |-> <<51, 0, 0>>, Sub |-> <<51, 0, 32>>, Sll |-> <<51, 1, 0>>,
     Slt |-> <<51, 2, 0>>, Sltu |-> <<51, 3, 0>>, Xor |-> <<51, 4, 0>>,
     Srl |-> <<51, 5, 0>>, Sra |-> <<51, 5, 32>>, Or |-> <<51, 6, 0>>,
     And |-> <<51, 7, 0>>,
     Addi |-> <<19, 0, 0>>, Slti |-> <<19, 2, 0>>, Sltiu |-> <<19, 3, 0>>,
     Xori |-> <<19, 4, 0>>, Ori |-> <<19, 6, 0>>, Andi |-> <<19, 7, 0>>,
     Slli |-> <<19, 1, 0>>, Srli |-> <<19, 5, 0>>, Srai |-> <<19, 5, 32>>,
     Lb |-> <<3, 0, 0>>, Lh |-> <<3, 1, 0>>, Lw |-> <<3, 2, 0>>,
     Lbu |-> <<3, 4, 0>>, Lhu |-> <<3, 5, 0>>,
     Sb |-> <<35, 0, 0>>, Sh |-> <<35, 1, 0>>, Sw |-> <<35, 2, 0>>,
     Beq |-> <<99, 0, 0>>, Bne |-> <<99, 1, 0>>, Blt |-> <<99, 4, 0>>,
     Bge |-> <<99, 5, 0>>, Bltu |-> <<99, 6, 0>>, Bgeu |-> <<99, 7, 0>>,
     Lui |-> <<55, 0, 0>>, Auipc |-> <<23, 0, 0>>, Jal |-> <<111, 0, 0>>,
     Jalr |-> <<103, 0, 0>>, Ecall |-> <<115, 0, 0>>, Ebreak |-> <<115, 0, 0>>]

ShiftKinds == {"Slli", "Srli", "Srai"}
IKinds == (AluImmKinds \ ShiftKinds) \cup LoadKinds \cup HaltKinds
            \cup {"Jalr"}
UKinds == {"Lui", "Auipc"}

\* The fields a format has.
HasRd(kind)  == kind \notin StoreKinds \cup BranchKinds \cup HaltKinds
HasRs1(kind) == kind \notin UKinds \cup {"Jal"} \cup HaltKinds
HasRs2(kind) == kind \in AluRegKinds \cup StoreKinds \cup BranchKinds

\* The immediates a format can carry; branch and jump targets are even.
Carries(kind, imm) ==
    CASE kind \in AluRegKinds \cup {"Ecall"} -> imm = 0
      [] kind = "Ebreak" -> imm = 1
      [] kind \in ShiftKinds -> imm \in 0 .. 31
      [] kind \in BranchKinds -> imm \in -(2^12) .. 2^12 - 1 /\ imm % 2 = 0
      [] kind = "Jal" -> imm \in -(2^20) .. 2^20 - 1 /\ imm % 2 = 0
      [] kind \in UKinds -> imm \in Int32 /\ imm % 2^12 = 0
      [] OTHER -> imm \in -(2^11) .. 2^11 - 1

\* What can be written in assembly; absent fields are 0.
Assembled(i) ==
    /\ i \in [kind : InstructionKind \ {"Invalid"}, rd : 0 .. 31, rs1 : 0 .. 31,
              rs2 : 0 .. 31, immediate : Int32]
    /\ ~HasRd(i.kind) => i.rd = 0
    /\ ~HasRs1(i.kind) => i.rs1 = 0
    /\ ~HasRs2(i.kind) => i.rs2 = 0
    /\ Carries(i.kind, i.immediate)

Layout(funct7, rs2, rs1, kind, rd) ==
    funct7 * 2^25 + rs2 * 2^20 + rs1 * 2^15 + Encoding_of[kind][2] * 2^12
      + rd * 2^7 + Encoding_of[kind][1]

Encode(i) ==
    LET imm == i.immediate
    IN CASE i.kind \in AluRegKinds ->
                Layout(Encoding_of[i.kind][3], i.rs2, i.rs1, i.kind, i.rd)
         [] i.kind \in ShiftKinds ->
                Layout(Encoding_of[i.kind][3], imm, i.rs1, i.kind, i.rd)
         [] i.kind \in IKinds ->
                Layout(imm \div 32, imm % 32, i.rs1, i.kind, i.rd)
         [] i.kind \in StoreKinds ->
                Layout(imm \div 32, i.rs2, i.rs1, i.kind, imm % 32)
         [] i.kind \in BranchKinds ->
                Layout((imm \div 2^12) * 64 + ((imm \div 32) % 64),
                       i.rs2, i.rs1, i.kind,
                       (imm % 32) + ((imm \div 2^11) % 2))
         [] i.kind \in UKinds -> imm + Layout(0, 0, 0, i.kind, i.rd)
         [] i.kind = "Jal" ->
                Layout((imm \div 2^20) * 64 + ((imm \div 32) % 64),
                       (imm % 32) + ((imm \div 2^11) % 2), 0, i.kind, i.rd)
                  + ((imm \div 2^12) % 256) * 2^12

=============================================================================
