------------------------------ MODULE Control ------------------------------
(***************************************************************************)
(* The kinds of instructions, the control signals a latch carries, and the  *)
(* signals of each kind as one table: what the pipeline relies on.  Decoder *)
(* shows that the if-chains of decode_instruction() build this table.       *)
(***************************************************************************)

AluRegKinds == {"Add", "Sub", "Sll", "Slt", "Sltu", "Xor", "Srl", "Sra",
                "Or", "And"}
AluImmKinds == {"Addi", "Slti", "Sltiu", "Xori", "Ori", "Andi", "Slli",
                "Srli", "Srai"}
LoadKinds   == {"Lb", "Lh", "Lw", "Lbu", "Lhu"}
StoreKinds  == {"Sb", "Sh", "Sw"}
BranchKinds == {"Beq", "Bne", "Blt", "Bge", "Bltu", "Bgeu"}
HaltKinds   == {"Ecall", "Ebreak"}

InstructionKind ==
    AluRegKinds \cup AluImmKinds \cup LoadKinds \cup StoreKinds
      \cup BranchKinds \cup HaltKinds
      \cup {"Lui", "Auipc", "Jal", "Jalr", "Invalid"}

ALUOp == {"None", "Add", "Sub", "And", "Or", "Xor", "Sll", "Srl", "Sra",
          "Slt", "Sltu"}
WritebackSource   == {"None", "ALU", "Memory", "PCPlus4", "Immediate"}
BranchCondition   == {"None", "Equal", "NotEqual", "LessThan",
                      "GreaterOrEqual", "LessThanUnsigned",
                      "GreaterOrEqualUnsigned"}
MemoryAccessWidth == {"None", "Byte", "HalfWord", "Word"}

ControlSignals ==
    [reg_write : BOOLEAN, mem_read : BOOLEAN, mem_write : BOOLEAN,
     branch : BOOLEAN, jump : BOOLEAN, alu_src_pc : BOOLEAN,
     alu_src_imm : BOOLEAN, mem_unsigned : BOOLEAN, halt : BOOLEAN,
     alu_op : ALUOp, writeback_source : WritebackSource,
     branch_condition : BranchCondition, memory_width : MemoryAccessWidth]

\* The default member initialisers of ControlSignals.
no_control ==
    [reg_write |-> FALSE, mem_read |-> FALSE, mem_write |-> FALSE,
     branch |-> FALSE, jump |-> FALSE, alu_src_pc |-> FALSE,
     alu_src_imm |-> FALSE, mem_unsigned |-> FALSE, halt |-> FALSE,
     alu_op |-> "None", writeback_source |-> "None",
     branch_condition |-> "None", memory_width |-> "None"]

-----------------------------------------------------------------------------
(* The per-kind tables behind the if-chains of decode_instruction(). *)

alu_op_of(kind) ==
    CASE kind \in {"Add", "Addi"}   -> "Add"
      [] kind = "Sub"               -> "Sub"
      [] kind \in {"Sll", "Slli"}   -> "Sll"
      [] kind \in {"Slt", "Slti"}   -> "Slt"
      [] kind \in {"Sltu", "Sltiu"} -> "Sltu"
      [] kind \in {"Xor", "Xori"}   -> "Xor"
      [] kind \in {"Srl", "Srli"}   -> "Srl"
      [] kind \in {"Sra", "Srai"}   -> "Sra"
      [] kind \in {"Or", "Ori"}     -> "Or"
      [] OTHER                      -> "And"

\* set_memory_width
memory_width_of(kind) ==
    CASE kind \in {"Lb", "Lbu", "Sb"} -> "Byte"
      [] kind \in {"Lh", "Lhu", "Sh"} -> "HalfWord"
      [] OTHER                        -> "Word"

branch_condition_of(kind) ==
    CASE kind = "Beq"  -> "Equal"
      [] kind = "Bne"  -> "NotEqual"
      [] kind = "Blt"  -> "LessThan"
      [] kind = "Bge"  -> "GreaterOrEqual"
      [] kind = "Bltu" -> "LessThanUnsigned"
      [] OTHER         -> "GreaterOrEqualUnsigned"

alu_reg_control(op) ==
    [no_control EXCEPT !.reg_write = TRUE, !.alu_op = op,
                       !.writeback_source = "ALU"]

alu_imm_control(op) == [alu_reg_control(op) EXCEPT !.alu_src_imm = TRUE]

load_control(kind) ==
    [no_control EXCEPT !.reg_write = TRUE, !.mem_read = TRUE,
                       !.alu_src_imm = TRUE, !.alu_op = "Add",
                       !.writeback_source = "Memory",
                       !.memory_width = memory_width_of(kind),
                       !.mem_unsigned = kind \in {"Lbu", "Lhu"}]

store_control(kind) ==
    [no_control EXCEPT !.mem_write = TRUE, !.alu_src_imm = TRUE,
                       !.alu_op = "Add",
                       !.memory_width = memory_width_of(kind)]

branch_control(kind) ==
    [no_control EXCEPT !.branch = TRUE, !.alu_op = "Sub",
                       !.branch_condition = branch_condition_of(kind)]

lui_control ==
    [no_control EXCEPT !.reg_write = TRUE, !.writeback_source = "Immediate"]

auipc_control ==
    [no_control EXCEPT !.reg_write = TRUE, !.alu_src_pc = TRUE,
                       !.alu_src_imm = TRUE, !.alu_op = "Add",
                       !.writeback_source = "ALU"]

jal_control ==
    [no_control EXCEPT !.reg_write = TRUE, !.jump = TRUE,
                       !.alu_src_pc = TRUE, !.alu_src_imm = TRUE,
                       !.alu_op = "Add", !.writeback_source = "PCPlus4"]

jalr_control ==
    [no_control EXCEPT !.reg_write = TRUE, !.jump = TRUE,
                       !.alu_src_imm = TRUE, !.alu_op = "Add",
                       !.writeback_source = "PCPlus4"]

halt_control == [no_control EXCEPT !.halt = TRUE]

\* The control signals decode_instruction() attaches to each kind.
control_of ==
    [kind \in InstructionKind |->
        CASE kind \in AluRegKinds -> alu_reg_control(alu_op_of(kind))
          [] kind \in AluImmKinds -> alu_imm_control(alu_op_of(kind))
          [] kind \in LoadKinds   -> load_control(kind)
          [] kind \in StoreKinds  -> store_control(kind)
          [] kind \in BranchKinds -> branch_control(kind)
          [] kind \in HaltKinds   -> halt_control
          [] kind = "Lui"         -> lui_control
          [] kind = "Auipc"       -> auipc_control
          [] kind = "Jal"         -> jal_control
          [] kind = "Jalr"        -> jalr_control
          [] OTHER                -> no_control]

=============================================================================
