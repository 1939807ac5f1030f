--------------------------- MODULE ControlProofs ---------------------------
(***************************************************************************)
(* The table of control signals, by groups of instructions.                 *)
(***************************************************************************)
EXTENDS Control, TLAPS

\* The control signals of a cleared latch.
LEMMA NoControlType == no_control \in ControlSignals
BY DEF no_control, ControlSignals, ALUOp, WritebackSource, BranchCondition,
       MemoryAccessWidth

\* The control signals of each group of instructions.
LEMMA ControlByKind ==
    ASSUME NEW k \in InstructionKind
    PROVE  /\ k \in AluRegKinds => control_of[k] = alu_reg_control(alu_op_of(k))
           /\ k \in AluImmKinds => control_of[k] = alu_imm_control(alu_op_of(k))
           /\ k \in LoadKinds => control_of[k] = load_control(k)
           /\ k \in StoreKinds => control_of[k] = store_control(k)
           /\ k \in BranchKinds => control_of[k] = branch_control(k)
           /\ k \in HaltKinds => control_of[k] = halt_control
           /\ k = "Lui" => control_of[k] = lui_control
           /\ k = "Auipc" => control_of[k] = auipc_control
           /\ k = "Jal" => control_of[k] = jal_control
           /\ k = "Jalr" => control_of[k] = jalr_control
           /\ k = "Invalid" => control_of[k] = no_control
<1>1. ASSUME k \in AluRegKinds
      PROVE  control_of[k] = alu_reg_control(alu_op_of(k))
  BY <1>1, Zenon DEF control_of, AluRegKinds, AluImmKinds, LoadKinds,
                     StoreKinds, BranchKinds, HaltKinds
<1>2. ASSUME k \in AluImmKinds
      PROVE  control_of[k] = alu_imm_control(alu_op_of(k))
  BY <1>2, Zenon DEF control_of, AluRegKinds, AluImmKinds, LoadKinds,
                     StoreKinds, BranchKinds, HaltKinds
<1>3. ASSUME k \in LoadKinds PROVE control_of[k] = load_control(k)
  BY <1>3, Zenon DEF control_of, AluRegKinds, AluImmKinds, LoadKinds,
                     StoreKinds, BranchKinds, HaltKinds
<1>4. ASSUME k \in StoreKinds PROVE control_of[k] = store_control(k)
  BY <1>4, Zenon DEF control_of, AluRegKinds, AluImmKinds, LoadKinds,
                     StoreKinds, BranchKinds, HaltKinds
<1>5. ASSUME k \in BranchKinds PROVE control_of[k] = branch_control(k)
  BY <1>5, Zenon DEF control_of, AluRegKinds, AluImmKinds, LoadKinds,
                     StoreKinds, BranchKinds, HaltKinds
<1>6. ASSUME k \in HaltKinds PROVE control_of[k] = halt_control
  BY <1>6, Zenon DEF control_of, AluRegKinds, AluImmKinds, LoadKinds,
                     StoreKinds, BranchKinds, HaltKinds
<1>7. ASSUME k = "Lui" PROVE control_of[k] = lui_control
  BY <1>7, Zenon DEF control_of, AluRegKinds, AluImmKinds, LoadKinds,
                     StoreKinds, BranchKinds, HaltKinds
<1>8. ASSUME k = "Auipc" PROVE control_of[k] = auipc_control
  BY <1>8, Zenon DEF control_of, AluRegKinds, AluImmKinds, LoadKinds,
                     StoreKinds, BranchKinds, HaltKinds
<1>9. ASSUME k = "Jal" PROVE control_of[k] = jal_control
  BY <1>9, Zenon DEF control_of, AluRegKinds, AluImmKinds, LoadKinds,
                     StoreKinds, BranchKinds, HaltKinds
<1>10. ASSUME k = "Jalr" PROVE control_of[k] = jalr_control
  BY <1>10, Zenon DEF control_of, AluRegKinds, AluImmKinds, LoadKinds,
                      StoreKinds, BranchKinds, HaltKinds
<1>11. ASSUME k = "Invalid" PROVE control_of[k] = no_control
  BY <1>11, Zenon DEF control_of, AluRegKinds, AluImmKinds, LoadKinds,
                      StoreKinds, BranchKinds, HaltKinds
<1> QED
  BY <1>1, <1>2, <1>3, <1>4, <1>5, <1>6, <1>7, <1>8, <1>9, <1>10, <1>11

\* The ALU operation of every kind is one of ALUOp.
LEMMA AluOpType == ASSUME NEW k PROVE alu_op_of(k) \in ALUOp
BY Zenon DEF alu_op_of, ALUOp

\* The access width and the branch condition of every kind are defined.
LEMMA WidthAndConditionTypes ==
    ASSUME NEW k
    PROVE  /\ memory_width_of(k) \in MemoryAccessWidth
           /\ branch_condition_of(k) \in BranchCondition
<1>1. memory_width_of(k) \in MemoryAccessWidth
  BY Zenon DEF memory_width_of, MemoryAccessWidth
<1>2. branch_condition_of(k) \in BranchCondition
  BY Zenon DEF branch_condition_of, BranchCondition
<1> QED  BY <1>1, <1>2

\* Each group's signals are a record of control signals.
LEMMA ControlTypes ==
    /\ \A op \in ALUOp : /\ alu_reg_control(op) \in ControlSignals
                         /\ alu_imm_control(op) \in ControlSignals
    /\ \A k : /\ load_control(k) \in ControlSignals
              /\ store_control(k) \in ControlSignals
              /\ branch_control(k) \in ControlSignals
    /\ lui_control \in ControlSignals /\ auipc_control \in ControlSignals
    /\ jal_control \in ControlSignals /\ jalr_control \in ControlSignals
    /\ halt_control \in ControlSignals
<1> USE DEF no_control, ControlSignals
<1>1. ASSUME NEW op \in ALUOp
      PROVE  alu_reg_control(op) \in ControlSignals
  BY DEF alu_reg_control, WritebackSource, BranchCondition, MemoryAccessWidth
<1>2. ASSUME NEW op \in ALUOp
      PROVE  alu_imm_control(op) \in ControlSignals
  BY DEF alu_imm_control, alu_reg_control, WritebackSource, BranchCondition,
         MemoryAccessWidth
<1>3. ASSUME NEW k PROVE load_control(k) \in ControlSignals
  <2>1. memory_width_of(k) \in MemoryAccessWidth
    BY WidthAndConditionTypes
  <2> DEFINE Load(u) ==
        [no_control EXCEPT !.reg_write = TRUE, !.mem_read = TRUE,
                           !.alu_src_imm = TRUE, !.alu_op = "Add",
                           !.writeback_source = "Memory",
                           !.memory_width = memory_width_of(k),
                           !.mem_unsigned = u]
  <2>2. \A u \in BOOLEAN : Load(u) \in ControlSignals
    BY <2>1 DEF ALUOp, WritebackSource, BranchCondition
  <2>3. load_control(k) = Load(k \in {"Lbu", "Lhu"})
    BY Zenon DEF load_control
  <2>4. (k \in {"Lbu", "Lhu"}) \in BOOLEAN
    OBVIOUS
  <2> HIDE DEF Load
  <2> QED
    BY <2>2, <2>3, <2>4, Zenon
<1>4. ASSUME NEW k PROVE store_control(k) \in ControlSignals
  <2>1. memory_width_of(k) \in MemoryAccessWidth
    BY WidthAndConditionTypes
  <2> QED
    BY <2>1 DEF store_control, ALUOp, WritebackSource, BranchCondition
<1>5. ASSUME NEW k PROVE branch_control(k) \in ControlSignals
  <2>1. branch_condition_of(k) \in BranchCondition
    BY WidthAndConditionTypes
  <2> QED
    BY <2>1 DEF branch_control, ALUOp, WritebackSource, MemoryAccessWidth
<1>6. /\ lui_control \in ControlSignals /\ auipc_control \in ControlSignals
      /\ jal_control \in ControlSignals /\ jalr_control \in ControlSignals
      /\ halt_control \in ControlSignals
  BY DEF lui_control, auipc_control, jal_control, jalr_control, halt_control,
         ALUOp, WritebackSource, BranchCondition, MemoryAccessWidth
<1> QED  BY <1>1, <1>2, <1>3, <1>4, <1>5, <1>6

\* Every entry of the table is a record of control signals.
LEMMA ControlType ==
    ASSUME NEW k \in InstructionKind
    PROVE  control_of[k] \in ControlSignals
BY ControlByKind, ControlTypes, NoControlType, AluOpType DEF InstructionKind

=============================================================================
