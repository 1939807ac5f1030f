------------------------------ MODULE Pipeline ------------------------------
(***************************************************************************)
(* The five-stage pipeline: the CPU state, the four latches of               *)
(* PipelineRegisters and run_pipeline_cycle().                              *)
(*                                                                          *)
(* One step is one call of run_pipeline_cycle().  The function runs the      *)
(* stages from the last to the first over the current latches, each stage   *)
(* writing the next value of the latch after it, and commit() then makes    *)
(* all of them current.  A stage therefore reads the unprimed latches; what *)
(* an earlier-run stage did to the CPU in the same call (the register file, *)
(* the RAM, the predictor, the pc) is read through its primed value.  The   *)
(* counters of ExecutionStats, which no stage reads, are in Simulator.tla.  *)
(***************************************************************************)
EXTENDS Datapath, BranchPredictor, Sequences

CONSTANTS
    Programs,        \* the images a run may load, as sequences of bytes
    LoadAddresses,   \* the values of --load-address
    Configs          \* the configurations of the microarchitecture

Config == [enable_forwarding : BOOLEAN,
           branch_predictor_type : BranchPredictorType]

ASSUME ProgramAssumption ==
    /\ Programs \subseteq Seq(Byte)
    /\ LoadAddresses \subseteq Word
    /\ Configs \subseteq Config

VARIABLES
    config,          \* CPU::config_
    regs,            \* CPU::regs_
    memory,          \* CPU::memory_
    memory_writes,   \* CPU::memory_writes_, as the set of its entries
    pc,              \* CPU::pc_
    halted,          \* CPU::halted_
    counters,        \* CPU::branch_predictor_
    if_id, id_ex, ex_mem, mem_wb,
    error            \* an exception left run_pipeline_cycle()

vars == <<config, regs, memory, memory_writes, pc, halted, counters,
          if_id, id_ex, ex_mem, mem_wb, error>>

(***************************************************************************)
(* The latches.  Fields that only the trace prints (format, funct3, funct7, *)
(* predicted_taken, branch_taken, branch_target) are left out.              *)
(***************************************************************************)
IFIDRegister ==
    [valid : BOOLEAN, pc : Word, instruction : Word, predicted_next_pc : Word]

IDEXRegister ==
    [valid : BOOLEAN, pc : Word, instruction : Word, predicted_next_pc : Word,
     rd : RegIndex, rs1 : RegIndex, rs2 : RegIndex, immediate : Word,
     rs1_value : Word, rs2_value : Word, control : ControlSignals]

EXMEMRegister ==
    [valid : BOOLEAN, pc : Word, instruction : Word, rd : RegIndex,
     alu_result : Word, store_value : Word, pc_plus_4 : Word,
     immediate : Word, control : ControlSignals]

MEMWBRegister ==
    [valid : BOOLEAN, pc : Word, instruction : Word, rd : RegIndex,
     alu_result : Word, memory_data : Word, pc_plus_4 : Word,
     immediate : Word, control : ControlSignals]

\* What clear() leaves in each latch.
empty_if_id ==
    [valid |-> FALSE, pc |-> 0, instruction |-> 0, predicted_next_pc |-> 0]

empty_id_ex ==
    [valid |-> FALSE, pc |-> 0, instruction |-> 0, predicted_next_pc |-> 0,
     rd |-> 0, rs1 |-> 0, rs2 |-> 0, immediate |-> 0,
     rs1_value |-> 0, rs2_value |-> 0, control |-> no_control]

empty_ex_mem ==
    [valid |-> FALSE, pc |-> 0, instruction |-> 0, rd |-> 0,
     alu_result |-> 0, store_value |-> 0, pc_plus_4 |-> 0,
     immediate |-> 0, control |-> no_control]

empty_mem_wb ==
    [valid |-> FALSE, pc |-> 0, instruction |-> 0, rd |-> 0,
     alu_result |-> 0, memory_data |-> 0, pc_plus_4 |-> 0,
     immediate |-> 0, control |-> no_control]

-----------------------------------------------------------------------------
(* Write-back *)

\* select_writeback_value, the same function as mem_wb_forward_value.
select_writeback_value(latch) ==
    CASE latch.control.writeback_source = "ALU"       -> latch.alu_result
      [] latch.control.writeback_source = "Memory"    -> latch.memory_data
      [] latch.control.writeback_source = "PCPlus4"   -> latch.pc_plus_4
      [] latch.control.writeback_source = "Immediate" -> latch.immediate
      [] OTHER                                        -> 0

\* The register file after a MEM/WB latch has been written back.
write_back(register_file, latch) ==
    IF latch.valid /\ latch.control.reg_write
    THEN write_reg(register_file, latch.rd, select_writeback_value(latch))
    ELSE register_file

stage_WB ==
    /\ regs' = write_back(regs, mem_wb)
    /\ halted' = (halted \/ (mem_wb.valid /\ mem_wb.control.halt))

-----------------------------------------------------------------------------
(* Memory access *)

\* Does the access of the instruction in EX/MEM throw std::out_of_range?
memory_access_throws ==
    /\ ex_mem.valid
    /\ ex_mem.control.mem_read \/ ex_mem.control.mem_write
    /\ ~valid_memory_access(ex_mem.alu_result, width_bytes(ex_mem.control))

is_store(latch) == latch.valid /\ latch.control.mem_write

memory_after_mem ==
    IF is_store(ex_mem)
    THEN write_memory(memory, ex_mem.alu_result, ex_mem.store_value,
                      ex_mem.control)
    ELSE memory

\* record_memory_write, called by write_u8, write_u16 and write_u32.
memory_writes_after_mem ==
    IF is_store(ex_mem) /\ width_bytes(ex_mem.control) > 0
    THEN memory_writes \cup {<<ex_mem.alu_result, width_bytes(ex_mem.control)>>}
    ELSE memory_writes

next_mem_wb ==
    IF ~ex_mem.valid THEN empty_mem_wb
    ELSE [valid |-> TRUE, pc |-> ex_mem.pc,
          instruction |-> ex_mem.instruction, rd |-> ex_mem.rd,
          alu_result |-> ex_mem.alu_result,
          memory_data |-> IF ex_mem.control.mem_read
                          THEN read_memory(memory, ex_mem.alu_result,
                                           ex_mem.control)
                          ELSE 0,
          pc_plus_4 |-> ex_mem.pc_plus_4, immediate |-> ex_mem.immediate,
          control |-> ex_mem.control]

stage_MEM ==
    /\ memory' = memory_after_mem
    /\ memory_writes' = memory_writes_after_mem
    /\ mem_wb' = next_mem_wb

-----------------------------------------------------------------------------
(* Forwarding *)

can_forward_from_ex_mem ==
    /\ ex_mem.valid
    /\ ex_mem.control.reg_write
    /\ ex_mem.rd # 0
    /\ ~ex_mem.control.mem_read

can_forward_from_mem_wb ==
    mem_wb.valid /\ mem_wb.control.reg_write /\ mem_wb.rd # 0

ex_mem_forward_value ==
    CASE ex_mem.control.writeback_source = "ALU"       -> ex_mem.alu_result
      [] ex_mem.control.writeback_source = "PCPlus4"   -> ex_mem.pc_plus_4
      [] ex_mem.control.writeback_source = "Immediate" -> ex_mem.immediate
      [] OTHER                                         -> 0

\* Mutant of forward: MEM/WB is asked before EX/MEM.
forward_oldest_first(reg, latched) ==
    IF reg # 0 /\ can_forward_from_mem_wb /\ reg = mem_wb.rd
    THEN select_writeback_value(mem_wb)
    ELSE IF reg # 0 /\ can_forward_from_ex_mem /\ reg = ex_mem.rd
    THEN ex_mem_forward_value
    ELSE latched

\* resolve_forwarding for one operand: EX/MEM wins over MEM/WB.
forward(reg, latched) ==
    IF reg # 0 /\ can_forward_from_ex_mem /\ reg = ex_mem.rd
    THEN ex_mem_forward_value
    ELSE IF reg # 0 /\ can_forward_from_mem_wb /\ reg = mem_wb.rd
    THEN select_writeback_value(mem_wb)
    ELSE latched

operand_rs1 == forward(id_ex.rs1, id_ex.rs1_value)
operand_rs2 == forward(id_ex.rs2, id_ex.rs2_value)

-----------------------------------------------------------------------------
(* Execute *)

alu_result ==
    execute_alu(id_ex.control.alu_op,
                IF id_ex.control.alu_src_pc THEN id_ex.pc ELSE operand_rs1,
                IF id_ex.control.alu_src_imm THEN id_ex.immediate
                                             ELSE operand_rs2)

actual_taken ==
    evaluate_branch(id_ex.control.branch_condition, operand_rs1, operand_rs2)

actual_target ==
    IF id_ex.control.branch
    THEN add32(id_ex.pc, IF actual_taken THEN id_ex.immediate ELSE 4)
    ELSE IF id_ex.control.jump
    THEN IF id_ex.control.alu_src_pc THEN alu_result
                                     ELSE alu_result - (alu_result % 2)
    ELSE add32(id_ex.pc, 4)

\* StageControl::flush_id_ex, set by stage_EX.
flush_id_ex ==
    /\ id_ex.valid
    /\ id_ex.control.branch \/ id_ex.control.jump
    /\ id_ex.predicted_next_pc # actual_target

next_ex_mem ==
    IF ~id_ex.valid THEN empty_ex_mem
    ELSE [valid |-> TRUE, pc |-> id_ex.pc, instruction |-> id_ex.instruction,
          rd |-> id_ex.rd, alu_result |-> alu_result,
          store_value |-> operand_rs2, pc_plus_4 |-> add32(id_ex.pc, 4),
          immediate |-> id_ex.immediate, control |-> id_ex.control]

\* stage_EX.  The pc it may set is pc_after_ex, which stage_IF starts from.
stage_EX ==
    /\ ex_mem' = next_ex_mem
    /\ counters' =
         IF id_ex.valid /\ id_ex.control.branch
         THEN update(counters, id_ex.pc, actual_taken,
                     config.branch_predictor_type)
         ELSE counters

\* Mutant of pc_after_ex: the redirect is forgotten, only the flush happens.
pc_after_ex_not_set == pc

pc_after_ex == IF flush_id_ex THEN actual_target ELSE pc

-----------------------------------------------------------------------------
(* Hazard detection and decode *)

decoded == decode_instruction[if_id.instruction]

\* writes_register /\ depends_on for the instruction in ID/EX.
raw_dependency ==
    /\ id_ex.valid /\ id_ex.control.reg_write /\ id_ex.rd # 0
    /\ \/ uses_rs1(decoded) /\ decoded.rs1 = id_ex.rd
       \/ uses_rs2(decoded) /\ decoded.rs2 = id_ex.rd

\* Mutant of stall_fetch_decode: the load-use hazard is not detected.
stall_fetch_decode_never == FALSE

\* Mutant of stall_fetch_decode: it tests the load in decode, not the producer.
stall_fetch_decode_forever ==
    /\ ~flush_id_ex
    /\ if_id.valid
    /\ is_valid_instruction(decoded)
    /\ decoded.control.mem_read /\ uses_rs1(decoded)

\* StageControl::stall_fetch_decode: detect_raw_hazard, asked unless flushing.
stall_fetch_decode ==
    /\ ~flush_id_ex
    /\ if_id.valid
    /\ is_valid_instruction(decoded)
    /\ raw_dependency
    /\ id_ex.control.mem_read

\* Mutant of id_issues: the wrong-path instruction is not flushed.
id_issues_no_flush ==
    /\ ~stall_fetch_decode
    /\ if_id.valid
    /\ is_valid_instruction(decoded)

\* stage_ID hands an instruction on, instead of a bubble.
id_issues ==
    /\ ~flush_id_ex
    /\ ~stall_fetch_decode
    /\ if_id.valid
    /\ is_valid_instruction(decoded)

\* Mutant of next_id_ex: the registers are read before write-back.
next_id_ex_before_wb(register_file) ==
    IF ~id_issues THEN empty_id_ex
    ELSE [valid |-> TRUE, pc |-> if_id.pc, instruction |-> if_id.instruction,
          predicted_next_pc |-> if_id.predicted_next_pc,
          rd |-> decoded.rd, rs1 |-> decoded.rs1, rs2 |-> decoded.rs2,
          immediate |-> decoded.immediate,
          rs1_value |-> read_reg(regs, decoded.rs1),
          rs2_value |-> read_reg(regs, decoded.rs2),
          control |-> decoded.control]

next_id_ex(register_file) ==
    IF ~id_issues THEN empty_id_ex
    ELSE [valid |-> TRUE, pc |-> if_id.pc, instruction |-> if_id.instruction,
          predicted_next_pc |-> if_id.predicted_next_pc,
          rd |-> decoded.rd, rs1 |-> decoded.rs1, rs2 |-> decoded.rs2,
          immediate |-> decoded.immediate,
          rs1_value |-> read_reg(register_file, decoded.rs1),
          rs2_value |-> read_reg(register_file, decoded.rs2),
          control |-> decoded.control]

\* stage_ID runs after stage_WB in the same cycle, and sees what it wrote.
stage_ID == id_ex' = next_id_ex(regs')

-----------------------------------------------------------------------------
(* Fetch *)

stop_fetch == id_issues /\ decoded.control.halt

halt_is_in_flight ==
    \/ id_ex.valid /\ id_ex.control.halt
    \/ ex_mem.valid /\ ex_mem.control.halt
    \/ mem_wb.valid /\ mem_wb.control.halt

\* Mutant of fetch_stopped: only the stop_fetch of this cycle counts.
fetch_stopped_one_cycle == stop_fetch

fetch_stopped == stop_fetch \/ halt_is_in_flight

\* The pc stage_IF predicts for the instruction `word` at `address`.
predicted_next_pc(address, word, table) ==
    LET fetched == decode_instruction[word]
    IN  IF /\ is_valid_instruction(fetched)
           /\ fetched.control.branch
           /\ predict(table, address, config.branch_predictor_type)
        THEN add32(address, fetched.immediate)
        ELSE add32(address, 4)

\* Mutant of next_if_id: the word is fetched before this cycle's store.
next_if_id_before_mem(ram, table) ==
    LET word == read_u32(memory, pc_after_ex)
    IN  [valid |-> TRUE, pc |-> pc_after_ex, instruction |-> word,
         predicted_next_pc |-> predicted_next_pc(pc_after_ex, word, table)]

next_if_id(ram, table) ==
    LET word == read_u32(ram, pc_after_ex)
    IN  [valid |-> TRUE, pc |-> pc_after_ex, instruction |-> word,
         predicted_next_pc |-> predicted_next_pc(pc_after_ex, word, table)]

\* Mutant of stage_IF: fetch goes on although decode is stalled.
stage_IF_not_held ==
    \/ /\ fetch_stopped \/ ~valid_memory_access(pc_after_ex, 4)
       /\ if_id' = empty_if_id
       /\ pc' = pc_after_ex
    \/ /\ ~fetch_stopped
       /\ valid_memory_access(pc_after_ex, 4)
       /\ if_id' = next_if_id(memory', counters')
       /\ pc' = if_id'.predicted_next_pc

\* stage_IF and the three-way choice around it in run_pipeline_cycle.
stage_IF ==
    \/ /\ fetch_stopped
       /\ if_id' = empty_if_id
       /\ pc' = pc_after_ex
    \/ /\ ~fetch_stopped
       /\ stall_fetch_decode
       /\ if_id' = if_id
       /\ pc' = pc_after_ex
    \/ /\ ~fetch_stopped
       /\ ~stall_fetch_decode
       /\ ~valid_memory_access(pc_after_ex, 4)
       /\ if_id' = empty_if_id
       /\ pc' = pc_after_ex
    \/ /\ ~fetch_stopped
       /\ ~stall_fetch_decode
       /\ valid_memory_access(pc_after_ex, 4)
       /\ if_id' = next_if_id(memory', counters')
       /\ pc' = if_id'.predicted_next_pc

-----------------------------------------------------------------------------
(* The cycle and the run *)

Running == ~halted /\ ~error

run_pipeline_cycle ==
    /\ Running
    /\ ~memory_access_throws
    /\ stage_WB
    /\ stage_MEM
    /\ stage_EX
    /\ stage_ID
    /\ stage_IF
    /\ UNCHANGED <<config, error>>

(***************************************************************************)
(* stage_MEM throws: write-back has happened, nothing else has, commit() is *)
(* not reached, and main() ends the run.                                    *)
(***************************************************************************)
run_pipeline_cycle_throws ==
    /\ Running
    /\ memory_access_throws
    /\ stage_WB
    /\ error' = TRUE
    /\ UNCHANGED <<config, memory, memory_writes, pc, counters,
                   if_id, id_ex, ex_mem, mem_wb>>

Next == run_pipeline_cycle \/ run_pipeline_cycle_throws

\* load_binary_program() accepts a file of whole instructions, at least one.
load_binary_program(bytes) == Len(bytes) > 0 /\ Len(bytes) % 4 = 0

\* load_program() of an accepted file into the zeroed RAM of a new CPU, where
\* it fits.
LoadedImages ==
    {[mem |-> load_image([a \in Address |-> 0], load[1], Len(load[1]), load[2]),
      pc |-> load[2]] :
         load \in {l \in Programs \X LoadAddresses :
                      /\ load_binary_program(l[1])
                      /\ valid_memory_access(l[2], Len(l[1]))}}

\* CPU and PipelineRegisters as constructed, after load_program().
Init ==
    /\ config \in Configs
    /\ \E image \in LoadedImages : memory = image.mem /\ pc = image.pc
    /\ regs = [r \in RegIndex |-> 0]
    /\ memory_writes = {}
    /\ halted = FALSE
    /\ counters = reset_counters
    /\ if_id = empty_if_id
    /\ id_ex = empty_id_ex
    /\ ex_mem = empty_ex_mem
    /\ mem_wb = empty_mem_wb
    /\ error = FALSE

\* main() keeps calling run_pipeline_cycle() until the run stops.
Spec == Init /\ [][Next]_vars /\ WF_vars(Next)

-----------------------------------------------------------------------------
(* The type invariant *)

TypeOK ==
    /\ config \in Config
    /\ regs \in RegFile
    /\ memory \in Memory
    /\ memory_writes \subseteq Word \X {1, 2, 4}
    /\ pc \in Word
    /\ halted \in BOOLEAN
    /\ counters \in Counters
    /\ if_id \in IFIDRegister
    /\ id_ex \in IDEXRegister
    /\ ex_mem \in EXMEMRegister
    /\ mem_wb \in MEMWBRegister
    /\ error \in BOOLEAN

=============================================================================
