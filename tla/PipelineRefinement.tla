------------------------- MODULE PipelineRefinement -------------------------
(***************************************************************************)
(* The pipeline implements the instruction set.                            *)
(*                                                                          *)
(* An instruction is taken to be executed when it leaves decode.  The       *)
(* abstract state is what the pipeline would leave if the instructions that *)
(* have left decode were completed and nothing else were fetched: the       *)
(* latches are applied to the CPU state from the oldest to the youngest.    *)
(***************************************************************************)
EXTENDS Pipeline, IsaSemantics

\* The registers once the instructions in MEM/WB and EX/MEM have completed.
RegsDrained == write_back(write_back(regs, mem_wb), next_mem_wb)

\* The bytes a store in a latch writes.
LatchStores(latch) ==
    IF is_store(latch)
    THEN access_bytes(latch.alu_result, width_bytes(latch.control))
    ELSE {}

\* The state the instruction in ID/EX executes in.
Drained ==
    [regs |-> RegsDrained, mem |-> memory_after_mem,
     pc |-> IF id_ex.valid THEN id_ex.pc
            ELSE IF if_id.valid THEN if_id.pc
            ELSE pc,
     halted |-> \/ halted
                \/ mem_wb.valid /\ mem_wb.control.halt
                \/ ex_mem.valid /\ ex_mem.control.halt,
     error |-> FALSE,
     writes |-> memory_writes_after_mem,
     recent |-> LatchStores(ex_mem), older |-> LatchStores(mem_wb)]

\* The state at a memory fault: that of the instruction before it.
Faulted ==
    [regs |-> write_back(regs, mem_wb), mem |-> memory, pc |-> ex_mem.pc,
     halted |-> FALSE, error |-> TRUE, writes |-> memory_writes,
     recent |-> {}, older |-> {}]

Abs ==
    IF memory_access_throws THEN Faulted
    ELSE IF id_ex.valid
    THEN ExecWord(Drained, id_ex.instruction)
    ELSE Drained

IsaRef == INSTANCE Isa WITH arch <- Abs

-----------------------------------------------------------------------------
(* Properties *)

(***************************************************************************)
(* stage_EX works on current operands: whatever mix of register file,       *)
(* EX/MEM and MEM/WB bypasses resolve_forwarding() chose, a register the    *)
(* instruction in ID/EX reads has the value left by every older             *)
(* instruction.  This needs the write-back-before-decode order, the bypass  *)
(* priority and the load-use stall together.                               *)
(***************************************************************************)
OperandsAreCurrent ==
    LET d == decode_instruction[id_ex.instruction]
    IN  id_ex.valid /\ ~memory_access_throws =>
          /\ uses_rs1(d) => operand_rs1 = read_reg(RegsDrained, d.rs1)
          /\ uses_rs2(d) => operand_rs2 = read_reg(RegsDrained, d.rs2)

(***************************************************************************)
(* The instructions between fetch and execute form one predicted path, and  *)
(* only branches are predicted to go anywhere but pc + 4.  A flush, a stall *)
(* or a fetch past the end of RAM must not lose or repeat an instruction.   *)
(***************************************************************************)
PathIsConnected ==
    /\ if_id.valid => pc = if_id.predicted_next_pc
    /\ id_ex.valid => id_ex.predicted_next_pc =
                        IF if_id.valid THEN if_id.pc ELSE pc
    /\ if_id.valid /\ ~decoded.control.branch =>
         if_id.predicted_next_pc = add32(if_id.pc, 4)
    /\ id_ex.valid /\ ~id_ex.control.branch =>
         id_ex.predicted_next_pc = add32(id_ex.pc, 4)

(***************************************************************************)
(* The halt barrier of stop_fetch and halt_is_in_flight(): behind an ecall  *)
(* or ebreak that has left decode there is no instruction in any latch, and *)
(* once it has retired the pipeline is empty.                              *)
(***************************************************************************)
HaltBarrier ==
    /\ id_ex.valid /\ id_ex.control.halt => ~if_id.valid
    /\ ex_mem.valid /\ ex_mem.control.halt => ~if_id.valid /\ ~id_ex.valid
    /\ mem_wb.valid /\ mem_wb.control.halt =>
         ~if_id.valid /\ ~id_ex.valid /\ ~ex_mem.valid
    /\ halted => /\ ~if_id.valid /\ ~id_ex.valid
                 /\ ~ex_mem.valid /\ ~mem_wb.valid

(***************************************************************************)
(* The word in IF/ID is what RAM holds at its pc, although stage_MEM may    *)
(* have stored to it since: only an instruction held by a load-use stall    *)
(* can be stale, and only by the store that has just left stage_MEM.        *)
(***************************************************************************)
FetchIsFresh ==
    if_id.valid =>
      /\ valid_memory_access(if_id.pc, 4)
      /\ \/ if_id.instruction = read_u32(memory, if_id.pc)
         \/ /\ ~id_ex.valid
            /\ access_bytes(if_id.pc, 4) \cap LatchStores(mem_wb) # {}

(***************************************************************************)
(* What the program can observe when the run stops is an architectural      *)
(* state: after a halt nothing is left in flight and the pc is the address  *)
(* after the halt instruction; after an out-of-range access exactly the     *)
(* instructions before the faulting one have taken effect.                 *)
(***************************************************************************)
StoppedStateIsArchitectural ==
    ~Running => /\ regs = Abs.regs
                /\ memory = Abs.mem
                /\ memory_writes = Abs.writes
                /\ halted = Abs.halted
                /\ error = Abs.error
                /\ halted => pc = Abs.pc

(***************************************************************************)
(* Every run of the pipeline is a run of the instruction set: stalls,       *)
(* flushes, forwarding and prediction change when an instruction executes,  *)
(* never what it does or which one is next.                                *)
(***************************************************************************)
ImplementsIsa == IsaRef!IsaSpec

(***************************************************************************)
(* Fetch has run off the end of RAM and everything older has drained: the   *)
(* cycle function has nothing left to do.                                   *)
(***************************************************************************)
FetchExhausted ==
    /\ ~if_id.valid /\ ~id_ex.valid /\ ~ex_mem.valid
    /\ ~valid_memory_access(pc, 4)

(***************************************************************************)
(* The pipeline never livelocks in stalls or flushes: instructions keep     *)
(* retiring until the run stops or fetch has run off the end of RAM.        *)
(***************************************************************************)
KeepsRetiring == []<>(mem_wb.valid \/ ~Running \/ FetchExhausted)

-----------------------------------------------------------------------------
(* The inductive invariant *)

\* Does a latch carry the fields decode_instruction() gives its instruction?
DecodedFrom(latch) ==
    LET d == decode_instruction[latch.instruction]
    IN  /\ is_valid_instruction(d)
        /\ latch.rd = d.rd
        /\ latch.immediate = d.immediate
        /\ latch.control = d.control

\* Every latch holds a valid instruction as decoded, or a cleared bubble.
LatchesDecoded ==
    /\ IF id_ex.valid
       THEN /\ DecodedFrom(id_ex)
            /\ id_ex.rs1 = decode_instruction[id_ex.instruction].rs1
            /\ id_ex.rs2 = decode_instruction[id_ex.instruction].rs2
       ELSE id_ex = empty_id_ex
    /\ IF ex_mem.valid THEN DecodedFrom(ex_mem) ELSE ex_mem = empty_ex_mem
    /\ IF mem_wb.valid THEN DecodedFrom(mem_wb) ELSE mem_wb = empty_mem_wb
    /\ if_id.valid \/ if_id = empty_if_id

\* ID/EX holds the register file as write-back left it in the same cycle.
OperandsRead ==
    id_ex.valid /\ ~error =>
      /\ id_ex.rs1_value = read_reg(regs, id_ex.rs1)
      /\ id_ex.rs2_value = read_reg(regs, id_ex.rs2)

\* The consumer of a load is never right behind it.
LoadUseSeparated ==
    LET d == decode_instruction[id_ex.instruction]
    IN  /\ id_ex.valid
        /\ ex_mem.valid /\ ex_mem.control.mem_read /\ ex_mem.rd # 0
        => /\ uses_rs1(d) => d.rs1 # ex_mem.rd
           /\ uses_rs2(d) => d.rs2 # ex_mem.rd

\* After an exception the faulting access stays in EX/MEM, written back once.
ErrorIsFinal ==
    error => /\ memory_access_throws
             /\ regs = write_back(regs, mem_wb)
             /\ ~halted

(***************************************************************************)
(* The inductive invariant behind the properties above: what each latch     *)
(* holds, and how the latches relate to the registers, the RAM and the pc.  *)
(***************************************************************************)
IInv ==
    /\ TypeOK
    /\ LatchesDecoded
    /\ OperandsRead
    /\ LoadUseSeparated
    /\ PathIsConnected
    /\ HaltBarrier
    /\ FetchIsFresh
    /\ ErrorIsFinal

-----------------------------------------------------------------------------
(* What the documentation says and the code does not do *)

(***************************************************************************)
(* The comment on Config::enable_forwarding: it "Enables common bypass      *)
(* paths".  Switched off, stage_EX would use the operands read in decode.   *)
(***************************************************************************)
ForwardingObeysConfig ==
    id_ex.valid /\ ~config.enable_forwarding =>
      /\ operand_rs1 = id_ex.rs1_value
      /\ operand_rs2 = id_ex.rs2_value

=============================================================================
