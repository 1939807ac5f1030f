--------------------------- MODULE PipelineProofs ---------------------------
(***************************************************************************)
(* Proofs about the pipeline, for every width, memory size, register count, *)
(* predictor table, ALU, instruction encoding and program.                  *)
(***************************************************************************)
EXTENDS PipelineRefinement, ControlProofs, TLAPS

-----------------------------------------------------------------------------
(* Words, bytes and the register file *)

\* WordSize is large enough for the widths and constants the code uses.
LEMMA WordSizeFacts ==
    /\ ByteSize \in Nat /\ ByteSize >= 2
    /\ WordSize \in Nat /\ WordSize >= 16
    /\ ByteSize * ByteSize \in Nat
    /\ ByteSize <= ByteSize * ByteSize
    /\ ByteSize * ByteSize <= WordSize
    /\ 0 \in Word /\ 4 \in Word
<1> DEFINE B == ByteSize
           B2 == B * B
           B3 == B * B2
<1>1. B \in Nat /\ B >= 2
  BY CpuAssumption
<1> HIDE DEF B
<1>2. B2 \in Nat /\ B2 >= 4 /\ B2 >= B
  BY <1>1
<1> HIDE DEF B2
<1>3. B3 \in Nat /\ B3 >= 8 /\ B3 >= B2
  BY <1>1, <1>2
<1> HIDE DEF B3
<1>4. B * B3 \in Nat /\ B * B3 >= 16 /\ B * B3 >= B3
  BY <1>1, <1>3
<1>5. WordSize = B * B3
  BY DEF WordSize, B3, B2, B
<1> QED
  BY <1>1, <1>2, <1>3, <1>4, <1>5 DEF Word, B, B2

\* uint32_t addition stays within a word.
LEMMA Add32Type ==
    ASSUME NEW a \in Word, NEW b \in Word
    PROVE  add32(a, b) \in Word
BY WordSizeFacts DEF add32, Word

\* Two digits in base B and C make a number below B * C.
LEMMA TwoDigits ==
    ASSUME NEW B \in Nat, B >= 2, NEW C \in Nat,
           NEW x \in 0 .. B - 1, NEW y \in 0 .. C - 1
    PROVE  x + B * y \in 0 .. B * C - 1
OBVIOUS

\* The loads of CPU return words, and the narrower ones their own width.
LEMMA ReadTypes ==
    ASSUME NEW m \in Memory, NEW a \in Word
    PROVE  /\ valid_memory_access(a, 1) => read_u8(m, a) \in 0 .. ByteSize - 1
           /\ valid_memory_access(a, 2) =>
                read_u16(m, a) \in 0 .. ByteSize * ByteSize - 1
           /\ valid_memory_access(a, 4) => read_u32(m, a) \in Word
<1> USE WordSizeFacts, CpuAssumption DEF valid_memory_access, Word
<1>0. \A i \in 0 .. 3 : a + i < MemSize => m[a + i] \in 0 .. ByteSize - 1
  BY DEF Memory, Address, Byte
<1>1. ASSUME a + 1 <= MemSize
      PROVE  read_u8(m, a) \in 0 .. ByteSize - 1
  BY <1>1, <1>0 DEF read_u8
<1>2. ASSUME a + 2 <= MemSize
      PROVE  read_u16(m, a) \in 0 .. ByteSize * ByteSize - 1
  <2>1. m[a] \in 0 .. ByteSize - 1 /\ m[a + 1] \in 0 .. ByteSize - 1
    BY <1>2, <1>0
  <2> QED
    BY <2>1, TwoDigits DEF read_u16
<1>3. ASSUME a + 4 <= MemSize
      PROVE  read_u32(m, a) \in Word
  <2> DEFINE y2 == m[a + 2] + ByteSize * m[a + 3]
             y1 == m[a + 1] + ByteSize * y2
             B2 == ByteSize * ByteSize
             B3 == ByteSize * B2
  <2>1. /\ m[a] \in 0 .. ByteSize - 1 /\ m[a + 1] \in 0 .. ByteSize - 1
        /\ m[a + 2] \in 0 .. ByteSize - 1 /\ m[a + 3] \in 0 .. ByteSize - 1
    BY <1>3, <1>0
  <2>2. y2 \in 0 .. B2 - 1
    BY <2>1, TwoDigits
  <2> HIDE DEF y2
  <2>3. y1 \in 0 .. B3 - 1
    BY <2>1, <2>2, TwoDigits DEF B2
  <2>4. B3 \in Nat
    BY DEF B3, B2
  <2> HIDE DEF y1, B2, B3
  <2>5. m[a] + ByteSize * y1 \in 0 .. ByteSize * B3 - 1
    BY <2>1, <2>3, <2>4, TwoDigits
  <2> QED
    BY <2>5 DEF read_u32, y1, y2, B3, B2, WordSize
<1> QED
  BY <1>1, <1>2, <1>3

\* Sign extension fills a word.
LEMMA SignExtendType ==
    ASSUME NEW size \in Nat, size <= WordSize, NEW v \in 0 .. size - 1
    PROVE  sign_extend_value(v, size) \in Word
BY WordSizeFacts DEF sign_extend_value, Word

\* A load that passed the bounds check returns a word.
LEMMA ReadMemoryType ==
    ASSUME NEW m \in Memory, NEW a \in Word, NEW c \in ControlSignals,
           valid_memory_access(a, width_bytes(c))
    PROVE  read_memory(m, a, c) \in Word
<1> USE WordSizeFacts, ReadTypes
<1>0. c.mem_unsigned \in BOOLEAN /\ c.memory_width \in MemoryAccessWidth
  BY DEF ControlSignals
<1>1. CASE c.memory_width = "Byte"
  <2>1. valid_memory_access(a, 1)
    BY <1>1 DEF width_bytes
  <2>2. read_u8(m, a) \in 0 .. ByteSize - 1
    BY <2>1
  <2>3. sign_extend_value(read_u8(m, a), ByteSize) \in Word
    BY <2>2, SignExtendType
  <2>4. read_u8(m, a) \in Word
    BY <2>2 DEF Word
  <2> QED
    BY <1>0, <1>1, <2>3, <2>4 DEF read_memory
<1>2. CASE c.memory_width = "HalfWord"
  <2>1. valid_memory_access(a, 2)
    BY <1>2 DEF width_bytes
  <2>2. read_u16(m, a) \in 0 .. ByteSize * ByteSize - 1
    BY <2>1
  <2>3. sign_extend_value(read_u16(m, a), ByteSize * ByteSize) \in Word
    BY <2>2, SignExtendType
  <2>4. read_u16(m, a) \in Word
    BY <2>2 DEF Word
  <2> QED
    BY <1>0, <1>2, <2>3, <2>4 DEF read_memory
<1>3. CASE c.memory_width = "Word"
  <2>1. valid_memory_access(a, 4)
    BY <1>3 DEF width_bytes
  <2> QED
    BY <1>3, <2>1 DEF read_memory
<1>4. CASE c.memory_width = "None"
  BY <1>4 DEF read_memory
<1> QED
  BY <1>0, <1>1, <1>2, <1>3, <1>4 DEF MemoryAccessWidth

\* Each byte of a word is a byte.
LEMMA ByteOfType ==
    ASSUME NEW v \in Word, NEW i \in Int
    PROVE  byte_of(v, i) \in Byte
<1> USE WordSizeFacts
<1>1. \A x \in Int : x % ByteSize \in Byte
  BY DEF Byte
<1>2. \A n \in Nat : n >= 1 => v \div n \in Int
  BY DEF Word
<1>3. ByteSize * ByteSize \in Nat /\ ByteSize * ByteSize >= 1
  OBVIOUS
<1>4. (ByteSize * ByteSize) * ByteSize \in Nat
       /\ (ByteSize * ByteSize) * ByteSize >= 1
  BY <1>3
<1>5. v \in Int
  BY DEF Word
<1> QED
  BY <1>1, <1>2, <1>3, <1>4, <1>5 DEF byte_of

\* A store leaves a RAM.
LEMMA WriteBytesType ==
    ASSUME NEW m \in Memory, NEW a \in Word, NEW v \in Word, NEW w \in Int
    PROVE  write_bytes(m, a, v, w) \in Memory
<1>1. \A x \in Address : byte_of(v, x - a) \in Byte /\ m[x] \in Byte
  BY ByteOfType DEF Memory, Address, Word
<1> QED
  BY <1>1 DEF write_bytes, Memory

\* Reading and writing registers keeps words in the register file.
LEMMA RegisterTypes ==
    ASSUME NEW rf \in RegFile, NEW r \in RegIndex, NEW v \in Word
    PROVE  /\ read_reg(rf, r) \in Word
           /\ write_reg(rf, r, v) \in RegFile
BY WordSizeFacts DEF read_reg, write_reg, RegFile

-----------------------------------------------------------------------------
(* The type invariant: one lemma per stage *)

\* Every cleared latch is a latch.
LEMMA EmptyLatchTypes ==
    /\ empty_if_id \in IFIDRegister
    /\ empty_id_ex \in IDEXRegister
    /\ empty_ex_mem \in EXMEMRegister
    /\ empty_mem_wb \in MEMWBRegister
<1>1. 0 \in RegIndex
  BY CpuAssumption DEF RegIndex
<1> QED
  BY <1>1, WordSizeFacts, NoControlType
  DEF empty_if_id, empty_id_ex, empty_ex_mem, empty_mem_wb,
      IFIDRegister, IDEXRegister, EXMEMRegister, MEMWBRegister

\* What is written back, or bypassed from MEM/WB, is a word.
LEMMA WritebackValueType ==
    ASSUME NEW l \in MEMWBRegister
    PROVE  select_writeback_value(l) \in Word
<1>1. /\ l.alu_result \in Word /\ l.memory_data \in Word
      /\ l.pc_plus_4 \in Word /\ l.immediate \in Word /\ 0 \in Word
  BY WordSizeFacts DEF MEMWBRegister
<1> QED
  BY <1>1 DEF select_writeback_value

\* Writing a latch back leaves a register file.
LEMMA WriteBackType ==
    ASSUME NEW rf \in RegFile, NEW l \in MEMWBRegister
    PROVE  write_back(rf, l) \in RegFile
<1>1. l.rd \in RegIndex
  BY DEF MEMWBRegister
<1> QED
  BY <1>1, WritebackValueType, RegisterTypes DEF write_back

\* width_bytes is a width of an access.
LEMMA WidthType ==
    ASSUME NEW c
    PROVE  width_bytes(c) \in {0, 1, 2, 4}
BY DEF width_bytes

\* stage_MEM keeps the types of the RAM, the write log and MEM/WB.
LEMMA StageMemTypes ==
    ASSUME TypeOK, ~memory_access_throws
    PROVE  /\ memory_after_mem \in Memory
           /\ memory_writes_after_mem \subseteq Word \X {1, 2, 4}
           /\ next_mem_wb \in MEMWBRegister
<1>0. /\ ex_mem.valid \in BOOLEAN /\ ex_mem.pc \in Word
      /\ ex_mem.instruction \in Word /\ ex_mem.rd \in RegIndex
      /\ ex_mem.alu_result \in Word /\ ex_mem.store_value \in Word
      /\ ex_mem.pc_plus_4 \in Word /\ ex_mem.immediate \in Word
      /\ ex_mem.control \in ControlSignals
      /\ memory \in Memory
  BY DEF TypeOK, EXMEMRegister
<1>1. memory_after_mem \in Memory
  <2>1. width_bytes(ex_mem.control) \in Int
    BY WidthType
  <2> QED
    BY <1>0, <2>1, WriteBytesType DEF memory_after_mem, write_memory
<1>2. memory_writes_after_mem \subseteq Word \X {1, 2, 4}
  <2>1. memory_writes \subseteq Word \X {1, 2, 4}
    BY DEF TypeOK
  <2>2. width_bytes(ex_mem.control) > 0 =>
          <<ex_mem.alu_result, width_bytes(ex_mem.control)>>
             \in Word \X {1, 2, 4}
    BY <1>0, WidthType
  <2> QED
    BY <2>1, <2>2 DEF memory_writes_after_mem
<1>3. next_mem_wb \in MEMWBRegister
  <2>1. CASE ~ex_mem.valid
    BY <2>1, EmptyLatchTypes DEF next_mem_wb
  <2>2. CASE ex_mem.valid
    <3>1. ex_mem.control.mem_read =>
            read_memory(memory, ex_mem.alu_result, ex_mem.control) \in Word
      <4>1. SUFFICES ASSUME ex_mem.control.mem_read
                     PROVE  read_memory(memory, ex_mem.alu_result,
                                        ex_mem.control) \in Word
        OBVIOUS
      <4>2. valid_memory_access(ex_mem.alu_result, width_bytes(ex_mem.control))
        BY <4>1, <2>2 DEF memory_access_throws
      <4> QED
        BY <1>0, <4>2, ReadMemoryType
    <3> QED
      BY <1>0, <2>2, <3>1, WordSizeFacts DEF next_mem_wb, MEMWBRegister
  <2> QED
    BY <2>1, <2>2
<1> QED
  BY <1>1, <1>2, <1>3

\* The operands resolve_forwarding() chooses are words.
LEMMA OperandTypes ==
    ASSUME TypeOK
    PROVE  operand_rs1 \in Word /\ operand_rs2 \in Word
<1>1. ex_mem_forward_value \in Word
  <2>1. /\ ex_mem.alu_result \in Word /\ ex_mem.pc_plus_4 \in Word
        /\ ex_mem.immediate \in Word /\ 0 \in Word
    BY WordSizeFacts DEF TypeOK, EXMEMRegister
  <2> QED
    BY <2>1 DEF ex_mem_forward_value
<1>2. select_writeback_value(mem_wb) \in Word
  BY WritebackValueType DEF TypeOK
<1>3. id_ex.rs1_value \in Word /\ id_ex.rs2_value \in Word
  BY DEF TypeOK, IDEXRegister
<1> QED
  BY <1>1, <1>2, <1>3 DEF operand_rs1, operand_rs2, forward

\* stage_EX produces a latch, and a target that is a word.
LEMMA StageExTypes ==
    ASSUME TypeOK
    PROVE  /\ next_ex_mem \in EXMEMRegister
           /\ actual_target \in Word
           /\ pc_after_ex \in Word
<1>0. /\ id_ex.valid \in BOOLEAN /\ id_ex.pc \in Word
      /\ id_ex.instruction \in Word /\ id_ex.rd \in RegIndex
      /\ id_ex.immediate \in Word /\ id_ex.control \in ControlSignals
      /\ id_ex.control.alu_op \in ALUOp
      /\ operand_rs1 \in Word /\ operand_rs2 \in Word
      /\ pc \in Word
  BY OperandTypes DEF TypeOK, IDEXRegister, ControlSignals
<1>1. alu_result \in Word
  BY <1>0, AluAssumption DEF alu_result
<1>2. add32(id_ex.pc, 4) \in Word /\ add32(id_ex.pc, id_ex.immediate) \in Word
  BY <1>0, Add32Type, WordSizeFacts
<1>3. next_ex_mem \in EXMEMRegister
  BY <1>0, <1>1, <1>2, EmptyLatchTypes DEF next_ex_mem, EXMEMRegister
<1>4. actual_target \in Word
  <2>1. alu_result - (alu_result % 2) \in Word
    BY <1>1, WordSizeFacts DEF Word
  <2> QED
    BY <1>1, <1>2, <2>1 DEF actual_target
<1> QED
  BY <1>0, <1>3, <1>4 DEF pc_after_ex

\* Training keeps the table a table of two-bit counters.
LEMMA UpdateType ==
    ASSUME NEW t \in Counters, NEW a \in Word, NEW taken, NEW type
    PROVE  update(t, a, taken, type) \in Counters
<1>1. index_for(a) \in 0 .. kEntryCount - 1
  <2>1. a \div 4 \in Int
    BY DEF Word
  <2> QED
    BY <2>1, PredictorAssumption DEF index_for
<1>2. t[index_for(a)] \in 0 .. 3
  BY <1>1 DEF Counters, CounterState, StronglyNotTaken, StronglyTaken
<1>3. (IF taken THEN IF t[index_for(a)] < 3 THEN t[index_for(a)] + 1
                     ELSE t[index_for(a)]
       ELSE IF t[index_for(a)] > 0 THEN t[index_for(a)] - 1
            ELSE t[index_for(a)]) \in 0 .. 3
  BY <1>2
<1> QED
  BY <1>1, <1>3
  DEF update, Counters, CounterState, StronglyNotTaken, StronglyTaken

\* stage_ID produces a latch.
LEMMA StageIdType ==
    ASSUME TypeOK, NEW rf \in RegFile
    PROVE  next_id_ex(rf) \in IDEXRegister
<1>1. /\ if_id.pc \in Word /\ if_id.instruction \in Word
      /\ if_id.predicted_next_pc \in Word
  BY DEF TypeOK, IFIDRegister
<1>2. decoded \in DecodedInstruction
  BY <1>1, DecodeAssumption DEF decoded
<1>3. /\ decoded.rd \in RegIndex /\ decoded.rs1 \in RegIndex
      /\ decoded.rs2 \in RegIndex /\ decoded.immediate \in Word
      /\ decoded.control \in ControlSignals
  BY <1>2 DEF DecodedInstruction
<1>4. /\ read_reg(rf, decoded.rs1) \in Word
      /\ read_reg(rf, decoded.rs2) \in Word
  BY <1>3, RegisterTypes, WordSizeFacts
<1> QED
  BY <1>1, <1>3, <1>4, EmptyLatchTypes DEF next_id_ex, IDEXRegister

\* stage_IF produces a latch.
LEMMA StageIfType ==
    ASSUME TypeOK, NEW m \in Memory, NEW t,
           valid_memory_access(pc_after_ex, 4)
    PROVE  next_if_id(m, t) \in IFIDRegister
<1>1. pc_after_ex \in Word
  BY StageExTypes
<1>2. read_u32(m, pc_after_ex) \in Word
  BY <1>1, ReadTypes
<1>3. decode_instruction[read_u32(m, pc_after_ex)].immediate \in Word
  BY <1>2, DecodeAssumption DEF DecodedInstruction
<1>4. predicted_next_pc(pc_after_ex, read_u32(m, pc_after_ex), t) \in Word
  <2>1. /\ add32(pc_after_ex, 4) \in Word
        /\ add32(pc_after_ex,
                 decode_instruction[read_u32(m, pc_after_ex)].immediate) \in Word
    BY <1>1, <1>3, Add32Type, WordSizeFacts
  <2> QED
    BY <2>1 DEF predicted_next_pc
<1> QED
  BY <1>1, <1>2, <1>4 DEF next_if_id, IFIDRegister

\* The initial state is well typed.
LEMMA InitType == Init => TypeOK
<1> SUFFICES ASSUME Init PROVE TypeOK
  OBVIOUS
<1> USE DEF Init
<1>1. PICK image \in LoadedImages : memory = image.mem /\ pc = image.pc
  OBVIOUS
<1>2. PICK l \in Programs \X LoadAddresses :
        image = [mem |-> load_image([a \in Address |-> 0], l[1], Len(l[1]), l[2]),
                 pc |-> l[2]]
  BY DEF LoadedImages
<1>3. l[1] \in Seq(Byte) /\ l[2] \in Word
  BY ProgramAssumption
<1>4. memory \in Memory
  <2>1. \A a \in Address : a \in access_bytes(l[2], Len(l[1])) =>
                             l[1][a - l[2] + 1] \in Byte
    <3>1. SUFFICES ASSUME NEW a \in Address,
                          a \in l[2] .. l[2] + Len(l[1]) - 1
                   PROVE  l[1][a - l[2] + 1] \in Byte
      BY DEF access_bytes
    <3>2. l[2] \in Int /\ a \in Int /\ Len(l[1]) \in Nat
      BY <1>3, CpuAssumption, WordSizeFacts DEF Word, Address
    <3>3. a - l[2] + 1 \in 1 .. Len(l[1])
      BY <3>1, <3>2
    <3> QED
      BY <1>3, <3>3
  <2>2. 0 \in Byte
    BY CpuAssumption DEF Byte
  <2>3. memory = load_image([a \in Address |-> 0], l[1], Len(l[1]), l[2])
    BY <1>1, <1>2
  <2> QED
    BY <2>1, <2>2, <2>3 DEF load_image, Memory
<1>5. pc \in Word
  BY <1>1, <1>2, <1>3
<1>6. regs \in RegFile
  BY WordSizeFacts DEF RegFile
<1>7. counters \in Counters
  BY DEF reset_counters, Counters, CounterState, WeaklyNotTaken,
         StronglyNotTaken, StronglyTaken
<1>8. config \in Config
  BY ProgramAssumption
<1> QED
  BY <1>4, <1>5, <1>6, <1>7, <1>8, EmptyLatchTypes DEF TypeOK

\* A cycle, whether it completes or throws, keeps the types.
LEMMA NextType == TypeOK /\ [Next]_vars => TypeOK'
<1> SUFFICES ASSUME TypeOK, [Next]_vars PROVE TypeOK'
  OBVIOUS
<1>0. /\ mem_wb \in MEMWBRegister /\ regs \in RegFile
      /\ counters \in Counters /\ id_ex \in IDEXRegister
      /\ halted \in BOOLEAN /\ config \in Config /\ error \in BOOLEAN
      /\ if_id \in IFIDRegister
  BY DEF TypeOK
<1>1. CASE run_pipeline_cycle
  <2> USE <1>1 DEF run_pipeline_cycle
  <2>1. regs' \in RegFile /\ halted' \in BOOLEAN
    BY <1>0, WriteBackType DEF stage_WB, MEMWBRegister, ControlSignals
  <2>2. /\ memory' \in Memory
        /\ memory_writes' \subseteq Word \X {1, 2, 4}
        /\ mem_wb' \in MEMWBRegister
    BY StageMemTypes DEF stage_MEM
  <2>3. ex_mem' \in EXMEMRegister
    BY StageExTypes DEF stage_EX
  <2>4. counters' \in Counters
    <3>1. id_ex.pc \in Word
      BY <1>0 DEF IDEXRegister
    <3> QED
      BY <1>0, <3>1, UpdateType DEF stage_EX
  <2>5. id_ex' \in IDEXRegister
    BY <2>1, StageIdType DEF stage_ID
  <2>6. if_id' \in IFIDRegister /\ pc' \in Word
    <3>1. pc_after_ex \in Word
      BY StageExTypes
    <3>2. valid_memory_access(pc_after_ex, 4) =>
            next_if_id(memory', counters') \in IFIDRegister
      BY <2>2, StageIfType
    <3>3. CASE if_id' \in {empty_if_id, if_id} /\ pc' = pc_after_ex
      BY <1>0, <3>1, <3>3, EmptyLatchTypes
    <3>4. CASE /\ valid_memory_access(pc_after_ex, 4)
               /\ if_id' = next_if_id(memory', counters')
               /\ pc' = if_id'.predicted_next_pc
      BY <3>2, <3>4 DEF IFIDRegister
    <3> QED
      BY <3>3, <3>4 DEF stage_IF
  <2>7. config' \in Config /\ error' \in BOOLEAN
    BY <1>0
  <2> QED
    BY <2>1, <2>2, <2>3, <2>4, <2>5, <2>6, <2>7 DEF TypeOK
<1>2. CASE run_pipeline_cycle_throws
  <2> USE <1>2 DEF run_pipeline_cycle_throws
  <2>1. regs' \in RegFile /\ halted' \in BOOLEAN
    BY <1>0, WriteBackType DEF stage_WB, MEMWBRegister, ControlSignals
  <2> QED
    BY <2>1 DEF TypeOK
<1>3. CASE UNCHANGED vars
  BY <1>3 DEF TypeOK, vars
<1> QED
  BY <1>1, <1>2, <1>3 DEF Next

(***************************************************************************)
(* Every state of every run is well typed: in particular no load, store,    *)
(* fetch or bypass ever produces a value outside a machine word, no counter *)
(* of the predictor leaves its two bits, and no access reads outside RAM.   *)
(***************************************************************************)
THEOREM TypeCorrect == Spec => []TypeOK
<1>1. Init => TypeOK
  BY InitType
<1>2. TypeOK /\ [Next]_vars => TypeOK'
  BY NextType
<1> QED
  BY <1>1, <1>2, PTL DEF Spec

-----------------------------------------------------------------------------
(* The safety invariants, through the inductive invariant IInv: one lemma   *)
(* per conjunct for a cycle that completes, and one for a cycle that throws *)

\* What the signals of a decoded instruction say about its kind.
LEMMA ControlFacts ==
    ASSUME NEW w \in Word,
           NEW k, k = decode_instruction[w].kind,
           NEW c, c = decode_instruction[w].control
    PROVE  /\ k \in InstructionKind
           /\ c = control_of[k]
           /\ c \in ControlSignals
           /\ c.mem_read <=> k \in LoadKinds
           /\ c.mem_write <=> k \in StoreKinds
           /\ c.branch <=> k \in BranchKinds
           /\ c.jump <=> k \in {"Jal", "Jalr"}
           /\ c.halt <=> k \in HaltKinds
           /\ c.reg_write <=> HasResult(k)
           /\ c.writeback_source = "Memory" <=> k \in LoadKinds
           /\ HasResult(k) => c.writeback_source # "None"
<1>0. k \in InstructionKind /\ c = control_of[k] /\ c \in ControlSignals
  BY DecodeAssumption DEF DecodedInstruction
<1> USE <1>0 DEF HasResult
<1>1. CASE k \in AluRegKinds
  <2>1. c = alu_reg_control(alu_op_of(k))
    BY <1>1, ControlByKind
  <2> QED
    BY <1>1, <2>1 DEF AluRegKinds, AluImmKinds, LoadKinds, StoreKinds,
       BranchKinds, HaltKinds, alu_reg_control, no_control
<1>2. CASE k \in AluImmKinds
  <2>1. c = alu_imm_control(alu_op_of(k))
    BY <1>2, ControlByKind
  <2> QED
    BY <1>2, <2>1 DEF AluRegKinds, AluImmKinds, LoadKinds, StoreKinds,
       BranchKinds, HaltKinds, alu_imm_control, alu_reg_control, no_control
<1>3. CASE k \in LoadKinds
  <2>1. c = load_control(k)
    BY <1>3, ControlByKind
  <2> QED
    BY <1>3, <2>1 DEF AluRegKinds, AluImmKinds, LoadKinds, StoreKinds,
       BranchKinds, HaltKinds, load_control, no_control
<1>4. CASE k \in StoreKinds
  <2>1. c = store_control(k)
    BY <1>4, ControlByKind
  <2> QED
    BY <1>4, <2>1 DEF AluRegKinds, AluImmKinds, LoadKinds, StoreKinds,
       BranchKinds, HaltKinds, store_control, no_control
<1>5. CASE k \in BranchKinds
  <2>1. c = branch_control(k)
    BY <1>5, ControlByKind
  <2> QED
    BY <1>5, <2>1 DEF AluRegKinds, AluImmKinds, LoadKinds, StoreKinds,
       BranchKinds, HaltKinds, branch_control, no_control
<1>6. CASE k \in HaltKinds
  <2>1. c = halt_control
    BY <1>6, ControlByKind
  <2> QED
    BY <1>6, <2>1 DEF AluRegKinds, AluImmKinds, LoadKinds, StoreKinds,
       BranchKinds, HaltKinds, halt_control, no_control
<1>7. CASE k = "Lui"
  <2>1. c = lui_control
    BY <1>7, ControlByKind
  <2> QED
    BY <1>7, <2>1 DEF AluRegKinds, AluImmKinds, LoadKinds, StoreKinds,
       BranchKinds, HaltKinds, lui_control, no_control
<1>8. CASE k = "Auipc"
  <2>1. c = auipc_control
    BY <1>8, ControlByKind
  <2> QED
    BY <1>8, <2>1 DEF AluRegKinds, AluImmKinds, LoadKinds, StoreKinds,
       BranchKinds, HaltKinds, auipc_control, no_control
<1>9. CASE k = "Jal"
  <2>1. c = jal_control
    BY <1>9, ControlByKind
  <2> QED
    BY <1>9, <2>1 DEF AluRegKinds, AluImmKinds, LoadKinds, StoreKinds,
       BranchKinds, HaltKinds, jal_control, no_control
<1>10. CASE k = "Jalr"
  <2>1. c = jalr_control
    BY <1>10, ControlByKind
  <2> QED
    BY <1>10, <2>1 DEF AluRegKinds, AluImmKinds, LoadKinds, StoreKinds,
       BranchKinds, HaltKinds, jalr_control, no_control
<1>11. CASE k = "Invalid"
  <2>1. c = no_control
    BY <1>11, ControlByKind
  <2> QED
    BY <1>11, <2>1 DEF AluRegKinds, AluImmKinds, LoadKinds, StoreKinds,
       BranchKinds, HaltKinds, no_control
<1> QED
  BY <1>1, <1>2, <1>3, <1>4, <1>5, <1>6, <1>7, <1>8, <1>9, <1>10, <1>11
  DEF InstructionKind

-----------------------------------------------------------------------------
(* The conjuncts of IInv over a cycle that completes *)

\* What stage_ID does, in the terms the lemmas below need.
LEMMA StageIdFacts ==
    ASSUME IInv, run_pipeline_cycle
    PROVE  /\ id_issues => /\ id_ex'.valid
                           /\ id_ex'.pc = if_id.pc
                           /\ id_ex'.instruction = if_id.instruction
                           /\ id_ex'.predicted_next_pc = if_id.predicted_next_pc
                           /\ id_ex'.rd = decoded.rd
                           /\ id_ex'.rs1 = decoded.rs1
                           /\ id_ex'.rs2 = decoded.rs2
                           /\ id_ex'.immediate = decoded.immediate
                           /\ id_ex'.rs1_value = read_reg(regs', decoded.rs1)
                           /\ id_ex'.rs2_value = read_reg(regs', decoded.rs2)
                           /\ id_ex'.control = decoded.control
           /\ ~id_issues => id_ex' = empty_id_ex /\ ~id_ex'.valid
BY DEF run_pipeline_cycle, stage_ID, next_id_ex, empty_id_ex

\* What stage_EX does.
LEMMA StageExFacts ==
    ASSUME IInv, run_pipeline_cycle
    PROVE  /\ id_ex.valid => /\ ex_mem'.valid
                             /\ ex_mem'.pc = id_ex.pc
                             /\ ex_mem'.instruction = id_ex.instruction
                             /\ ex_mem'.rd = id_ex.rd
                             /\ ex_mem'.immediate = id_ex.immediate
                             /\ ex_mem'.control = id_ex.control
                             /\ ex_mem'.alu_result = alu_result
                             /\ ex_mem'.store_value = operand_rs2
                             /\ ex_mem'.pc_plus_4 = add32(id_ex.pc, 4)
           /\ ~id_ex.valid => ex_mem' = empty_ex_mem /\ ~ex_mem'.valid
BY DEF run_pipeline_cycle, stage_EX, next_ex_mem, empty_ex_mem

\* What stage_MEM does to the latch after it.
LEMMA StageMemFacts ==
    ASSUME IInv, run_pipeline_cycle
    PROVE  /\ ex_mem.valid => /\ mem_wb'.valid
                              /\ mem_wb'.pc = ex_mem.pc
                              /\ mem_wb'.instruction = ex_mem.instruction
                              /\ mem_wb'.rd = ex_mem.rd
                              /\ mem_wb'.immediate = ex_mem.immediate
                              /\ mem_wb'.control = ex_mem.control
                              /\ mem_wb'.alu_result = ex_mem.alu_result
           /\ ~ex_mem.valid => mem_wb' = empty_mem_wb /\ ~mem_wb'.valid
BY DEF run_pipeline_cycle, stage_MEM, next_mem_wb, empty_mem_wb

\* The four ways stage_IF can go, and when.
LEMMA StageIfFacts ==
    ASSUME IInv, run_pipeline_cycle
    PROVE  \/ /\ fetch_stopped
              /\ if_id' = empty_if_id /\ ~if_id'.valid /\ pc' = pc_after_ex
           \/ /\ ~fetch_stopped /\ stall_fetch_decode
              /\ if_id' = if_id /\ pc' = pc_after_ex
           \/ /\ ~fetch_stopped /\ ~stall_fetch_decode
              /\ if_id' = empty_if_id /\ ~if_id'.valid /\ pc' = pc_after_ex
           \/ /\ ~fetch_stopped /\ ~stall_fetch_decode
              /\ valid_memory_access(pc_after_ex, 4)
              /\ if_id'.valid /\ if_id'.pc = pc_after_ex
              /\ if_id'.instruction = read_u32(memory', pc_after_ex)
              /\ if_id'.predicted_next_pc =
                   predicted_next_pc(pc_after_ex, if_id'.instruction, counters')
              /\ pc' = if_id'.predicted_next_pc
BY DEF run_pipeline_cycle, stage_IF, next_if_id, empty_if_id

\* Latches only ever carry what decode produced.
LEMMA LatchesDecodedStep ==
    ASSUME IInv, run_pipeline_cycle
    PROVE  LatchesDecoded'
<1> USE DEF IInv
<1>1. IF id_ex'.valid
      THEN /\ DecodedFrom(id_ex')
           /\ id_ex'.rs1 = decode_instruction[id_ex'.instruction].rs1
           /\ id_ex'.rs2 = decode_instruction[id_ex'.instruction].rs2
      ELSE id_ex' = empty_id_ex
  BY StageIdFacts DEF DecodedFrom, decoded, id_issues
<1>2. IF ex_mem'.valid THEN DecodedFrom(ex_mem') ELSE ex_mem' = empty_ex_mem
  BY StageExFacts DEF DecodedFrom, LatchesDecoded
<1>3. IF mem_wb'.valid THEN DecodedFrom(mem_wb') ELSE mem_wb' = empty_mem_wb
  BY StageMemFacts DEF DecodedFrom, LatchesDecoded
<1>4. if_id'.valid \/ if_id' = empty_if_id
  BY StageIfFacts DEF LatchesDecoded
<1> QED
  BY <1>1, <1>2, <1>3, <1>4 DEF LatchesDecoded, DecodedFrom

\* Decode reads the registers that write-back has just written.
LEMMA OperandsReadStep ==
    ASSUME IInv, run_pipeline_cycle
    PROVE  OperandsRead'
BY StageIdFacts DEF OperandsRead

\* The load-use stall keeps the consumer of a load one bubble behind it.
LEMMA LoadUseStep ==
    ASSUME IInv, run_pipeline_cycle
    PROVE  LoadUseSeparated'
<1> USE DEF IInv
<1>1. SUFFICES ASSUME id_ex'.valid, ex_mem'.valid,
                      ex_mem'.control.mem_read, ex_mem'.rd # 0
               PROVE  /\ uses_rs1(decoded) => decoded.rs1 # ex_mem'.rd
                      /\ uses_rs2(decoded) => decoded.rs2 # ex_mem'.rd
  BY StageIdFacts DEF LoadUseSeparated, decoded
<1>2. id_issues
  BY <1>1, StageIdFacts
<1>3. /\ id_ex.valid /\ id_ex.control.mem_read
      /\ id_ex.rd # 0 /\ ex_mem'.rd = id_ex.rd
  BY <1>1, StageExFacts
<1>4. id_ex.control.reg_write
  <2>1. /\ id_ex.instruction \in Word
        /\ id_ex.control = decode_instruction[id_ex.instruction].control
    BY <1>3 DEF TypeOK, IDEXRegister, LatchesDecoded, DecodedFrom
  <2> QED
    BY <1>3, <2>1, ControlFacts DEF HasResult
<1>5. ~raw_dependency
  BY <1>2, <1>3 DEF id_issues, stall_fetch_decode
<1> QED
  BY <1>3, <1>4, <1>5 DEF raw_dependency

\* Stalls, flushes and stopped fetches keep the fetch path connected.
LEMMA PathStep ==
    ASSUME IInv, run_pipeline_cycle
    PROVE  PathIsConnected'
<1> USE DEF IInv
<1>1. id_issues => /\ if_id.valid /\ ~flush_id_ex /\ ~stall_fetch_decode
                   /\ pc_after_ex = if_id.predicted_next_pc
  BY DEF id_issues, pc_after_ex, PathIsConnected
<1>2. stall_fetch_decode => /\ if_id.valid /\ ~id_issues
                            /\ pc_after_ex = if_id.predicted_next_pc
  BY DEF stall_fetch_decode, id_issues, pc_after_ex, PathIsConnected
<1>3. if_id'.valid => pc' = if_id'.predicted_next_pc
  BY <1>2, StageIfFacts
<1>4. id_ex'.valid => id_ex'.predicted_next_pc =
                        IF if_id'.valid THEN if_id'.pc ELSE pc'
  BY <1>1, StageIfFacts, StageIdFacts
<1>5. if_id'.valid /\ ~decoded'.control.branch =>
        if_id'.predicted_next_pc = add32(if_id'.pc, 4)
  BY <1>2, StageIfFacts DEF predicted_next_pc, decoded, PathIsConnected
<1>6. id_ex'.valid /\ ~id_ex'.control.branch =>
        id_ex'.predicted_next_pc = add32(id_ex'.pc, 4)
  BY <1>1, StageIdFacts DEF PathIsConnected
<1> QED
  BY <1>3, <1>4, <1>5, <1>6 DEF PathIsConnected

\* Nothing enters the pipeline behind a halt instruction.
LEMMA HaltStep ==
    ASSUME IInv, run_pipeline_cycle
    PROVE  HaltBarrier'
<1> USE DEF IInv
<1>1. ~if_id.valid => ~id_ex'.valid
  BY StageIdFacts DEF id_issues
<1>2. fetch_stopped => ~if_id'.valid
  BY StageIfFacts
<1>3. id_ex'.valid /\ id_ex'.control.halt => ~if_id'.valid
  BY <1>2, StageIdFacts DEF fetch_stopped, stop_fetch
<1>4. id_ex.valid /\ id_ex.control.halt => ~if_id'.valid /\ ~id_ex'.valid
  BY <1>1, <1>2 DEF fetch_stopped, halt_is_in_flight, HaltBarrier
<1>5. ex_mem.valid /\ ex_mem.control.halt =>
        ~if_id'.valid /\ ~id_ex'.valid /\ ~ex_mem'.valid
  BY <1>1, <1>2, StageExFacts
  DEF fetch_stopped, halt_is_in_flight, HaltBarrier
<1>6. mem_wb.valid /\ mem_wb.control.halt =>
        ~if_id'.valid /\ ~id_ex'.valid /\ ~ex_mem'.valid /\ ~mem_wb'.valid
  BY <1>1, <1>2, StageExFacts, StageMemFacts
  DEF fetch_stopped, halt_is_in_flight, HaltBarrier
<1>7. halted' => mem_wb.valid /\ mem_wb.control.halt
  BY DEF run_pipeline_cycle, stage_WB, Running
<1> QED
  BY <1>3, <1>4, <1>5, <1>6, <1>7, StageExFacts, StageMemFacts
  DEF HaltBarrier

\* A store to other bytes does not change a fetched word.
LEMMA ReadUnaffected ==
    ASSUME NEW m \in Memory, NEW a \in Word, NEW v, NEW w \in Int,
           NEW p \in Word, valid_memory_access(p, 4),
           access_bytes(p, 4) \cap access_bytes(a, w) = {}
    PROVE  read_u32(write_bytes(m, a, v, w), p) = read_u32(m, p)
<1>1. p \in Int /\ p >= 0 /\ p + 4 <= MemSize /\ MemSize \in Int
  BY CpuAssumption, WordSizeFacts DEF valid_memory_access, Word
<1>2. \A i \in 0 .. 3 : p + i \in Address /\ p + i \in access_bytes(p, 4)
  BY <1>1 DEF Address, access_bytes
<1>3. \A i \in 0 .. 3 : write_bytes(m, a, v, w)[p + i] = m[p + i]
  <2>1. \A i \in 0 .. 3 : p + i \notin access_bytes(a, w)
    BY <1>2
  <2> QED
    BY <1>2, <2>1 DEF write_bytes
<1>4. p + 0 = p
  BY <1>1
<1>5. /\ write_bytes(m, a, v, w)[p] = m[p]
      /\ write_bytes(m, a, v, w)[p + 1] = m[p + 1]
      /\ write_bytes(m, a, v, w)[p + 2] = m[p + 2]
      /\ write_bytes(m, a, v, w)[p + 3] = m[p + 3]
  BY <1>3, <1>4
<1> QED
  BY <1>5 DEF read_u32

\* A stalled instruction misses at most the store that leaves stage_MEM.
LEMMA FetchStep ==
    ASSUME IInv, run_pipeline_cycle
    PROVE  FetchIsFresh'
<1> USE DEF IInv
<1>1. SUFFICES ASSUME if_id'.valid
               PROVE  /\ valid_memory_access(if_id'.pc, 4)
                      /\ \/ if_id'.instruction = read_u32(memory', if_id'.pc)
                         \/ /\ ~id_ex'.valid
                            /\ access_bytes(if_id'.pc, 4)
                                 \cap LatchStores(mem_wb') # {}
  BY DEF FetchIsFresh, LatchStores, is_store
<1>2. CASE stall_fetch_decode /\ if_id' = if_id
  <2>1. if_id.valid /\ id_ex.valid /\ ~id_ex'.valid
    BY <1>2, StageIdFacts DEF stall_fetch_decode, raw_dependency, id_issues
  <2>2. /\ valid_memory_access(if_id.pc, 4)
        /\ if_id.instruction = read_u32(memory, if_id.pc)
    BY <2>1 DEF FetchIsFresh
  <2>3. memory' = memory_after_mem
    BY DEF run_pipeline_cycle, stage_MEM
  <2>4. CASE ~is_store(ex_mem)
    BY <1>2, <2>2, <2>3, <2>4 DEF memory_after_mem
  <2>5. CASE is_store(ex_mem)
    <3>1. LatchStores(mem_wb') =
            access_bytes(ex_mem.alu_result, width_bytes(ex_mem.control))
      BY <2>5, StageMemFacts DEF LatchStores, is_store
    <3>2. memory' = write_bytes(memory, ex_mem.alu_result, ex_mem.store_value,
                                width_bytes(ex_mem.control))
      BY <2>3, <2>5 DEF memory_after_mem, write_memory
    <3>3. /\ memory \in Memory /\ ex_mem.alu_result \in Word
          /\ if_id.pc \in Word /\ width_bytes(ex_mem.control) \in Int
      BY WidthType DEF TypeOK, EXMEMRegister, IFIDRegister
    <3> QED
      BY <1>2, <2>1, <2>2, <3>1, <3>2, <3>3, ReadUnaffected
  <2> QED
    BY <2>4, <2>5
<1>3. CASE /\ valid_memory_access(pc_after_ex, 4)
           /\ if_id'.pc = pc_after_ex
           /\ if_id'.instruction = read_u32(memory', pc_after_ex)
  BY <1>3
<1> QED
  BY <1>1, <1>2, <1>3, StageIfFacts

-----------------------------------------------------------------------------
(* The inductive invariant *)

\* Writing a latch back twice is the same as writing it back once.
LEMMA WriteBackIdempotent ==
    ASSUME NEW rf \in RegFile, NEW l \in MEMWBRegister
    PROVE  write_back(write_back(rf, l), l) = write_back(rf, l)
<1>1. l.rd \in RegIndex
  BY DEF MEMWBRegister
<1> QED
  BY <1>1 DEF write_back, write_reg, RegFile

\* A new CPU with empty latches satisfies the invariant.
LEMMA InitInvariant == Init => IInv
<1> SUFFICES ASSUME Init PROVE IInv
  OBVIOUS
<1>1. TypeOK
  BY InitType
<1>2. ~if_id.valid /\ ~id_ex.valid /\ ~ex_mem.valid /\ ~mem_wb.valid
  BY DEF Init, empty_if_id, empty_id_ex, empty_ex_mem, empty_mem_wb
<1>3. LatchesDecoded
  BY <1>2 DEF Init, LatchesDecoded
<1> QED
  BY <1>1, <1>2, <1>3
  DEF IInv, Init, OperandsRead, LoadUseSeparated, PathIsConnected, HaltBarrier,
      FetchIsFresh, ErrorIsFinal

\* A cycle that throws keeps the invariant: only write-back has happened.
LEMMA ThrowInvariant == IInv /\ run_pipeline_cycle_throws => IInv'
<1> SUFFICES ASSUME IInv, run_pipeline_cycle_throws PROVE IInv'
  OBVIOUS
<1> USE DEF IInv, run_pipeline_cycle_throws
<1>1. TypeOK'
  BY NextType DEF Next
<1>2. ~halted'
  <2>1. ex_mem.valid
    BY DEF memory_access_throws
  <2> QED
    BY <2>1 DEF HaltBarrier, Running, stage_WB
<1>3. ErrorIsFinal'
  <2>1. memory_access_throws'
    BY DEF memory_access_throws
  <2>2. regs' = write_back(regs', mem_wb)
    BY WriteBackIdempotent DEF stage_WB, TypeOK
  <2> QED
    BY <1>2, <2>1, <2>2 DEF ErrorIsFinal
<1>4. LatchesDecoded'
  BY DEF LatchesDecoded
<1>5. OperandsRead'
  BY DEF OperandsRead
<1>6. LoadUseSeparated'
  BY DEF LoadUseSeparated
<1>7. PathIsConnected'
  BY DEF PathIsConnected, decoded
<1>8. HaltBarrier'
  BY <1>2 DEF HaltBarrier
<1>9. FetchIsFresh'
  BY DEF FetchIsFresh, LatchStores, is_store
<1> QED
  BY <1>1, <1>3, <1>4, <1>5, <1>6, <1>7, <1>8, <1>9

\* Every step keeps the invariant.
LEMMA NextInvariant == IInv /\ [Next]_vars => IInv'
<1> SUFFICES ASSUME IInv, [Next]_vars PROVE IInv'
  OBVIOUS
<1>1. CASE run_pipeline_cycle
  <2>1. TypeOK'
    BY NextType DEF IInv
  <2>2. ErrorIsFinal'
    BY <1>1 DEF ErrorIsFinal, run_pipeline_cycle, Running
  <2> QED
    BY <1>1, <2>1, <2>2, LatchesDecodedStep, OperandsReadStep, LoadUseStep,
       PathStep, HaltStep, FetchStep
    DEF IInv
<1>2. CASE run_pipeline_cycle_throws
  BY <1>2, ThrowInvariant
<1>3. CASE UNCHANGED vars
  BY <1>3
  DEF vars, IInv, TypeOK, LatchesDecoded, OperandsRead, LoadUseSeparated,
      PathIsConnected, decoded, HaltBarrier, FetchIsFresh, LatchStores,
      is_store, ErrorIsFinal, memory_access_throws
<1> QED
  BY <1>1, <1>2, <1>3 DEF Next

(***************************************************************************)
(* The inductive invariant holds in every state of every run, whatever the  *)
(* program, the predictor and the widths.                                   *)
(***************************************************************************)
THEOREM InvariantHolds == Spec => []IInv
<1>1. Init => IInv
  BY InitInvariant
<1>2. IInv /\ [Next]_vars => IInv'
  BY NextInvariant
<1> QED
  BY <1>1, <1>2, PTL DEF Spec

-----------------------------------------------------------------------------
(* The safety properties *)

\* Reading a register other than the one written back returns the old value.
LEMMA ReadAfterWriteBack ==
    ASSUME NEW rf \in RegFile, NEW l \in MEMWBRegister, NEW r \in RegIndex
    PROVE  read_reg(write_back(rf, l), r) =
             IF r # 0 /\ l.valid /\ l.control.reg_write /\ l.rd = r
             THEN select_writeback_value(l)
             ELSE read_reg(rf, r)
<1>1. l.rd \in RegIndex
  BY DEF MEMWBRegister
<1> QED
  BY <1>1 DEF write_back, write_reg, read_reg, RegFile

\* What EX/MEM bypasses is what it will write back one cycle later.
LEMMA BypassIsWriteback ==
    ASSUME IInv, ~memory_access_throws, can_forward_from_ex_mem
    PROVE  ex_mem_forward_value = select_writeback_value(next_mem_wb)
<1>1. ex_mem.valid /\ ~ex_mem.control.mem_read /\ ex_mem.control.reg_write
  BY DEF can_forward_from_ex_mem
<1>2. /\ ex_mem.instruction \in Word
      /\ ex_mem.control = decode_instruction[ex_mem.instruction].control
  BY <1>1 DEF IInv, TypeOK, EXMEMRegister, LatchesDecoded, DecodedFrom
<1>3. ex_mem.control.writeback_source \in {"ALU", "PCPlus4", "Immediate"}
  BY <1>1, <1>2, ControlFacts DEF ControlSignals, WritebackSource
<1>4. /\ next_mem_wb.control = ex_mem.control
      /\ next_mem_wb.alu_result = ex_mem.alu_result
      /\ next_mem_wb.pc_plus_4 = ex_mem.pc_plus_4
      /\ next_mem_wb.immediate = ex_mem.immediate
  BY <1>1 DEF next_mem_wb
<1> QED
  BY <1>3, <1>4, Zenon DEF ex_mem_forward_value, select_writeback_value

\* One operand: the bypass network returns the drained register.
LEMMA ForwardIsCurrent ==
    ASSUME IInv, ~memory_access_throws, ~error, NEW r \in RegIndex,
           ex_mem.valid /\ ex_mem.control.mem_read /\ ex_mem.rd # 0 =>
             r # ex_mem.rd
    PROVE  forward(r, read_reg(regs, r)) = read_reg(RegsDrained, r)
<1>0. /\ regs \in RegFile /\ mem_wb \in MEMWBRegister
      /\ next_mem_wb \in MEMWBRegister /\ write_back(regs, mem_wb) \in RegFile
  BY StageMemTypes, WriteBackType DEF IInv, TypeOK
<1>1. /\ next_mem_wb.valid <=> ex_mem.valid
      /\ ex_mem.valid => /\ next_mem_wb.rd = ex_mem.rd
                         /\ next_mem_wb.control = ex_mem.control
  BY DEF next_mem_wb, empty_mem_wb
<1>2. read_reg(RegsDrained, r) =
        IF r # 0 /\ ex_mem.valid /\ ex_mem.control.reg_write /\ ex_mem.rd = r
        THEN select_writeback_value(next_mem_wb)
        ELSE IF r # 0 /\ mem_wb.valid /\ mem_wb.control.reg_write /\ mem_wb.rd = r
        THEN select_writeback_value(mem_wb)
        ELSE read_reg(regs, r)
  BY <1>0, <1>1, ReadAfterWriteBack DEF RegsDrained
<1> QED
  BY <1>2, BypassIsWriteback
  DEF forward, can_forward_from_ex_mem, can_forward_from_mem_wb

\* The invariant implies that stage_EX works on current operands.
LEMMA OperandsFromInvariant == IInv => OperandsAreCurrent
<1> SUFFICES ASSUME IInv, id_ex.valid, ~memory_access_throws
             PROVE  LET d == decode_instruction[id_ex.instruction]
                    IN  /\ uses_rs1(d) =>
                             operand_rs1 = read_reg(RegsDrained, d.rs1)
                        /\ uses_rs2(d) =>
                             operand_rs2 = read_reg(RegsDrained, d.rs2)
  BY DEF OperandsAreCurrent
<1> DEFINE d == decode_instruction[id_ex.instruction]
<1>1. ~error
  BY DEF IInv, ErrorIsFinal
<1>2. /\ d.rs1 = id_ex.rs1 /\ d.rs2 = id_ex.rs2
      /\ id_ex.rs1 \in RegIndex /\ id_ex.rs2 \in RegIndex
  BY DEF IInv, TypeOK, IDEXRegister, LatchesDecoded
<1>3. /\ operand_rs1 = forward(d.rs1, read_reg(regs, d.rs1))
      /\ operand_rs2 = forward(d.rs2, read_reg(regs, d.rs2))
  BY <1>1, <1>2 DEF IInv, OperandsRead, operand_rs1, operand_rs2
<1>4. ex_mem.valid /\ ex_mem.control.mem_read /\ ex_mem.rd # 0 =>
        /\ uses_rs1(d) => d.rs1 # ex_mem.rd
        /\ uses_rs2(d) => d.rs2 # ex_mem.rd
  BY DEF IInv, LoadUseSeparated
<1> QED
  BY <1>1, <1>2, <1>3, <1>4, ForwardIsCurrent

(***************************************************************************)
(* In every run stage_EX works on current operands: forwarding, the load-   *)
(* use stall and the write-back order together hide the pipeline.           *)
(***************************************************************************)
THEOREM ForwardingCorrect == Spec => []OperandsAreCurrent
BY InvariantHolds, OperandsFromInvariant, PTL

\* In every run the instructions between fetch and execute are one path.
THEOREM PathCorrect == Spec => []PathIsConnected
<1>1. IInv => PathIsConnected
  BY DEF IInv
<1> QED
  BY <1>1, InvariantHolds, PTL

\* In every run a halt instruction is the last one in the pipeline.
THEOREM HaltCorrect == Spec => []HaltBarrier
<1>1. IInv => HaltBarrier
  BY DEF IInv
<1> QED
  BY <1>1, InvariantHolds, PTL

\* In every run a fetched word is stale by at most the last store.
THEOREM FetchCorrect == Spec => []FetchIsFresh
<1>1. IInv => FetchIsFresh
  BY DEF IInv
<1> QED
  BY <1>1, InvariantHolds, PTL

-----------------------------------------------------------------------------
(***************************************************************************)
(* The pipeline implements the instruction set, for every program.          *)
(*                                                                          *)
(* The proof follows one instruction through stage_EX: by IInv its operands *)
(* are current, so what it leaves in EX/MEM drains to exactly what Exec     *)
(* computes.  The rest is about which instruction is next.                  *)
(***************************************************************************)

(* Control signals against the instruction set, kind by kind *)

\* A memory instruction accesses the width its kind says.
LEMMA WidthOfKind ==
    ASSUME NEW k \in LoadKinds \cup StoreKinds
    PROVE  width_bytes(control_of[k]) = AccessWidth(k)
<1>1. control_of[k].memory_width = memory_width_of(k)
  <2>1. k \in InstructionKind
    BY DEF InstructionKind
  <2>2. CASE k \in LoadKinds
    BY <2>1, <2>2, ControlByKind, ZenonT(60) DEF load_control, no_control
  <2>3. CASE k \in StoreKinds
    BY <2>1, <2>3, ControlByKind, ZenonT(60) DEF store_control, no_control
  <2> QED
    BY <2>2, <2>3
<1>2. CASE k \in {"Lb", "Lbu", "Sb"}
  <2>1. memory_width_of(k) = "Byte"
    BY <1>2, Zenon DEF memory_width_of
  <2>2. AccessWidth(k) = 1
    BY <1>2, Zenon DEF AccessWidth
  <2> QED
    BY <1>1, <2>1, <2>2, Zenon DEF width_bytes
<1>3. CASE k \in {"Lh", "Lhu", "Sh"}
  <2>1. memory_width_of(k) = "HalfWord"
    BY <1>3, Zenon DEF memory_width_of
  <2>2. AccessWidth(k) = 2
    BY <1>3, Zenon DEF AccessWidth
  <2> QED
    BY <1>1, <2>1, <2>2, Zenon DEF width_bytes
<1>4. CASE k \in {"Lw", "Sw"}
  <2>1. memory_width_of(k) = "Word"
    BY <1>4, Zenon DEF memory_width_of
  <2>2. AccessWidth(k) = 4
    BY <1>4, Zenon DEF AccessWidth
  <2> QED
    BY <1>1, <2>1, <2>2, Zenon DEF width_bytes
<1> QED
  BY <1>2, <1>3, <1>4 DEF LoadKinds, StoreKinds

\* Other instructions access nothing.
LEMMA NoWidth ==
    ASSUME NEW k \in InstructionKind, k \notin LoadKinds, k \notin StoreKinds
    PROVE  AccessWidth(k) = 0
<1>1. /\ k \notin {"Lb", "Lbu", "Sb"} /\ k \notin {"Lh", "Lhu", "Sh"}
      /\ k \notin {"Lw", "Sw"}
  BY DEF LoadKinds, StoreKinds
<1> QED
  BY <1>1, Zenon DEF AccessWidth

\* read_memory under the signals of a load is the load of the instruction set.
LEMMA LoadOfKind ==
    ASSUME NEW k \in LoadKinds, NEW m, NEW a
    PROVE  read_memory(m, a, control_of[k]) = LoadValue(m, a, k)
<1>1. /\ control_of[k].memory_width = memory_width_of(k)
      /\ control_of[k].mem_unsigned <=> k \in {"Lbu", "Lhu"}
  <2>1. k \in InstructionKind
    BY DEF InstructionKind
  <2> QED
    BY <2>1, ControlByKind, ZenonT(60) DEF load_control, no_control
<1>2. CASE k = "Lb"
  <2>1. control_of[k].memory_width = "Byte" /\ ~control_of[k].mem_unsigned
    BY <1>1, <1>2, Zenon DEF memory_width_of
  <2> QED
    BY <1>2, <2>1, Zenon DEF read_memory, LoadValue
<1>3. CASE k = "Lbu"
  <2>1. control_of[k].memory_width = "Byte" /\ control_of[k].mem_unsigned
    BY <1>1, <1>3, Zenon DEF memory_width_of
  <2> QED
    BY <1>3, <2>1, Zenon DEF read_memory, LoadValue
<1>4. CASE k = "Lh"
  <2>1. control_of[k].memory_width = "HalfWord" /\ ~control_of[k].mem_unsigned
    BY <1>1, <1>4, Zenon DEF memory_width_of
  <2> QED
    BY <1>4, <2>1, Zenon DEF read_memory, LoadValue
<1>5. CASE k = "Lhu"
  <2>1. control_of[k].memory_width = "HalfWord" /\ control_of[k].mem_unsigned
    BY <1>1, <1>5, Zenon DEF memory_width_of
  <2> QED
    BY <1>5, <2>1, Zenon DEF read_memory, LoadValue
<1>6. CASE k = "Lw"
  <2>1. control_of[k].memory_width = "Word"
    BY <1>1, <1>6, Zenon DEF memory_width_of
  <2> QED
    BY <1>6, <2>1, Zenon DEF read_memory, LoadValue
<1> QED
  BY <1>2, <1>3, <1>4, <1>5, <1>6 DEF LoadKinds

\* evaluate_branch under the condition of a kind is that kind's comparison.
LEMMA BranchOfKind ==
    ASSUME NEW k \in BranchKinds, NEW a, NEW b
    PROVE  evaluate_branch(control_of[k].branch_condition, a, b)
             = BranchTaken(k, a, b)
<1>1. control_of[k].branch_condition = branch_condition_of(k)
  <2>1. k \in InstructionKind
    BY DEF InstructionKind
  <2> QED
    BY <2>1, ControlByKind DEF branch_control, no_control
<1>2. CASE k = "Beq"
  BY <1>1, <1>2, Zenon DEF branch_condition_of, evaluate_branch, BranchTaken
<1>3. CASE k = "Bne"
  BY <1>1, <1>3, Zenon DEF branch_condition_of, evaluate_branch, BranchTaken
<1>4. CASE k = "Blt"
  BY <1>1, <1>4, Zenon DEF branch_condition_of, evaluate_branch, BranchTaken
<1>5. CASE k = "Bge"
  BY <1>1, <1>5, Zenon DEF branch_condition_of, evaluate_branch, BranchTaken
<1>6. CASE k = "Bltu"
  BY <1>1, <1>6, Zenon DEF branch_condition_of, evaluate_branch, BranchTaken
<1>7. CASE k = "Bgeu"
  BY <1>1, <1>7, Zenon DEF branch_condition_of, evaluate_branch, BranchTaken
<1> QED
  BY <1>2, <1>3, <1>4, <1>5, <1>6, <1>7 DEF BranchKinds

\* The ALU operation, its sources and the write-back source of each kind.
LEMMA DatapathControl ==
    ASSUME NEW k \in InstructionKind, NEW c, c = control_of[k]
    PROVE  /\ k \in AluRegKinds => /\ c.alu_op = alu_op_of(k)
                                  /\ ~c.alu_src_pc /\ ~c.alu_src_imm
                                  /\ c.writeback_source = "ALU"
           /\ k \in AluImmKinds => /\ c.alu_op = alu_op_of(k)
                                  /\ ~c.alu_src_pc /\ c.alu_src_imm
                                  /\ c.writeback_source = "ALU"
           /\ k \in LoadKinds \cup StoreKinds \cup {"Jalr"} =>
                /\ c.alu_op = "Add" /\ ~c.alu_src_pc /\ c.alu_src_imm
           /\ k \in {"Auipc", "Jal"} =>
                /\ c.alu_op = "Add" /\ c.alu_src_pc /\ c.alu_src_imm
           /\ k \in LoadKinds => c.writeback_source = "Memory"
           /\ k = "Auipc" => c.writeback_source = "ALU"
           /\ k \in {"Jal", "Jalr"} => c.writeback_source = "PCPlus4"
           /\ k = "Lui" => c.writeback_source = "Immediate"
<1> USE DEF AluRegKinds, AluImmKinds, LoadKinds, StoreKinds
<1>1. CASE k \in AluRegKinds
  <2>1. c = alu_reg_control(alu_op_of(k))
    BY <1>1, ControlByKind
  <2> QED
    BY <1>1, <2>1 DEF alu_reg_control, no_control
<1>2. CASE k \in AluImmKinds
  <2>1. c = alu_imm_control(alu_op_of(k))
    BY <1>2, ControlByKind
  <2> QED
    BY <1>2, <2>1 DEF alu_imm_control, alu_reg_control,
       no_control
<1>3. CASE k \in LoadKinds
  <2>1. c = load_control(k)
    BY <1>3, ControlByKind
  <2> QED
    BY <1>3, <2>1 DEF load_control, no_control
<1>4. CASE k \in StoreKinds
  <2>1. c = store_control(k)
    BY <1>4, ControlByKind
  <2> QED
    BY <1>4, <2>1 DEF store_control, no_control
<1>5. CASE k = "Lui"
  <2>1. c = lui_control
    BY <1>5, ControlByKind
  <2> QED
    BY <1>5, <2>1 DEF lui_control, no_control
<1>6. CASE k = "Auipc"
  <2>1. c = auipc_control
    BY <1>6, ControlByKind
  <2> QED
    BY <1>6, <2>1 DEF auipc_control, no_control
<1>7. CASE k = "Jal"
  <2>1. c = jal_control
    BY <1>7, ControlByKind
  <2> QED
    BY <1>7, <2>1 DEF jal_control, no_control
<1>8. CASE k = "Jalr"
  <2>1. c = jalr_control
    BY <1>8, ControlByKind
  <2> QED
    BY <1>8, <2>1 DEF jalr_control, no_control
<1> QED
  BY <1>1, <1>2, <1>3, <1>4, <1>5, <1>6, <1>7, <1>8

-----------------------------------------------------------------------------
(* The instruction in stage_EX *)

\* The operands of stage_EX are the registers the instruction set reads.
LEMMA OperandsMatch ==
    ASSUME IInv, ~memory_access_throws, id_ex.valid,
           NEW d, d = decode_instruction[id_ex.instruction]
    PROVE  /\ d.kind \in AluRegKinds \cup AluImmKinds \cup LoadKinds
                         \cup StoreKinds \cup BranchKinds \cup {"Jalr"}
                => operand_rs1 = Rs1(Drained, d)
           /\ d.kind \in AluRegKinds \cup StoreKinds \cup BranchKinds
                => operand_rs2 = Rs2(Drained, d)
<1>1. /\ uses_rs1(d) => operand_rs1 = read_reg(RegsDrained, d.rs1)
      /\ uses_rs2(d) => operand_rs2 = read_reg(RegsDrained, d.rs2)
  BY OperandsFromInvariant DEF OperandsAreCurrent
<1>2. ~error
  BY DEF IInv, ErrorIsFinal
<1>3. d.rs1 = id_ex.rs1 /\ d.rs2 = id_ex.rs2
  BY DEF IInv, LatchesDecoded
<1>4. d.rs1 = 0 => operand_rs1 = 0
  BY <1>2, <1>3 DEF IInv, OperandsRead, operand_rs1, forward, read_reg
<1>5. d.rs2 = 0 => operand_rs2 = 0
  BY <1>2, <1>3 DEF IInv, OperandsRead, operand_rs2, forward, read_reg
<1>6. Rs1(Drained, d) = read_reg(RegsDrained, d.rs1)
  BY DEF Rs1, Drained
<1>7. Rs2(Drained, d) = read_reg(RegsDrained, d.rs2)
  BY DEF Rs2, Drained
<1>8. /\ d.rs1 = 0 => read_reg(RegsDrained, d.rs1) = 0
      /\ d.rs2 = 0 => read_reg(RegsDrained, d.rs2) = 0
  BY DEF read_reg
<1> QED
  BY <1>1, <1>4, <1>5, <1>6, <1>7, <1>8 DEF uses_rs1, uses_rs2

\* What ID/EX carries, for the lemmas that follow.
LEMMA ExecutingFacts ==
    ASSUME IInv, ~memory_access_throws, id_ex.valid,
           NEW d, d = decode_instruction[id_ex.instruction]
    PROVE  /\ id_ex.instruction \in Word
           /\ d.kind \in InstructionKind /\ d.kind # "Invalid"
           /\ id_ex.control = control_of[d.kind]
           /\ id_ex.rd = d.rd /\ id_ex.immediate = d.immediate
           /\ d.rd \in RegIndex /\ d.immediate \in Word
           /\ id_ex.pc \in Word
           /\ operand_rs1 \in Word /\ operand_rs2 \in Word
           /\ Drained.pc = id_ex.pc
<1>1. id_ex \in IDEXRegister
  BY DEF IInv, TypeOK
<1>2. DecodedFrom(id_ex)
  BY DEF IInv, LatchesDecoded
<1>3. /\ d.kind \in InstructionKind
      /\ d.control = control_of[d.kind]
  BY <1>1, ControlFacts DEF IDEXRegister
<1>4. operand_rs1 \in Word /\ operand_rs2 \in Word
  BY OperandTypes DEF IInv
<1> QED
  BY <1>1, <1>2, <1>3, <1>4
  DEF DecodedFrom, is_valid_instruction, IDEXRegister, Drained

\* The ALU computes the result, the effective address or the jump target.
LEMMA AluMatches ==
    ASSUME IInv, ~memory_access_throws, id_ex.valid,
           NEW d, d = decode_instruction[id_ex.instruction]
    PROVE  /\ d.kind \in AluRegKinds =>
                alu_result = execute_alu(alu_op_of(d.kind), Rs1(Drained, d),
                                         Rs2(Drained, d))
           /\ d.kind \in AluImmKinds =>
                alu_result = execute_alu(alu_op_of(d.kind), Rs1(Drained, d),
                                         d.immediate)
           /\ d.kind \in LoadKinds \cup StoreKinds \cup {"Jalr"} =>
                alu_result = EffectiveAddress(Drained, d)
           /\ d.kind \in {"Auipc", "Jal"} =>
                alu_result = add32(id_ex.pc, d.immediate)
<1>1. /\ d.kind \in InstructionKind
      /\ id_ex.control = control_of[d.kind]
      /\ id_ex.immediate = d.immediate /\ d.immediate \in Word
      /\ id_ex.pc \in Word /\ operand_rs1 \in Word
  BY ExecutingFacts
<1>2. CASE d.kind \in AluRegKinds
  <2>1. /\ id_ex.control.alu_op = alu_op_of(d.kind)
        /\ ~id_ex.control.alu_src_pc /\ ~id_ex.control.alu_src_imm
    BY <1>1, <1>2, DatapathControl
  <2>2. operand_rs1 = Rs1(Drained, d) /\ operand_rs2 = Rs2(Drained, d)
    BY <1>2, OperandsMatch
  <2> QED
    BY <1>2, <2>1, <2>2
    DEF alu_result, AluRegKinds, AluImmKinds, LoadKinds, StoreKinds
<1>3. CASE d.kind \in AluImmKinds
  <2>1. /\ id_ex.control.alu_op = alu_op_of(d.kind)
        /\ ~id_ex.control.alu_src_pc /\ id_ex.control.alu_src_imm
    BY <1>1, <1>3, DatapathControl
  <2>2. operand_rs1 = Rs1(Drained, d)
    BY <1>3, OperandsMatch
  <2> QED
    BY <1>1, <1>3, <2>1, <2>2
    DEF alu_result, AluRegKinds, AluImmKinds, LoadKinds, StoreKinds
<1>4. CASE d.kind \in LoadKinds \cup StoreKinds \cup {"Jalr"}
  <2>1. /\ id_ex.control.alu_op = "Add"
        /\ ~id_ex.control.alu_src_pc /\ id_ex.control.alu_src_imm
    BY <1>1, <1>4, DatapathControl
  <2>2. operand_rs1 = Rs1(Drained, d)
    BY <1>4, OperandsMatch
  <2>3. alu_result = execute_alu("Add", operand_rs1, d.immediate)
    BY <1>1, <2>1 DEF alu_result
  <2>4. alu_result = add32(operand_rs1, d.immediate)
    BY <1>1, <2>3, AluAssumption
  <2> QED
    BY <1>4, <2>2, <2>4
    DEF EffectiveAddress, AluRegKinds, AluImmKinds, LoadKinds, StoreKinds
<1>5. CASE d.kind \in {"Auipc", "Jal"}
  <2>1. /\ id_ex.control.alu_op = "Add"
        /\ id_ex.control.alu_src_pc /\ id_ex.control.alu_src_imm
    BY <1>1, <1>5, DatapathControl
  <2>2. alu_result = execute_alu("Add", id_ex.pc, d.immediate)
    BY <1>1, <2>1 DEF alu_result
  <2>3. alu_result = add32(id_ex.pc, d.immediate)
    BY <1>1, <2>2, AluAssumption
  <2> QED
    BY <1>5, <2>3 DEF AluRegKinds, AluImmKinds, LoadKinds, StoreKinds
<1> QED
  BY <1>2, <1>3, <1>4, <1>5

\* stage_EX resolves the next pc as the instruction set does.
LEMMA TargetMatches ==
    ASSUME IInv, ~memory_access_throws, id_ex.valid,
           NEW d, d = decode_instruction[id_ex.instruction]
    PROVE  actual_target = NextPc(Drained, d)
<1>1. /\ id_ex.instruction \in Word
      /\ d.kind \in InstructionKind
      /\ id_ex.control = control_of[d.kind]
      /\ id_ex.immediate = d.immediate
      /\ Drained.pc = id_ex.pc
  BY ExecutingFacts
<1>2. /\ id_ex.control.branch <=> d.kind \in BranchKinds
      /\ id_ex.control.jump <=> d.kind \in {"Jal", "Jalr"}
  BY <1>1, ControlFacts
<1>3. CASE d.kind \in BranchKinds
  <2>1. operand_rs1 = Rs1(Drained, d) /\ operand_rs2 = Rs2(Drained, d)
    BY <1>3, OperandsMatch
  <2>2. actual_taken = BranchTaken(d.kind, Rs1(Drained, d), Rs2(Drained, d))
    BY <1>1, <1>3, <2>1, BranchOfKind DEF actual_taken
  <2>3. d.kind # "Jal" /\ d.kind # "Jalr"
    BY <1>3 DEF BranchKinds
  <2>4. CASE actual_taken
    <3>1. actual_target = add32(Drained.pc, d.immediate)
      BY <1>1, <1>2, <1>3, <2>4 DEF actual_target
    <3> QED
      BY <1>3, <2>2, <2>3, <2>4, <3>1, Zenon DEF NextPc
  <2>5. CASE ~actual_taken
    <3>1. actual_target = add32(Drained.pc, 4)
      BY <1>1, <1>2, <1>3, <2>5 DEF actual_target
    <3>2. ~BranchTaken(d.kind, Rs1(Drained, d), Rs2(Drained, d))
      BY <2>2, <2>5
    <3> QED
      BY <2>3, <3>1, <3>2, Zenon DEF NextPc
  <2> QED
    BY <2>4, <2>5
<1>4. CASE d.kind = "Jal"
  <2>1. d.kind \notin BranchKinds
    BY <1>4 DEF BranchKinds
  <2>2. alu_result = add32(id_ex.pc, d.immediate)
    BY <1>4, AluMatches
  <2>3. id_ex.control.alu_src_pc
    BY <1>1, <1>4, DatapathControl
  <2>4. actual_target = add32(Drained.pc, d.immediate)
    BY <1>1, <1>2, <1>4, <2>1, <2>2, <2>3 DEF actual_target
  <2> QED
    BY <1>4, <2>1, <2>4, Zenon DEF NextPc
<1>5. CASE d.kind = "Jalr"
  <2>1. d.kind \notin BranchKinds /\ d.kind # "Jal"
    BY <1>5 DEF BranchKinds
  <2>2. alu_result = EffectiveAddress(Drained, d)
    BY <1>5, AluMatches
  <2>3. ~id_ex.control.alu_src_pc
    BY <1>1, <1>5, DatapathControl
  <2>4. actual_target =
          EffectiveAddress(Drained, d) - (EffectiveAddress(Drained, d) % 2)
    BY <1>1, <1>2, <1>5, <2>1, <2>2, <2>3 DEF actual_target
  <2> QED
    BY <1>5, <2>1, <2>4, Zenon DEF NextPc
<1>6. CASE d.kind \notin BranchKinds /\ d.kind \notin {"Jal", "Jalr"}
  <2>1. actual_target = add32(Drained.pc, 4)
    BY <1>1, <1>2, <1>6 DEF actual_target
  <2>2. d.kind # "Jal" /\ d.kind # "Jalr"
    BY <1>6
  <2> QED
    BY <1>6, <2>1, <2>2, Zenon DEF NextPc
<1> QED
  BY <1>3, <1>4, <1>5, <1>6

\* The next cycle throws just when the instruction set says it faults.
LEMMA FaultMatches ==
    ASSUME IInv, run_pipeline_cycle, id_ex.valid,
           NEW d, d = decode_instruction[id_ex.instruction]
    PROVE  memory_access_throws' <=> Faults(Drained, d)
<1>0. ~memory_access_throws
  BY DEF run_pipeline_cycle
<1>1. /\ id_ex.instruction \in Word
      /\ d.kind \in InstructionKind
      /\ id_ex.control = control_of[d.kind]
  BY <1>0, ExecutingFacts
<1>2. /\ id_ex.control.mem_read <=> d.kind \in LoadKinds
      /\ id_ex.control.mem_write <=> d.kind \in StoreKinds
  BY <1>1, ControlFacts
<1>3. /\ ex_mem'.valid
      /\ ex_mem'.control = id_ex.control
      /\ ex_mem'.alu_result = alu_result
  BY StageExFacts
<1>4. CASE d.kind \in LoadKinds \cup StoreKinds
  <2>1. alu_result = EffectiveAddress(Drained, d)
    BY <1>0, <1>4, AluMatches
  <2>2. width_bytes(id_ex.control) = AccessWidth(d.kind)
    BY <1>1, <1>4, WidthOfKind
  <2>3. width_bytes(ex_mem'.control) = AccessWidth(d.kind)
    BY <1>3, <2>2
  <2> QED
    BY <1>2, <1>3, <1>4, <2>1, <2>3 DEF memory_access_throws, Faults
<1>5. CASE d.kind \notin LoadKinds /\ d.kind \notin StoreKinds
  <2>1. AccessWidth(d.kind) = 0
    BY <1>1, <1>5, NoWidth
  <2> QED
    BY <1>2, <1>3, <1>5, <2>1
    DEF memory_access_throws, Faults, valid_memory_access
<1> QED
  BY <1>4, <1>5

\* What the instruction will write back is its result.
LEMMA WritebackMatches ==
    ASSUME IInv, run_pipeline_cycle, id_ex.valid,
           NEW d, d = decode_instruction[id_ex.instruction],
           HasResult(d.kind)
    PROVE  select_writeback_value(next_mem_wb)' = Result(Drained, d)
<1>0. ~memory_access_throws
  BY DEF run_pipeline_cycle
<1>1. /\ id_ex.instruction \in Word
      /\ d.kind \in InstructionKind
      /\ id_ex.control = control_of[d.kind]
      /\ id_ex.immediate = d.immediate
      /\ Drained.pc = id_ex.pc
  BY <1>0, ExecutingFacts
<1>2. /\ ex_mem'.valid
      /\ ex_mem'.control = id_ex.control
      /\ ex_mem'.alu_result = alu_result
      /\ ex_mem'.pc_plus_4 = add32(id_ex.pc, 4)
      /\ ex_mem'.immediate = id_ex.immediate
  BY StageExFacts
<1>3. /\ next_mem_wb'.control = control_of[d.kind]
      /\ next_mem_wb'.alu_result = alu_result
      /\ next_mem_wb'.pc_plus_4 = add32(Drained.pc, 4)
      /\ next_mem_wb'.immediate = d.immediate
      /\ control_of[d.kind].mem_read =>
           next_mem_wb'.memory_data =
             read_memory(memory', alu_result, control_of[d.kind])
  BY <1>1, <1>2 DEF next_mem_wb
<1>4. select_writeback_value(next_mem_wb)' = select_writeback_value(next_mem_wb')
  BY DEF select_writeback_value
<1>5. CASE d.kind \in AluRegKinds
  <2>1. control_of[d.kind].writeback_source = "ALU"
    BY <1>1, <1>5, DatapathControl
  <2>2. alu_result = execute_alu(alu_op_of(d.kind), Rs1(Drained, d),
                                 Rs2(Drained, d))
    BY <1>0, <1>5, AluMatches
  <2>3. select_writeback_value(next_mem_wb') = alu_result
    BY <1>3, <2>1, Zenon DEF select_writeback_value
  <2>4. /\ d.kind \notin AluImmKinds /\ d.kind \notin LoadKinds
        /\ d.kind # "Lui" /\ d.kind # "Auipc"
    BY <1>5 DEF AluRegKinds, AluImmKinds, LoadKinds
  <2> QED
    BY <1>4, <1>5, <2>2, <2>3, <2>4, Zenon DEF Result
<1>6. CASE d.kind \in AluImmKinds
  <2>1. control_of[d.kind].writeback_source = "ALU"
    BY <1>1, <1>6, DatapathControl
  <2>2. alu_result = execute_alu(alu_op_of(d.kind), Rs1(Drained, d),
                                 d.immediate)
    BY <1>0, <1>6, AluMatches
  <2>3. select_writeback_value(next_mem_wb') = alu_result
    BY <1>3, <2>1, Zenon DEF select_writeback_value
  <2>4. /\ d.kind \notin AluRegKinds /\ d.kind \notin LoadKinds
        /\ d.kind # "Lui" /\ d.kind # "Auipc"
    BY <1>6 DEF AluRegKinds, AluImmKinds, LoadKinds
  <2> QED
    BY <1>4, <1>6, <2>2, <2>3, <2>4, Zenon DEF Result
<1>7. CASE d.kind \in LoadKinds
  <2>1. control_of[d.kind].writeback_source = "Memory"
    BY <1>1, <1>7, DatapathControl
  <2>2. alu_result = EffectiveAddress(Drained, d)
    BY <1>0, <1>7, AluMatches
  <2>3. control_of[d.kind].mem_read
    BY <1>1, <1>7, ControlFacts
  <2>4. select_writeback_value(next_mem_wb') = next_mem_wb'.memory_data
    BY <1>3, <2>1, Zenon DEF select_writeback_value
  <2>5. memory' = Drained.mem
    BY DEF run_pipeline_cycle, stage_MEM, Drained
  <2>6. next_mem_wb'.memory_data =
          LoadValue(Drained.mem, EffectiveAddress(Drained, d), d.kind)
    BY <1>3, <1>7, <2>2, <2>3, <2>5, LoadOfKind
  <2>7. /\ d.kind \notin AluRegKinds /\ d.kind \notin AluImmKinds
        /\ d.kind # "Lui" /\ d.kind # "Auipc"
    BY <1>7 DEF AluRegKinds, AluImmKinds, LoadKinds
  <2> QED
    BY <1>4, <1>7, <2>4, <2>6, <2>7, Zenon DEF Result
<1>8. CASE d.kind \in {"Lui", "Auipc", "Jal", "Jalr"}
  <2>0. /\ d.kind \notin AluRegKinds /\ d.kind \notin AluImmKinds
        /\ d.kind \notin LoadKinds
    BY <1>8 DEF AluRegKinds, AluImmKinds, LoadKinds
  <2>1. CASE d.kind = "Lui"
    <3>1. control_of[d.kind].writeback_source = "Immediate"
      BY <1>1, <2>1, DatapathControl
    <3>2. select_writeback_value(next_mem_wb') = d.immediate
      BY <1>3, <3>1, Zenon DEF select_writeback_value
    <3> QED
      BY <1>4, <2>0, <2>1, <3>2, Zenon DEF Result
  <2>2. CASE d.kind = "Auipc"
    <3>1. control_of[d.kind].writeback_source = "ALU"
      BY <1>1, <2>2, DatapathControl
    <3>2. alu_result = add32(Drained.pc, d.immediate)
      BY <1>0, <1>1, <2>2, AluMatches
    <3>3. select_writeback_value(next_mem_wb') = alu_result
      BY <1>3, <3>1, Zenon DEF select_writeback_value
    <3>4. d.kind # "Lui"
      BY <2>2
    <3> QED
      BY <1>4, <2>0, <2>2, <3>2, <3>3, <3>4, Zenon DEF Result
  <2>3. CASE d.kind \in {"Jal", "Jalr"}
    <3>1. control_of[d.kind].writeback_source = "PCPlus4"
      BY <1>1, <2>3, DatapathControl
    <3>2. select_writeback_value(next_mem_wb') = add32(Drained.pc, 4)
      BY <1>3, <3>1, Zenon DEF select_writeback_value
    <3>3. d.kind # "Lui" /\ d.kind # "Auipc"
      BY <2>3
    <3> QED
      BY <1>4, <2>0, <2>3, <3>2, <3>3, Zenon DEF Result
  <2> QED
    BY <1>8, <2>1, <2>2, <2>3
<1> QED
  BY <1>5, <1>6, <1>7, <1>8 DEF HasResult

\* A store writes at least one byte.
LEMMA StoreWidth ==
    ASSUME NEW k \in StoreKinds
    PROVE  AccessWidth(k) \in {1, 2, 4}
<1>1. CASE k = "Sb"
  BY <1>1, Zenon DEF AccessWidth
<1>2. CASE k = "Sh"
  BY <1>2, Zenon DEF AccessWidth
<1>3. CASE k = "Sw"
  BY <1>3, Zenon DEF AccessWidth
<1> QED
  BY <1>1, <1>2, <1>3 DEF StoreKinds

-----------------------------------------------------------------------------
(* Draining the latches, before and after a cycle *)

\* The state s, at another pc.
AtPc(s, p) ==
    [regs |-> s.regs, mem |-> s.mem, pc |-> p, halted |-> s.halted,
     error |-> s.error, writes |-> s.writes, recent |-> s.recent,
     older |-> s.older]

\* The state after the instructions that have left decode, one cycle later.
Completed == IF id_ex.valid THEN Abs ELSE Settled(Abs)

\* The abstract state when the instruction in ID/EX does not fault.
LEMMA ExecutedState ==
    ASSUME IInv, run_pipeline_cycle, id_ex.valid,
           NEW d, d = decode_instruction[id_ex.instruction],
           ~Faults(Drained, d)
    PROVE  Abs = [regs |-> IF HasResult(d.kind)
                           THEN write_reg(RegsDrained, d.rd, Result(Drained, d))
                           ELSE RegsDrained,
                  mem |-> IF d.kind \in StoreKinds
                          THEN write_bytes(memory_after_mem,
                                           EffectiveAddress(Drained, d),
                                           Rs2(Drained, d), AccessWidth(d.kind))
                          ELSE memory_after_mem,
                  pc |-> actual_target,
                  halted |-> d.kind \in HaltKinds,
                  error |-> FALSE,
                  writes |-> IF d.kind \in StoreKinds
                             THEN memory_writes_after_mem
                                    \cup {<<EffectiveAddress(Drained, d),
                                            AccessWidth(d.kind)>>}
                             ELSE memory_writes_after_mem,
                  recent |-> StoredBytes(Drained, d),
                  older |-> LatchStores(ex_mem)]
<1>0. ~memory_access_throws
  BY DEF run_pipeline_cycle
<1>1. d.kind # "Invalid"
  BY <1>0, ExecutingFacts
<1>2. Abs = Exec(Drained, d)
  BY <1>0 DEF Abs, ExecWord
<1>3. /\ Drained.regs = RegsDrained
      /\ Drained.mem = memory_after_mem
      /\ Drained.writes = memory_writes_after_mem
      /\ Drained.recent = LatchStores(ex_mem)
  BY DEF Drained
<1>4. NextPc(Drained, d) = actual_target
  BY <1>0, TargetMatches
<1> QED
  BY <1>1, <1>2, <1>3, <1>4, Zenon DEF Exec

\* No halt is ahead of an instruction that has not executed.
LEMMA NoHaltAhead ==
    ASSUME IInv, run_pipeline_cycle, id_ex.valid \/ if_id.valid
    PROVE  /\ ~halted
           /\ ~(mem_wb.valid /\ mem_wb.control.halt)
           /\ ~(ex_mem.valid /\ ex_mem.control.halt)
           /\ Drained.halted = FALSE
<1>1. /\ ~halted
      /\ ~(mem_wb.valid /\ mem_wb.control.halt)
      /\ ~(ex_mem.valid /\ ex_mem.control.halt)
  BY DEF IInv, HaltBarrier, run_pipeline_cycle, Running
<1>2. Drained.halted = (\/ halted
                        \/ mem_wb.valid /\ mem_wb.control.halt
                        \/ ex_mem.valid /\ ex_mem.control.halt)
  BY Zenon DEF Drained
<1>3. (\/ halted
       \/ mem_wb.valid /\ mem_wb.control.halt
       \/ ex_mem.valid /\ ex_mem.control.halt) = FALSE
  BY <1>1, Zenon
<1> QED
  BY <1>1, <1>2, <1>3, Zenon

\* The stores of the latches move one stage on.
LEMMA LatchStoresMove ==
    ASSUME IInv, run_pipeline_cycle
    PROVE  LatchStores(mem_wb)' = LatchStores(ex_mem)
<1>1. /\ ex_mem.valid => /\ mem_wb'.valid
                         /\ mem_wb'.control = ex_mem.control
                         /\ mem_wb'.alu_result = ex_mem.alu_result
      /\ ~ex_mem.valid => ~mem_wb'.valid
  BY StageMemFacts
<1> QED
  BY <1>1 DEF LatchStores, is_store

\* After a cycle the latches drain to what the instruction set computes.
LEMMA DrainExecuted ==
    ASSUME IInv, run_pipeline_cycle, id_ex.valid, ~memory_access_throws'
    PROVE  /\ RegsDrained' = Abs.regs
           /\ memory_after_mem' = Abs.mem
           /\ memory_writes_after_mem' = Abs.writes
           /\ Drained'.halted = Abs.halted
           /\ Abs.error = FALSE
           /\ LatchStores(ex_mem)' = Abs.recent
           /\ LatchStores(mem_wb)' = Abs.older
           /\ Abs.pc = actual_target
           /\ Abs = AtPc(Abs, Abs.pc)
<1> DEFINE d == decode_instruction[id_ex.instruction]
<1>0. ~memory_access_throws
  BY DEF run_pipeline_cycle
<1>1. ~Faults(Drained, d)
  BY FaultMatches
<1>2. /\ id_ex.instruction \in Word
      /\ d.kind \in InstructionKind
      /\ id_ex.control = control_of[d.kind]
      /\ id_ex.rd = d.rd
  BY <1>0, ExecutingFacts
<1>3. /\ id_ex.control.mem_write <=> d.kind \in StoreKinds
      /\ id_ex.control.halt <=> d.kind \in HaltKinds
      /\ id_ex.control.reg_write <=> HasResult(d.kind)
  BY <1>2, ControlFacts
<1>4. /\ ex_mem'.valid
      /\ ex_mem'.control = id_ex.control
      /\ ex_mem'.rd = d.rd
      /\ ex_mem'.alu_result = alu_result
      /\ ex_mem'.store_value = operand_rs2
  BY <1>2, StageExFacts
<1>5. /\ Abs.regs = IF HasResult(d.kind)
                    THEN write_reg(RegsDrained, d.rd, Result(Drained, d))
                    ELSE RegsDrained
      /\ Abs.mem = IF d.kind \in StoreKinds
                   THEN write_bytes(memory_after_mem,
                                    EffectiveAddress(Drained, d),
                                    Rs2(Drained, d), AccessWidth(d.kind))
                   ELSE memory_after_mem
      /\ Abs.writes = IF d.kind \in StoreKinds
                      THEN memory_writes_after_mem
                             \cup {<<EffectiveAddress(Drained, d),
                                     AccessWidth(d.kind)>>}
                      ELSE memory_writes_after_mem
      /\ Abs.recent = StoredBytes(Drained, d)
      /\ Abs.older = LatchStores(ex_mem)
      /\ Abs.pc = actual_target
  BY <1>1, ExecutedState
<1>6. Abs.halted = (d.kind \in HaltKinds) /\ Abs.error = FALSE
  <2>1. Abs = Exec(Drained, d)
    BY <1>0 DEF Abs, ExecWord
  <2>2. d.kind # "Invalid"
    BY <1>0, ExecutingFacts
  <2> QED
    BY <1>1, <2>1, <2>2, Zenon DEF Exec
<1>7. d.kind \in StoreKinds =>
        /\ alu_result = EffectiveAddress(Drained, d)
        /\ operand_rs2 = Rs2(Drained, d)
        /\ width_bytes(id_ex.control) = AccessWidth(d.kind)
        /\ AccessWidth(d.kind) \in {1, 2, 4}
  BY <1>0, <1>2, AluMatches, OperandsMatch, WidthOfKind, StoreWidth
<1>8. RegsDrained' = Abs.regs
  <2>1. /\ regs' = write_back(regs, mem_wb)
        /\ mem_wb' = next_mem_wb
    BY DEF run_pipeline_cycle, stage_WB, stage_MEM
  <2>2. RegsDrained' = write_back(RegsDrained, next_mem_wb')
    BY <2>1 DEF RegsDrained, write_back, select_writeback_value
  <2>3. /\ next_mem_wb'.valid
        /\ next_mem_wb'.control = id_ex.control
        /\ next_mem_wb'.rd = d.rd
    BY <1>4 DEF next_mem_wb
  <2>4. HasResult(d.kind) =>
          select_writeback_value(next_mem_wb') = Result(Drained, d)
    BY WritebackMatches DEF select_writeback_value
  <2> QED
    BY <1>3, <1>5, <2>2, <2>3, <2>4 DEF write_back
<1>9. memory_after_mem' = Abs.mem
  <2>1. memory' = memory_after_mem
    BY DEF run_pipeline_cycle, stage_MEM
  <2> QED
    BY <1>3, <1>4, <1>5, <1>7, <2>1
    DEF memory_after_mem, is_store, write_memory
<1>10. memory_writes_after_mem' = Abs.writes
  <2>1. memory_writes' = memory_writes_after_mem
    BY DEF run_pipeline_cycle, stage_MEM
  <2> QED
    BY <1>3, <1>4, <1>5, <1>7, <2>1 DEF memory_writes_after_mem, is_store
<1>11. LatchStores(ex_mem)' = Abs.recent
  BY <1>3, <1>4, <1>5, <1>7 DEF LatchStores, is_store, StoredBytes
<1>12. LatchStores(mem_wb)' = Abs.older
  BY <1>5, LatchStoresMove
<1>13. Drained'.halted = Abs.halted
  <2>1. ~halted' /\ ~(mem_wb'.valid /\ mem_wb'.control.halt)
    BY NoHaltAhead, StageMemFacts DEF run_pipeline_cycle, stage_WB
  <2>2. ex_mem'.valid /\ ex_mem'.control.halt <=> d.kind \in HaltKinds
    BY <1>3, <1>4
  <2>3. Drained'.halted = (\/ halted'
                           \/ mem_wb'.valid /\ mem_wb'.control.halt
                           \/ ex_mem'.valid /\ ex_mem'.control.halt)
    BY Zenon DEF Drained
  <2>4. (\/ halted'
         \/ mem_wb'.valid /\ mem_wb'.control.halt
         \/ ex_mem'.valid /\ ex_mem'.control.halt) = (d.kind \in HaltKinds)
    <3>1. CASE d.kind \in HaltKinds
      BY <2>1, <2>2, <3>1, Zenon
    <3>2. CASE ~(d.kind \in HaltKinds)
      <4>1. (d.kind \in HaltKinds) = FALSE
        BY <3>2
      <4>2. (\/ halted'
             \/ mem_wb'.valid /\ mem_wb'.control.halt
             \/ ex_mem'.valid /\ ex_mem'.control.halt) = FALSE
        BY <2>1, <2>2, <3>2, Zenon
      <4> QED
        BY <4>1, <4>2, Zenon
    <3> QED
      BY <3>1, <3>2, Zenon
  <2> QED
    BY <1>6, <2>3, <2>4, Zenon
<1>14. Abs = AtPc(Abs, Abs.pc)
  BY <1>1, ExecutedState DEF AtPc
<1> QED
  BY <1>5, <1>6, <1>8, <1>9, <1>10, <1>11, <1>12, <1>13, <1>14

\* With no instruction in ID/EX the cycle only completes what was in flight.
LEMMA DrainBubble ==
    ASSUME IInv, run_pipeline_cycle, ~id_ex.valid
    PROVE  /\ ~memory_access_throws'
           /\ Abs = Drained
           /\ RegsDrained' = RegsDrained
           /\ memory_after_mem' = memory_after_mem
           /\ memory_writes_after_mem' = memory_writes_after_mem
           /\ Drained'.halted = Drained.halted
           /\ LatchStores(ex_mem)' = {}
           /\ LatchStores(mem_wb)' = LatchStores(ex_mem)
<1>1. ~ex_mem'.valid
  BY StageExFacts
<1>2. ~memory_access_throws'
  BY <1>1 DEF memory_access_throws
<1>3. Abs = Drained
  BY DEF Abs, run_pipeline_cycle
<1>4. /\ regs' = write_back(regs, mem_wb)
      /\ mem_wb' = next_mem_wb
      /\ memory' = memory_after_mem
      /\ memory_writes' = memory_writes_after_mem
  BY DEF run_pipeline_cycle, stage_WB, stage_MEM
<1>5. RegsDrained' = RegsDrained
  <2>1. ~next_mem_wb'.valid
    BY <1>1 DEF next_mem_wb, empty_mem_wb
  <2>2. RegsDrained' = write_back(RegsDrained, next_mem_wb')
    BY <1>4 DEF RegsDrained, write_back, select_writeback_value
  <2> QED
    BY <2>1, <2>2 DEF write_back
<1>6. /\ memory_after_mem' = memory_after_mem
      /\ memory_writes_after_mem' = memory_writes_after_mem
      /\ LatchStores(ex_mem)' = {}
  BY <1>1, <1>4
  DEF memory_after_mem, memory_writes_after_mem, LatchStores, is_store
<1>7. Drained'.halted = Drained.halted
  <2> DEFINE stops == \/ halted
                      \/ mem_wb.valid /\ mem_wb.control.halt
                      \/ ex_mem.valid /\ ex_mem.control.halt
  <2>1. Drained.halted = stops
    BY Zenon DEF Drained
  <2>2. Drained'.halted = stops'
    BY Zenon DEF Drained
  <2>3. halted' <=> (halted \/ (mem_wb.valid /\ mem_wb.control.halt))
    BY DEF run_pipeline_cycle, stage_WB
  <2>4. mem_wb'.valid /\ mem_wb'.control.halt
          <=> ex_mem.valid /\ ex_mem.control.halt
    BY StageMemFacts
  <2>5. stops' <=> stops
    BY <1>1, <2>3, <2>4
  <2>6. stops' = stops
    BY <2>5, Zenon
  <2> QED
    BY <2>1, <2>2, <2>6
<1> QED
  BY <1>2, <1>3, <1>5, <1>6, <1>7, LatchStoresMove

\* After a cycle the latches drain to the completed state, at the next pc.
LEMMA DrainCompleted ==
    ASSUME IInv, run_pipeline_cycle, ~memory_access_throws'
    PROVE  Drained' = AtPc(Completed, Drained'.pc)
<1>1. Drained' = [regs |-> RegsDrained', mem |-> memory_after_mem',
                  pc |-> Drained'.pc, halted |-> Drained'.halted,
                  error |-> FALSE, writes |-> memory_writes_after_mem',
                  recent |-> LatchStores(ex_mem)',
                  older |-> LatchStores(mem_wb)']
  BY Zenon DEF Drained
<1>2. CASE id_ex.valid
  <2>1. Completed = Abs
    BY <1>2 DEF Completed
  <2> QED
    BY <1>1, <1>2, <2>1, DrainExecuted DEF AtPc
<1>3. CASE ~id_ex.valid
  <2>1. Abs = Drained
    BY <1>3, DrainBubble
  <2>2. Completed = Settled(Drained)
    BY <1>3, <2>1 DEF Completed
  <2>3. /\ Completed.regs = RegsDrained
        /\ Completed.mem = memory_after_mem
        /\ Completed.writes = memory_writes_after_mem
        /\ Completed.recent = {}
        /\ Completed.older = LatchStores(ex_mem)
    BY <2>2 DEF Settled, Drained
  <2>4. Completed.halted = Drained.halted /\ Completed.error = FALSE
    BY <2>2 DEF Settled, Drained
  <2> QED
    BY <1>1, <1>3, <2>3, <2>4, DrainBubble DEF AtPc
<1> QED
  BY <1>2, <1>3

\* The completed state has the fields of a state, and is not at fault.
LEMMA CompletedFields ==
    ASSUME IInv, run_pipeline_cycle, ~memory_access_throws'
    PROVE  /\ Completed = AtPc(Completed, Completed.pc)
           /\ Completed.pc = Abs.pc
           /\ Completed \in {Abs, Settled(Abs)}
           /\ Abs.error = FALSE
           /\ Abs.halted = Drained'.halted
           /\ Abs.mem = memory_after_mem'
<1>1. CASE id_ex.valid
  <2>1. Completed = Abs
    BY <1>1 DEF Completed
  <2> QED
    BY <1>1, <2>1, DrainExecuted
<1>2. CASE ~id_ex.valid
  <2>1. Abs = Drained /\ Drained'.halted = Drained.halted
        /\ memory_after_mem' = memory_after_mem
    BY <1>2, DrainBubble
  <2>2. Completed = Settled(Abs)
    BY <1>2 DEF Completed
  <2>3. Drained.error = FALSE /\ Drained.mem = memory_after_mem
    BY DEF Drained
  <2>4. Completed.pc = Abs.pc
    BY <2>1, <2>2 DEF Settled, Drained
  <2>5. Completed = AtPc(Completed, Completed.pc)
    BY <2>1, <2>2 DEF Settled, Drained, AtPc
  <2> QED
    BY <2>1, <2>2, <2>3, <2>4, <2>5
<1> QED
  BY <1>1, <1>2

-----------------------------------------------------------------------------
(* Which instruction is next *)

\* The completed state is at the instruction in IF/ID, unless it is flushed.
LEMMA CompletedPc ==
    ASSUME IInv, run_pipeline_cycle, ~memory_access_throws'
    PROVE  Completed.pc = IF flush_id_ex THEN pc_after_ex
                          ELSE IF if_id.valid THEN if_id.pc
                          ELSE pc
<1>0. Completed.pc = Abs.pc
  BY CompletedFields
<1>1. CASE id_ex.valid
  <2>1. Abs.pc = actual_target
    BY <1>1, DrainExecuted
  <2>2. CASE flush_id_ex
    BY <1>0, <2>1, <2>2 DEF pc_after_ex
  <2>3. CASE ~flush_id_ex
    <3>1. actual_target = id_ex.predicted_next_pc
      <4>1. CASE id_ex.control.branch \/ id_ex.control.jump
        BY <1>1, <2>3, <4>1 DEF flush_id_ex
      <4>2. CASE ~id_ex.control.branch /\ ~id_ex.control.jump
        <5>1. actual_target = add32(id_ex.pc, 4)
          BY <4>2 DEF actual_target
        <5> QED
          BY <1>1, <4>2, <5>1 DEF IInv, PathIsConnected
      <4> QED
        BY <4>1, <4>2
    <3>2. id_ex.predicted_next_pc = IF if_id.valid THEN if_id.pc ELSE pc
      BY <1>1 DEF IInv, PathIsConnected
    <3> QED
      BY <1>0, <2>1, <2>3, <3>1, <3>2
  <2> QED
    BY <2>2, <2>3
<1>2. CASE ~id_ex.valid
  <2>1. ~flush_id_ex
    BY <1>2 DEF flush_id_ex
  <2>2. Abs = Drained
    BY <1>2, DrainBubble
  <2>3. Drained.pc = IF if_id.valid THEN if_id.pc ELSE pc
    BY <1>2 DEF Drained
  <2> QED
    BY <1>0, <2>1, <2>2, <2>3
<1> QED
  BY <1>1, <1>2

\* stage_ID skips an instruction it cannot decode; nothing else is lost.
LEMMA NextPcOfCycle ==
    ASSUME IInv, run_pipeline_cycle, ~memory_access_throws'
    PROVE  /\ id_issues => Drained'.pc = Completed.pc
           /\ ~id_issues =>
                \/ /\ Drained'.pc = Completed.pc
                   /\ ~(if_id.valid /\ ~flush_id_ex /\ decoded.kind = "Invalid")
                \/ /\ if_id.valid /\ ~flush_id_ex /\ decoded.kind = "Invalid"
                   /\ Drained'.pc = add32(Completed.pc, 4)
<1>1. ASSUME id_issues PROVE Drained'.pc = Completed.pc
  <2>1. if_id.valid /\ ~flush_id_ex
    BY <1>1 DEF id_issues
  <2>2. Completed.pc = if_id.pc
    BY <2>1, CompletedPc
  <2>3. id_ex'.valid /\ id_ex'.pc = if_id.pc
    BY <1>1, StageIdFacts
  <2> QED
    BY <2>2, <2>3 DEF Drained
<1>2. ASSUME ~id_issues
      PROVE  \/ /\ Drained'.pc = Completed.pc
                /\ ~(if_id.valid /\ ~flush_id_ex /\ decoded.kind = "Invalid")
             \/ /\ if_id.valid /\ ~flush_id_ex /\ decoded.kind = "Invalid"
                /\ Drained'.pc = add32(Completed.pc, 4)
  <2>1. ~id_ex'.valid
    BY <1>2, StageIdFacts
  <2>2. Drained'.pc = IF if_id'.valid THEN if_id'.pc ELSE pc'
    BY <2>1 DEF Drained
  <2>3. CASE stall_fetch_decode
    <3>1. if_id.valid /\ ~flush_id_ex
      BY <2>3 DEF stall_fetch_decode
    <3>2. ~fetch_stopped
      BY <1>2, <3>1
      DEF fetch_stopped, stop_fetch, halt_is_in_flight, IInv, HaltBarrier
    <3>3. if_id' = if_id
      BY <2>3, <3>2, StageIfFacts
    <3>4. Completed.pc = if_id.pc
      BY <3>1, CompletedPc
    <3> QED
      BY <2>2, <2>3, <3>1, <3>3, <3>4
      DEF stall_fetch_decode, is_valid_instruction
  <2>4. CASE ~stall_fetch_decode
    <3>1. Drained'.pc = pc_after_ex
      BY <2>2, <2>4, StageIfFacts
    <3>2. CASE flush_id_ex
      BY <3>1, <3>2, CompletedPc
    <3>3. CASE ~flush_id_ex /\ ~if_id.valid
      <4>1. pc_after_ex = pc
        BY <3>3 DEF pc_after_ex
      <4> QED
        BY <3>1, <3>3, <4>1, CompletedPc
    <3>4. CASE ~flush_id_ex /\ if_id.valid
      <4>1. decoded.kind = "Invalid"
        BY <1>2, <2>4, <3>4 DEF id_issues, is_valid_instruction
      <4>2. if_id.instruction \in Word
        BY DEF IInv, TypeOK, IFIDRegister
      <4>3. ~decoded.control.branch
        BY <4>1, <4>2, ControlFacts DEF decoded, BranchKinds
      <4>4. pc = add32(if_id.pc, 4)
        BY <3>4, <4>3 DEF IInv, PathIsConnected
      <4>5. pc_after_ex = pc
        BY <3>4 DEF pc_after_ex
      <4>6. Completed.pc = if_id.pc
        BY <3>4, CompletedPc
      <4> QED
        BY <3>1, <3>4, <4>1, <4>4, <4>5, <4>6
    <3> QED
      BY <3>2, <3>3, <3>4
  <2> QED
    BY <2>3, <2>4
<1> QED
  BY <1>1, <1>2

\* Behind an instruction in decode there is no halt left to take effect.
LEMMA NoHaltCompleted ==
    ASSUME IInv, run_pipeline_cycle, if_id.valid
    PROVE  Drained'.halted = FALSE
<1>1. /\ ~halted'
      /\ ~(mem_wb'.valid /\ mem_wb'.control.halt)
      /\ ~(ex_mem'.valid /\ ex_mem'.control.halt)
  <2>1. ~(id_ex.valid /\ id_ex.control.halt)
    BY DEF IInv, HaltBarrier
  <2>2. ~halted'
    BY NoHaltAhead DEF run_pipeline_cycle, stage_WB
  <2>3. ~(mem_wb'.valid /\ mem_wb'.control.halt)
    BY NoHaltAhead, StageMemFacts
  <2>4. ~(ex_mem'.valid /\ ex_mem'.control.halt)
    BY <2>1, StageExFacts
  <2> QED
    BY <2>2, <2>3, <2>4
<1>2. Drained'.halted = (\/ halted'
                         \/ mem_wb'.valid /\ mem_wb'.control.halt
                         \/ ex_mem'.valid /\ ex_mem'.control.halt)
  BY Zenon DEF Drained
<1>3. (\/ halted'
       \/ mem_wb'.valid /\ mem_wb'.control.halt
       \/ ex_mem'.valid /\ ex_mem'.control.halt) = FALSE
  BY <1>1, Zenon
<1> QED
  BY <1>2, <1>3, Zenon

\* A word that the store in a latch does not touch.
LEMMA ReadPastStore ==
    ASSUME NEW m \in Memory, NEW l \in EXMEMRegister,
           NEW p \in Word, valid_memory_access(p, 4),
           access_bytes(p, 4) \cap LatchStores(l) = {}
    PROVE  read_u32(IF is_store(l)
                    THEN write_memory(m, l.alu_result, l.store_value, l.control)
                    ELSE m, p)
             = read_u32(m, p)
<1>1. CASE is_store(l)
  <2>1. l.alu_result \in Word
    BY DEF EXMEMRegister
  <2>2. width_bytes(l.control) \in Int
    BY WidthType
  <2>3. access_bytes(p, 4)
          \cap access_bytes(l.alu_result, width_bytes(l.control)) = {}
    BY <1>1 DEF LatchStores
  <2>4. read_u32(write_bytes(m, l.alu_result, l.store_value,
                             width_bytes(l.control)), p) = read_u32(m, p)
    BY <2>1, <2>2, <2>3, ReadUnaffected
  <2> QED
    BY <1>1, <2>4 DEF write_memory
<1>2. CASE ~is_store(l)
  BY <1>2
<1> QED
  BY <1>1, <1>2

\* The instruction in IF/ID is one the instruction set may fetch.
LEMMA WordIsFetchable ==
    ASSUME IInv, run_pipeline_cycle, ~memory_access_throws',
           if_id.valid, ~flush_id_ex
    PROVE  /\ CanExecute(Abs)
           /\ if_id.instruction \in Fetchable(Abs)
<1>1. Abs.pc = if_id.pc
  BY CompletedFields, CompletedPc
<1>2. valid_memory_access(if_id.pc, 4)
  BY DEF IInv, FetchIsFresh
<1>3. CanExecute(Abs)
  BY <1>1, <1>2, CompletedFields, NoHaltCompleted DEF CanExecute
<1>4. if_id.instruction \in Word /\ if_id.pc \in Word
  BY DEF IInv, TypeOK, IFIDRegister
<1>5. memory \in Memory /\ ex_mem \in EXMEMRegister
  BY DEF IInv, TypeOK
<1>6. memory' \in Memory /\ ex_mem' \in EXMEMRegister
  BY NextType DEF IInv, Next, TypeOK
<1>7. /\ memory' = memory_after_mem
      /\ Abs.mem = memory_after_mem'
  BY CompletedFields DEF run_pipeline_cycle, stage_MEM
<1>8. ASSUME access_bytes(if_id.pc, 4) \cap (Abs.recent \cup Abs.older) = {}
      PROVE  if_id.instruction = read_u32(Abs.mem, if_id.pc)
  <2>1. CASE id_ex.valid
    <3>1. /\ Abs.recent = LatchStores(ex_mem)'
          /\ Abs.older = LatchStores(ex_mem)
      BY <2>1, DrainExecuted, LatchStoresMove
    <3>2. LatchStores(ex_mem)' = LatchStores(ex_mem')
      BY DEF LatchStores, is_store
    <3>3. if_id.instruction = read_u32(memory, if_id.pc)
      BY <2>1 DEF IInv, FetchIsFresh
    <3>4. read_u32(memory_after_mem, if_id.pc) = read_u32(memory, if_id.pc)
      BY <1>2, <1>4, <1>5, <1>8, <3>1, ReadPastStore DEF memory_after_mem
    <3>5. memory_after_mem' =
            IF is_store(ex_mem')
            THEN write_memory(memory', ex_mem'.alu_result,
                              ex_mem'.store_value, ex_mem'.control)
            ELSE memory'
      BY DEF memory_after_mem, is_store, write_memory
    <3>6. access_bytes(if_id.pc, 4) \cap LatchStores(ex_mem') = {}
      BY <1>8, <3>1, <3>2
    <3>7. read_u32(memory_after_mem', if_id.pc) = read_u32(memory', if_id.pc)
      BY <1>2, <1>4, <1>6, <3>5, <3>6, ReadPastStore
    <3> QED
      BY <1>7, <3>3, <3>4, <3>7
  <2>2. CASE ~id_ex.valid
    <3>1. Abs = Drained /\ memory_after_mem' = memory_after_mem
      BY <2>2, DrainBubble
    <3>2. /\ Abs.recent = LatchStores(ex_mem)
          /\ Abs.older = LatchStores(mem_wb)
      BY <3>1 DEF Drained
    <3>3. if_id.instruction = read_u32(memory, if_id.pc)
      BY <1>8, <3>2 DEF IInv, FetchIsFresh
    <3>4. read_u32(memory_after_mem, if_id.pc) = read_u32(memory, if_id.pc)
      BY <1>2, <1>4, <1>5, <1>8, <3>2, ReadPastStore DEF memory_after_mem
    <3> QED
      BY <1>7, <3>1, <3>3, <3>4
  <2> QED
    BY <2>1, <2>2
<1> QED
  BY <1>1, <1>3, <1>4, <1>8 DEF Fetchable

-----------------------------------------------------------------------------
(* Every cycle is a step of the instruction set, or none *)

\* A cycle that leaves a faulting access in EX/MEM has been executed before.
LEMMA FaultStutters ==
    ASSUME IInv, run_pipeline_cycle, memory_access_throws'
    PROVE  Abs' = Abs
<1> DEFINE d == decode_instruction[id_ex.instruction]
<1>1. id_ex.valid
  BY DrainBubble
<1>2. ~memory_access_throws
  BY DEF run_pipeline_cycle
<1>3. Faults(Drained, d)
  BY <1>1, FaultMatches
<1>4. d.kind # "Invalid"
  BY <1>1, <1>2, ExecutingFacts
<1>5. Abs = [Drained EXCEPT !.error = TRUE, !.recent = {}, !.older = {}]
  BY <1>1, <1>2, <1>3, <1>4, Zenon DEF Abs, ExecWord, Exec
<1>6. Drained.halted = FALSE
  BY <1>1, NoHaltAhead
<1>7. /\ Drained.regs = RegsDrained
      /\ Drained.mem = memory_after_mem
      /\ Drained.pc = id_ex.pc
      /\ Drained.writes = memory_writes_after_mem
  BY <1>1 DEF Drained
<1>8. Abs = [regs |-> RegsDrained, mem |-> memory_after_mem, pc |-> id_ex.pc,
             halted |-> FALSE, error |-> TRUE,
             writes |-> memory_writes_after_mem, recent |-> {}, older |-> {}]
  BY <1>5, <1>6, <1>7 DEF Drained
<1>9. /\ regs' = write_back(regs, mem_wb) /\ mem_wb' = next_mem_wb
      /\ memory' = memory_after_mem
      /\ memory_writes' = memory_writes_after_mem
      /\ ex_mem'.pc = id_ex.pc
  BY <1>1, StageExFacts DEF run_pipeline_cycle, stage_WB, stage_MEM
<1>10. Abs' = Faulted'
  BY DEF Abs
<1>11. write_back(regs, mem_wb)' = RegsDrained
  BY <1>9 DEF RegsDrained, write_back, select_writeback_value
<1> QED
  BY <1>8, <1>9, <1>10, <1>11 DEF Faulted

(***************************************************************************)
(* A cycle executes the word in IF/ID, which counts if decode issues it, or *)
(* it executes nothing; an unknown word is executed when decode drops it.   *)
(***************************************************************************)
LEMMA CycleExecutes ==
    ASSUME IInv, run_pipeline_cycle, ~memory_access_throws'
    PROVE  \/ ~id_issues /\ Abs' \in {Abs, Settled(Abs)}
           \/ /\ CanExecute(Abs) /\ if_id.instruction \in Fetchable(Abs)
              /\ id_issues <=> is_valid_instruction(decoded)
              /\ \E s \in {Abs, Settled(Abs)} :
                   Abs' = ExecWord(s, if_id.instruction)
<1>1. /\ Drained' = AtPc(Completed, Drained'.pc)
      /\ Completed = AtPc(Completed, Completed.pc)
      /\ Completed \in {Abs, Settled(Abs)}
  BY DrainCompleted, CompletedFields
<1>2. CASE id_issues
  <2>1. id_ex'.valid /\ id_ex'.instruction = if_id.instruction
    BY <1>2, StageIdFacts
  <2>2. Drained' = Completed
    BY <1>1, <1>2, NextPcOfCycle
  <2>3. Abs' = ExecWord(Drained', if_id.instruction)
    BY <2>1, Zenon DEF Abs, ExecWord
  <2>4. Abs' = ExecWord(Completed, if_id.instruction)
    BY <2>2, <2>3
  <2>5. /\ CanExecute(Abs)
        /\ if_id.instruction \in Fetchable(Abs)
    BY <1>2, WordIsFetchable DEF id_issues
  <2>6. is_valid_instruction(decoded)
    BY <1>2 DEF id_issues
  <2> QED
    BY <1>1, <1>2, <2>4, <2>5, <2>6
<1>3. CASE ~id_issues
  <2>1. ~id_ex'.valid
    BY <1>3, StageIdFacts
  <2>2. Abs' = Drained'
    BY <2>1 DEF Abs
  <2>3. CASE Drained'.pc = Completed.pc
    <3>1. Abs' = Completed
      BY <1>1, <2>2, <2>3
    <3> QED
      BY <1>1, <1>3, <3>1
  <2>4. CASE /\ if_id.valid /\ ~flush_id_ex /\ decoded.kind = "Invalid"
             /\ Drained'.pc = add32(Completed.pc, 4)
    <3>1. /\ CanExecute(Abs)
          /\ if_id.instruction \in Fetchable(Abs)
      BY <2>4, WordIsFetchable
    <3>2. ExecWord(Completed, if_id.instruction) =
            [Completed EXCEPT !.pc = add32(Completed.pc, 4)]
      BY <2>4, Zenon DEF ExecWord, Exec, decoded
    <3>3. [Completed EXCEPT !.pc = add32(Completed.pc, 4)] =
            AtPc(Completed, add32(Completed.pc, 4))
      BY <1>1 DEF AtPc
    <3>4. Abs' = ExecWord(Completed, if_id.instruction)
      BY <1>1, <2>2, <2>4, <3>2, <3>3
    <3>5. ~is_valid_instruction(decoded)
      BY <2>4 DEF is_valid_instruction
    <3> QED
      BY <1>1, <1>3, <3>1, <3>4, <3>5
  <2> QED
    BY <1>3, <2>3, <2>4, NextPcOfCycle
<1> QED
  BY <1>2, <1>3

\* Every cycle is a step of the instruction set, or leaves its state alone.
LEMMA CycleRefines ==
    ASSUME IInv, run_pipeline_cycle
    PROVE  IsaRef!IsaNext \/ Abs' = Abs
<1>1. CASE memory_access_throws'
  BY <1>1, FaultStutters
<1>2. CASE ~memory_access_throws'
  BY <1>2, CycleExecutes DEF IsaRef!IsaNext, IsaRef!Settle, IsaRef!Execute
<1> QED
  BY <1>1, <1>2

\* The exception itself changes nothing the instruction set can see.
LEMMA ThrowStutters ==
    ASSUME IInv, run_pipeline_cycle_throws
    PROVE  Abs' = Abs
<1>1. memory_access_throws /\ regs' = write_back(regs, mem_wb)
  BY DEF run_pipeline_cycle_throws, stage_WB
<1>2. UNCHANGED <<memory, memory_writes, ex_mem, mem_wb>>
  BY DEF run_pipeline_cycle_throws
<1>3. memory_access_throws'
  BY <1>1, <1>2 DEF memory_access_throws
<1>4. regs \in RegFile /\ mem_wb \in MEMWBRegister
  BY DEF IInv, TypeOK
<1>5. write_back(regs, mem_wb)' = write_back(regs, mem_wb)
  <2>1. write_back(regs, mem_wb)' = write_back(write_back(regs, mem_wb), mem_wb)
    BY <1>1, <1>2 DEF write_back, select_writeback_value
  <2> QED
    BY <1>4, <2>1, WriteBackIdempotent
<1> QED
  BY <1>1, <1>2, <1>3, <1>5 DEF Abs, Faulted

\* A step that changes no variable leaves the abstract state alone.
LEMMA StutterStutters == ASSUME UNCHANGED vars PROVE Abs' = Abs
<1>1. /\ RegsDrained' = RegsDrained
      /\ memory_after_mem' = memory_after_mem
      /\ memory_writes_after_mem' = memory_writes_after_mem
      /\ LatchStores(ex_mem)' = LatchStores(ex_mem)
      /\ LatchStores(mem_wb)' = LatchStores(mem_wb)
      /\ memory_access_throws' = memory_access_throws
      /\ write_back(regs, mem_wb)' = write_back(regs, mem_wb)
  BY Zenon DEF vars, RegsDrained, memory_after_mem, memory_writes_after_mem,
     LatchStores, memory_access_throws, next_mem_wb, write_back, is_store,
     select_writeback_value
<1>2. Drained' = Drained /\ Faulted' = Faulted
  BY <1>1, Zenon DEF vars, Drained, Faulted
<1> QED
  BY <1>1, <1>2 DEF vars, Abs

\* The abstract state of a CPU that has just been loaded.
LEMMA LoadedState ==
    ASSUME Init
    PROVE  Abs = [regs |-> regs, mem |-> memory, pc |-> pc, halted |-> FALSE,
                  error |-> FALSE, writes |-> {}, recent |-> {}, older |-> {}]
<1>1. ~if_id.valid /\ ~id_ex.valid /\ ~ex_mem.valid /\ ~mem_wb.valid
  BY DEF Init, empty_if_id, empty_id_ex, empty_ex_mem, empty_mem_wb
<1>2. Abs = Drained
  BY <1>1 DEF Abs, memory_access_throws
<1>3. RegsDrained = regs
  BY <1>1 DEF RegsDrained, write_back, next_mem_wb, empty_mem_wb
<1>4. /\ memory_after_mem = memory /\ memory_writes_after_mem = memory_writes
      /\ LatchStores(ex_mem) = {} /\ LatchStores(mem_wb) = {}
  BY <1>1 DEF memory_after_mem, memory_writes_after_mem, LatchStores, is_store
<1> QED
  BY <1>1, <1>2, <1>3, <1>4 DEF Drained, Init

\* A CPU that has just been loaded has executed nothing.
LEMMA InitRefines == Init => IsaRef!IsaInit
<1> SUFFICES ASSUME Init PROVE IsaRef!IsaInit
  OBVIOUS
<1>1. TypeOK
  BY InitType
<1>2. Abs = [regs |-> regs, mem |-> memory, pc |-> pc, halted |-> FALSE,
             error |-> FALSE, writes |-> {}, recent |-> {}, older |-> {}]
  BY LoadedState
<1>3. Abs \in ArchState
  BY <1>1, <1>2 DEF ArchState, TypeOK
<1>4. NothingExecuted(Abs)
  BY <1>2 DEF NothingExecuted, Init
<1> QED
  BY <1>3, <1>4 DEF IsaRef!IsaInit

\* Every step of the pipeline is a step of the instruction set, or none.
LEMMA NextRefines ==
    ASSUME IInv, [Next]_vars
    PROVE  IsaRef!IsaNext \/ Abs' = Abs
<1>1. CASE run_pipeline_cycle
  BY <1>1, CycleRefines
<1>2. CASE run_pipeline_cycle_throws
  BY <1>2, ThrowStutters
<1>3. CASE UNCHANGED vars
  BY <1>3, StutterStutters
<1> QED
  BY <1>1, <1>2, <1>3 DEF Next

(***************************************************************************)
(* The pipeline implements the instruction set, for every program, every    *)
(* memory size and every predictor: whatever it stalls, flushes, forwards   *)
(* or predicts, the instructions that leave decode are those of a           *)
(* sequential execution, each with the registers and the memory the one     *)
(* before it left.                                                          *)
(***************************************************************************)
THEOREM RefinesIsa == Spec => ImplementsIsa
<1>1. Init => IsaRef!IsaInit
  BY InitRefines
<1>2. IInv /\ [Next]_vars => [IsaRef!IsaNext]_Abs
  BY NextRefines
<1> QED
  BY <1>1, <1>2, InvariantHolds, PTL DEF Spec, ImplementsIsa, IsaRef!IsaSpec

-----------------------------------------------------------------------------
(* The state a run stops in *)

\* When the run stops, the CPU holds an architectural state.
LEMMA StoppedFromInvariant == IInv => StoppedStateIsArchitectural
<1> SUFFICES ASSUME IInv, ~Running PROVE StoppedStateIsArchitectural
  BY DEF StoppedStateIsArchitectural
<1> USE DEF IInv
<1>b. halted \in BOOLEAN /\ error \in BOOLEAN
  BY DEF TypeOK
<1>1. CASE error
  <2>1. memory_access_throws /\ regs = write_back(regs, mem_wb) /\ ~halted
    BY <1>1 DEF ErrorIsFinal
  <2>2. Abs = Faulted
    BY <2>1 DEF Abs
  <2>3. /\ Abs.regs = regs
        /\ Abs.mem = memory
        /\ Abs.writes = memory_writes
    BY <2>1, <2>2 DEF Faulted
  <2>4. Abs.halted = FALSE /\ Abs.error = TRUE
    BY <2>2, Zenon DEF Faulted
  <2>5. halted = Abs.halted /\ error = Abs.error
    BY <1>b, <1>1, <2>1, <2>4, Zenon
  <2> QED
    BY <2>1, <2>3, <2>5, Zenon DEF StoppedStateIsArchitectural
<1>2. CASE ~error /\ halted
  <2>1. ~if_id.valid /\ ~id_ex.valid /\ ~ex_mem.valid /\ ~mem_wb.valid
    BY <1>2 DEF HaltBarrier
  <2>2. Abs = Drained
    BY <2>1 DEF Abs, memory_access_throws
  <2>3. ~next_mem_wb.valid
    BY <2>1 DEF next_mem_wb, empty_mem_wb
  <2>4. RegsDrained = regs
    BY <2>1, <2>3 DEF RegsDrained, write_back
  <2>5. memory_after_mem = memory /\ memory_writes_after_mem = memory_writes
    BY <2>1 DEF memory_after_mem, memory_writes_after_mem, is_store
  <2>6. /\ Abs.regs = regs
        /\ Abs.mem = memory
        /\ Abs.writes = memory_writes
        /\ Abs.pc = pc
    BY <2>1, <2>2, <2>4, <2>5 DEF Drained
  <2>7. Abs.error = FALSE /\ Abs.halted = TRUE
    BY <1>2, <2>2, Zenon DEF Drained
  <2>8. halted = Abs.halted /\ error = Abs.error
    BY <1>b, <1>2, <2>7, Zenon
  <2> QED
    BY <2>6, <2>8, Zenon DEF StoppedStateIsArchitectural
<1> QED
  BY <1>1, <1>2 DEF Running, TypeOK

(***************************************************************************)
(* What a run leaves behind, when it halts or faults, is the state of the   *)
(* instruction set after exactly the instructions that took effect.         *)
(***************************************************************************)
THEOREM StoppedStateCorrect == Spec => []StoppedStateIsArchitectural
BY InvariantHolds, StoppedFromInvariant, PTL

=============================================================================
