---------------------------- MODULE IsaSemantics ----------------------------
(***************************************************************************)
(* What each RV32I instruction does to the architectural state: the part     *)
(* Spike plays in the repository's co-simulation scripts.  The instructions  *)
(* are defined by kind, without the control signals the pipeline is driven   *)
(* by.                                                                      *)
(*                                                                          *)
(* Two things are taken from the simulator because the instruction set       *)
(* leaves them open: an unknown instruction is skipped, and an instruction   *)
(* fetch may miss the stores of the two instructions before it (there is no  *)
(* FENCE.I), in which case what it fetches is unspecified.                  *)
(***************************************************************************)
EXTENDS Datapath

(***************************************************************************)
(* The architectural state.  `writes` is the set of stores made so far;     *)
(* `recent` and `older` are the bytes stored by the last instruction and by *)
(* the one before it, which an instruction fetch need not see yet.          *)
(***************************************************************************)
ArchState ==
    [regs : RegFile, mem : Memory, pc : Word, halted : BOOLEAN,
     error : BOOLEAN, writes : SUBSET (Word \X {1, 2, 4}),
     recent : SUBSET Address, older : SUBSET Address]

AccessWidth(kind) ==
    CASE kind \in {"Lb", "Lbu", "Sb"} -> 1
      [] kind \in {"Lh", "Lhu", "Sh"} -> 2
      [] kind \in {"Lw", "Sw"}        -> 4
      [] OTHER                        -> 0

LoadValue(mem, address, kind) ==
    CASE kind = "Lb"  -> sign_extend_value(read_u8(mem, address), ByteSize)
      [] kind = "Lbu" -> read_u8(mem, address)
      [] kind = "Lh"  -> sign_extend_value(read_u16(mem, address),
                                           ByteSize * ByteSize)
      [] kind = "Lhu" -> read_u16(mem, address)
      [] OTHER        -> read_u32(mem, address)

BranchTaken(kind, a, b) ==
    CASE kind = "Beq"  -> a = b
      [] kind = "Bne"  -> a # b
      [] kind = "Blt"  -> signed32(a) < signed32(b)
      [] kind = "Bge"  -> signed32(a) >= signed32(b)
      [] kind = "Bltu" -> a < b
      [] OTHER         -> a >= b

Rs1(s, d) == read_reg(s.regs, d.rs1)
Rs2(s, d) == read_reg(s.regs, d.rs2)

\* The effective address of a load or store.
EffectiveAddress(s, d) == add32(Rs1(s, d), d.immediate)

Faults(s, d) ==
    ~valid_memory_access(EffectiveAddress(s, d), AccessWidth(d.kind))

\* The value of the destination register.
Result(s, d) ==
    CASE d.kind \in AluRegKinds ->
            execute_alu(alu_op_of(d.kind), Rs1(s, d), Rs2(s, d))
      [] d.kind \in AluImmKinds ->
            execute_alu(alu_op_of(d.kind), Rs1(s, d), d.immediate)
      [] d.kind \in LoadKinds ->
            LoadValue(s.mem, EffectiveAddress(s, d), d.kind)
      [] d.kind = "Lui"   -> d.immediate
      [] d.kind = "Auipc" -> add32(s.pc, d.immediate)
      [] OTHER            -> add32(s.pc, 4)

HasResult(kind) ==
    kind \in AluRegKinds \cup AluImmKinds \cup LoadKinds
               \cup {"Lui", "Auipc", "Jal", "Jalr"}

NextPc(s, d) ==
    CASE d.kind \in BranchKinds /\ BranchTaken(d.kind, Rs1(s, d), Rs2(s, d)) ->
            add32(s.pc, d.immediate)
      [] d.kind = "Jal"  -> add32(s.pc, d.immediate)
      [] d.kind = "Jalr" -> EffectiveAddress(s, d) - (EffectiveAddress(s, d) % 2)
      [] OTHER           -> add32(s.pc, 4)

StoredBytes(s, d) ==
    IF d.kind \in StoreKinds
    THEN access_bytes(EffectiveAddress(s, d), AccessWidth(d.kind))
    ELSE {}

\* The state after the instruction d.
Exec(s, d) ==
    IF d.kind = "Invalid" THEN [s EXCEPT !.pc = add32(s.pc, 4)]
    ELSE IF Faults(s, d)
    THEN [s EXCEPT !.error = TRUE, !.recent = {}, !.older = {}]
    ELSE [regs |-> IF HasResult(d.kind)
                   THEN write_reg(s.regs, d.rd, Result(s, d))
                   ELSE s.regs,
          mem |-> IF d.kind \in StoreKinds
                  THEN write_bytes(s.mem, EffectiveAddress(s, d), Rs2(s, d),
                                   AccessWidth(d.kind))
                  ELSE s.mem,
          pc |-> NextPc(s, d),
          halted |-> d.kind \in HaltKinds,
          error |-> FALSE,
          writes |-> IF d.kind \in StoreKinds
                     THEN s.writes \cup {<<EffectiveAddress(s, d),
                                           AccessWidth(d.kind)>>}
                     ELSE s.writes,
          recent |-> StoredBytes(s, d),
          older |-> s.recent]

-----------------------------------------------------------------------------
\* The instruction words a fetch at s.pc may return.
Fetchable(s) ==
    IF access_bytes(s.pc, 4) \cap (s.recent \cup s.older) = {}
    THEN {read_u32(s.mem, s.pc)}
    ELSE Word

\* The stores of the last instruction but one have reached instruction fetch.
Settled(s) == [s EXCEPT !.recent = {}, !.older = s.recent]

CanExecute(s) == ~s.halted /\ ~s.error /\ valid_memory_access(s.pc, 4)

NothingExecuted(s) ==
    /\ s.regs = [r \in RegIndex |-> 0]
    /\ ~s.halted
    /\ ~s.error
    /\ s.writes = {}
    /\ s.recent = {}
    /\ s.older = {}

ExecWord(s, word) == Exec(s, decode_instruction[word])

=============================================================================
