---------------------------- MODULE GoldenProofs ----------------------------
(***************************************************************************)
(* The golden test tells the truth, for every program, every width, every   *)
(* memory size and every selection of ranges.                               *)
(*                                                                          *)
(* The simulator and Spike run one after the other, so an invariant has to   *)
(* say what the simulator's finished run tells about a run of Spike that    *)
(* has still to come.  It says that a path of the instruction set leads      *)
(* from Spike's state to the simulator's.  The simulator lengthens the path *)
(* at its far end, by the refinement of Isa; Spike then walks along it,     *)
(* because the instruction set leaves it no other step.  Each state of the  *)
(* path carries the number of instructions executed before it, so that both *)
(* counters can be read off its ends.                                       *)
(***************************************************************************)
EXTENDS Golden, SimulatorProofs

-----------------------------------------------------------------------------
(* The architectural states *)

\* The address a load, store or jalr computes, and the operands, are words.
LEMMA ExecOperands ==
    ASSUME NEW s \in ArchState, NEW d \in DecodedInstruction
    PROVE  /\ Rs1(s, d) \in Word /\ Rs2(s, d) \in Word
           /\ EffectiveAddress(s, d) \in Word
<1>1. s.regs \in RegFile
  BY DEF ArchState
<1>2. d.rs1 \in RegIndex /\ d.rs2 \in RegIndex /\ d.immediate \in Word
  BY DEF DecodedInstruction
<1>3. Rs1(s, d) \in Word /\ Rs2(s, d) \in Word
  <2>1. 0 \in Word
    BY WordSizeFacts
  <2> QED
    BY <1>1, <1>2, <2>1, RegisterTypes DEF Rs1, Rs2
<1> QED
  BY <1>2, <1>3, Add32Type DEF EffectiveAddress

\* A load in range returns a word.
LEMMA LoadValueType ==
    ASSUME NEW m \in Memory, NEW a \in Word, NEW kind \in LoadKinds,
           valid_memory_access(a, AccessWidth(kind))
    PROVE  LoadValue(m, a, kind) \in Word
<1> USE WordSizeFacts
<1>1. CASE kind \in {"Lb", "Lbu"}
  <2>1. AccessWidth(kind) = 1
    BY <1>1, Zenon DEF AccessWidth
  <2>2. read_u8(m, a) \in 0 .. ByteSize - 1
    BY <2>1, ReadTypes
  <2>3. sign_extend_value(read_u8(m, a), ByteSize) \in Word
    BY <2>2, SignExtendType
  <2>4. read_u8(m, a) \in Word
    BY <2>2 DEF Word
  <2> QED
    BY <1>1, <2>3, <2>4 DEF LoadValue
<1>2. CASE kind \in {"Lh", "Lhu"}
  <2>1. AccessWidth(kind) = 2
    BY <1>2, Zenon DEF AccessWidth
  <2>2. read_u16(m, a) \in 0 .. ByteSize * ByteSize - 1
    BY <2>1, ReadTypes
  <2>3. sign_extend_value(read_u16(m, a), ByteSize * ByteSize) \in Word
    BY <2>2, SignExtendType
  <2>4. read_u16(m, a) \in Word
    BY <2>2 DEF Word
  <2> QED
    BY <1>2, <2>3, <2>4 DEF LoadValue
<1>3. CASE kind = "Lw"
  <2>1. AccessWidth(kind) = 4
    BY <1>3, Zenon DEF AccessWidth
  <2>2. read_u32(m, a) \in Word
    BY <2>1, ReadTypes
  <2> QED
    BY <1>3, <2>2 DEF LoadValue
<1> QED
  BY <1>1, <1>2, <1>3 DEF LoadKinds

\* What an instruction writes to its destination register is a word.
LEMMA ResultType ==
    ASSUME NEW s \in ArchState, NEW d \in DecodedInstruction, ~Faults(s, d)
    PROVE  HasResult(d.kind) => Result(s, d) \in Word
<1>1. /\ s.mem \in Memory /\ s.pc \in Word /\ 4 \in Word
      /\ d.immediate \in Word
  BY WordSizeFacts DEF ArchState, DecodedInstruction
<1>2. /\ Rs1(s, d) \in Word /\ Rs2(s, d) \in Word
      /\ EffectiveAddress(s, d) \in Word
  BY ExecOperands
<1>3. CASE d.kind \in AluRegKinds \cup AluImmKinds
  <2>1. \A op \in ALUOp : \A a, b \in Word : execute_alu(op, a, b) \in Word
    BY AluAssumption
  <2>2. alu_op_of(d.kind) \in ALUOp
    BY DEF alu_op_of, ALUOp
  <2>3. CASE d.kind \in AluRegKinds
    <3>1. Result(s, d) = execute_alu(alu_op_of(d.kind), Rs1(s, d), Rs2(s, d))
      BY <2>3, <1>3, Zenon DEF Result, AluRegKinds, AluImmKinds, LoadKinds
    <3> QED
      BY <1>2, <2>1, <2>2, <3>1
  <2>4. CASE d.kind \in AluImmKinds
    <3>1. d.kind \notin AluRegKinds
      BY <2>4 DEF AluRegKinds, AluImmKinds
    <3>2. Result(s, d) = execute_alu(alu_op_of(d.kind), Rs1(s, d), d.immediate)
      BY <2>4, <3>1 DEF Result, AluRegKinds, AluImmKinds, LoadKinds
    <3> QED
      BY <1>1, <1>2, <2>1, <2>2, <3>2
  <2> QED
    BY <1>3, <2>3, <2>4
<1>4. CASE d.kind \in LoadKinds
  <2>1. Result(s, d) = LoadValue(s.mem, EffectiveAddress(s, d), d.kind)
    BY <1>4 DEF Result, AluRegKinds, AluImmKinds, LoadKinds
  <2>2. valid_memory_access(EffectiveAddress(s, d), AccessWidth(d.kind))
    BY DEF Faults
  <2> QED
    BY <1>1, <1>2, <1>4, <2>1, <2>2, LoadValueType
<1>5. CASE d.kind \in {"Lui", "Auipc", "Jal", "Jalr"}
  <2>1. Result(s, d) \in {d.immediate, add32(s.pc, d.immediate),
                          add32(s.pc, 4)}
    BY <1>5 DEF Result, AluRegKinds, AluImmKinds, LoadKinds
  <2> QED
    BY <1>1, <2>1, Add32Type
<1> QED
  BY <1>3, <1>4, <1>5 DEF HasResult

\* The next pc is a word.
LEMMA NextPcType ==
    ASSUME NEW s \in ArchState, NEW d \in DecodedInstruction
    PROVE  NextPc(s, d) \in Word
<1>1. /\ add32(s.pc, 4) \in Word
      /\ add32(s.pc, d.immediate) \in Word
  BY WordSizeFacts, Add32Type DEF ArchState, DecodedInstruction
<1>2. EffectiveAddress(s, d) - (EffectiveAddress(s, d) % 2) \in Word
  <2> DEFINE e == EffectiveAddress(s, d)
  <2>1. e \in Word
    BY ExecOperands
  <2> HIDE DEF e
  <2>2. e - (e % 2) \in Word
    BY <2>1, WordSizeFacts DEF Word
  <2> QED
    BY <2>2 DEF e
<1> QED
  BY <1>1, <1>2 DEF NextPc

\* An instruction leads from an architectural state to another.
LEMMA ExecType ==
    ASSUME NEW s \in ArchState, NEW d \in DecodedInstruction
    PROVE  Exec(s, d) \in ArchState
<1> DEFINE e == EffectiveAddress(s, d)
           width == AccessWidth(d.kind)
<1>1. /\ s.regs \in RegFile /\ s.mem \in Memory /\ s.pc \in Word
      /\ s.writes \in SUBSET (Word \X {1, 2, 4})
      /\ s.recent \in SUBSET Address
  BY DEF ArchState
<1>2. e \in Word /\ Rs2(s, d) \in Word
  BY ExecOperands
<1>3. CASE d.kind = "Invalid"
  <2>1. add32(s.pc, 4) \in Word
    BY <1>1, WordSizeFacts, Add32Type
  <2> QED
    BY <1>3, <2>1 DEF Exec, ArchState
<1>4. CASE d.kind # "Invalid" /\ Faults(s, d)
  BY <1>4 DEF Exec, ArchState
<1>5. CASE d.kind # "Invalid" /\ ~Faults(s, d)
  <2>1. d.kind \in StoreKinds => width \in {1, 2, 4}
    BY DEF AccessWidth, StoreKinds
  <2>2. StoredBytes(s, d) \in SUBSET Address
    <3> SUFFICES ASSUME d.kind \in StoreKinds
                 PROVE  access_bytes(e, width) \in SUBSET Address
      BY DEF StoredBytes
    <3>1. width \in {1, 2, 4} /\ valid_memory_access(e, width)
      BY <1>5, <2>1 DEF Faults
    <3> HIDE DEF e, width
    <3> QED
      BY <1>2, <3>1, CpuAssumption, WordSizeFacts
         DEF access_bytes, valid_memory_access, Address, Word
  <2>3. HasResult(d.kind) =>
          write_reg(s.regs, d.rd, Result(s, d)) \in RegFile
    BY <1>1, <1>5, ResultType, RegisterTypes DEF DecodedInstruction
  <2>4. write_bytes(s.mem, e, Rs2(s, d), width) \in Memory
        \/ d.kind \notin StoreKinds
    BY <1>1, <1>2, <2>1, WriteBytesType
  <2>5. NextPc(s, d) \in Word
    BY NextPcType
  <2>6. d.kind \in StoreKinds =>
          s.writes \cup {<<e, width>>} \in SUBSET (Word \X {1, 2, 4})
    BY <1>1, <1>2, <2>1
  <2> HIDE DEF e, width
  <2>7. Exec(s, d) =
          [regs |-> IF HasResult(d.kind)
                    THEN write_reg(s.regs, d.rd, Result(s, d))
                    ELSE s.regs,
           mem |-> IF d.kind \in StoreKinds
                   THEN write_bytes(s.mem, e, Rs2(s, d), width)
                   ELSE s.mem,
           pc |-> NextPc(s, d),
           halted |-> d.kind \in HaltKinds,
           error |-> FALSE,
           writes |-> IF d.kind \in StoreKinds
                      THEN s.writes \cup {<<e, width>>}
                      ELSE s.writes,
           recent |-> StoredBytes(s, d),
           older |-> s.recent]
    BY <1>5, Zenon DEF Exec, e, width
  <2> QED
    BY <1>1, <2>2, <2>3, <2>4, <2>5, <2>6, <2>7 DEF ArchState
<1> QED
  BY <1>3, <1>4, <1>5

-----------------------------------------------------------------------------
(* The path from Spike's state to the simulator's *)

\* Does the word count as an instruction retired?
Counts(word) == OneIf(is_valid_instruction(decode_instruction[word]))

\* t, after j instructions, is one instruction further than s, after i.
Stepped(s, i, t, j) ==
    /\ CanExecute(s)
    /\ \E word \in Fetchable(s) : t = ExecWord(s, word) /\ j = i + Counts(word)

(***************************************************************************)
(* A set of states, each with the number of instructions counted so far,    *)
(* that leads to last after k of them: each but the last one steps to       *)
(* another of the set, the numbers never pass k, and a halt that is still   *)
(* ahead has still to be counted.                                           *)
(***************************************************************************)
Path(path, last, k) ==
    /\ path \subseteq ArchState \X Nat
    /\ <<last, k>> \in path
    /\ \A s, i :
         <<s, i>> \in path =>
           /\ i <= k
           /\ last.halted /\ ~s.halted => i < k
           /\ \/ s = last /\ i = k
              \/ \E t, j : <<t, j>> \in path /\ Stepped(s, i, t, j)

(***************************************************************************)
(* a is s, except that more of the last stores may have reached fetch: a    *)
(* pipeline that stalls settles stores which Spike, at its next             *)
(* instruction, has just made.                                              *)
(***************************************************************************)
Lags(a, s) ==
    /\ a = [s EXCEPT !.recent = a.recent, !.older = a.older]
    /\ a.recent \subseteq s.recent
    /\ a.older \subseteq s.recent \cup s.older

\* The instruction set leads from s, after i instructions, to a, after k.
Reaches(s, i, a, k) ==
    \E path \in SUBSET (ArchState \X Nat) : \E last \in ArchState :
        <<s, i>> \in path /\ Path(path, last, k) /\ Lags(a, last)

\* What a state and one that lags it have in common.
LEMMA LagsFields ==
    ASSUME NEW s \in ArchState, NEW a, Lags(a, s)
    PROVE  /\ a \in ArchState
           /\ a.regs = s.regs /\ a.mem = s.mem /\ a.pc = s.pc
           /\ a.halted = s.halted /\ a.error = s.error /\ a.writes = s.writes
           /\ a.recent \subseteq s.recent
           /\ a.older \subseteq s.recent \cup s.older
BY DEF Lags, ArchState

\* Every state lags itself.
LEMMA LagsItself == ASSUME NEW s \in ArchState PROVE Lags(s, s)
BY DEF Lags, ArchState

\* A settled state lags too.
LEMMA LagsSettled ==
    ASSUME NEW s \in ArchState, NEW a, Lags(a, s)
    PROVE  Lags(Settled(a), s)
<1>1. a \in ArchState /\ a.recent \subseteq s.recent
  BY LagsFields
<1>2. a = [s EXCEPT !.recent = a.recent, !.older = a.older]
  BY DEF Lags
<1>3. Settled(a) = [s EXCEPT !.recent = {}, !.older = a.recent]
  BY <1>2 DEF Settled, ArchState
<1> QED
  BY <1>1, <1>3 DEF Lags, ArchState

\* The same instruction keeps a lagging state lagging.
LEMMA LagsExec ==
    ASSUME NEW s \in ArchState, NEW a, Lags(a, s), NEW d \in DecodedInstruction
    PROVE  Lags(Exec(a, d), Exec(s, d))
<1>1. /\ a \in ArchState
      /\ a.regs = s.regs /\ a.mem = s.mem /\ a.pc = s.pc
      /\ a.halted = s.halted /\ a.error = s.error /\ a.writes = s.writes
      /\ a.recent \subseteq s.recent
      /\ a.older \subseteq s.recent \cup s.older
  BY LagsFields
<1>2. CASE d.kind = "Invalid"
  BY <1>1, <1>2 DEF Exec, Lags, ArchState
<1>3. CASE d.kind # "Invalid"
  <2>1. Faults(a, d) <=> Faults(s, d)
    BY <1>1, <1>3, ExecCongruent
  <2>2. CASE Faults(s, d)
    BY <1>1, <1>3, <2>1, <2>2 DEF Exec, Lags, ArchState
  <2>3. CASE ~Faults(s, d)
    <3>1. Rs1(a, d) = Rs1(s, d) /\ Rs2(a, d) = Rs2(s, d)
      BY <1>1 DEF Rs1, Rs2
    <3>2. EffectiveAddress(a, d) = EffectiveAddress(s, d)
      BY <3>1 DEF EffectiveAddress
    <3>3. /\ Result(a, d) = Result(s, d) /\ NextPc(a, d) = NextPc(s, d)
          /\ StoredBytes(a, d) = StoredBytes(s, d)
      BY <1>1, <3>1, <3>2, Zenon DEF Result, NextPc, StoredBytes
    <3> DEFINE After(older) ==
          [regs |-> IF HasResult(d.kind)
                    THEN write_reg(s.regs, d.rd, Result(s, d))
                    ELSE s.regs,
           mem |-> IF d.kind \in StoreKinds
                   THEN write_bytes(s.mem, EffectiveAddress(s, d), Rs2(s, d),
                                    AccessWidth(d.kind))
                   ELSE s.mem,
           pc |-> NextPc(s, d),
           halted |-> d.kind \in HaltKinds,
           error |-> FALSE,
           writes |-> IF d.kind \in StoreKinds
                      THEN s.writes \cup {<<EffectiveAddress(s, d),
                                            AccessWidth(d.kind)>>}
                      ELSE s.writes,
           recent |-> StoredBytes(s, d),
           older |-> older]
    <3>4. Exec(s, d) = After(s.recent)
      BY <1>3, <2>3, Zenon DEF Exec
    <3>5. Exec(a, d) = After(a.recent)
      BY <1>1, <1>3, <2>1, <2>3, <3>1, <3>2, <3>3, Zenon DEF Exec
    <3>6. Exec(s, d) \in ArchState /\ Exec(a, d) \in ArchState
      BY <1>1, ExecType
    <3> DEFINE x == After(a.recent)
               y == After(s.recent)
    <3>7. /\ x.regs = y.regs /\ x.mem = y.mem /\ x.pc = y.pc
          /\ x.error = y.error /\ x.writes = y.writes /\ x.recent = y.recent
          /\ x.older = a.recent /\ y.older = s.recent
      OBVIOUS
    <3>8. x.halted = y.halted
      BY Zenon
    <3> HIDE DEF After
    <3> QED
      BY <1>1, <3>4, <3>5, <3>6, <3>7, <3>8 DEF Lags, ArchState
  <2> QED
    BY <2>2, <2>3
<1> QED
  BY <1>2, <1>3

\* What a lagging machine may execute next, the other may too.
LEMMA LagsFetch ==
    ASSUME NEW s \in ArchState, NEW a, Lags(a, s), CanExecute(a)
    PROVE  CanExecute(s) /\ Fetchable(a) \subseteq Fetchable(s)
<1>1. /\ a \in ArchState
      /\ a.mem = s.mem /\ a.pc = s.pc
      /\ a.halted = s.halted /\ a.error = s.error
      /\ a.recent \subseteq s.recent
      /\ a.older \subseteq s.recent \cup s.older
  BY LagsFields
<1>2. CanExecute(s)
  BY <1>1 DEF CanExecute
<1>3. read_u32(s.mem, s.pc) \in Word
  BY <1>2, ReadTypes DEF CanExecute, ArchState
<1>4. Fetchable(a) \subseteq Fetchable(s)
  BY <1>1, <1>3 DEF Fetchable
<1> QED
  BY <1>2, <1>4

\* The words a machine may fetch are words, and decode to instructions.
LEMMA FetchableType ==
    ASSUME NEW s \in ArchState, CanExecute(s), NEW word \in Fetchable(s)
    PROVE  decode_instruction[word] \in DecodedInstruction
<1>1. read_u32(s.mem, s.pc) \in Word
  BY ReadTypes DEF CanExecute, ArchState
<1>2. word \in Word
  BY <1>1 DEF Fetchable
<1> QED
  BY <1>2, DecodeAssumption

\* Only a halt instruction, which counts, halts the machine.
LEMMA HaltCounts ==
    ASSUME NEW s \in ArchState, NEW word, ~s.halted, ExecWord(s, word).halted
    PROVE  /\ decode_instruction[word].kind \in HaltKinds
           /\ Counts(word) = 1
<1> DEFINE d == decode_instruction[word]
<1>1. d.kind # "Invalid" /\ ~Faults(s, d)
  BY DEF ExecWord, Exec, ArchState
<1>2. Exec(s, d).halted = (d.kind \in HaltKinds)
  BY <1>1, Zenon DEF Exec
<1>3. d.kind \in HaltKinds
  BY <1>2, Zenon DEF ExecWord
<1> QED
  BY <1>1, <1>3 DEF Counts, OneIf, is_valid_instruction

\* A word counts once or not at all.
LEMMA CountsType == ASSUME NEW word PROVE Counts(word) \in {0, 1}
BY DEF Counts, OneIf

\* A state is reached from itself.
LEMMA ReachesItself ==
    ASSUME NEW s \in ArchState, NEW i \in Nat
    PROVE  Reaches(s, i, s, i)
<1>1. Path({<<s, i>>}, s, i) /\ Lags(s, s)
  BY LagsItself DEF Path
<1>2. {<<s, i>>} \in SUBSET (ArchState \X Nat)
  OBVIOUS
<1> QED
  BY <1>1, <1>2 DEF Reaches

\* Settling at the far end changes nothing on the path.
LEMMA ReachesSettled ==
    ASSUME NEW s, NEW i, NEW a, NEW k, Reaches(s, i, a, k)
    PROVE  Reaches(s, i, Settled(a), k)
<1>1. PICK path \in SUBSET (ArchState \X Nat), last \in ArchState :
        <<s, i>> \in path /\ Path(path, last, k) /\ Lags(a, last)
  BY DEF Reaches
<1>2. Lags(Settled(a), last)
  BY <1>1, LagsSettled
<1> QED
  BY <1>1, <1>2 DEF Reaches

\* Executing at the far end lengthens the path.
LEMMA ReachesExec ==
    ASSUME NEW s, NEW i, NEW a, NEW k \in Nat, Reaches(s, i, a, k),
           CanExecute(a), NEW word \in Fetchable(a)
    PROVE  /\ Reaches(s, i, ExecWord(a, word), k + Counts(word))
           /\ Reaches(s, i, ExecWord(Settled(a), word), k + Counts(word))
<1>1. PICK path \in SUBSET (ArchState \X Nat), last \in ArchState :
        <<s, i>> \in path /\ Path(path, last, k) /\ Lags(a, last)
  BY DEF Reaches
<1> DEFINE t == ExecWord(last, word)
           n == k + Counts(word)
           longer == path \cup {<<t, n>>}
<1>2. CanExecute(last) /\ word \in Fetchable(last)
  BY <1>1, LagsFetch
<1>3. decode_instruction[word] \in DecodedInstruction
  BY <1>2, FetchableType
<1>4. t \in ArchState
  BY <1>3, ExecType DEF ExecWord
<1>5. n \in Nat /\ n >= k
  BY CountsType
<1>6. Stepped(last, k, t, n)
  BY <1>2 DEF Stepped
<1>7. ~last.halted
  BY <1>2 DEF CanExecute
<1>8. t.halted => n = k + 1
  BY <1>7, HaltCounts
<1>9. Lags(ExecWord(a, word), t) /\ Lags(ExecWord(Settled(a), word), t)
  BY <1>1, <1>2, <1>3, LagsExec, LagsSettled DEF ExecWord
<1> HIDE DEF t, n
<1>10. Path(longer, t, n)
  <2>1. longer \subseteq ArchState \X Nat /\ <<t, n>> \in longer
    BY <1>4, <1>5
  <2>2. ASSUME NEW u, NEW j, <<u, j>> \in longer
        PROVE  /\ j <= n
               /\ t.halted /\ ~u.halted => j < n
               /\ \/ u = t /\ j = n
                  \/ \E v, m : <<v, m>> \in longer /\ Stepped(u, j, v, m)
    <3>1. CASE <<u, j>> = <<t, n>>
      BY <1>5, <3>1
    <3>2. CASE <<u, j>> \in path
      <4>1. /\ j \in Nat /\ j <= k
            /\ \/ u = last /\ j = k
               \/ \E v, m : <<v, m>> \in path /\ Stepped(u, j, v, m)
        BY <1>1, <3>2 DEF Path
      <4>2. j <= n /\ (t.halted => j < n)
        BY <1>5, <1>8, <4>1
      <4>3. \E v, m : <<v, m>> \in longer /\ Stepped(u, j, v, m)
        BY <1>6, <4>1
      <4> QED
        BY <4>2, <4>3
    <3> QED
      BY <2>2, <3>1, <3>2
  <2> HIDE DEF longer
  <2> QED
    BY <2>1, <2>2 DEF Path
<1>11. longer \in SUBSET (ArchState \X Nat) /\ <<s, i>> \in longer
  BY <1>1, <1>4, <1>5
<1> HIDE DEF longer
<1>12. Reaches(s, i, ExecWord(a, word), n)
       /\ Reaches(s, i, ExecWord(Settled(a), word), n)
  BY <1>4, <1>9, <1>10, <1>11, Zenon DEF Reaches
<1> QED
  BY <1>12 DEF n

\* Before a halt at the end of the path there is an instruction to count.
LEMMA ReachesLater ==
    ASSUME NEW s, NEW i, NEW a, NEW k, Reaches(s, i, a, k),
           a.halted, ~s.halted
    PROVE  i < k
<1>1. PICK path \in SUBSET (ArchState \X Nat), last \in ArchState :
        <<s, i>> \in path /\ Path(path, last, k) /\ Lags(a, last)
  BY DEF Reaches
<1>2. last.halted
  BY <1>1, LagsFields
<1> QED
  BY <1>1, <1>2 DEF Path

\* Where only one word can be fetched, a path to a halt goes on with it.
LEMMA ReachesNext ==
    ASSUME NEW s, NEW i, NEW a, NEW k, Reaches(s, i, a, k),
           a.halted, ~s.halted, NEW word, Fetchable(s) = {word}
    PROVE  /\ s \in ArchState
           /\ CanExecute(s)
           /\ Reaches(ExecWord(s, word), i + Counts(word), a, k)
<1>1. PICK path \in SUBSET (ArchState \X Nat), last \in ArchState :
        <<s, i>> \in path /\ Path(path, last, k) /\ Lags(a, last)
  BY DEF Reaches
<1>2. last.halted /\ s # last
  BY <1>1, LagsFields
<1>3. PICK t, j : <<t, j>> \in path /\ Stepped(s, i, t, j)
  BY <1>1, <1>2 DEF Path
<1>4. CanExecute(s) /\ t = ExecWord(s, word) /\ j = i + Counts(word)
  BY <1>3 DEF Stepped
<1>5. s \in ArchState
  BY <1>1
<1>6. Reaches(t, j, a, k)
  BY <1>1, <1>3 DEF Reaches
<1> QED
  BY <1>4, <1>5, <1>6

\* A halted state leads nowhere else.
LEMMA ReachesHalted ==
    ASSUME NEW s, NEW i, NEW a, NEW k, Reaches(s, i, a, k), s.halted
    PROVE  s \in ArchState /\ Lags(a, s) /\ i = k
<1>1. PICK path \in SUBSET (ArchState \X Nat), last \in ArchState :
        <<s, i>> \in path /\ Path(path, last, k) /\ Lags(a, last)
  BY DEF Reaches
<1>2. \A t, j : ~Stepped(s, i, t, j)
  BY DEF Stepped, CanExecute
<1>3. s = last /\ i = k
  BY <1>1, <1>2 DEF Path
<1> QED
  BY <1>1, <1>3

(***************************************************************************)
(* One halt instruction before the end of the path, what the end shows is   *)
(* known: the same registers and RAM, the pc after the halt, and one        *)
(* instruction more.                                                        *)
(***************************************************************************)
LEMMA ReachesHaltNext ==
    ASSUME NEW s, NEW i, NEW a, NEW k, Reaches(s, i, a, k),
           a.halted, ~s.halted, NEW word, Fetchable(s) = {word},
           decode_instruction[word].kind \in HaltKinds
    PROVE  /\ a.regs = s.regs
           /\ a.mem = s.mem
           /\ a.pc = add32(s.pc, 4)
           /\ k = i + 1
<1> DEFINE d == decode_instruction[word]
           t == ExecWord(s, word)
<1>1. s \in ArchState /\ Reaches(t, i + Counts(word), a, k)
  BY ReachesNext
<1>2. d.kind # "Invalid" /\ d.kind \notin StoreKinds /\ ~HasResult(d.kind)
  BY DEF HaltKinds, StoreKinds, HasResult, AluRegKinds, AluImmKinds, LoadKinds
<1>3. ~Faults(s, d)
  <2>1. AccessWidth(d.kind) = 0
    BY DEF AccessWidth, HaltKinds
  <2> QED
    BY <2>1 DEF Faults, valid_memory_access
<1>4. NextPc(s, d) = add32(s.pc, 4)
  BY DEF NextPc, HaltKinds, BranchKinds
<1>5. /\ t.regs = s.regs /\ t.mem = s.mem /\ t.pc = add32(s.pc, 4)
  BY <1>2, <1>3, <1>4 DEF ExecWord, Exec
<1>6. t.halted
  BY <1>2, <1>3, Zenon DEF ExecWord, Exec
<1>7. Counts(word) = 1
  BY <1>1, <1>6, HaltCounts
<1> HIDE DEF t
<1>8. t \in ArchState /\ Lags(a, t) /\ i + Counts(word) = k
  BY <1>1, <1>6, ReachesHalted
<1> QED
  BY <1>5, <1>7, <1>8, LagsFields

-----------------------------------------------------------------------------
(* What Spike's RAM holds *)

\* The bytes a run has stored to.
StoredTo(s) ==
    {a \in Address :
       \E write \in s.writes : a \in access_bytes(write[1], write[2])}

\* s differs from the loaded RAM at most where it has stored to.
KeepsImage(s, ram) ==
    /\ \A a \in Address : a \notin StoredTo(s) => s.mem[a] = ram[a]
    /\ s.recent \cup s.older \subseteq StoredTo(s)

\* What an instruction does to the RAM and to the record of stores.
LEMMA ExecStores ==
    ASSUME NEW s \in ArchState, NEW d
    PROVE  /\ d.kind = "Invalid" \/ Faults(s, d) =>
                /\ Exec(s, d).mem = s.mem
                /\ Exec(s, d).writes = s.writes
                /\ Exec(s, d).recent \subseteq s.recent
                /\ Exec(s, d).older \subseteq s.older
           /\ d.kind # "Invalid" /\ ~Faults(s, d) =>
                /\ Exec(s, d).mem =
                     IF d.kind \in StoreKinds
                     THEN write_bytes(s.mem, EffectiveAddress(s, d), Rs2(s, d),
                                      AccessWidth(d.kind))
                     ELSE s.mem
                /\ Exec(s, d).writes =
                     IF d.kind \in StoreKinds
                     THEN s.writes \cup {<<EffectiveAddress(s, d),
                                           AccessWidth(d.kind)>>}
                     ELSE s.writes
                /\ Exec(s, d).recent = StoredBytes(s, d)
                /\ Exec(s, d).older = s.recent
<1>1. CASE d.kind = "Invalid"
  BY <1>1 DEF Exec, ArchState
<1>2. CASE d.kind # "Invalid" /\ Faults(s, d)
  BY <1>2 DEF Exec, ArchState
<1>3. CASE d.kind # "Invalid" /\ ~Faults(s, d)
  <2>1. /\ Exec(s, d).recent = StoredBytes(s, d)
        /\ Exec(s, d).older = s.recent
    BY <1>3, Zenon DEF Exec
  <2>2. Exec(s, d).mem =
          IF d.kind \in StoreKinds
          THEN write_bytes(s.mem, EffectiveAddress(s, d), Rs2(s, d),
                           AccessWidth(d.kind))
          ELSE s.mem
    BY <1>3, Zenon DEF Exec
  <2>3. Exec(s, d).writes =
          IF d.kind \in StoreKinds
          THEN s.writes \cup {<<EffectiveAddress(s, d), AccessWidth(d.kind)>>}
          ELSE s.writes
    BY <1>3, Zenon DEF Exec
  <2> QED
    BY <1>3, <2>1, <2>2, <2>3
<1> QED
  BY <1>1, <1>2, <1>3

\* An instruction changes the bytes it records, and no other.
LEMMA KeepsImageStep ==
    ASSUME NEW s \in ArchState, NEW ram, KeepsImage(s, ram),
           NEW d \in DecodedInstruction
    PROVE  KeepsImage(Exec(s, d), ram)
<1> SUFFICES ASSUME NEW t, t = Exec(s, d) PROVE KeepsImage(t, ram)
  OBVIOUS
<1>1. CASE d.kind = "Invalid" \/ Faults(s, d)
  <2>1. /\ t.mem = s.mem /\ t.writes = s.writes
        /\ t.recent \subseteq s.recent /\ t.older \subseteq s.older
    BY <1>1, ExecStores
  <2> QED
    BY <2>1 DEF KeepsImage, StoredTo
<1>2. CASE /\ d.kind # "Invalid" /\ ~Faults(s, d)
           /\ d.kind \notin StoreKinds
  <2>1. /\ t.mem = s.mem /\ t.writes = s.writes
        /\ t.recent = {} /\ t.older = s.recent
    BY <1>2, ExecStores DEF StoredBytes
  <2> QED
    BY <2>1 DEF KeepsImage, StoredTo
<1>3. CASE d.kind # "Invalid" /\ ~Faults(s, d) /\ d.kind \in StoreKinds
  <2> DEFINE e == EffectiveAddress(s, d)
             width == AccessWidth(d.kind)
  <2>1. /\ t.mem = write_bytes(s.mem, e, Rs2(s, d), width)
        /\ t.writes = s.writes \cup {<<e, width>>}
        /\ t.recent = access_bytes(e, width)
        /\ t.older = s.recent
    BY <1>3, ExecStores DEF StoredBytes
  <2>2. t.recent \in SUBSET Address
    BY ExecType DEF ArchState
  <2> HIDE DEF e, width
  <2>3. \A a \in Address :
          a \in StoredTo(t) <=> a \in StoredTo(s) \/ a \in access_bytes(e, width)
    <3>1. \A write : write \in t.writes <=>
                       write \in s.writes \/ write = <<e, width>>
      BY <2>1
    <3>2. <<e, width>>[1] = e /\ <<e, width>>[2] = width
      OBVIOUS
    <3> QED
      BY <3>1, <3>2, Zenon DEF StoredTo
  <2>4. \A a \in Address : a \notin access_bytes(e, width) =>
          t.mem[a] = s.mem[a]
    BY <2>1 DEF write_bytes
  <2>5. StoredTo(s) \subseteq Address
    BY DEF StoredTo
  <2> QED
    BY <2>1, <2>2, <2>3, <2>4, <2>5 DEF KeepsImage
<1> QED
  BY <1>1, <1>2, <1>3

\* A word nothing has stored to is fetched as it was loaded.
LEMMA FetchesImage ==
    ASSUME NEW s \in ArchState, NEW ram \in Memory, KeepsImage(s, ram),
           valid_memory_access(s.pc, 4),
           \A write \in s.writes :
             access_bytes(write[1], write[2]) \cap access_bytes(s.pc, 4) = {}
    PROVE  Fetchable(s) = {read_u32(ram, s.pc)}
<1>1. s.pc \in Word
  BY DEF ArchState
<1>2. access_bytes(s.pc, 4) \cap StoredTo(s) = {}
  BY DEF StoredTo
<1>3. access_bytes(s.pc, 4) \cap (s.recent \cup s.older) = {}
  BY <1>2 DEF KeepsImage
<1>4. /\ s.pc \in access_bytes(s.pc, 4) \cap Address
      /\ s.pc + 1 \in access_bytes(s.pc, 4) \cap Address
      /\ s.pc + 2 \in access_bytes(s.pc, 4) \cap Address
      /\ s.pc + 3 \in access_bytes(s.pc, 4) \cap Address
  BY <1>1, CpuAssumption, WordSizeFacts
     DEF access_bytes, valid_memory_access, Address, Word
<1>5. /\ s.mem[s.pc] = ram[s.pc] /\ s.mem[s.pc + 1] = ram[s.pc + 1]
      /\ s.mem[s.pc + 2] = ram[s.pc + 2] /\ s.mem[s.pc + 3] = ram[s.pc + 3]
  BY <1>2, <1>4 DEF KeepsImage
<1>6. read_u32(s.mem, s.pc) = read_u32(ram, s.pc)
  BY <1>5 DEF read_u32
<1> QED
  BY <1>3, <1>6 DEF Fetchable

-----------------------------------------------------------------------------
(* The adapter's RAM *)

\* The low digit of a number and the rest of it.
LEMMA LowDigit ==
    ASSUME NEW n \in Nat, n > 0, NEW r \in 0 .. n - 1, NEW q \in Nat
    PROVE  (r + n * q) % n = r /\ (r + n * q) \div n = q
<1> DEFINE x == r + n * q
           p == x \div n
           t == x % n
<1>1. x \in Int
  <2>1. n * q \in Int
    OBVIOUS
  <2> QED
    BY <2>1
<1> HIDE DEF x
<1>2. p \in Int /\ t \in Int /\ 0 <= t /\ t < n /\ x = n * p + t
  BY <1>1
<1> HIDE DEF p, t
<1>3. n * q - n * p = n * (q - p)
  BY <1>2
<1>4. \A k \in Int : /\ k >= 1 => n * k >= n
                     /\ k <= -1 => n * k <= -n
  OBVIOUS
<1>5. n * (q - p) = t - r
  BY <1>2, <1>3 DEF x
<1>6. q = p
  <2>1. ~(q - p >= 1) /\ ~(q - p <= -1)
    BY <1>2, <1>4, <1>5
  <2> QED
    BY <1>2, <2>1
<1>7. t = r
  BY <1>2, <1>5, <1>6
<1> QED
  BY <1>6, <1>7 DEF p, t, x

\* The bytes of a word that was read are the bytes it was read from.
LEMMA BytesOfWord ==
    ASSUME NEW m \in Memory, NEW b \in Address, NEW k \in 0 .. 3,
           b + 4 <= MemSize
    PROVE  byte_of(read_u32(m, b), k) = m[b + k]
<1> DEFINE B == ByteSize
           m0 == m[b]
           m1 == m[b + 1]
           m2 == m[b + 2]
           m3 == m[b + 3]
           y1 == m1 + B * (m2 + B * m3)
           y2 == m2 + B * m3
           B2 == B * B
           B3 == B * B * B
           v == m0 + B * y1
<1>1. B \in Nat /\ B >= 2 /\ MemSize \in Nat
  BY CpuAssumption
<1>2. /\ m0 \in 0 .. B - 1 /\ m1 \in 0 .. B - 1
      /\ m2 \in 0 .. B - 1 /\ m3 \in 0 .. B - 1
  BY <1>1 DEF Memory, Address, Byte
<1>3. read_u32(m, b) = v
  BY DEF read_u32
<1> HIDE DEF B, m0, m1, m2, m3
<1>4. y2 \in Nat /\ y1 = m1 + B * y2
  BY <1>1, <1>2
<1> HIDE DEF y2
<1>5. y1 \in Nat
  BY <1>1, <1>2, <1>4
<1> HIDE DEF y1
<1>6. v % B = m0 /\ v \div B = y1
  BY <1>1, <1>2, <1>5, LowDigit
<1>7. y1 % B = m1
  BY <1>1, <1>2, <1>4, LowDigit
<1>8. /\ B2 \in Nat /\ B2 > 0
      /\ B3 \in Nat /\ B3 > 0 /\ B3 = B2 * B
  BY <1>1
<1>9. /\ m0 + B * m1 \in 0 .. B2 - 1
      /\ (m0 + B * m1) + B2 * m2 \in 0 .. B3 - 1
  <2>1. m0 + B * m1 \in 0 .. B2 - 1
    BY <1>1, <1>2, TwoDigits
  <2> DEFINE x == m0 + B * m1
  <2> HIDE DEF x, B2, B3
  <2>2. x + B2 * m2 \in 0 .. B2 * B - 1
    <3>1. x \in 0 .. B2 - 1 /\ B2 >= 2
      BY <1>1, <1>2, <2>1 DEF x, B2
    <3> QED
      BY <1>1, <1>2, <1>8, <3>1, TwoDigits
  <2> QED
    BY <1>8, <2>1, <2>2 DEF x
<1>10. v = (m0 + B * m1) + B2 * y2
  BY <1>1, <1>2, <1>4
<1>11. v = ((m0 + B * m1) + B2 * m2) + B3 * m3
  BY <1>1, <1>2, <1>10 DEF y2
<1>12. v \div B2 = y2
  <2> DEFINE x == m0 + B * m1
  <2>1. x \in 0 .. B2 - 1 /\ v = x + B2 * y2
    BY <1>9, <1>10
  <2> HIDE DEF x, v, B2
  <2> QED
    BY <1>4, <1>8, <2>1, LowDigit
<1>13. y2 % B = m2
  BY <1>1, <1>2, LowDigit DEF y2
<1>14. v \div B3 = m3
  <2> DEFINE x == (m0 + B * m1) + B2 * m2
  <2>1. x \in 0 .. B3 - 1 /\ v = x + B3 * m3
    BY <1>9, <1>11
  <2> HIDE DEF x, v, B2, B3
  <2> QED
    BY <1>1, <1>2, <1>8, <2>1, LowDigit
<1>15. m3 % B = m3
  BY <1>1, <1>2
<1> HIDE DEF v
<1>16. /\ byte_of(v, 0) = m0 /\ byte_of(v, 1) = m1
       /\ byte_of(v, 2) = m2 /\ byte_of(v, 3) = m3
  <2> HIDE DEF B2, B3
  <2>1. byte_of(v, 0) = v % B
    BY DEF byte_of, B
  <2>2. byte_of(v, 1) = (v \div B) % B
    BY DEF byte_of, B
  <2>3. byte_of(v, 2) = (v \div B2) % B
    BY DEF byte_of, B, B2
  <2>4. byte_of(v, 3) = (v \div B3) % B
    BY DEF byte_of, B, B3
  <2> QED
    BY <1>6, <1>7, <1>12, <1>13, <1>14, <1>15, <2>1, <2>2, <2>3, <2>4
<1>17. m[b + 0] = m0
  BY DEF m0, Address
<1>18. k = 0 \/ k = 1 \/ k = 2 \/ k = 3
  OBVIOUS
<1> QED
  BY <1>3, <1>16, <1>17, <1>18 DEF m1, m2, m3

\* Ranges of RAM select bytes of RAM.
LEMMA SelectedInRam ==
    ASSUME options \in CliOptions, dump_ranges_valid
    PROVE  Selected \subseteq Address
<1> SUFFICES ASSUME NEW range \in memory_ranges
             PROVE  access_bytes(range.start_address, range.byte_count)
                      \subseteq Address
  BY Zenon DEF Selected
<1>1. range.start_address \in Word /\ range.byte_count \in Word
  BY DEF memory_ranges, CliOptions
<1>2. range.start_address + range.byte_count <= MemSize
  BY DEF dump_ranges_valid, memory_ranges
<1> QED
  BY <1>1, <1>2, CpuAssumption, WordSizeFacts
     DEF access_bytes, Address, Word

\* A selected byte lies in a whole word of its range.
LEMMA WholeWord ==
    ASSUME NEW start \in Nat, NEW count \in Nat, start % 4 = 0, count % 4 = 0,
           NEW a \in access_bytes(start, count)
    PROVE  /\ a \in Nat /\ a % 4 \in 0 .. 3
           /\ a - (a % 4) \in access_bytes(start, count)
           /\ (a - (a % 4)) % 4 = 0
           /\ (a - (a % 4)) + 4 <= start + count
BY DEF access_bytes

(***************************************************************************)
(* Writing Spike's words into an empty RAM, the adapter recovers every      *)
(* selected byte: its ranges are aligned, so each byte's word was printed.  *)
(***************************************************************************)
LEMMA AdapterRecovers ==
    ASSUME options \in CliOptions, spike \in ArchState,
           dump_ranges_valid, adapter_ranges_valid,
           NEW a \in Selected
    PROVE  adapter_memory[a] = spike.mem[a]
<1>1. PICK range \in memory_ranges :
        a \in access_bytes(range.start_address, range.byte_count)
  BY Zenon DEF Selected
<1> DEFINE b == a - (a % 4)
           k == a % 4
<1>2. /\ range.start_address \in Nat /\ range.byte_count \in Nat
      /\ range.start_address % 4 = 0 /\ range.byte_count % 4 = 0
      /\ range.start_address + range.byte_count <= MemSize
  BY WordSizeFacts DEF memory_ranges, CliOptions, Word, adapter_ranges_valid,
     dump_ranges_valid
<1>3. /\ a \in Nat /\ k \in 0 .. 3 /\ b % 4 = 0
      /\ b \in access_bytes(range.start_address, range.byte_count)
      /\ b + 4 <= MemSize
  BY <1>1, <1>2, WholeWord, CpuAssumption
<1>4. b \in Selected
  BY <1>3 DEF Selected
<1>5. a \in Address /\ b \in Address
  BY <1>4, SelectedInRam
<1>6. printed_words[b] = read_u32(spike.mem, b)
  BY <1>3, <1>4 DEF printed_words
<1>7. adapter_memory[a] = byte_of(printed_words[b], k)
  BY <1>5 DEF adapter_memory
<1>8. byte_of(read_u32(spike.mem, b), k) = spike.mem[b + k]
  BY <1>3, <1>5, BytesOfWord DEF ArchState
<1>9. b + k = a
  BY <1>3
<1> QED
  BY <1>6, <1>7, <1>8, <1>9

\* From equal machines the two programs write equal files.
LEMMA StateFilesAgree ==
    ASSUME options \in CliOptions, spike \in ArchState,
           dump_ranges_valid, adapter_ranges_valid,
           halted = TRUE, pc = add32(HaltPc, 4),
           regs = spike.regs, memory = spike.mem
    PROVE  simulator_state = spike_state
<1>1. \A a \in Selected : read_u8(memory, a) = read_u8(adapter_memory, a)
  BY AdapterRecovers DEF read_u8
<1>2. [a \in Selected |-> read_u8(memory, a)] =
        [a \in Selected |-> read_u8(adapter_memory, a)]
  BY <1>1
<1>3. StateFile(pc, TRUE, regs, memory) =
        StateFile(pc, TRUE, regs, adapter_memory)
  BY <1>2, Zenon DEF StateFile
<1> QED
  BY <1>3, Zenon DEF simulator_state, spike_state

-----------------------------------------------------------------------------
(* The invariant of the script *)

\* How far the script has got, and what it knows by then.
ScriptState ==
    /\ ~options.has_retire_count
    /\ options.max_cycles < CounterRange
    /\ stats.clock_cycles <= options.max_cycles
    /\ halt_symbol_is_a_halt
    /\ ~spike.halted
    /\ status = "success" => halted /\ dump_ranges_valid
    /\ phase = "simulator" => spike.mem = image
    /\ phase \in {"spike", "adapter", "compare"} => status = "success"
    /\ phase \in {"adapter", "compare"} => spike.pc = HaltPc
    /\ phase = "compare" => adapter_ranges_valid
    /\ verdict = "FAIL" => phase = "done" /\ ~HaltIntact

(***************************************************************************)
(* Spike's state, and the path from it to what the simulator has reached.   *)
(* The path counts an instruction when it leaves decode, the simulator when *)
(* it retires: those in between are in flight.  A memory fault lets them    *)
(* go, and the counts with them.                                            *)
(***************************************************************************)
SpikeState ==
    /\ KeepsImage(spike, image)
    /\ \E issued \in Nat :
         /\ Reaches(spike, minstret, Abs, issued)
         /\ ~memory_access_throws =>
              issued = stats.instruction_count + InFlight

(***************************************************************************)
(* The inductive invariant behind the two properties.                       *)
(***************************************************************************)
GoldenInv == IInv /\ StatsInv /\ GoldenTypeOK /\ ScriptState /\ SpikeState

\* A step of the script is a step of main(), or leaves its state alone.
LEMMA GoldenStepsSim == [GoldenNext]_goldenVars => [SimNext]_simVars
BY DEF GoldenNext, goldenVars, RunSimulator, SimulatorFailed, StartSpike,
   SpikeSteps, SpikeLeavesProgram, SpikeStops, Convert, ConvertThrows, Compare

\* Before the script starts the two machines are in one state.
LEMMA GoldenInitInvariant == GoldenInit => GoldenInv
<1> SUFFICES ASSUME GoldenInit PROVE GoldenInv
  OBVIOUS
<1>1. SimInit /\ Init
  BY DEF GoldenInit, SimInit
<1>2. IInv /\ SimTypeOK
  BY <1>1, SimInitType
<1>3. /\ regs \in RegFile /\ memory \in Memory /\ pc \in Word
      /\ memory_writes = {} /\ halted = FALSE
  BY <1>1, <1>2 DEF SimTypeOK, TypeOK, Init
<1>4. spike = [regs |-> regs, mem |-> memory, pc |-> pc, halted |-> FALSE,
               error |-> FALSE, writes |-> {}, recent |-> {}, older |-> {}]
  BY DEF GoldenInit
<1>5. spike \in ArchState
  BY <1>3, <1>4 DEF ArchState
<1>6. GoldenTypeOK
  BY <1>2, <1>3, <1>5, GoldenAssumption DEF GoldenInit, GoldenTypeOK, Phases
<1>7. ScriptState /\ StatsInv
  <2>1. options.max_cycles < CounterRange /\ options.max_cycles \in Nat
    BY <1>1, <1>2, GoldenAssumption DEF SimInit, SimTypeOK, CliOptions
  <2>2. stats.clock_cycles <= options.max_cycles
    BY <1>1, <2>1 DEF SimInit, no_stats
  <2>3. ScriptState
    BY <1>1, <1>4, <2>1, <2>2 DEF GoldenInit, SimInit, ScriptState
  <2> QED
    BY <1>1, <2>3, StatsInit
<1>8. KeepsImage(spike, image)
  BY <1>4 DEF GoldenInit, KeepsImage
<1>9. /\ Reaches(spike, minstret, Abs, 0)
      /\ stats.instruction_count + InFlight = 0
  <2>1. Abs = spike /\ minstret = 0
    BY <1>1, <1>4, LoadedState DEF GoldenInit
  <2>2. Reaches(spike, minstret, Abs, 0)
    BY <1>5, <2>1, ReachesItself
  <2>3. stats = no_stats /\ ~id_ex.valid /\ ~ex_mem.valid /\ ~mem_wb.valid
    BY <1>1 DEF SimInit, Init, empty_id_ex, empty_ex_mem, empty_mem_wb
  <2> QED
    BY <2>2, <2>3 DEF no_stats, InFlight, OneIf
<1> QED
  BY <1>2, <1>6, <1>7, <1>8, <1>9 DEF GoldenInv, SpikeState

\* Where the simulator stands still, so do its path and its count.
LEMMA CountsStay ==
    ASSUME UNCHANGED <<vars, stats>>
    PROVE  /\ Abs' = Abs
           /\ memory_access_throws' = memory_access_throws
           /\ stats'.instruction_count = stats.instruction_count
           /\ InFlight' = InFlight
<1>1. Abs' = Abs
  BY StutterStutters
<1>2. UNCHANGED <<id_ex, ex_mem, mem_wb, memory, stats>>
  BY DEF vars
<1> QED
  BY <1>1, <1>2, Zenon DEF memory_access_throws, InFlight

(***************************************************************************)
(* Once main() has succeeded the path ends in a halt, and nothing is in     *)
(* flight: what the simulator counted is what the path counts.              *)
(***************************************************************************)
LEMMA HaltedEnd ==
    ASSUME GoldenInv, status = "success"
    PROVE  /\ Abs.halted /\ halted = TRUE /\ dump_ranges_valid
           /\ Abs.regs = regs /\ Abs.mem = memory /\ Abs.pc = pc
           /\ Reaches(spike, minstret, Abs, stats.instruction_count)
           /\ stats.instruction_count < CounterRange
<1>1. halted /\ dump_ranges_valid
  BY DEF GoldenInv, ScriptState
<1>2. halted = TRUE
  BY <1>1 DEF GoldenInv, IInv, TypeOK
<1>3. StoppedStateIsArchitectural
  BY StoppedFromInvariant DEF GoldenInv
<1>4. ~id_ex.valid /\ ~ex_mem.valid /\ ~mem_wb.valid
  BY <1>1 DEF GoldenInv, IInv, HaltBarrier
<1>5. InFlight = 0 /\ ~memory_access_throws
  BY <1>4 DEF InFlight, OneIf, memory_access_throws
<1>6. stats.instruction_count \in Nat
  BY DEF GoldenInv, GoldenTypeOK, SimTypeOK, ExecutionStats
<1>7. Reaches(spike, minstret, Abs, stats.instruction_count)
  BY <1>5, <1>6 DEF GoldenInv, SpikeState
<1>8. stats.instruction_count <= stats.clock_cycles
  <2>1. /\ stats.clock_cycles \in Nat /\ stats.stall_cycles \in Nat
        /\ stats.branch_mispredictions \in Nat
    BY DEF GoldenInv, GoldenTypeOK, SimTypeOK, ExecutionStats
  <2>2. ~error
    BY <1>1 DEF GoldenInv, IInv, ErrorIsFinal
  <2>3. CASE stats.clock_cycles = 0
    BY <2>3 DEF GoldenInv, StatsInv, NothingCounted, no_stats
  <2>4. CASE stats.clock_cycles > 0
    BY <1>5, <1>6, <2>1, <2>2, <2>4
       DEF GoldenInv, StatsInv, StatsConsistent, OneIf
  <2> QED
    BY <2>1, <2>3, <2>4
<1>9. stats.instruction_count < CounterRange
  <2>1. /\ stats.clock_cycles <= options.max_cycles
        /\ options.max_cycles < CounterRange
    BY DEF GoldenInv, ScriptState
  <2>2. stats.clock_cycles \in Nat /\ options.max_cycles \in Nat
    BY DEF GoldenInv, GoldenTypeOK, SimTypeOK, ExecutionStats, CliOptions
  <2> QED
    BY <1>6, <1>8, <2>1, <2>2, GoldenAssumption
<1> QED
  BY <1>1, <1>2, <1>3, <1>7, <1>9 DEF StoppedStateIsArchitectural, Running

\* An instruction Spike executes is the next one on the path.
LEMMA SpikeFollows ==
    ASSUME GoldenInv, SpikeSteps,
           NEW k, Reaches(spike, minstret, Abs, k)
    PROVE  /\ spike' \in ArchState /\ ~spike'.halted
           /\ KeepsImage(spike', image)
           /\ Reaches(spike', minstret', Abs, k)
<1> DEFINE word == read_u32(spike.mem, spike.pc)
<1>1. /\ spike \in ArchState /\ ~spike.halted /\ Abs.halted
      /\ KeepsImage(spike, image)
  BY HaltedEnd DEF GoldenInv, GoldenTypeOK, ScriptState, SpikeState, SpikeSteps
<1>2. Fetchable(spike) = {word}
  BY DEF SpikeSteps, SpikeCanStep, Fetchable
<1>3. spike' = Exec(spike, spike_fetch) /\ spike_fetch = decode_instruction[word]
  BY DEF SpikeSteps, spike_fetch
<1>4. /\ CanExecute(spike)
      /\ Reaches(ExecWord(spike, word), minstret + Counts(word), Abs, k)
  BY <1>1, <1>2, ReachesNext
<1>5. spike_fetch \in DecodedInstruction
  BY <1>1, <1>2, <1>3, <1>4, FetchableType
<1>6. spike' \in ArchState
  BY <1>1, <1>3, <1>5, ExecType
<1>7. is_valid_instruction(spike_fetch) /\ spike_fetch.kind \notin HaltKinds
  BY DEF SpikeSteps, SpikeCanStep
<1>8. ~spike'.halted
  BY <1>1, <1>3, <1>7, HaltCounts DEF ExecWord
<1>9. KeepsImage(spike', image)
  BY <1>1, <1>3, <1>5, KeepsImageStep
<1>10. Counts(word) = 1 /\ minstret' = minstret + 1
  <2>1. minstret \in 0 .. CounterRange - 1 /\ stats.instruction_count \in Nat
    BY DEF GoldenInv, GoldenTypeOK, SimTypeOK, ExecutionStats
  <2>2. /\ Reaches(spike, minstret, Abs, stats.instruction_count)
        /\ stats.instruction_count < CounterRange
    BY HaltedEnd DEF GoldenInv, ScriptState, SpikeSteps
  <2>3. minstret < stats.instruction_count
    BY <1>1, <2>2, ReachesLater
  <2>4. minstret + 1 \in 0 .. CounterRange - 1
    BY <2>1, <2>2, <2>3, GoldenAssumption
  <2>5. (minstret + 1) % CounterRange = minstret + 1
    BY <2>4, GoldenAssumption
  <2> QED
    BY <1>3, <1>7, <2>5 DEF Counts, OneIf, SpikeSteps
<1>11. Reaches(spike', minstret', Abs, k)
  BY <1>3, <1>4, <1>10 DEF ExecWord
<1> QED
  BY <1>6, <1>8, <1>9, <1>11

\* A cycle counts the instruction that retires; one that issues takes flight.
LEMMA CycleCounts ==
    ASSUME GoldenInv, Tick
    PROVE  stats'.instruction_count + InFlight' =
             stats.instruction_count + InFlight + OneIf(id_issues)
<1>1. run_pipeline_cycle /\ stats' = count_cycle /\ IInv
  BY DEF Tick, GoldenInv
<1>2. stats \in ExecutionStats
  BY DEF GoldenInv, GoldenTypeOK, SimTypeOK
<1>3. stats.instruction_count \in Nat
  BY <1>2 DEF ExecutionStats
<1>4. stats'.instruction_count = stats.instruction_count + OneIf(mem_wb.valid)
  BY <1>1, <1>2, CountedStats
<1>5. InFlight' = OneIf(id_issues) + OneIf(id_ex.valid) + OneIf(ex_mem.valid)
  BY <1>1, InFlightAfterCycle
<1>6. InFlight = OneIf(id_ex.valid) + OneIf(ex_mem.valid)
                   + OneIf(mem_wb.valid)
  BY DEF InFlight
<1>7. /\ OneIf(mem_wb.valid) \in {0, 1} /\ OneIf(id_ex.valid) \in {0, 1}
      /\ OneIf(ex_mem.valid) \in {0, 1} /\ OneIf(id_issues) \in {0, 1}
  BY OneIfType
<1> QED
  BY <1>3, <1>4, <1>5, <1>6, <1>7

\* A cycle of the simulator lengthens the path, or leaves its end alone.
LEMMA TickLengthens ==
    ASSUME GoldenInv, Tick,
           NEW s, NEW i, NEW k \in Nat, Reaches(s, i, Abs, k),
           ~memory_access_throws => k = stats.instruction_count + InFlight
    PROVE  \E n \in Nat :
             /\ Reaches(s, i, Abs', n)
             /\ ~memory_access_throws' =>
                  n = stats'.instruction_count + InFlight'
<1>1. IInv /\ run_pipeline_cycle
  BY DEF GoldenInv, Tick
<1>2. CASE memory_access_throws'
  <2>1. Abs' = Abs
    BY <1>1, <1>2, FaultStutters
  <2> QED
    BY <1>2, <2>1
<1>3. CASE ~memory_access_throws'
  <2>1. k = stats.instruction_count + InFlight
    BY <1>1 DEF run_pipeline_cycle
  <2>2. stats'.instruction_count + InFlight' = k + OneIf(id_issues)
    BY <2>1, CycleCounts
  <2>3. CASE ~id_issues /\ Abs' \in {Abs, Settled(Abs)}
    <3>1. Reaches(s, i, Abs', k)
      BY <2>3, ReachesSettled
    <3>2. k = stats'.instruction_count + InFlight'
      BY <2>2, <2>3 DEF OneIf
    <3> QED
      BY <3>1, <3>2
  <2>4. CASE /\ CanExecute(Abs) /\ if_id.instruction \in Fetchable(Abs)
             /\ id_issues <=> is_valid_instruction(decoded)
             /\ \E t \in {Abs, Settled(Abs)} :
                  Abs' = ExecWord(t, if_id.instruction)
    <3> DEFINE n == k + Counts(if_id.instruction)
    <3>1. Reaches(s, i, Abs', n)
      BY <2>4, ReachesExec
    <3>2. n = stats'.instruction_count + InFlight'
      BY <2>2, <2>4 DEF Counts, OneIf, decoded
    <3>3. n \in Nat
      BY CountsType
    <3> QED
      BY <3>1, <3>2, <3>3
  <2> QED
    BY <1>1, <1>3, <2>3, <2>4, CycleExecutes
<1> QED
  BY <1>2, <1>3

\* Every step of the simulator keeps the path and its count.
LEMMA SimulatorLengthens ==
    ASSUME GoldenInv, RunSimulator
    PROVE  \E issued \in Nat :
             /\ Reaches(spike, minstret, Abs', issued)
             /\ ~memory_access_throws' =>
                  issued = stats'.instruction_count + InFlight'
<1>1. PICK k \in Nat :
        /\ Reaches(spike, minstret, Abs, k)
        /\ ~memory_access_throws => k = stats.instruction_count + InFlight
  BY DEF GoldenInv, SpikeState
<1>2. CASE Tick
  BY <1>1, <1>2, TickLengthens
<1>3. CASE Abort
  <2>1. run_pipeline_cycle_throws
    BY <1>3 DEF Abort
  <2>2. Abs' = Abs
    BY <2>1, ThrowStutters DEF GoldenInv
  <2>3. memory_access_throws'
    BY <2>1 DEF run_pipeline_cycle_throws, memory_access_throws
  <2> QED
    BY <1>1, <2>2, <2>3
<1>4. CASE Finish
  <2>1. UNCHANGED <<vars, stats>>
    BY <1>4 DEF Finish
  <2> QED
    BY <1>1, <2>1, CountsStay
<1> QED
  BY <1>2, <1>3, <1>4 DEF RunSimulator, SimNext

\* What a step of the script does to Spike's state and the path.
LEMMA SpikeStateStep ==
    ASSUME GoldenInv, [GoldenNext]_goldenVars
    PROVE  SpikeState' /\ spike' \in ArchState /\ ~spike'.halted
           /\ image' = image
<1>1. spike \in ArchState /\ ~spike.halted /\ KeepsImage(spike, image)
  BY DEF GoldenInv, GoldenTypeOK, ScriptState, SpikeState
<1>2. PICK k \in Nat :
        /\ Reaches(spike, minstret, Abs, k)
        /\ ~memory_access_throws => k = stats.instruction_count + InFlight
  BY DEF GoldenInv, SpikeState
<1>3. image' = image
  BY DEF GoldenNext, goldenVars, RunSimulator, SimulatorFailed, StartSpike,
     SpikeSteps, SpikeLeavesProgram, SpikeStops, Convert, ConvertThrows, Compare
<1>4. CASE RunSimulator
  <2>1. spike' = spike /\ minstret' = minstret
    BY <1>4 DEF RunSimulator
  <2>2. \E issued \in Nat :
          /\ Reaches(spike', minstret', Abs', issued)
          /\ ~memory_access_throws' =>
               issued = stats'.instruction_count + InFlight'
    BY <1>4, <2>1, SimulatorLengthens
  <2> QED
    BY <1>1, <1>3, <2>1, <2>2 DEF SpikeState
<1>5. CASE SpikeSteps
  <2>1. UNCHANGED <<vars, stats>>
    BY <1>5 DEF SpikeSteps, simVars
  <2>2. /\ spike' \in ArchState /\ ~spike'.halted
        /\ KeepsImage(spike', image) /\ Reaches(spike', minstret', Abs, k)
    BY <1>2, <1>5, SpikeFollows
  <2> QED
    BY <1>2, <1>3, <2>1, <2>2, CountsStay DEF SpikeState
<1>6. CASE UNCHANGED simVars /\ spike' = spike /\ minstret' = minstret
  <2>1. UNCHANGED <<vars, stats>>
    BY <1>6 DEF simVars
  <2> QED
    BY <1>1, <1>2, <1>3, <1>6, <2>1, CountsStay DEF SpikeState
<1>7. CASE StartSpike
  <2>1. spike' = spike
    <3>1. spike' = [spike EXCEPT !.mem = image] /\ spike.mem = image
      BY <1>7 DEF StartSpike, GoldenInv, ScriptState
    <3> QED
      BY <1>1, <3>1 DEF ArchState
  <2> QED
    BY <1>6, <1>7, <2>1 DEF StartSpike
<1>8. CASE \/ SimulatorFailed \/ SpikeLeavesProgram \/ SpikeStops \/ Convert
           \/ ConvertThrows \/ Compare \/ UNCHANGED goldenVars
  BY <1>6, <1>8 DEF SimulatorFailed, SpikeLeavesProgram, SpikeStops, Convert,
     ConvertThrows, Compare, goldenVars
<1> QED
  BY <1>4, <1>5, <1>7, <1>8 DEF GoldenNext

\* Without --retire-count, main() succeeds only after a halt.
LEMMA SuccessMeansHalted ==
    ASSUME ScriptState, [SimNext]_simVars
    PROVE  /\ ~options'.has_retire_count
           /\ status' = "success" => halted' /\ dump_ranges_valid'
<1>1. ~options.has_retire_count
      /\ (status = "success" => halted /\ dump_ranges_valid)
  BY DEF ScriptState
<1>2. options' = options
  BY DEF SimNext, Tick, Abort, Finish, simVars
<1>3. dump_ranges_valid' = dump_ranges_valid
  BY <1>2 DEF dump_ranges_valid
<1>4. CASE Tick \/ Abort
  BY <1>1, <1>2, <1>4 DEF Tick, Abort
<1>5. CASE Finish
  BY <1>1, <1>2, <1>3, <1>5 DEF Finish, reached_target, vars
<1>6. CASE UNCHANGED simVars
  BY <1>1, <1>2, <1>3, <1>6 DEF simVars, vars
<1> QED
  BY <1>4, <1>5, <1>6 DEF SimNext

(***************************************************************************)
(* Stopped at a halt symbol nobody has overwritten, Spike stands in front   *)
(* of the halt that ended the simulator's run.                              *)
(***************************************************************************)
LEMMA StopsBeforeHalt ==
    ASSUME GoldenInv, phase \in {"adapter", "compare"}, HaltIntact
    PROVE  /\ regs = spike.regs /\ memory = spike.mem
           /\ pc = add32(HaltPc, 4)
           /\ stats.instruction_count = minstret + 1
<1>1. /\ status = "success" /\ spike.pc = HaltPc
      /\ ~spike.halted /\ halt_symbol_is_a_halt
  BY DEF GoldenInv, ScriptState
<1>2. /\ spike \in ArchState /\ image \in Memory
      /\ KeepsImage(spike, image)
  BY DEF GoldenInv, GoldenTypeOK, SpikeState
<1>3. /\ Abs.halted
      /\ Abs.regs = regs /\ Abs.mem = memory /\ Abs.pc = pc
      /\ Reaches(spike, minstret, Abs, stats.instruction_count)
  BY <1>1, HaltedEnd
<1> DEFINE word == read_u32(image, HaltPc)
<1>4. Fetchable(spike) = {word}
  <2>1. valid_memory_access(spike.pc, 4)
    BY <1>1 DEF halt_symbol_is_a_halt
  <2>2. \A write \in spike.writes :
          access_bytes(write[1], write[2]) \cap access_bytes(spike.pc, 4) = {}
    BY <1>1 DEF HaltIntact
  <2> QED
    BY <1>1, <1>2, <2>1, <2>2, FetchesImage
<1>5. decode_instruction[word].kind \in HaltKinds
  BY <1>1 DEF halt_symbol_is_a_halt
<1> QED
  BY <1>1, <1>3, <1>4, <1>5, ReachesHaltNext

\* So the comparison finds no difference.
LEMMA ComparesEqual ==
    ASSUME GoldenInv, phase = "compare", HaltIntact
    PROVE  simulator_state = spike_state
<1>1. adapter_ranges_valid /\ status = "success"
  BY DEF GoldenInv, ScriptState
<1>2. spike \in ArchState /\ options \in CliOptions
  BY DEF GoldenInv, GoldenTypeOK, SimTypeOK
<1>3. halted = TRUE /\ dump_ranges_valid
  BY <1>1, HaltedEnd
<1>4. /\ regs = spike.regs /\ memory = spike.mem
      /\ pc = add32(HaltPc, 4)
  BY StopsBeforeHalt
<1> QED
  BY <1>1, <1>2, <1>3, <1>4, StateFilesAgree

\* main() spends a cycle only below its limit, which nothing changes.
LEMMA CyclesWithinLimit ==
    ASSUME ScriptState, SimTypeOK, [SimNext]_simVars
    PROVE  /\ options'.max_cycles < CounterRange
           /\ stats'.clock_cycles <= options'.max_cycles
<1>1. /\ options.max_cycles < CounterRange
      /\ stats.clock_cycles <= options.max_cycles
  BY DEF ScriptState
<1>2. /\ stats \in ExecutionStats
      /\ stats.clock_cycles \in Nat /\ options.max_cycles \in Nat
  BY DEF SimTypeOK, ExecutionStats, CliOptions
<1>3. options' = options
  BY DEF SimNext, Tick, Abort, Finish, simVars
<1>4. CASE Tick
  <2>1. stats' = count_cycle /\ stats.clock_cycles < options.max_cycles
    BY <1>4 DEF Tick, keep_running
  <2>2. stats'.clock_cycles = stats.clock_cycles + 1
    BY <1>2, <2>1, CountedStats
  <2> QED
    BY <1>1, <1>2, <1>3, <2>1, <2>2
<1>5. CASE Abort
  <2>1. stats'.clock_cycles = stats.clock_cycles
    BY <1>2, <1>5, AbortedStats
  <2> QED
    BY <1>1, <1>3, <2>1
<1>6. CASE Finish \/ UNCHANGED simVars
  BY <1>1, <1>3, <1>6 DEF Finish, simVars
<1> QED
  BY <1>4, <1>5, <1>6 DEF SimNext

\* Every step of the script keeps what it knows.
LEMMA ScriptStateStep ==
    ASSUME GoldenInv, [GoldenNext]_goldenVars
    PROVE  ScriptState'
<1>1. /\ ~options'.has_retire_count
      /\ status' = "success" => halted' /\ dump_ranges_valid'
  BY GoldenStepsSim, SuccessMeansHalted DEF GoldenInv
<1>2. /\ options'.max_cycles < CounterRange
      /\ stats'.clock_cycles <= options'.max_cycles
  BY GoldenStepsSim, CyclesWithinLimit DEF GoldenInv, GoldenTypeOK
<1>3. ~spike'.halted /\ image' = image
  BY SpikeStateStep
<1>4. halt_symbol_is_a_halt'
  BY <1>3 DEF GoldenInv, ScriptState, halt_symbol_is_a_halt
<1> DEFINE Progress ==
      /\ phase = "simulator" => spike.mem = image
      /\ phase \in {"spike", "adapter", "compare"} => status = "success"
      /\ phase \in {"adapter", "compare"} => spike.pc = HaltPc
      /\ phase = "compare" => adapter_ranges_valid
      /\ verdict = "FAIL" => phase = "done" /\ ~HaltIntact
<1>5. Progress
  BY DEF GoldenInv, ScriptState
<1>6. Progress'
  <2>1. UNCHANGED spike => HaltIntact' = HaltIntact
    BY DEF HaltIntact
  <2>2. UNCHANGED simVars => adapter_ranges_valid' = adapter_ranges_valid
    BY DEF simVars, adapter_ranges_valid, memory_ranges
  <2>3. CASE RunSimulator
    BY <1>5, <2>1, <2>3 DEF RunSimulator
  <2>4. CASE SimulatorFailed \/ ConvertThrows
    BY <1>5, <2>1, <2>4 DEF SimulatorFailed, ConvertThrows, simVars
  <2>5. CASE StartSpike
    BY <1>5, <2>5 DEF StartSpike, simVars
  <2>6. CASE SpikeSteps
    BY <1>5, <2>6 DEF SpikeSteps, simVars
  <2>7. CASE SpikeLeavesProgram \/ SpikeStops
    BY <1>5, <2>1, <2>7 DEF SpikeLeavesProgram, SpikeStops, simVars
  <2>8. CASE Convert
    BY <1>5, <2>1, <2>2, <2>8 DEF Convert, simVars
  <2>9. CASE Compare
    <3>1. HaltIntact => simulator_state = spike_state
      BY <2>9, ComparesEqual DEF Compare
    <3> QED
      BY <1>5, <2>1, <2>9, <3>1 DEF Compare, simVars
  <2>10. CASE UNCHANGED goldenVars
    BY <1>5, <2>1, <2>2, <2>10 DEF goldenVars, simVars
  <2> QED
    BY <2>3, <2>4, <2>5, <2>6, <2>7, <2>8, <2>9, <2>10 DEF GoldenNext
<1> QED
  BY <1>1, <1>3, <1>4, <1>6, <1>2 DEF ScriptState

\* Every step of the script keeps the types.
LEMMA GoldenTypeStep ==
    ASSUME GoldenInv, [GoldenNext]_goldenVars
    PROVE  IInv' /\ StatsInv' /\ GoldenTypeOK'
<1>1. IInv /\ SimTypeOK /\ StatsInv
  BY DEF GoldenInv, GoldenTypeOK
<1>2. IInv' /\ SimTypeOK' /\ StatsInv'
  BY <1>1, GoldenStepsSim, SimNextType, StatsNext
<1>3. spike' \in ArchState /\ image' \in Memory
  BY SpikeStateStep DEF GoldenInv, GoldenTypeOK
<1>4. phase' \in Phases
  BY DEF GoldenInv, GoldenTypeOK, Phases, GoldenNext, goldenVars, RunSimulator,
     SimulatorFailed, StartSpike, SpikeSteps, SpikeLeavesProgram, SpikeStops,
     Convert, ConvertThrows, Compare
<1>5. verdict' \in {"none", "ERROR", "PASS", "FAIL"}
  BY DEF GoldenInv, GoldenTypeOK, GoldenNext, goldenVars, RunSimulator,
     SimulatorFailed, StartSpike, SpikeSteps, SpikeLeavesProgram, SpikeStops,
     Convert, ConvertThrows, Compare
<1>6. minstret' \in 0 .. CounterRange - 1
  <2>1. minstret \in 0 .. CounterRange - 1
    BY DEF GoldenInv, GoldenTypeOK
  <2>2. (minstret + 1) % CounterRange \in 0 .. CounterRange - 1
    BY <2>1, GoldenAssumption
  <2>3. minstret' = minstret \/ minstret' = (minstret + 1) % CounterRange
    BY DEF GoldenNext, goldenVars, RunSimulator, SimulatorFailed, StartSpike,
       SpikeSteps, SpikeLeavesProgram, SpikeStops, Convert, ConvertThrows,
       Compare
  <2> QED
    BY <2>1, <2>2, <2>3
<1> QED
  BY <1>2, <1>3, <1>4, <1>5, <1>6 DEF GoldenTypeOK

\* Every step of the script keeps the invariant.
LEMMA GoldenNextInvariant == GoldenInv /\ [GoldenNext]_goldenVars => GoldenInv'
BY GoldenTypeStep, ScriptStateStep, SpikeStateStep DEF GoldenInv

\* The invariant holds in every run of the script.
LEMMA GoldenInvariant == GoldenSpec => []GoldenInv
BY GoldenInitInvariant, GoldenNextInvariant, PTL DEF GoldenSpec

\* Every state of the golden test is well typed, Spike's included.
THEOREM GoldenTypeCorrect == GoldenSpec => []GoldenTypeOK
<1>1. GoldenInv => GoldenTypeOK
  BY DEF GoldenInv
<1> QED
  BY <1>1, GoldenInvariant, PTL

(***************************************************************************)
(* The golden test never reports a difference, for any program that leaves  *)
(* its halt instruction alone, and so for any run of Spike that reaches the *)
(* halt symbol: run one after the other, the five-stage pipeline and the    *)
(* instruction set leave the same state file.                              *)
(***************************************************************************)
THEOREM GoldenCorrect == GoldenSpec => []GoldenAgrees
<1>1. GoldenInv => GoldenAgrees
  BY DEF GoldenInv, ScriptState, GoldenAgrees
<1> QED
  BY <1>1, GoldenInvariant, PTL

(***************************************************************************)
(* The instructions the simulator reports as retired are those Spike        *)
(* executes, and the halt: on every program, with any branch predictor,     *)
(* none is lost or counted twice between decode and write-back, and none of *)
(* a mispredicted path is counted.                                          *)
(***************************************************************************)
THEOREM InstructionCountsCorrect == GoldenSpec => []InstructionCountsAgree
<1>1. ASSUME GoldenInv PROVE InstructionCountsAgree
  <2>1. ASSUME phase \in {"spike", "adapter", "compare"}
        PROVE  minstret < stats.instruction_count
    <3>1. status = "success" /\ spike \in ArchState /\ ~spike.halted
      BY <1>1, <2>1 DEF GoldenInv, ScriptState, GoldenTypeOK
    <3>2. Abs.halted /\ Reaches(spike, minstret, Abs, stats.instruction_count)
      BY <1>1, <3>1, HaltedEnd
    <3> QED
      BY <3>1, <3>2, ReachesLater
  <2>2. ASSUME phase \in {"adapter", "compare"}, HaltIntact
        PROVE  stats.instruction_count = minstret + 1
    BY <1>1, <2>2, StopsBeforeHalt
  <2> QED
    BY <2>1, <2>2 DEF InstructionCountsAgree
<1> QED
  BY <1>1, GoldenInvariant, PTL

=============================================================================
