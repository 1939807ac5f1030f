--------------------------- MODULE SessionProofs ---------------------------
(***************************************************************************)
(* Reusing a CPU and its latches is sound, for every width, memory size,    *)
(* decoder and set of programs, and for sessions of any length.             *)
(***************************************************************************)
EXTENDS Session, PipelineProofs

\* The fields of the objects after the set-up operations called so far.
SetUpDone ==
    /\ "reset" \in since => /\ regs = [r \in RegIndex |-> 0]
                            /\ counters = reset_counters
    /\ "load_program" \in since =>
         /\ ~halted
         /\ memory_writes = {}
         /\ pc = loaded.base_address
         /\ \A i \in DOMAIN loaded.program :
              memory[loaded.base_address + i - 1] = loaded.program[i]
    /\ "clear_all" \in since => LatchesEmpty /\ ~error

\* The inductive invariant of a session.
SessionInv ==
    /\ TypeOK
    /\ ~stale => IInv
    /\ stale \in BOOLEAN
    /\ SetUpDone

-----------------------------------------------------------------------------
(* The operations one by one *)

\* With cleared latches any well-typed CPU state satisfies the invariant.
LEMMA ClearedInvariant ==
    ASSUME TypeOK', if_id' = empty_if_id, id_ex' = empty_id_ex,
           ex_mem' = empty_ex_mem, mem_wb' = empty_mem_wb, ~error'
    PROVE  IInv'
<1>1. ~if_id'.valid /\ ~id_ex'.valid /\ ~ex_mem'.valid /\ ~mem_wb'.valid
  BY DEF empty_if_id, empty_id_ex, empty_ex_mem, empty_mem_wb
<1>2. LatchesDecoded'
  BY <1>1 DEF LatchesDecoded
<1> QED
  BY <1>1, <1>2
  DEF IInv, OperandsRead, LoadUseSeparated, PathIsConnected, HaltBarrier,
      FetchIsFresh, ErrorIsFinal

\* Latches without an instruction are cleared, and no exception is pending.
LEMMA EmptyIsCleared ==
    ASSUME IInv, LatchesEmpty
    PROVE  /\ if_id = empty_if_id /\ id_ex = empty_id_ex
           /\ ex_mem = empty_ex_mem /\ mem_wb = empty_mem_wb
           /\ ~error
BY DEF IInv, LatchesDecoded, LatchesEmpty, ErrorIsFinal, memory_access_throws

\* The RAM after load_program() is typed and holds the program.
LEMMA LoadedMemory ==
    ASSUME NEW m \in Memory, NEW p \in Seq(Byte), NEW b \in Word,
           valid_memory_access(b, Len(p)), Len(p) > 0
    PROVE  /\ load_image(m, p, Len(p), b) \in Memory
           /\ \A i \in DOMAIN p : load_image(m, p, Len(p), b)[b + i - 1] = p[i]
<1>1. b \in Nat /\ Len(p) \in Nat /\ MemSize \in Nat /\ b + Len(p) <= MemSize
  BY CpuAssumption, WordSizeFacts DEF Word, valid_memory_access
<1>2. \A a \in Address : a \in access_bytes(b, Len(p)) => p[a - b + 1] \in Byte
  <2>1. SUFFICES ASSUME NEW a \in Address, a \in b .. b + Len(p) - 1
                 PROVE  p[a - b + 1] \in Byte
    BY DEF access_bytes
  <2>2. a - b + 1 \in 1 .. Len(p)
    BY <1>1, <2>1 DEF Address
  <2> QED
    BY <2>2
<1>3. load_image(m, p, Len(p), b) \in Memory
  BY <1>2 DEF load_image, Memory
<1>4. ASSUME NEW i \in 1 .. Len(p)
      PROVE  load_image(m, p, Len(p), b)[b + i - 1] = p[i]
  <2>1. /\ b + i - 1 \in Address
        /\ b + i - 1 \in access_bytes(b, Len(p))
        /\ (b + i - 1) - b + 1 = i
    BY <1>1 DEF Address, access_bytes
  <2> HIDE DEF load_image
  <2>2. load_image(m, p, Len(p), b)[b + i - 1] = p[(b + i - 1) - b + 1]
    BY <2>1 DEF load_image
  <2> QED
    BY <2>1, <2>2
<1> QED
  BY <1>3, <1>4

\* CPU::reset() keeps the invariant.
LEMMA ResetStep == SessionInv /\ reset => SessionInv'
<1> SUFFICES ASSUME SessionInv, reset PROVE SessionInv'
  OBVIOUS
<1> USE DEF reset, SessionInv
<1>1. counters' \in Counters
  BY DEF reset_counters, Counters, CounterState, WeaklyNotTaken,
         StronglyNotTaken, StronglyTaken
<1>2. regs' \in RegFile /\ pc' \in Word
  BY WordSizeFacts DEF RegFile
<1>3. TypeOK'
  BY <1>1, <1>2 DEF TypeOK, latchVars
<1>4. ~stale' => IInv'
  <2> SUFFICES ASSUME ~stale' PROVE IInv'
    OBVIOUS
  <2>1. /\ if_id' = empty_if_id /\ id_ex' = empty_id_ex
        /\ ex_mem' = empty_ex_mem /\ mem_wb' = empty_mem_wb
        /\ ~error'
    BY EmptyIsCleared DEF latchVars
  <2> QED
    BY <1>3, <2>1, ClearedInvariant
<1>5. stale' \in BOOLEAN
  OBVIOUS
<1>6. SetUpDone'
  BY DEF SetUpDone, LatchesEmpty, latchVars
<1> QED
  BY <1>3, <1>4, <1>5, <1>6

\* CPU::load_program() keeps the invariant.
LEMMA LoadStep == SessionInv /\ Load => SessionInv'
<1> SUFFICES ASSUME SessionInv, NEW p \in Programs, NEW b \in LoadAddresses,
                    load_program(p, b)
             PROVE  SessionInv'
  BY DEF Load
<1> USE DEF load_program, SessionInv
<1>1. p \in Seq(Byte) /\ b \in Word /\ memory \in Memory
  BY ProgramAssumption DEF TypeOK
<1>2. /\ memory' \in Memory
      /\ \A i \in DOMAIN p : memory'[b + i - 1] = p[i]
  BY <1>1, LoadedMemory
<1>3. TypeOK'
  BY <1>1, <1>2 DEF TypeOK, latchVars
<1>4. ~stale' => IInv'
  <2> SUFFICES ASSUME ~stale' PROVE IInv'
    OBVIOUS
  <2>1. /\ if_id' = empty_if_id /\ id_ex' = empty_id_ex
        /\ ex_mem' = empty_ex_mem /\ mem_wb' = empty_mem_wb
        /\ ~error'
    BY EmptyIsCleared DEF latchVars
  <2> QED
    BY <1>3, <2>1, ClearedInvariant
<1>5. stale' \in BOOLEAN
  OBVIOUS
<1>6. SetUpDone'
  BY <1>2 DEF SetUpDone, LatchesEmpty, latchVars
<1> QED
  BY <1>3, <1>4, <1>5, <1>6

\* PipelineRegisters::clear_all() establishes the pipeline's invariant.
LEMMA ClearStep == SessionInv /\ clear_all => SessionInv'
<1> SUFFICES ASSUME SessionInv, clear_all PROVE SessionInv'
  OBVIOUS
<1> USE DEF clear_all, SessionInv
<1>1. TypeOK'
  BY EmptyLatchTypes DEF TypeOK
<1>2. IInv'
  BY <1>1, ClearedInvariant
<1>3. SetUpDone'
  BY DEF SetUpDone, LatchesEmpty, empty_if_id, empty_id_ex, empty_ex_mem,
         empty_mem_wb
<1> QED
  BY <1>1, <1>2, <1>3

\* run_pipeline_cycle() keeps the invariant and ends the set-up.
LEMMA CycleStep == SessionInv /\ Cycle => SessionInv'
BY NextType, NextInvariant DEF SessionInv, Cycle, SetUpDone

\* Every session, in whatever order it calls the operations.
LEMMA SessionInvariant == SessionSpec => []SessionInv
<1>1. SessionInit => SessionInv
  <2> SUFFICES ASSUME SessionInit PROVE SessionInv
    OBVIOUS
  <2>1. TypeOK /\ IInv
    BY InitType, InitInvariant DEF SessionInit
  <2>2. LatchesEmpty /\ ~error /\ ~halted
    BY DEF SessionInit, Init, LatchesEmpty, empty_if_id, empty_id_ex,
           empty_ex_mem, empty_mem_wb
  <2>3. \A i \in DOMAIN loaded.program :
          memory[loaded.base_address + i - 1] = loaded.program[i]
    <3>1. /\ loaded.program \in Seq(Byte) /\ loaded.base_address \in Word
      BY ProgramAssumption DEF SessionInit
    <3>2. [a \in Address |-> 0] \in Memory
      BY CpuAssumption DEF Memory, Byte
    <3> QED
      BY <3>1, <3>2, LoadedMemory DEF SessionInit
  <2> QED
    BY <2>1, <2>2, <2>3 DEF SessionInv, SetUpDone, SessionInit, Init
<1>2. SessionInv /\ [SessionNext]_sessionVars => SessionInv'
  <2> SUFFICES ASSUME SessionInv, [SessionNext]_sessionVars PROVE SessionInv'
    OBVIOUS
  <2>1. CASE UNCHANGED sessionVars
    <3>1. TypeOK' /\ (IInv => IInv')
      BY <2>1, NextType, NextInvariant DEF SessionInv, sessionVars
    <3> QED
      BY <2>1, <3>1 DEF SessionInv, SetUpDone, LatchesEmpty, sessionVars, vars
  <2> QED
    BY <2>1, ResetStep, LoadStep, ClearStep, CycleStep DEF SessionNext
<1> QED
  BY <1>1, <1>2, PTL DEF SessionSpec

-----------------------------------------------------------------------------
(* The theorems *)

\* The pipeline's invariant holds unless a latch outlived a reset() or a
\* load_program(): clear_all() is all that reuse needs.
THEOREM ReuseSound == SessionSpec => []ReuseIsSound
<1>1. SessionInv => ReuseIsSound
  BY DEF SessionInv, ReuseIsSound
<1> QED
  BY <1>1, SessionInvariant, PTL

\* reset(), load_program() and clear_all() together undo everything that
\* run_pipeline_cycle() did to the objects, whatever it was.
THEOREM CleanStartCorrect == SessionSpec => []CleanStart
<1>1. SessionInv => CleanStart
  BY DEF SessionInv, SetUpDone, CleanStart, FreshState
<1> QED
  BY <1>1, SessionInvariant, PTL

\* Each cycle of a reused pipeline is a step of the sequential machine.
THEOREM ReuseRefines == SessionSpec => ReuseExecutesIsa
<1>1. SessionInv /\ [SessionNext]_sessionVars =>
        [~stale /\ since' = {} => IsaRef!IsaNext \/ Abs' = Abs]_sessionVars
  <2> SUFFICES ASSUME SessionInv, SessionNext, ~stale, since' = {}
               PROVE  IsaRef!IsaNext \/ Abs' = Abs
    OBVIOUS
  <2>1. Next
    BY DEF SessionNext, reset, Load, load_program, clear_all, Cycle
  <2> QED
    BY <2>1, CycleRefines, ThrowStutters DEF SessionInv, Next
<1> QED
  BY <1>1, SessionInvariant, PTL DEF SessionSpec, ReuseExecutesIsa

=============================================================================
