------------------------------ MODULE Session ------------------------------
(***************************************************************************)
(* A program that uses the classes CPU and PipelineRegisters through their  *)
(* public operations, in any order, to run one program after another on the *)
(* same objects: CPU::reset(), CPU::load_program(),                         *)
(* PipelineRegisters::clear_all() and run_pipeline_cycle().                 *)
(*                                                                          *)
(* No operation clears everything: reset() leaves the RAM and the latches,  *)
(* load_program() the registers, the predictor and the latches, and         *)
(* clear_all() everything in the CPU.  As in Pipeline, the counters of      *)
(* ExecutionStats, which no stage reads, are left out.                      *)
(***************************************************************************)
EXTENDS PipelineRefinement

CONSTANT MaxCalls   \* bound on the set-up operations of a session

ASSUME SessionAssumption == MaxCalls \in Nat

VARIABLES
    calls,    \* set-up operations called so far
    since,    \* the set-up operations called since the last cycle
    stale,    \* reset() or load_program() was called over occupied latches
    loaded    \* the program of the last load_program() and its base address

sessionVars == <<vars, calls, since, stale, loaded>>

latchVars == <<if_id, id_ex, ex_mem, mem_wb>>

SetUp == calls < MaxCalls /\ calls' = calls + 1

LatchesEmpty == ~if_id.valid /\ ~id_ex.valid /\ ~ex_mem.valid /\ ~mem_wb.valid

-----------------------------------------------------------------------------
\* Mutant of reset: the predictor keeps its training.
reset_keeps_counters ==
    /\ SetUp
    /\ regs' = [r \in RegIndex |-> 0]
    /\ pc' = 0
    /\ halted' = FALSE
    /\ memory_writes' = {}
    /\ stale' = (stale \/ ~LatchesEmpty)
    /\ since' = (since \ {"load_program"}) \cup {"reset"}
    /\ UNCHANGED <<config, memory, counters, latchVars, error, loaded>>

\* CPU::reset().  It moves the pc, so a program must be loaded after it.
reset ==
    /\ SetUp
    /\ regs' = [r \in RegIndex |-> 0]
    /\ pc' = 0
    /\ halted' = FALSE
    /\ memory_writes' = {}
    /\ counters' = reset_counters
    /\ stale' = (stale \/ ~LatchesEmpty)
    /\ since' = (since \ {"load_program"}) \cup {"reset"}
    /\ UNCHANGED <<config, memory, latchVars, error, loaded>>

\* CPU::load_program() with a program that is not empty and fits into RAM.
load_program(program, base_address) ==
    /\ SetUp
    /\ Len(program) > 0
    /\ valid_memory_access(base_address, Len(program))
    /\ memory' = load_image(memory, program, Len(program), base_address)
    /\ pc' = base_address
    /\ halted' = FALSE
    /\ memory_writes' = {}
    /\ loaded' = [program |-> program, base_address |-> base_address]
    /\ stale' = (stale \/ ~LatchesEmpty)
    /\ since' = since \cup {"load_program"}
    /\ UNCHANGED <<config, regs, counters, latchVars, error>>

\* Mutant of clear_all: the fetched instruction is forgotten.
clear_all_but_if_id ==
    /\ SetUp
    /\ id_ex' = empty_id_ex
    /\ ex_mem' = empty_ex_mem
    /\ mem_wb' = empty_mem_wb
    /\ error' = FALSE
    /\ stale' = FALSE
    /\ since' = since \cup {"clear_all"}
    /\ UNCHANGED <<config, regs, memory, memory_writes, pc, halted, counters,
                   if_id, loaded>>

\* PipelineRegisters::clear_all(); it also drops the access that threw.
clear_all ==
    /\ SetUp
    /\ if_id' = empty_if_id
    /\ id_ex' = empty_id_ex
    /\ ex_mem' = empty_ex_mem
    /\ mem_wb' = empty_mem_wb
    /\ error' = FALSE
    /\ stale' = FALSE
    /\ since' = since \cup {"clear_all"}
    /\ UNCHANGED <<config, regs, memory, memory_writes, pc, halted, counters,
                   loaded>>

\* run_pipeline_cycle(), which callers do not call on a halted CPU.
Cycle ==
    /\ Next
    /\ since' = {}
    /\ UNCHANGED <<calls, stale, loaded>>

Load ==
    \E program \in Programs, base_address \in LoadAddresses :
        load_program(program, base_address)

\* A new CPU and new latches, and the first program.
SessionInit ==
    /\ Init
    /\ loaded \in [program : Programs, base_address : LoadAddresses]
    /\ Len(loaded.program) > 0
    /\ valid_memory_access(loaded.base_address, Len(loaded.program))
    /\ pc = loaded.base_address
    /\ memory = load_image([a \in Address |-> 0], loaded.program,
                           Len(loaded.program), loaded.base_address)
    /\ since = {"reset", "load_program", "clear_all"}
    /\ stale = FALSE
    /\ calls = 0

SessionNext == reset \/ Load \/ clear_all \/ Cycle

SessionSpec == SessionInit /\ [][SessionNext]_sessionVars

-----------------------------------------------------------------------------
(* Properties *)

\* The state of a new CPU with new latches, but for the RAM around the program.
FreshState ==
    /\ regs = [r \in RegIndex |-> 0]
    /\ memory_writes = {}
    /\ ~halted /\ ~error
    /\ counters = reset_counters
    /\ LatchesEmpty
    /\ pc = loaded.base_address
    /\ \A i \in DOMAIN loaded.program :
         memory[loaded.base_address + i - 1] = loaded.program[i]

(***************************************************************************)
(* reset(), then load_program(), and clear_all() before, between or after,  *)
(* together put used objects back to a first run, whatever was executed or  *)
(* interrupted on them before.                                              *)
(***************************************************************************)
CleanStart ==
    {"reset", "load_program", "clear_all"} \subseteq since => FreshState

(***************************************************************************)
(* The one thing a caller must not forget is clear_all(): whenever no       *)
(* latch has outlived a reset() or load_program(), the pipeline's inductive *)
(* invariant holds, with whatever registers, RAM and predictor the earlier  *)
(* programs left.                                                           *)
(***************************************************************************)
ReuseIsSound == ~stale => IInv

(***************************************************************************)
(* Hence each cycle of a reused pipeline is a step of the sequential        *)
(* machine or changes nothing in it.                                        *)
(***************************************************************************)
ReuseExecutesIsa ==
    [][~stale /\ since' = {} => IsaRef!IsaNext \/ Abs' = Abs]_sessionVars

=============================================================================
