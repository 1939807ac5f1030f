------------------------------- MODULE Golden -------------------------------
(***************************************************************************)
(* The golden test of scripts/run_spike_golden.sh: run a program that ends  *)
(* in an ebreak on the simulator, run it on Spike until the pc reaches that *)
(* ebreak, let spike_state_adapter turn what Spike printed into the         *)
(* simulator's state format, and compare the two files.                     *)
(*                                                                          *)
(* Spike is external.  It is modelled as the instruction set of             *)
(* IsaSemantics in a RAM that begins at SpikeBase, where it traps instead   *)
(* of doing what only the simulator does: skip an unknown instruction,      *)
(* access memory at a misaligned address, halt at an ecall.                 *)
(*                                                                          *)
(* A state file holds the pc, the halt flag, the registers and the bytes of *)
(* the selected ranges; that the same selection is always written the same  *)
(* way, byte for byte, is RangesCanonical of StateDump.                     *)
(***************************************************************************)
EXTENDS Simulator, IsaSemantics

CONSTANTS
    SpikeBase,     \* first byte of Spike's RAM (-m); its end is the simulator's
    HaltPc,        \* the address of the manifest's halt symbol
    CounterRange   \* how many values a counter has, 2^64 in both programs

\* max_cycles is as wide as Spike's counter.
ASSUME GoldenAssumption ==
    /\ SpikeBase \in Word /\ HaltPc \in Word
    /\ CounterRange \in Nat \ {0}
    /\ \A o \in Options : o.max_cycles < CounterRange

VARIABLES
    phase,     \* which program the script is running
    image,     \* the RAM after loading, which both machines start from
    spike,     \* Spike's architectural state
    minstret,  \* Spike's count of retired instructions
    verdict    \* what the script prints, "none" before

goldenVars == <<simVars, phase, image, spike, minstret, verdict>>

Phases == {"simulator", "spike", "adapter", "compare", "lost", "done"}

memory_ranges == options.dump_ranges

Selected ==
    UNION {access_bytes(range.start_address, range.byte_count) :
             range \in memory_ranges}

\* print_architectural_state_json.
StateFile(next_pc, is_halted, register_file, ram) ==
    [pc |-> next_pc, halted |-> is_halted,
     registers |-> [r \in RegIndex |-> read_reg(register_file, r)],
     memory |-> [a \in Selected |-> read_u8(ram, a)]]

simulator_state == StateFile(pc, halted, regs, memory)

\* Every program of tests/golden/programs has its halt symbol on an ebreak.
halt_symbol_is_a_halt ==
    /\ valid_memory_access(HaltPc, 4)
    /\ decode_instruction[read_u32(image, HaltPc)].kind \in HaltKinds

\* On another length the script exits before it runs anything.
lengths_valid ==
    \A range \in memory_ranges :
        range.byte_count > 0 /\ range.byte_count % 4 = 0

-----------------------------------------------------------------------------
\* The simulator runs first, and a failure ends the script.
RunSimulator ==
    /\ phase = "simulator"
    /\ SimNext
    /\ UNCHANGED <<phase, image, spike, minstret, verdict>>

SimulatorFailed ==
    /\ phase = "simulator"
    /\ status = "failure"
    /\ phase' = "done"
    /\ verdict' = "ERROR"
    /\ UNCHANGED <<simVars, image, spike, minstret>>

\* Mutant of StartSpike: the simulator's exit status is not looked at.
StartSpikeUnchecked ==
    /\ phase = "simulator"
    /\ status # "running"
    /\ phase' = "spike"
    /\ spike' = [spike EXCEPT !.mem = image]
    /\ UNCHANGED <<simVars, image, minstret, verdict>>

StartSpike ==
    /\ phase = "simulator"
    /\ status = "success"
    /\ phase' = "spike"
    /\ spike' = [spike EXCEPT !.mem = image]
    /\ UNCHANGED <<simVars, image, minstret, verdict>>

-----------------------------------------------------------------------------
(* Spike *)

spike_fetch == decode_instruction[read_u32(spike.mem, spike.pc)]

InSpikeRam(address, width) ==
    SpikeBase <= address /\ valid_memory_access(address, width)

\* The access or jump of d raises no exception.
Aligned(d) ==
    LET width == AccessWidth(d.kind)
    IN  /\ width > 0 => /\ EffectiveAddress(spike, d) % width = 0
                        /\ InSpikeRam(EffectiveAddress(spike, d), width)
        /\ NextPc(spike, d) % 4 = 0

\* Spike's next step is one the instruction set prescribes.
SpikeCanStep ==
    /\ InSpikeRam(spike.pc, 4)
    /\ access_bytes(spike.pc, 4) \cap (spike.recent \cup spike.older) = {}
    /\ is_valid_instruction(spike_fetch)
    /\ spike_fetch.kind \notin HaltKinds
    /\ Aligned(spike_fetch)

SpikeSteps ==
    /\ phase = "spike"
    /\ spike.pc # HaltPc
    /\ SpikeCanStep
    /\ spike' = Exec(spike, spike_fetch)
    /\ minstret' = (minstret + 1) % CounterRange
    /\ UNCHANGED <<simVars, phase, image, verdict>>

(***************************************************************************)
(* Spike traps, or fetches what a store without FENCE.I has just written:   *)
(* what it does from there on is not compared with anything.                *)
(***************************************************************************)
SpikeLeavesProgram ==
    /\ phase = "spike"
    /\ spike.pc # HaltPc
    /\ ~SpikeCanStep
    /\ phase' = "lost"
    /\ UNCHANGED <<simVars, image, spike, minstret, verdict>>

\* The debug command "until pc 0 HALT" ends; reg, pc and mem print the state.
SpikeStops ==
    /\ phase = "spike"
    /\ spike.pc = HaltPc
    /\ phase' = "adapter"
    /\ UNCHANGED <<simVars, image, spike, minstret, verdict>>

-----------------------------------------------------------------------------
(* The adapter *)

\* parse_memory_range; the script has not looked at the start.
adapter_ranges_valid ==
    \A range \in memory_ranges :
        /\ range.start_address % 4 = 0
        /\ range.byte_count # 0
        /\ range.byte_count % 4 = 0

\* Does required_memory_size() not throw?
required_memory_fits ==
    /\ HaltPc + 4 < WordSize
    /\ \A range \in memory_ranges :
         range.start_address + range.byte_count < WordSize

\* The words the mem commands printed, by address.
printed_words ==
    [a \in {a \in Selected : a % 4 = 0} |-> read_u32(spike.mem, a)]

\* The adapter's RAM: zero but for the printed words.
adapter_memory ==
    [a \in Address |-> IF a \in Selected
                       THEN byte_of(printed_words[a - (a % 4)], a % 4)
                       ELSE 0]

\* Mutant of spike_state: Spike's own pc, before the ebreak.
spike_state_before_halt ==
    StateFile(HaltPc, TRUE, spike.regs, adapter_memory)

(***************************************************************************)
(* convert(): Spike stopped before the ebreak, the simulator retired it and *)
(* reports the sequential pc, so the adapter steps over it.                 *)
(***************************************************************************)
spike_state ==
    StateFile(add32(HaltPc, 4), TRUE, spike.regs, adapter_memory)

Convert ==
    /\ phase = "adapter"
    /\ adapter_ranges_valid
    /\ required_memory_fits
    /\ phase' = "compare"
    /\ UNCHANGED <<simVars, image, spike, minstret, verdict>>

\* A check throws or a file does not open: the script ends (set -e).
ConvertThrows ==
    /\ phase = "adapter"
    /\ phase' = "done"
    /\ verdict' = "ERROR"
    /\ UNCHANGED <<simVars, image, spike, minstret>>

Compare ==
    /\ phase = "compare"
    /\ phase' = "done"
    /\ verdict' = IF simulator_state = spike_state THEN "PASS" ELSE "FAIL"
    /\ UNCHANGED <<simVars, image, spike, minstret>>

\* The script passes the simulator no --retire-count.
GoldenInit ==
    /\ SimInit
    /\ ~options.has_retire_count
    /\ lengths_valid
    /\ phase = "simulator"
    /\ image = memory
    /\ halt_symbol_is_a_halt
    /\ spike = [regs |-> regs, mem |-> memory, pc |-> pc, halted |-> FALSE,
                error |-> FALSE, writes |-> {}, recent |-> {}, older |-> {}]
    /\ minstret = 0
    /\ verdict = "none"

GoldenNext ==
    \/ RunSimulator \/ SimulatorFailed
    \/ StartSpike \/ SpikeSteps \/ SpikeLeavesProgram \/ SpikeStops
    \/ Convert \/ ConvertThrows \/ Compare

GoldenSpec == GoldenInit /\ [][GoldenNext]_goldenVars /\ WF_goldenVars(GoldenNext)

-----------------------------------------------------------------------------
(* Properties *)

\* The types of the script's own state.
GoldenTypeOK ==
    /\ SimTypeOK
    /\ phase \in Phases
    /\ image \in Memory
    /\ spike \in ArchState
    /\ minstret \in 0 .. CounterRange - 1
    /\ verdict \in {"none", "ERROR", "PASS", "FAIL"}

\* The program has not overwritten its own halt instruction.
HaltIntact ==
    \A write \in spike.writes :
        access_bytes(write[1], write[2]) \cap access_bytes(HaltPc, 4) = {}

(***************************************************************************)
(* The golden test raises no false alarm: whenever Spike runs from the load *)
(* address to the halt symbol and the halt instruction is still there, the  *)
(* two state files are the same although the pipeline executed in five      *)
(* overlapping stages, retired the ebreak Spike stopped at, and wrote the   *)
(* file from a differently built memory.  (That a PASS means equal files    *)
(* needs no property: it is what the comparison tests.)                     *)
(***************************************************************************)
GoldenAgrees == verdict = "FAIL" => ~HaltIntact

(***************************************************************************)
(* The number of retired instructions the simulator reports is the number   *)
(* Spike executed, and the ebreak: the pipeline lost none on a flush, a     *)
(* stall or an empty latch, counted none twice and none of a wrong path.    *)
(* Spike, which has no limit on instructions, never executes more of them.  *)
(***************************************************************************)
InstructionCountsAgree ==
    /\ phase \in {"spike", "adapter", "compare"} =>
         minstret < stats.instruction_count
    /\ phase \in {"adapter", "compare"} /\ HaltIntact =>
         stats.instruction_count = minstret + 1

(***************************************************************************)
(* The script does not hang on Spike, which it starts without a limit on    *)
(* instructions: a program the simulator finished within its cycles either  *)
(* brings Spike to the halt symbol too, or leaves what the instruction set  *)
(* prescribes.                                                              *)
(***************************************************************************)
GoldenFinishes == <>(phase \in {"lost", "done"})

=============================================================================
