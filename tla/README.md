# A TLA+ verification of the RV32I pipelined simulator

The program is a cycle-level simulator of a five-stage RV32I pipeline. It is a
single-threaded C++ program, but the thing it simulates is concurrent: up to
four instructions are in flight, each stage of a cycle reads what others have
not written yet, and the answer has to be the one a machine executing one
instruction at a time would give. That claim is what this project is about. It
is stated as a refinement (`ImplementsIsa`), checked by TLC on every small
program, and proved with TLAPS for every program, memory size, register count,
word size and predictor configuration. The same is done for what surrounds the
pipeline: the decoder, the counters and the trace of a run, the point at which a
run may be cut, the state file and the command line.

## 1. The system

| component | state it keeps | operations | correct when |
|---|---|---|---|
| CPU (`src/src/cpu.cpp`) | registers, RAM, pc, halt flag, write log, statistics | register and memory access with bounds checks, `load_program`, `halt`, `tick`, `reset` | x0 reads 0; an access outside RAM throws and changes nothing |
| branch predictor (`branch_predictor.cpp`) | 64 two-bit counters | `predict`, `update`, `reset` | counters saturate; a prediction never changes a result |
| decoding (`instruction.cpp`, `decoder.cpp`) | none | `decode_instruction` | each encoding gets its kind, fields and control signals; no other word is taken for an instruction |
| hazard unit (`hazard_unit.cpp`) | none | `detect_raw_hazard` | the consumer of a load waits one cycle, and nothing else waits |
| forwarding unit (`forwarding_unit.cpp`) | none | `resolve_forwarding` | stage_EX gets the youngest older value |
| stages and latches (`stages.cpp`, `pipeline_registers.hpp`) | IF/ID, ID/EX, EX/MEM, MEM/WB, current and next | `run_pipeline_cycle` | the pipeline implements the instruction set, and keeps retiring |
| simulation loop (`main.cpp`) | options, exit status | the `while` loop, expectations, exit status | it ends; the counters are consistent; failure is reported |
| command line (`main.cpp`) | the options under construction | `parse_cli` | an accepted command line means what was written, and meets what the simulator assumes |
| program loader (`program_loader.cpp`) | none | `load_binary_program` | only whole instructions are loaded |
| pipeline trace (`pipeline_trace.cpp`, `main.cpp`) | entries printed | `should_print_trace`, `print_pipeline_trace` | the window asked for is shown, and one entry follows from the last |
| state dump (`state_dump.cpp`, `main.cpp`) | none; a file stream | `print_memory_dump`, `print_written_memory_dump`, `print_architectural_state_json`, `write_architectural_state` | each selected byte appears once; the text is canonical; a dump ends; a lost file is reported |
| golden comparison (`run_spike_golden.sh`, `spike_state_adapter.cpp`) | the two state files | run the simulator, run Spike, convert, compare | it agrees whenever the two machines do, in state and in number of instructions, and does not hang |
| assembly programs, other scripts | none | inputs and build steps | (see "Not modelled") |

The core is one call, `run_pipeline_cycle`. It runs the stages
from the last to the first. A stage reads the *current* latches and writes a
*next* latch, and `commit()` makes all next latches current. The CPU, on the
other hand, is written directly, so a later-run stage sees what an earlier-run
stage did in the same cycle: decode sees the write-back, fetch sees the store,
the trained predictor and the redirected pc. `stage_MEM` may throw
`std::out_of_range`; write-back has then happened and the commit has not, and
`main` ends the run.

What is hard, and where, is listed in `PROJECT.json` under `hazards`: bypass
priority, the load-use stall, write-back before decode, flushes that meet
stalls, halts and the end of RAM, a halt that has to hold fetch for several
cycles, an exception in the middle of a cycle, stores into instructions already
fetched, predictor aliasing, counters updated in different places, and loops
that could spend cycles without progress; outside the core, objects used for a
second program, runs stopped between two instructions, 32-bit counters at their
end, negative numbers in options, and a stream tested before it is flushed.

## 2. The modules

| module | models | notes |
|---|---|---|
| `Cpu` | words, registers, RAM, bounds check, program image | pure operators; widths are constants |
| `BranchPredictor` | the counter table and the three policies | pure operators |
| `Control` | instruction kinds and the control signals of each | constants only |
| `Instructions` | decoded instructions, source registers | the encoding, `decode_instruction`, is a constant function |
| `Encoding`, `Decoder` | the RISC-V instruction formats; `decode_instruction` on the bits of a word | `Encoding` is written from the instruction set, `Decoder` from the code |
| `Datapath` | comparator, load/store widths and sign extension | `execute_alu` is a constant operator |
| `Alu` | `execute_alu` for a given word width | used by TLC only (bitwise operators) |
| `Pipeline` | the CPU state, the latches and `run_pipeline_cycle` | the core state machine |
| `IsaSemantics` | what each instruction does to the architectural state | written from the instruction set, by kind, without control signals |
| `Isa` | a machine executing one instruction at a time | the abstract specification |
| `PipelineRefinement` | the refinement mapping and the pipeline's properties, the inductive invariant | |
| `Session` | `reset`, `load_program`, `clear_all` and cycles in any order on the same objects | the interface the tests use |
| `Simulator` | `main`: the loop, the statistics, the exit status | a step is a `Pipeline` step plus counters |
| `Trace` | the entries `main` prints before its cycles | a step is a `Simulator` step plus an entry |
| `Retirement` | complete runs, with the history of what has retired | a step is a `Trace` step plus history |
| `Golden` | the golden test: simulator, Spike, adapter, comparison | composes `Simulator` with `IsaSemantics` |
| `CommandLine` | `parse_cli` | |
| `StateDump` | the three memory dumps | |
| `StateFile` | `write_architectural_state` over a disk that may fail | composes `StateDump` with a file stream |
| `MCPipeline`, `MCSimulator`, `MCRetirement`, `MCSession`, `MCGolden`, `MCDecoder`, `MCStateDump`, `MCCommandLine` | constants for TLC | |
| `PipelineProofs` | lemmas about the operators; type correctness; the inductive invariant and what follows from it; the pipeline implements `Isa`; the state a run stops in | TLAPS |
| `ControlProofs` | what the control signals of a kind are | TLAPS |
| `DecoderProofs` | the real decoder meets what the pipeline assumes of it, and inverts the encoding | TLAPS |
| `SessionProofs` | reuse of a CPU and its latches | TLAPS |
| `SimulatorProofs` | `Simulator`, `Trace` and `Retirement`: counters, trace, cycle bounds, the boundary a run is cut at, program order | TLAPS |
| `StateFileProofs` | `StateDump` and `StateFile`: the three dumps, the ranges, the stream | TLAPS |
| `CommandLineProofs` | what `parse_cli` accepts and what it means | TLAPS |
| `GoldenProofs` | the golden test: the two machines agree on states and on instruction counts | TLAPS |

`EXTENDS` runs `Cpu`, `Control` <- `Instructions` <- `Datapath` <- `Pipeline`
(with `BranchPredictor`) <- `PipelineRefinement` (with `IsaSemantics`) <-
`Session`; `Pipeline` <- `Simulator` <- `Trace` <- `Retirement` (with
`IsaSemantics`); `Simulator` <- `Golden` (with `IsaSemantics`); `Control` and
`Encoding` <- `Decoder`; `Cpu` <- `StateDump` <- `StateFile`. `CommandLine`
stands alone. A definition called "Mutant of X" is X with a plausible mistake;
no specification uses it, and it is there to confirm that the property it is
meant for notices.

### How the state and the actions correspond to the code

One step of `Pipeline` is one call of `run_pipeline_cycle`. There are two
actions: `run_pipeline_cycle`, the call that commits, and
`run_pipeline_cycle_throws`, the call that an exception leaves in `stage_MEM`.
The first is the conjunction of `stage_WB`, `stage_MEM`, `stage_EX`, `stage_ID`
and `stage_IF`, in the order of the calls. The order matters only through the
CPU, and shows in what is primed: `stage_ID` is `id_ex' = next_id_ex(regs')`,
because decode runs after write-back; `stage_IF` reads `memory'`, `counters'`
and `pc_after_ex`. The next latches are not variables: `clear_next()` empties
them at the start of each call and `commit()` copies them at its end.

`StageControl` appears as the state functions `flush_id_ex`,
`stall_fetch_decode` and `stop_fetch`. `Init` is a newly constructed CPU and
pipeline after `load_program`; loads that throw start no run.

`Simulator` adds `main`: `Tick` is an iteration of the loop, `Abort` one that
ends in the `catch` block, `Finish` the code after the loop. The counters are in
this module because no stage reads them, so `Pipeline` stays finite for TLC.
`Trace` adds what an iteration prints first, `Retirement` three history variables:
`retired`, the sequential machine advanced by each retired instruction,
`dropped`, the unknown words decode has skipped, and `skipped`, how many of them
stood right before the instruction in each latch (`skipped_after_cycle` moves
these counts along with the latches).

`Session` has one action per public operation, `reset`, `Load`, `clear_all` and
`Cycle`. `stale` remembers that `reset` or `load_program` found occupied latches
that `clear_all` has not removed since.

`CommandLine` looks at one argument per step, with one action per option and
`RejectArgument` for the exceptions, and at the condition between options when
none is left (`EndOfArguments`). `StateDump` has one
action per branch of its scan and line loops. `StateFile` opens the file, runs
`StateDump`'s steps, hands the text to the stream piece by piece, tests the
stream and closes it; the stream may fail whenever it writes its buffer.
`Golden` runs `Simulator`'s steps first, then Spike's, then the adapter's.

### What is abstracted

* Widths. A byte has `ByteSize` values, a word is four bytes. TLC uses
  two-bit bytes, hence 8-bit words; wrap-around, sign bits, bytes of a word,
  misaligned addresses and accesses beyond RAM all occur. The proofs are for
  every `ByteSize >= 2`, 256 included.
* Encodings. In `Pipeline`, `decode_instruction` is any function that gives
  each word a `DecodedInstruction` whose control signals are those of its kind
  (`DecodeAssumption`). TLC uses a table of 29 instructions. The real decoder is
  `Decoder`, on 32-bit words; `DecoderCorrect` proves that it meets the
  assumption for every word. The immediate is kept as the `uint32_t` it is cast
  to at each use.
* Fields of the latches that no stage reads (`format`, `funct3`, `funct7`,
  `predicted_taken`, `branch_taken`, `branch_target`) are left out. Of these the
  trace prints `predicted_taken`; the predicted pc stands for it.
* Text. A dump is which bytes it contains and how often, a trace entry what it
  shows of each latch, an argument its name, its numbers (sign, magnitude,
  whether anything follows; one number text, or two around a colon) and its other
  text, a state file its values.
* Spike is external: the sequential machine in its own RAM. Where the
  simulator goes beyond the instruction set (unknown words, misaligned accesses,
  ecall) Spike traps, and the model stops comparing (`lost`).
* `memory_writes` is the set of recorded writes, not their sequence: the state
  dump merges them into ranges.

### The abstract machine

`Isa` executes one instruction per step: it fetches a word at `pc`, and `Exec`
says what it does. A memory access outside RAM stops it with `error`, before
the instruction has any effect. Two choices follow the simulator because the
instruction set leaves them open: an unknown word is skipped, and a fetch need
not see the stores of the two instructions before it (RV32I orders them only
with FENCE.I), so there it may return any word. `Settle` is the passing of a
bubble, after which older stores have reached fetch.

The refinement mapping `Abs` takes an instruction as executed when it leaves
decode, and applies the latches to the CPU state from the oldest to the
youngest: MEM/WB, then EX/MEM, then the instruction in ID/EX by `Exec` itself.
A cycle that issues an instruction is thus an `Execute` step, and any other
cycle a stutter or a `Settle`.

## 3. The runs

The runs about the pipeline use `ByteSize = 4`, three registers, two predictor
entries, and every program of a few words chosen from a set, followed by an
ecall and two data words in a RAM that ends there or a word later. Deadlock is
not checked because a run is meant to stop.

| run | instance | checks |
|---|---|---|
| `data_hazards` | programs of 3 of 14 ALU, load, store, lui instructions (2744), and of 4 of 8 with stores that hit the program itself (4096) | `TypeOK`, `OperandsAreCurrent`, `FetchIsFresh`, `StoppedStateIsArchitectural`, `ImplementsIsa` |
| `control_flow` | programs of 3 of 14 branches, jumps, loads, a store, ecall, unknown, among them loops and branches to misaligned addresses; all three predictors | `IInv`, `PathIsConnected`, `HaltBarrier`, `ImplementsIsa`, `KeepsRetiring` |
| `simulator` | programs of 3 of 11, with retirement counts 0, 2, 3 and none, a state file that may fail, a range outside RAM, an expectation; four trace windows | `SimTypeOK`, `StatsConsistent`, `CycleBudget`, `DumpedAtBoundary`, `RetiresInOrder`, `RetireCountExact`, `TraceWindow`, `TraceReadsOn`, `SimTerminates` |
| `session` | four programs, at most 4 set-up operations (`MaxCalls`), at any cycle | `CleanStart`, `ReuseIsSound`, `ReuseExecutesIsa` |
| `decoder` | instructions an assembler can write (`Assembled`), of all 39 kinds with fields at the ends of their ranges, and each of their words with one bit changed; 32-bit words | `DecoderTypeOK`, `RoundTrip`, `NoBitIgnored`, `ControlMatchesKind` |
| `state_dump` | every range, every two requested ranges and every three stores in 9 bytes of RAM, 16 words of address space, 4 bytes a line; a stream buffer of 3 pieces | `DumpTypeOK`, `EachByteOnce`, `RangesCanonical`, `NothingLostWhilePrinting`, `DumpProgresses`, `DumpTerminates` |
| `golden` | programs of 3 of 11 loaded at 4, the start of Spike's RAM, with the halt symbol at 16; overlapping and misaligned ranges | `GoldenTypeOK`, `GoldenAgrees`, `InstructionCountsAgree`, `GoldenFinishes` |
| `command_line` | every command line of up to 3 arguments (`MaxArguments`), with 4-bit and 6-bit numbers for 32 and 64 bits | `OptionsFromArguments`, `OptionsAreSafe` |
| `forwarding_switch` | forwarding switched off | `ForwardingObeysConfig` is violated |
| `stopped_early` | the built-in demo | `StoppedEarlyMeansUnfinished` is violated |
| `dump_whole_memory` | a range that ends within a line of the word size | `DumpTerminates` is violated |
| `state_file_lost` | as `state_dump` | `ReportedMeansWritten` is violated |

Why the bounds are enough: an instruction interacts with at most the three
before it (the latches ID/EX, EX/MEM and MEM/WB), so three or four free slots
and the ecall behind them fill every latch in every combination of the chosen
kinds. Three registers give x0, a dependence and an independent register; two
predictor entries give both separate and shared entries. Programs with backward
branches revisit their instructions with other register values and a trained
predictor. Each run's words are chosen for the question it asks, so that they do
occur: a load behind a load, a faulting access behind a write-back, a halt on
the wrong path, an unknown word, a jump out of RAM. `--max-cycles` (20 to 24) is
more than the programs that halt need, so that the loops are cut by it and the
others end.

Elsewhere: four set-up operations are one more than a clean restart needs, so a
session can restart in the wrong order, or restart twice and forget one
operation. Three
arguments are one option, one it depends on, and a repetition. Six-bit numbers
keep what matters of 64 bits: the negative numbers wrap to values that do and
do not fit in 32. Nine bytes of RAM are two lines and a byte; ranges that touch,
overlap, nest or are empty all occur. A buffer of three pieces is smaller than,
as large as and larger than states of one to ten pieces.

The golden test assumes what the script and its programs provide: it passes no
`--retire-count`, so that the simulator succeeds only at a halt, and each program
of `tests/golden/programs` has its halt symbol on an `ebreak`
(`halt_symbol_is_a_halt`). Whether that instruction is still there when Spike
gets to it is not assumed; the properties say `HaltIntact` where they need it.

**Fairness.** `Spec`, `SimSpec`, `RetireSpec`, `DumpSpec`, `FileSpec` and
`GoldenSpec` have weak fairness of their whole next-state relation and no other
fairness. `main` is one thread that calls `run_pipeline_cycle` again as long as
its loop condition holds, and nothing in a call waits; the dumps are loops in
that thread; the script runs one program after the other and the operating
system runs each. Which outcome a write to the disk has is never assumed.

What the properties say:

* `OperandsAreCurrent`: every register an instruction in ID/EX reads has,
  after forwarding, the value left by all older instructions.
* `PathIsConnected`: pc, IF/ID and ID/EX form one predicted path.
* `HaltBarrier`: no latch behind a halt that has left decode is occupied.
* `FetchIsFresh`: the word in IF/ID is what RAM holds, unless a load-use
  stall held it while the store just before the load was performed. This is the
  precise extent of the staleness a program that modifies itself can observe.
* `StoppedStateIsArchitectural`: registers, RAM, write log and, after a halt,
  the pc are those of an instruction boundary.
* `ImplementsIsa`: each behaviour of the pipeline is one of `Isa`.
* `KeepsRetiring`: instructions keep retiring until the run stops or fetch has
  left RAM.
* `StatsConsistent`, `CycleBudget`: the printed counters agree with each other
  and with the latches; a completed run of n instructions and u unknown words
  takes between n + u + 4 + stalls + mispredictions and 2n + u + 3 cycles.
* `SimTerminates`: the loop of `main` ends, also when fetch has left RAM and
  nothing will ever halt. What `main` does after the loop is one step here
  (`Finish`). Whether the dumps in it end is asked of `StateDump`:
  `DumpTerminates` for the lengths it holds for, and `dump_whole_memory` for one
  that `main` accepts and never returns from.
* `DumpedAtBoundary`, `RetiresInOrder`, `RetireCountExact`: the next instruction
  to retire is where the retired ones left off, but for the unknown words skipped
  in between; a run may stop at the
  end of any cycle, with four instructions under way. The registers it dumps are
  those after exactly the retired instructions; RAM and the write log are at most
  the next instruction's store ahead. The pc it dumps is the fetch pc: only after
  a halt is it that of the instruction boundary (`StoppedStateIsArchitectural`).
* `TraceWindow`, `TraceReadsOn`: the window is the one asked for, also around
  the cycle that throws; from one entry to the next each instruction moves on, is
  held, or disappears for a reason the entry shows.
* `CleanStart`, `ReuseIsSound`, `ReuseExecutesIsa`: `reset` then `load_program`,
  with `clear_all` anywhere among them, restore a first run; and of the three the
  only one that correctness needs is `clear_all`.
* `RoundTrip`, `NoBitIgnored`: decoding undoes assembling, and a word is
  accepted only if assembling gives it back (but for rd and rs1 of ecall and
  ebreak, which are not looked at).
* `ControlMatchesKind`: the control signals of a decoded word are those of its
  kind. It compares which signals each opcode's arm attaches to the kinds it
  recognises, that an unknown word gets none, and, for loads and stores, the width
  and sign that the code computes from `funct3` with those of the kind. It says
  nothing about the ALU operation and the branch condition of a kind: the code
  sets them together with the kind, both sides take them from one table each
  (`alu_op_of`, `branch_condition_of`), and they agree by construction. That these
  two tables are the right ones is what `ImplementsIsa` needs of the branch
  conditions, and a reading of `Control` against `instruction.cpp` for the ALU
  operations.
* `EachByteOnce`, `RangesCanonical`: a dump contains each selected byte once; the
  ranges of the state file depend only on the set of selected bytes.
* `DumpProgresses`: every step of a dump leaves a phase for good, moves the scan
  on, does what is next at its position (find a run, collect it, print its lines,
  pass on), or lifts the line offset below the end of its range.
* `NothingLostWhilePrinting`: a write that fails before the stream is tested is
  noticed.
* `OptionsFromArguments`, `OptionsAreSafe`: an accepted command line has the
  options its arguments say, the last of a repeated one, whatever their order;
  however its numbers are written, RAM is not empty and smaller than the address
  space, addresses fit in 32 bits, expected words do not wrap, and state ranges
  come with a state file.
* `GoldenAgrees`, `GoldenFinishes`: if Spike reaches the halt symbol and the
  program has not overwritten it, the files are equal; Spike, which the script
  starts without a limit, reaches it or traps.
* `InstructionCountsAgree`: the simulator's `instruction_count` is what Spike
  counts (`minstret`), and one for the ebreak Spike stops in front of. While Spike
  runs its count is below the simulator's, so that it executes no more
  instructions than the simulator's limit on cycles allowed. `CounterRange` is the
  number of values of both counters, 2^64 in the code and one more than
  `MaxCycles` in the run; a Spike that goes round for ever then has finitely many
  states.

### Where the repository's words and its code differ

* `Config::enable_forwarding` is documented as enabling the bypass paths and
  is read nowhere (`forwarding_switch`).
* The message "Simulation stopped before all instructions retired" is printed
  for any program without a halt instruction, the built-in demo included, after
  all of its instructions have retired (`stopped_early`).
* `--dump-memory` accepts a length within 16 of 2^32; the 32-bit offset of the
  line loop then wraps, and the dump never ends (`dump_whole_memory`).
* `write_architectural_state` tests the stream while its last buffer, for most
  states the whole text, is still to be written by the destructor. A full disk is
  then reported as success (`state_file_lost`).

`docs/branch_prediction.md` also says that the shift in the predictor's index
"removes the two always-zero alignment bits". Targets are not checked for
alignment, so a branch may be fetched at an address that is 2 modulo 4 and
share the entry of another; `control_flow` has such programs, and what they
execute is unaffected.

## 4. The proofs

The theorems hold for every value of the constants that satisfies
the named assumptions: `CpuAssumption` (bytes have at least two values, RAM is
smaller than the address space, there is an x0), `PredictorAssumption`,
`DecodeAssumption`, `AluAssumption` (the ALU returns words, and `Add` is the
wrapping addition addresses are computed with), `ProgramAssumption`,
`OptionsAssumption` and `TraceAssumption` (the options of `main` have their types),
`SamplesAssumption` (words have 32 bits, instructions are `Assembled`: registers
below 32, immediates their format holds), `DumpAssumption` (the address space is
a whole number of dump lines: 2^32 is a multiple of 16; `--dump-memory` has one
range), `StateFileAssumption` (the stream's buffer is not empty),
`CommandLineAssumption` (numbers of 32 and of 64 bits, defaults that fit) and
`GoldenAssumption` (addresses are words; `max_cycles`, a `uint64_t`, is as wide as
Spike's counter). TLC evaluates each of them in the runs.

| theorem | states |
|---|---|
| `TypeCorrect` | `Spec => []TypeOK` |
| `InvariantHolds` | `Spec => []IInv` |
| `ForwardingCorrect` | `Spec => []OperandsAreCurrent` |
| `PathCorrect` | `Spec => []PathIsConnected` |
| `HaltCorrect` | `Spec => []HaltBarrier` |
| `FetchCorrect` | `Spec => []FetchIsFresh` |
| `StoppedStateCorrect` | `Spec => []StoppedStateIsArchitectural` |
| `RefinesIsa` | `Spec => ImplementsIsa` |
| `DecoderTypeCorrect` | `DecoderSpec => []DecoderTypeOK` |
| `DecoderCorrect` | `DecoderSpec => []ControlMatchesKind` |
| `RoundTripCorrect` | `DecoderSpec => []RoundTrip` |
| `NoBitIgnoredCorrect` | `DecoderSpec => []NoBitIgnored` |
| `ReuseSound` | `SessionSpec => []ReuseIsSound` |
| `CleanStartCorrect` | `SessionSpec => []CleanStart` |
| `ReuseRefines` | `SessionSpec => ReuseExecutesIsa` |
| `SimTypeCorrect` | `SimSpec => [](SimTypeOK /\ IInv)` |
| `StatsCorrect` | `SimSpec => []StatsConsistent` |
| `TraceWindowCorrect` | `TraceSpec => []TraceWindow` |
| `TraceCorrect` | `TraceSpec => TraceReadsOn` |
| `RetireCountCorrect` | `RetireSpec => []RetireCountExact` |
| `CycleBudgetCorrect` | `RetireSpec => []CycleBudget` |
| `BoundaryCorrect` | `RetireSpec => []DumpedAtBoundary` |
| `OrderCorrect` | `RetireSpec => []RetiresInOrder` |
| `DumpTypeCorrect` | `FileSpec => []DumpTypeOK` |
| `DumpCorrect` | `FileSpec => []EachByteOnce` |
| `NormalizedCorrect` | `FileSpec => []RangesCanonical` |
| `PrintingCorrect` | `FileSpec => []NothingLostWhilePrinting` |
| `DumpProgressCorrect` | `FileSpec => DumpProgresses` |
| `OptionsCorrect` | `CliSpec => []OptionsFromArguments` |
| `OptionsSafe` | `CliSpec => []OptionsAreSafe` |
| `GoldenTypeCorrect` | `GoldenSpec => []GoldenTypeOK` |
| `GoldenCorrect` | `GoldenSpec => []GoldenAgrees` |
| `InstructionCountsCorrect` | `GoldenSpec => []InstructionCountsAgree` |

*The inductive invariant.* None of the safety properties is inductive alone.
`IInv` adds to `TypeOK`:

* `LatchesDecoded`: an occupied latch carries the fields and control signals
  its word decodes to; an empty one is cleared. Needed because the stages act on
  the signals a latch carries, and the properties speak of the instruction.
* `OperandsRead`: ID/EX holds the register file *as it is now*. This is where
  write-back before decode is used.
* `LoadUseSeparated`: a load in EX/MEM is not followed by its consumer in
  ID/EX. This is the stall, one cycle later.
* `PathIsConnected`, `HaltBarrier`, `FetchIsFresh`, which are properties in
  their own right, and
* `ErrorIsFinal`: after an exception the faulting instruction is still in
  EX/MEM and writing MEM/WB back once more would change nothing.

`OperandsAreCurrent` follows without induction: the registers once MEM/WB and
EX/MEM have completed differ from the register file only at their two
destinations; where EX/MEM is the writer, it is not a load (`LoadUseSeparated`),
so its bypass value is what it will write back; else where MEM/WB is, its bypass
value is; else the value read in decode is current (`OperandsRead`).

The proof that a step preserves the invariant first collects what each stage
leaves behind (`StageIdFacts`, `StageExFacts`, `StageMemFacts`, `StageIfFacts`)
and then takes one lemma per part of the invariant. The case that needs care is
`FetchIsFresh`: a held word can be made stale by a store in EX/MEM, but a held
word means a load in ID/EX moves on and leaves a bubble, which is exactly the
exception the property allows.

*The refinement.* `RefinesIsa` takes a step of the pipeline apart along the
mapping:

1. Kind by kind, the control signals make the datapath compute what `Exec` says
   (`WidthOfKind`, `LoadOfKind`, `BranchOfKind`, `DatapathControl`), and the
   operands are current (`OperandsMatch`). So the ALU result, the branch target,
   the fault condition and the value written back are those of the instruction
   set (`AluMatches`, `TargetMatches`, `FaultMatches`, `WritebackMatches`).
2. Hence the latches after a cycle drain to the state before it: to `Abs` when
   ID/EX was occupied, to `Settled(Abs)` when it held a bubble (`DrainExecuted`,
   `DrainBubble`, `DrainCompleted`).
3. The pc of that state is the instruction in IF/ID, unless a misprediction
   flushes it, by `PathIsConnected` (`CompletedPc`, `NextPcOfCycle`), and the
   word there is one `Isa` may fetch, by `FetchIsFresh` and because a store
   elsewhere does not change it (`WordIsFetchable`).
4. So a cycle in which decode issues or skips an instruction is an `Execute`
   step and every other one is `Settle` or nothing (`CycleExecutes`,
   `CycleRefines`). A fault was
   executed when its instruction left decode, so that the cycle that meets it and
   the exception change nothing (`FaultStutters`, `ThrowStutters`).

*Decoding.* `DecoderCorrect` is a case analysis along the code: bit fields are
in range whatever the word, each arm of the switch on the opcode gives its kind
the control signals of that kind (`ControlProofs` computes these), and a word no
arm takes keeps the cleared signals of `Invalid`.

`NoBitIgnored` and `RoundTrip` are two directions of one bijection, and both are
arithmetic on bits, which the SMT solver does not do on divisions by powers of
two. The proof turns a word into numbers first: a word is the weighted sum of
its six fields (opcode, rd, funct3, rs1, rs2, funct7) and of nothing else
(`WordFields`), fields in range are read back from their sum (`FieldsRead`), and
each format's immediate is a linear expression of pieces of fields
(`FieldsImmediate`). Then, format by format, encoding what was decoded gives the
fields back (the `...Reencodes` lemmas, joined in `EveryWordReencodes`), and
decoding what was encoded gives the instruction back (the `...RoundTrip` lemmas,
joined in `EveryInstructionRoundTrips`).

*Sessions.* `SessionInv` is `TypeOK`, `~stale => IInv`, and `SetUpDone`, which
says what each operation called since the last cycle has left. `TypeOK` has to
stand alone because it survives stale latches and `IInv` does not. A cycle
preserves `IInv` by the lemma `InvariantHolds` rests on; cleared latches satisfy
`IInv` with any CPU state (`ClearedInvariant`); and `reset` and `load_program`
over empty latches find them cleared (`EmptyIsCleared`). `ReuseRefines` then is
the refinement step of `RefinesIsa`, which needs `IInv` and not `Init`.

*Runs of `main`.* Each step of `SimSpec`, `TraceSpec` and `RetireSpec` is a step
or a stutter of the pipeline, so `IInv` holds throughout a run and only the added
variables need an argument.

* `StatsInv` is `StatsConsistent` and that nothing is counted before the first
  cycle. The counters never go wrong one by one; what has to be related is each
  counter to the latch it is incremented from (`InFlightAfterCycle`).
* `TraceInv` is the window with the count of printed lines. `TraceReadsOn` also
  needs `EntryIsCurrent`: if the last entry is of the cycle just past, the
  latches now are what follows from that entry. Inside the window entries are of
  consecutive cycles (`LastEntry`), and `EntriesFollow` is the rule for one cycle.
* `BudgetInv` bounds the cycles from both sides in every state. From below:
  retired instructions, those in flight, stalls, mispredictions and dropped words
  each had a cycle of their own; a halt that drains has spent up to three more
  (`HaltSlack`). From above: a cycle is an instruction's, a dropped word's, or the
  one bubble an instruction can cause, unless fetch is off the end of RAM with
  nothing left to execute (`Stuck`). `FetchPaused`, the reasons for which IF/ID
  can be empty, excludes any other kind of idle cycle.
* `BoundaryInv` says that the registers are those of the history machine
  `retired`, and that `retired` advanced by the instruction in MEM/WB
  (`Accessed`), and again by the one in EX/MEM (`Executed`), holds the registers
  that write-back of these latches would leave, and the RAM now and after
  `stage_MEM`. A cycle retires `Accessed`; `Executed` takes its place; and the
  instruction leaving ID/EX is `Exec` of the operands that `OperandsAreCurrent`
  gives it, by the lemmas of the refinement.
* `OrderInv` adds the pcs: each occupied latch holds the pc the instruction
  before it leads to, plus one word for each unknown word skipped, down to
  `pc`, where `PathIsConnected` takes over. Without the counts by latch
  (`skipped`) the property would have to allow any number of skipped words.

*Dumps.* `DumpInv` follows the scan from left to right. `RunInv` is about the run
of selected bytes being collected, `LinesInv` about the lines of a range,
`RangesInv` about the ranges found so far, and `OutputInv` about the bytes
printed and the bytes the ranges found so far cover: those that are selected below
the frontier of the loop, once each. The one place where numbers wrap is the 32-bit
offset of the line loop. It counts whole lines, and the address space is a whole
number of lines, so it wraps to the first line; a range that long is excepted from
`OutputInv`, because its dump never ends (`dump_whole_memory`) and so has nothing to
show for. `FileInv` relates the stream to what has been printed: as long as no write
has failed, the file and the buffer together hold the pieces taken so far, and a
failed write leaves the flag that the test reads.

`DumpProgressCorrect` proves the measure by which the nested loops end: first the
phase (checks, loops, end), then the scan's position, which is at most `MemSize`,
then the place in the loops at that position (`place`), then what the line offset
leaves of its range. So a dump takes finitely many steps. Weak fairness says that
an enabled step is taken; that one is enabled until the end is `ENABLED`, which
the prover cannot do and TLC does (`DumpTerminates`). The proof rests on
`LinesInv`: a run's lines are printed when the scan has passed the run, so that
it cannot find the same run again.

*The golden test.* The two machines run one after the other, so no invariant can
compare them step by step: while the simulator runs, Spike has not moved, and
while Spike runs, the simulator's steps are gone. A recorded history of the
simulator would do, and would be a variable the script does not have. The
inductive invariant (`GoldenInv`) says instead that a history *exists*:
`Reaches(spike, minstret, Abs, issued)`, a set of states, each with a count of
instructions, in which every state but the last steps to another one of the set,
and which leads from Spike's state to the one the simulator's refinement mapping
gives.

1. In the initial state both are the loaded state, and the path is one state.
2. A cycle of the simulator lengthens the path at its far end or leaves it alone
   (`ReachesExec`, `ReachesSettled`, from `CycleExecutes` of the refinement). The
   states of the path take every store as not yet fetched, while a bubble of the
   pipeline lets stores arrive (`Settle`); `Lags` absorbs the difference, and
   `LagsExec`, `LagsFetch` say that it never matters to what is executed.
3. The path counts an instruction when it leaves decode, the simulator when it is
   written back. `issued = instruction_count + InFlight` ties the two
   (`CycleCounts`); after a halt nothing is in flight (`HaltBarrier`). A fault
   drops what is in flight, but ends in failure, and Spike never starts.
4. A successful run ends in a halted state (`SuccessMeansHalted`,
   `StoppedStateIsArchitectural`). From then on Spike walks along the path:
   `SpikeCanStep` leaves one word to fetch and Spike has not halted, so the next
   state on the path is the one it steps to (`ReachesNext`, `SpikeFollows`).
5. In front of an intact halt symbol, the word Spike would fetch is the loaded
   one (`FetchesImage`, from `KeepsImage`: RAM differs from the image only where
   stores are recorded). One `Exec` of it ends the path (`ReachesHaltNext`), with
   the same registers and RAM, a pc one word further and one instruction more.
6. The adapter rebuilds the selected bytes from the words Spike printed
   (`AdapterRecovers`: aligned ranges are made of whole words), so the files are
   equal (`StateFilesAgree`).

*The command line.* `CliInv` says that after n arguments the options are
`OptionsMean(options, n)`, each the value of its last occurrence among them, and
that all of them are within their types, which carry the checks of `parses_u32`,
`parses_pair` and `memory-size`. One lemma (`TakenMeans`) does the induction step
for all fields at once: whatever the argument, every option keeps its meaning
except the ones of that argument's name. Each action then only has to be shown to
set these and no others. `OptionsSafe` uses both halves: that state ranges come
with a state file follows from the condition at the end, because the list of
ranges is empty exactly when no such argument was given.

### What is model-checked only

Every invariant and action property of the passing runs is proved. TLC alone
checks:

* `KeepsRetiring`, `SimTerminates`, `GoldenFinishes` and `DumpTerminates`:
  liveness under fairness needs `ENABLED`, which is out of the prover's reach.
  What these arguments rest on is proved: `BudgetInv`, the invariant behind
  `CycleBudget`, bounds the cycles by the instructions and the dropped words while
  there is anything left to execute, so stalls and flushes cannot go on for ever;
  `CyclesWithinLimit` keeps `main` within `max_cycles`; `InstructionCountsAgree`
  bounds Spike's steps by the simulator's; `DumpProgresses` is a measure of the
  dumps.
* `Alu` against `AluAssumption`: bitwise operators are outside the SMT
  backend; TLC checks the assumption for all pairs of 8-bit words.

## 5. Not modelled

* The assembly programs, the `Makefile` and the scripts other than
  `run_spike_golden.sh`: inputs and build steps. Every bounded program over the
  model's instructions is run instead.
* The layout and the words of what is printed, and functions that only name or
  print things (`instruction_kind_name`, `branch_predictor_type_name`,
  `print_register_dump`, the usage text, the quotients `cpi`, `ipc`, `accuracy`).
* How the adapter and the loader get at bytes and characters. A line of Spike's
  output that is missing or malformed is one of the ways `ConvertThrows` happens.
* Spike beyond what the instruction set prescribes, and its traps.
* 64-bit counters do not overflow in the model: at one cycle per nanosecond that
  takes 584 years.

## 6. Plan

Done: the core (`Cpu` to `Pipeline`), the abstract machine and the refinement,
with their proofs; the bit-level decoder, discharging `DecodeAssumption`, with
the proof that it inverts the encoding; the dumps and the state file with the
measure that ends them, reuse of the objects, complete runs of `main` with trace,
retirement count and exit status, the command line, and the golden test, each
with its proofs.

Next:

1. `Isa`'s own invariants (x0 reads zero, nothing changes after a halt or a
   fault), which the refinement carries over to the pipeline.
2. `AluAssumption` for the real ALU, once sums of bits can be reasoned about
   without a recursive operator.
