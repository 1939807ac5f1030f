----------------------------- MODULE Simulator -----------------------------
(***************************************************************************)
(* main(): the loop that runs the pipeline until it halts, reaches the      *)
(* requested retirement count or spends its cycles, the counters of         *)
(* ExecutionStats, and the exit status.                                     *)
(*                                                                          *)
(* A pipeline step here is a step of Pipeline together with the counters    *)
(* the same call of run_pipeline_cycle() increments.                        *)
(***************************************************************************)
EXTENDS Pipeline

CONSTANT Options   \* the command lines a run may be given

CliOptions ==
    [max_cycles : Nat, has_retire_count : BOOLEAN, retire_count : Nat,
     dump_state : BOOLEAN,
     dump_ranges : SUBSET [start_address : Word, byte_count : Word],
     memory_expectations : SUBSET [address : Word, expected_value : Word]]

ASSUME OptionsAssumption == Options \subseteq CliOptions

VARIABLES
    options,
    stats,    \* CPU::stats_
    status    \* of the process: "running", or how main() returned

simVars == <<vars, options, stats, status>>

ExecutionStats ==
    [clock_cycles : Nat, instruction_count : Nat, stall_cycles : Nat,
     branch_predictions : Nat, branch_mispredictions : Nat]

no_stats ==
    [clock_cycles |-> 0, instruction_count |-> 0, stall_cycles |-> 0,
     branch_predictions |-> 0, branch_mispredictions |-> 0]

OneIf(condition) == IF condition THEN 1 ELSE 0

resolves_branch == id_ex.valid /\ id_ex.control.branch

\* Mutant of count_cycle: a stall is counted although the cycle flushes.
count_cycle_stall_in_flush ==
    [clock_cycles |-> stats.clock_cycles + 1,
     instruction_count |-> stats.instruction_count + OneIf(mem_wb.valid),
     stall_cycles |-> stats.stall_cycles
                        + OneIf(stall_fetch_decode \/ flush_id_ex),
     branch_predictions |-> stats.branch_predictions + OneIf(resolves_branch),
     branch_mispredictions |->
        stats.branch_mispredictions + OneIf(resolves_branch /\ flush_id_ex)]

\* Mutant of count_cycle: a cycle in which nothing retires does not tick.
count_cycle_busy_only ==
    [clock_cycles |-> stats.clock_cycles + OneIf(mem_wb.valid),
     instruction_count |-> stats.instruction_count + OneIf(mem_wb.valid),
     stall_cycles |-> stats.stall_cycles + OneIf(stall_fetch_decode),
     branch_predictions |-> stats.branch_predictions + OneIf(resolves_branch),
     branch_mispredictions |->
        stats.branch_mispredictions + OneIf(resolves_branch /\ flush_id_ex)]

\* Mutant of count_cycle: redirecting jumps count as mispredictions.
count_cycle_jumps_mispredict ==
    [clock_cycles |-> stats.clock_cycles + 1,
     instruction_count |-> stats.instruction_count + OneIf(mem_wb.valid),
     stall_cycles |-> stats.stall_cycles + OneIf(stall_fetch_decode),
     branch_predictions |-> stats.branch_predictions + OneIf(resolves_branch),
     branch_mispredictions |->
        stats.branch_mispredictions + OneIf(flush_id_ex)]

\* The counters incremented by stage_WB, the hazard check, stage_EX and tick().
count_cycle ==
    [clock_cycles |-> stats.clock_cycles + 1,
     instruction_count |-> stats.instruction_count + OneIf(mem_wb.valid),
     stall_cycles |-> stats.stall_cycles + OneIf(stall_fetch_decode),
     branch_predictions |-> stats.branch_predictions + OneIf(resolves_branch),
     branch_mispredictions |->
        stats.branch_mispredictions + OneIf(resolves_branch /\ flush_id_ex)]

-----------------------------------------------------------------------------
reached_target ==
    /\ options.has_retire_count
    /\ stats.instruction_count >= options.retire_count

\* Mutant of keep_running: the retirement count is passed before it stops.
keep_running_one_more ==
    /\ ~halted
    /\ ~(options.has_retire_count
           /\ stats.instruction_count > options.retire_count)
    /\ stats.clock_cycles < options.max_cycles

\* The condition of main()'s while loop.
keep_running ==
    /\ ~halted
    /\ ~reached_target
    /\ stats.clock_cycles < options.max_cycles

Tick ==
    /\ status = "running"
    /\ keep_running
    /\ run_pipeline_cycle
    /\ stats' = count_cycle
    /\ UNCHANGED <<options, status>>

\* The exception reaches main()'s handler; only stage_WB's counter moved.
Abort ==
    /\ status = "running"
    /\ keep_running
    /\ run_pipeline_cycle_throws
    /\ stats' = [stats EXCEPT !.instruction_count = @ + OneIf(mem_wb.valid)]
    /\ status' = "failure"
    /\ UNCHANGED options

\* check_memory_expectations; reading outside RAM throws, which also fails.
memory_expectations_passed ==
    \A check \in options.memory_expectations :
        /\ valid_memory_access(check.address, 4)
        /\ read_u32(memory, check.address) = check.expected_value

\* The ranges of --dump-memory and --state-memory; one outside RAM throws.
dump_ranges_valid ==
    \A range \in options.dump_ranges :
        range.start_address + range.byte_count <= MemSize

(***************************************************************************)
(* main() after the loop: the dumps may throw, write_architectural_state    *)
(* may fail to write its file, then the run is judged.                      *)
(***************************************************************************)
Finish ==
    /\ status = "running"
    /\ ~keep_running
    /\ \E state_written \in {TRUE, ~options.dump_state} :
         status' = IF /\ dump_ranges_valid
                      /\ state_written
                      /\ halted \/ reached_target
                      /\ memory_expectations_passed
                   THEN "success"
                   ELSE "failure"
    /\ UNCHANGED <<vars, options, stats>>

SimInit ==
    /\ Init
    /\ options \in Options
    /\ stats = no_stats
    /\ status = "running"

SimNext == Tick \/ Abort \/ Finish

SimSpec == SimInit /\ [][SimNext]_simVars /\ WF_simVars(SimNext)

-----------------------------------------------------------------------------
(* Properties *)

\* The types of the simulator's own state.
SimTypeOK ==
    /\ TypeOK
    /\ options \in CliOptions
    /\ stats \in ExecutionStats
    /\ status \in {"running", "success", "failure"}

\* Instructions that have left decode and not retired.
InFlight == OneIf(id_ex.valid) + OneIf(ex_mem.valid) + OneIf(mem_wb.valid)

(***************************************************************************)
(* The counters are consistent with each other and with the latches at      *)
(* every moment: accuracy() subtracts the mispredictions from the           *)
(* predictions as unsigned numbers; and since the first cycle decodes       *)
(* nothing and each later one issues an instruction, stalls or flushes,     *)
(* never two of these, the cycles cover them all.  (When stage_MEM throws,  *)
(* the instruction in MEM/WB has retired but has not left its latch.)       *)
(***************************************************************************)
StatsConsistent ==
    /\ stats.branch_mispredictions <= stats.branch_predictions
    /\ stats.clock_cycles > 0 =>
         1 + stats.instruction_count + InFlight + stats.stall_cycles
           + stats.branch_mispredictions
             <= stats.clock_cycles + OneIf(error /\ mem_wb.valid)

(***************************************************************************)
(* The loop of main() always ends: each iteration spends a cycle or ends    *)
(* it.  What main() does after the loop is the single step Finish; whether  *)
(* the dumps in it end is a question to StateDump (DumpTerminates).         *)
(***************************************************************************)
SimTerminates == <>(status # "running")

(***************************************************************************)
(* The instruction main() would still execute: one in a latch, or the next  *)
(* one in RAM.                                                              *)
(***************************************************************************)
SomethingLeftToRetire ==
    \/ id_ex.valid \/ ex_mem.valid \/ mem_wb.valid
    \/ if_id.valid /\ is_valid_instruction(decoded)
    \/ /\ valid_memory_access(pc, 4)
       /\ is_valid_instruction(decode_instruction[read_u32(memory, pc)])

(***************************************************************************)
(* The message of main(), "Simulation stopped before all instructions       *)
(* retired": when it is printed, an instruction is left.                    *)
(***************************************************************************)
StoppedEarlyMeansUnfinished ==
    /\ status = "failure"
    /\ ~error /\ ~halted /\ ~reached_target
    => SomethingLeftToRetire

=============================================================================
